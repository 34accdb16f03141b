SPECIFICATION Spec
CONSTANTS
  None = None
  Drafts = {draft1, draft2}
  Refs = {it1, it2}
  Lone = {it}
  Fields = {it1, it2}
  Suggestions = {draft1, draft2}
  Categories = {draft1, draft2}
  Places = {here, there}
  Selectable <- TwoLetters
  Tabs = {it1, it2}
  Bridge <- Bridges
  Bound <- Bounds
SYMMETRY Symmetry
INVARIANTS TypesOK SurfacesAreLive NothingComesBack FirstLifeIsRight EditsAddUp RequestsAccounted
PROPERTIES ClientsShowLatest LogIsSound
CHECK_DEADLOCK FALSE
