SPECIFICATION FairSpec
CONSTANTS
  Words = {w}
  MaxWrites = 3
  WritesFail = TRUE
  External = TRUE
  Handles = {h1, h2}
  NoWord = NoWord
  Nil = Nil
INVARIANTS TypeOK KnownTimeKnownWords HandlesAccounted UseIsLive
PROPERTIES ReadersCatchUp CloseEnds
