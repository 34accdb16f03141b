SPECIFICATION Spec
CONSTANTS
  Words = {w}
  MaxWrites = 3
  WritesFail = TRUE
  External = FALSE
  Handles = {h1, h2}
  NoWord = NoWord
  Nil = Nil
PROPERTY SuccessMirrorsFile
