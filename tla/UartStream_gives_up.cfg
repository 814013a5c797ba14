SPECIFICATION Spec
CONSTANTS
  a = a
  b = b
  nul = nul
  Bytes <- Letters
  Nul = nul
  Arrays <- TokenLists
  Strings <- Words
  Lengths = {2}
  AsText = TRUE
  Bufsz = 4
  Maxbufsz = 2
  MaxArrived = 3
  MaxWrites = 0
PROPERTY GivesUpRightly
