CONSTANTS
  PayloadLen = {0, 4, 5, 46, 47, 51, 58, 63}
  Byte = {0, 1, 2}
  Word = {0, 1, 4, 5, 6, 10, 14, 41, 42, 46, 53, 58}
SPECIFICATION FairSpec
INVARIANTS
  ReadsInBounds
  NameInside
PROPERTIES
  Terminates
