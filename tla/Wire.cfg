SPECIFICATION Spec
CONSTANTS
  WordBits = 16
  Half = 32768
  FieldHalf = 128
  RawBytes = {0, 1, 10, 11, 16, 18, 48, 122, 123, 124, 125, 255}
  RawLength = 3
  Inputs <- MCInputs
INVARIANTS
  TypeOK
  NoPanic
  
  CutIsNoticed
PROPERTIES
  Advances
  Answers
CHECK_DEADLOCK FALSE
