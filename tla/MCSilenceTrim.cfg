SPECIFICATION Spec
CONSTANTS
  BlockLen = 5
  MinEng = 1
  MaxLen = 8
  Values <- FewValues
  Inputs <- Streams
INVARIANTS
  TypeOK
  Fits
  ReturnsTheSpeech
PROPERTIES
  Returns
CHECK_DEADLOCK FALSE
