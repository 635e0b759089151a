SPECIFICATION Spec
CONSTANTS
  SilBuffers = 3
  TotalBuffers = 6
  MaxFrames = 10
  VoiceThreshold = 350
  SizeMax = 10
  Frames <- MCFrames
  Garbage <- MCGarbage
PROPERTIES
  EndsAreHeard
CHECK_DEADLOCK FALSE
