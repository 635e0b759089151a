SPECIFICATION Spec
CONSTANTS
  a = a
  b = b
  Nul = Nul
  Junk = Junk
  MaxBody = 4
  Byte <- MCByte
  Bodies <- MCBodies
  InitialSize <- MCInitialSize
INVARIANT
  WholeBodyParsed
CHECK_DEADLOCK FALSE
