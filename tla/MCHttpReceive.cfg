SPECIFICATION Spec
CONSTANTS
  a = a
  b = b
  Nul = Nul
  Junk = Junk
  MaxBody = 4
  Byte <- MCByte
  Bodies <- MCBodies
  InitialSize <- MCInitialSize
INVARIANTS
  TypeOK
  BufferSafe
  NullIsNeverUsed
  ParsedIsTail
CHECK_DEADLOCK FALSE
