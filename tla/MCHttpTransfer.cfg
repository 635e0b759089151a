SPECIFICATION Spec
CONSTANTS
  a = a
  b = b
  Nul = Nul
  Junk = Junk
  Byte <- MCByte
  InitialSize <- MCInitialSize
  Requests <- MCRequests
  Services <- MCServices
INVARIANTS
  WholeReply
  AnswerIsReal
PROPERTIES
  RefusedBodyStays
  ImplementsReceive
  TransferEnds
CHECK_DEADLOCK FALSE
