SPECIFICATION GlobalSpec
CONSTANTS
  t1 = t1
  t2 = t2
  t3 = t3
  x = x
  y = y
  Thread <- Threads
  MaxInits = 3
  MaxCalls = 4
  ParamSize <- MCParamSize
  ParamChar = {x, y}
  ParamNul = ParamNul
  Param = "host"
  Values <- MCValues
  DefaultValue <- MCDefault
  NoThread = NoThread
  MaxSets = 2
INVARIANTS
  TypeOK
  ReadyInUse
  ReleaseFreesTheLibrary
  TextIsOfItsValues
CHECK_DEADLOCK FALSE
