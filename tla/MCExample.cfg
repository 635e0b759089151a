SPECIFICATION Spec
CONSTANTS
  g1 = g1
  n1 = n1
  old = old
  new = new
  x = x
  y = y
  Group = {g1}
  Name = {n1}
  Recording = {old, new}
  Empty = Empty
  Damaged = Damaged
  Reserve = 3
  Outages = {1002}
  EmptyFinds = FALSE
  Main = Main
  Thread = {Main}
  Serves <- MCServes
  Ops = {"create_person", "remove_person", "get_info", "add_speech", "register_person", "verify_person", "identify_person"}
  ParamSize <- MCParamSize
  ParamChar = {x, y}
  ParamNul = ParamNul
  Id = g1
  Speaker = n1
  Speech = new
  Settings <- MCSettings
  Defaults <- MCDefaults
  Databases <- MCDatabases
  FileSizes <- MCFileSizes
  Skip = 2
  SizeMax = 63
  MemoryMax = 12
  MaxLate = 1
INVARIANTS
  GoodEndIsEnrolled
  UploadIsOfTheFile
  GoodEndFreesAll
  ParamsInForce
CHECK_DEADLOCK FALSE
