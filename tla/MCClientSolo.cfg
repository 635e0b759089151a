SPECIFICATION Spec
CONSTANTS
  t1 = t1
  t2 = t2
  g1 = g1
  n1 = n1
  n2 = n2
  r1 = r1
  r2 = r2
  Empty = Empty
  Damaged = Damaged
  Absent = Absent
  Group = {g1}
  Name = {n1}
  Recording = {r1}
  Thread = {t1}
  Serves <- OneThread
  Reserve = 1
  Outages = {1002}
  EmptyFinds = TRUE
  JsonBuild = "bundled"
  Ops = {"create_person", "remove_person", "get_info", "add_speech", "remove_speech", "reserve_speeches", "register_person", "update_person", "verify_person", "identify_person"}
  MaxCalls = 5
  MaxTime = 0
  MaxLate = 1
  ReplyFaults = {"split", "gateway"}
  WriteFaults = {"open", "write"}
INVARIANTS
  TypeOK
  CodeIsTheServices
  SuccessMeansDone
  PostsInOrder
PROPERTIES
  CallReturns
CHECK_DEADLOCK FALSE
