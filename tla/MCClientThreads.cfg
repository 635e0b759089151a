SPECIFICATION Spec
CONSTANTS
  t1 = t1
  t2 = t2
  g1 = g1
  n1 = n1
  n2 = n2
  r1 = r1
  r2 = r2
  Empty = Empty
  Damaged = Damaged
  Absent = Absent
  Group = {g1}
  Name = {n1, n2}
  Recording = {r1, r2}
  Thread = {t1, t2}
  Serves <- OnePersonEach
  Reserve = 1
  Outages = {}
  EmptyFinds = FALSE
  JsonBuild = "system"
  Ops = {"create_person", "add_speech", "remove_speech", "remove_person", "update_person"}
  MaxCalls = 2
  MaxTime = 1
  MaxLate = 1
  ReplyFaults = {}
  WriteFaults = {}
INVARIANTS
  UploadIsTheStream
  EnrolledAsGiven
  OutputsAreTrue
PROPERTIES
  ImplementsContract
CHECK_DEADLOCK FALSE
