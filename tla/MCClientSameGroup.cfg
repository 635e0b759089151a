SPECIFICATION Spec
CONSTANTS
  t1 = t1
  t2 = t2
  g1 = g1
  n1 = n1
  n2 = n2
  r1 = r1
  r2 = r2
  Empty = Empty
  Damaged = Damaged
  Absent = Absent
  Group = {g1}
  Name = {n1, n2}
  Recording = {r1, r2}
  Thread = {t1, t2}
  Serves <- OnePersonEach
  Reserve = 1
  Outages = {}
  EmptyFinds = FALSE
  JsonBuild = "system"
  Ops = {"identify_person"}
  MaxCalls = 2
  MaxTime = 0
  MaxLate = 0
  ReplyFaults = {}
  WriteFaults = {}
INVARIANTS
  UploadIsTheStream
CHECK_DEADLOCK FALSE
