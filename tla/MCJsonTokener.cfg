SPECIFICATION Spec
CONSTANTS
  k1 = k1
  k2 = k2
  k3 = k3
  k4 = k4
  num = num
  EMPTY = EMPTY
  FREED = FREED
  Key <- MCKey
  Hash <- MCHash
  Atom <- MCAtom
  DefEntries = 3
  MaxDepth = 3
  Texts <- MCTexts
INVARIANTS
  TypeOK
  RefsAreOwners
  TablesAreSearchable
  ResultIsTheFirstValue
PROPERTY
  ParseReturns
CHECK_DEADLOCK FALSE
