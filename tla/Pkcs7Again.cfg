SPECIFICATION MessageSpec
CONSTANTS
  t1 = t1
  t2 = t2
  Absent = none
  Contents = {"d1", "d2"}
  SignerLists <- MCSignerLists
INVARIANTS
  AcceptedIsConsistent
CHECK_DEADLOCK FALSE
