SPECIFICATION Spec
CONSTANTS
  Thread = {t1, t2}
  Nobody = nobody
  Max = 2
  SizeMax = 20
  MaxTime = 1
  Clock = {1, 3}
  Requests = {1, 5}
  Faults = {"noise", "entropy", "drbg"}
  Destroyers = {t1}
  Alone = TRUE
  MaxForks = 1
  MaxCalls = 2
INVARIANTS
  TypeOK
  OwnStream
  FullySeeded
  ForcedReseed
  OverrunBounded
CHECK_DEADLOCK FALSE
