SPECIFICATION Spec
CONSTANTS
  Thread = {t1, t2}
  Nobody = nobody
  Max = 2
  SizeMax = 20
  MaxTime = 1
  Clock = {0}
  Requests = {1, 5}
  Faults = {}
  Destroyers = {}
  Alone = TRUE
  MaxForks = 0
  MaxCalls = 2
INVARIANTS
  FullySeeded
CHECK_DEADLOCK FALSE
