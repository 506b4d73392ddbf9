SPECIFICATION GcmIvSpec
CONSTANTS
  R = 4
  Native = 2
  Bytes = {0, 1}
  MaxIv = 4
  MaxUsed = 2
INVARIANTS
  IvsGiveBlocks
CHECK_DEADLOCK FALSE
