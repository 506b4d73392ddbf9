SPECIFICATION HashSpec
CONSTANTS
  R = 3
  Hashes = {"ascon"}
  Pieces = {1, 2, 3}
  Digests = {1, 2}
  B = 5
  LengthBytes = 2
  MaxHashed = 6
  MaxDigest = 4
INVARIANTS
  DigestOfEveryMessage
CHECK_DEADLOCK FALSE
