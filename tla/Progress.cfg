SPECIFICATION AnySpec
CONSTANTS
  lib = lib
  sha3 = sha3
  x = x
  y = y
  none = none
  t1 = t1
  t2 = t2
  t3 = t3
  nobody = nobody
  null = null
  anchor = anchor
  Thread = {t1, t2}
  Main = t1
  Alg <- MCAlg
  Lib = lib
  Sha3 = sha3
  None = none
  Fips = FALSE
  NReg = 2
  RegOf <- Shared
  Dep <- NoDep
  Silent = {}
  Vectors <- OneVector
  BadAt <- XBroken
  Pct = {}
  Checkers = {}
  InitCallers = {t1}
  Disablers = {t2}
  Tampering = FALSE
  MaxCalls = 2
INVARIANTS
  FailuresAreSound
  GateClosed
PROPERTIES
  ErrorIndicatorStays
  AnyCallReturns
  LockReleased
CHECK_DEADLOCK FALSE
