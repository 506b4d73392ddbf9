SPECIFICATION Spec
CONSTANTS
  lib = lib
  sha3 = sha3
  x = x
  y = y
  none = none
  Alg <- MCAlg
  Lib = lib
  Sha3 = sha3
  None = none
  Thread = {t1, t2}
  Main = t1
  Fips = TRUE
  Dep <- YUsesX
  Silent = {y}
  Vectors <- TwoVectorsX
  BadAt <- Sha3YBroken
  Pct = {x}
  Checkers = {t1, t2}
  InitCallers = {t2}
  Disablers = {t1}
  Tampering = TRUE
  MaxCalls = 2
  NReg = 2
  RegOf <- Shared
INVARIANTS
  TypeOK
  BrokenNeverServed
PROPERTIES
  PromiseKept
CHECK_DEADLOCK FALSE
