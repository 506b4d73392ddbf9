SPECIFICATION FairSpec
CONSTANTS
  lib = lib
  sha3 = sha3
  x = x
  y = y
  none = none
  Alg <- MCAlg
  Lib = lib
  Sha3 = sha3
  None = none
  Thread = {t1, t2}
  Main = t1
  Fips = TRUE
  Dep <- YUsesX
  Silent = {y}
  Vectors <- OneVector
  BadAt <- XBroken
  Pct = {}
  Checkers = {}
  InitCallers = {}
  Disablers = {}
  Tampering = FALSE
  MaxCalls = 2
  NReg = 2
  RegOf <- Shared
PROPERTIES
  TestingCompletes
CHECK_DEADLOCK FALSE
