SPECIFICATION Spec
CONSTANTS
  lib = lib
  sha3 = sha3
  x = x
  y = y
  none = none
  Alg <- MCAlg
  Lib = lib
  Sha3 = sha3
  None = none
  Thread = {t1, t2}
  Main = t1
  Fips = TRUE
  Dep <- YUsesSha3
  Silent = {}
  Vectors <- OneVector
  BadAt <- AllSound
  Pct = {}
  Checkers = {t1}
  InitCallers = {}
  Disablers = {}
  Tampering = TRUE
  MaxCalls = 2
  NReg = 2
  RegOf <- Shared
PROPERTIES
  LibraryStaysFailed
CHECK_DEADLOCK FALSE
