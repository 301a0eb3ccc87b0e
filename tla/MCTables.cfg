SPECIFICATION MCSpec
CONSTANTS
  Chosen = {"fib", "fibmgmt", "ndt", "pcct"}
  NSockets = 2
  b1 = b1
  b2 = b2
  k1 = k1
  k2 = k2
  k3 = k3
  Key = {k1, k2, k3}
  NoKey = NoKey
  NExts <- OneLong
  PoolSize = 4
  MaxToken = 3
  FirstToken = 2
  MaxRefused = 1
SYMMETRY Alike
INVARIANTS
  
  StrategiesLoaded
  NdtDispatchAgrees
  PcctAgrees
  PoolConserved
PROPERTY TokenStable
CHECK_DEADLOCK FALSE
