SPECIFICATION MCSpec
CONSTANTS
  Chosen = {"mintmr", "dataplane", "eal", "gqlsub"}
  Timer = {t1, t2}
  NSlots = 4
  Interval = 2
  Delays <- AllDelays
  MaxTime = 6
  MaxLag = 3
INVARIANTS
  FiresOnTime
  NothingLeft
  ArgsAsConfigured
  LoadAddsUp
PROPERTIES
  CloseReturns
  GoroutinesEnd
CHECK_DEADLOCK FALSE
