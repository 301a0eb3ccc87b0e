SPECIFICATION MCSpec
CONSTANTS
  Chosen = {"traffic", "tg", "fileserver", "pdump", "hrlog", "stat"}
  Tasks = {"t1", "t2"}
  Count <- OneAndTwo
  QueueCap = 1
  RingCap = 2
  Burst = 2
  MaxEntries = 5
INVARIANTS
  
  
  OpenWhileRead
  DumpSound
  FreshEntries
  StatsExact
 
CHECK_DEADLOCK FALSE
