SPECIFICATION FairSpec
CONSTANTS
  i1 = i1
  i2 = i2
  c1 = c1
  s1 = s1
  s2 = s2
  a = a
  ad = ad
  None = None
  NFwd = 2
  Input = {i1, i2}
  Crypto = {c1}
  Socket = {s1, s2}
  SocketOf <- Sockets
  Name = {a, ad}
  DataName <- FullName
  Index = {0, 1}
  IndexOf <- ByFullName
  Value = {1, 2}
  PccToken = {1}
  QueueCapacity = 1
  RingCapacity = 1
  BurstSize = 1
  MaxInterests = 2
  MaxReplies = 2
  MaxUpdates = 1
  MaxUpdaters = 1
INVARIANT Dispatched
PROPERTY AllHandled
CHECK_DEADLOCK FALSE
