SPECIFICATION FairSpec

CONSTANTS
  NoFace = NoFace
  NoNonce = NoNonce
  MaxDns = 2
  MaxUps = 2
  MaxExtDns = 1
  MaxExtUps = 1
  MaxExts = 0
  MaxRej = 1
  CounterSize = 256
  SuppressMin = 1
  SuppressMax = 1
  Downstream = {d1}
  Upstream = {u1, u2}
  Nonce = {n1, n2}
  Lifetime = {1}
  HopLimit = {1, 2}
  NackReason = {50, 100}
  Cbp = {FALSE}
  SgDelay = {1}
  MaxCbp = 0
  MaxTime = 2
  MaxQueue = 0
  MaxLag = 0
  MaxCalls = 2
  Lives = 1
INVARIANTS
  NackOnlyWhenDone
  NoRejectedNonce
PROPERTY EventuallyErased
