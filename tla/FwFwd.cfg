SPECIFICATION Spec
SYMMETRY Sym
CONSTANTS
  NoFace = NoFace
  NoNonce = NoNonce
  MaxDns = 1
  MaxUps = 1
  MaxExtDns = 1
  MaxExtUps = 1
  MaxExts = 1
  MaxRej = 1
  CounterSize = 256
  SuppressMin = 1
  SuppressMax = 1
  Downstream = {d1, d2}
  Upstream = {}
  Nonce = {n1, n2}
  Lifetime = {1, 2}
  HopLimit = {2}
  NackReason = {100}
  Cbp = {TRUE, FALSE}
  SgDelay = {1}
  MaxCbp = 2
  MaxTime = 4
  MaxQueue = 1
  MaxLag = 1
  MaxCalls = 1
  Lives = 1
INVARIANTS
  OwnsOneInterest
  
