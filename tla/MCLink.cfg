SPECIFICATION MCSpec
CONSTANTS
    Chosen = {"lp", "ndn"}
    Base = 12
    ZoneOffset = 0
    MTU = 75
    ReassemblerCapacity = 1
    Workloads <- MCWorkloads
    FirstSeqNums <- MCFirstSeqNums
    RandomNonce <- MCNonce
    Verifiers <- MCVerifiers
    Objects <- MCObjects
    Listings <- MCListings
INVARIANTS
    
    NdnDelivers
CHECK_DEADLOCK FALSE
