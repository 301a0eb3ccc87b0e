SPECIFICATION MCSpec
CONSTANTS
  Chosen = {"facelife", "ethport", "pktqueue", "jrproxy"}
  ID = {1, 2, 3, 4}
  SchemeOf <- Mixed
  ReuseIDs = FALSE
  MayFail = TRUE
  MaxFaces = 2
  MaxQueue = 1
INVARIANTS
  FaceMemory
  EthFacesServed
  
  KnowsWhatItMade
CHECK_DEADLOCK FALSE
