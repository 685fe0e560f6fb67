\* Textures become ready, or are given up, while transactions wait for them.
SPECIFICATION FairSpec
CONSTANTS
  Apis = {root, a}
  Root = root
  Textures = {x, y}
  MaxTxns = 3
  MaxOps = 1
  MaxFlushes = 1

CHECK_DEADLOCK FALSE
INVARIANTS
  HeldIsWokenUp
  OpsReachTheirTransaction
PROPERTIES
  SentInOrder
  HeldAreSent
