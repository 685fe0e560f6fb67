SPECIFICATION Spec
CONSTANTS
  Images = {a, b}
  NoImage = NoImage
  SyncObjectHosts = {b}
  Wrappers = {}
  Buffers = {}
  Ops = {"PrepareForUse", "NotifyNotUsed"}
  MaxOps = 2
  MaxFrames = 2
  AllowErrors = FALSE
  AllowShutDown = FALSE

CHECK_DEADLOCK FALSE
INVARIANTS
  OpsRunInOrder
  OpsRunBeforeLock
PROPERTIES
  SyncedBeforeLock
