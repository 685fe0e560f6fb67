\* An image, a wrapper of it and its buffer: released, destroyed, shut down, with errors, at every moment.
SPECIFICATION FairSpec
CONSTANTS
  Images = {a, c}
  NoImage = NoImage
  SyncObjectHosts = {}
  Wrappers = {c}
  Buffers = {a}
  Ops = {"PrepareForUse"}
  MaxOps = 1
  MaxFrames = 1
  AllowErrors = TRUE
  AllowShutDown = TRUE

CHECK_DEADLOCK FALSE
INVARIANTS
  FreedBuffersAreNotRead
  NothingLeftAtExit
  LockedHostsAreAlive
  LockedHostsAreNotStale
PROPERTIES
  ReleasedOnRenderThread
  UnregisteredAreReleased
  OpsAreRun
  DestroyReturns
