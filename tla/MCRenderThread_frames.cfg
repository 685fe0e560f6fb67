\* One window: three frames, wake-ups and external events between them, errors,
\* and RenderThread::ShutDown at any time.
SPECIFICATION FairSpec
CONSTANTS
  Windows = {w1}
  NoWindow = NoWindow
  MaxFrames = 3
  MaxQueue = 1
  AllowErrors = TRUE
  AllowShutDown = TRUE

\* ShutDown ends the render thread.
CHECK_DEADLOCK FALSE
INVARIANTS
  IInv
  FramesAccounted
  PendingFramesBounded
  NoLostWakeup
  FlushedMeansHandled
  PoolOutlivesNewRenderers
PROPERTIES
  CallsReturn
  SkippedCompositesAreMade
