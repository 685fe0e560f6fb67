\* Two windows on one thread: creation, destruction, lost devices, failed renders.
SPECIFICATION FairSpec
CONSTANTS
  Windows = {w1, w2}
  NoWindow = NoWindow
  MaxFrames = 1
  MaxQueue = 0
  AllowErrors = TRUE
  AllowShutDown = FALSE

CHECK_DEADLOCK FALSE
INVARIANTS
  QueueOutlivesHandler
  NoRenderAfterDestroy
PROPERTIES
  EventsInOrder
  ThreadRecovers
