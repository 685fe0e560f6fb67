\* Windows of each platform, three frames, two display lists.
SPECIFICATION Spec
CONSTANTS
  ClientSizes = {1, 2}
  MaxEpochs = 2
  MaxFrames = 3
  Platforms = {"windows", "android", "linux", "mac", "ogl"}
CHECK_DEADLOCK FALSE
INVARIANTS
  ReleasedAreNotRead
  PresentedIsWhole
  RendererConsistent
