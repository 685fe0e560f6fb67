\* Is the buffer of an Android SurfaceTexture released by a host that is attached?
SPECIFICATION Spec
CONSTANTS
  Checked = {"surface"}
  WidgetSizes = {1, 2, 3}
  Surfaces = {"s"}
  Images = {"i"}
  Modes = {"immediate", "staging", "noblock", "pooled"}
  MaxTextures = 3
  PoolSize = 1
  NativeSurfaces = {1, 2}
  TileKeys = {1, 2}
  WindowSizes = {0, 1, 2}
  MaxLayers = 3
  MaxDevices = 1
  MaxWrites = 1
  VideoHosts = {h1, h2}
  MaxUpdates = 2
CHECK_DEADLOCK FALSE
INVARIANT
  ReleasedAreAttached
