\* One window with one of the four compositors of the software renderer, one
\* Direct3D texture over two devices and two drawings, the hosts of a video of
\* two frames, or one host that keeps its GL texture.
SPECIFICATION Spec
CONSTANTS
  Checked = {"widget", "native", "layers", "gl", "d3d", "surface", "cached"}
  WidgetSizes = {1, 2, 3}
  Surfaces = {"s"}
  Images = {"i"}
  Modes = {"immediate", "staging", "noblock", "pooled"}
  MaxTextures = 3
  PoolSize = 1
  NativeSurfaces = {1, 2}
  TileKeys = {1, 2}
  WindowSizes = {0, 1, 2}
  MaxLayers = 3
  MaxDevices = 2
  MaxWrites = 2
  VideoHosts = {h1, h2}
  MaxUpdates = 2
\* A process may have used up its devices, textures and drawings.
CHECK_DEADLOCK FALSE
INVARIANTS
  WidgetConsistent
  NativeConsistent
  SoftwareLayersConsistent
  D3DConsistent
  GLHostsConsistent
