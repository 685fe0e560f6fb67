\* Two surfaces of tiles, or one and a video, for three frames.
SPECIFICATION Spec
CONSTANTS
  Surfaces = {s1, s2, v}
  Tiles = {t1}
  Rects = {full, part}
  Full = full
  Sizes2D = {z1, z2}
  MaxAge = 1
  MaxFrames = 3
  MaxSlowCommits = 1
  VideoId = v
  Scenes = {{s1, s2}, {v}}
  Textures = {a, b}
  DRM = {b}
  DcompTextures = {h}
  NoTexture = NoTexture
  Sizes = {1, 2}
  OverlayFormat = "YUV"
  MaxSlowPresents = 1
CHECK_DEADLOCK FALSE
INVARIANTS
  TreeConsistent
  VideoConsistent
