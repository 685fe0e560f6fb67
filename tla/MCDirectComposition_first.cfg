\* One surface of one tile for two frames; BeginDraw may fail.
SPECIFICATION Spec
CONSTANTS
  Surfaces = {s1, v}
  Tiles = {t1}
  Rects = {full}
  Full = full
  Sizes2D = {z1}
  MaxAge = 0
  MaxFrames = 2
  MaxSlowCommits = 0
  VideoId = v
  Scenes = {{s1}}
  Textures = {a}
  DRM = {}
  DcompTextures = {}
  NoTexture = NoTexture
  Sizes = {1}
  OverlayFormat = "YUV"
  MaxSlowPresents = 0
CHECK_DEADLOCK FALSE
INVARIANT
  FirstDrawIsFull
