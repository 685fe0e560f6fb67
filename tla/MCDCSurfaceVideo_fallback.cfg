\* A chain in a YUV overlay format cannot be made: which formats are tried?
SPECIFICATION VideoSpec
CONSTANTS
  Textures = {a}
  DRM = {}
  DcompTextures = {}
  NoTexture = NoTexture
  Sizes = {1}
  OverlayFormat = "YUV"
  MaxSlowPresents = 1
CHECK_DEADLOCK FALSE
INVARIANT
  FallsBackToRgb
