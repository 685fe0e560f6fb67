\* One blob image, the fonts of two namespaces, three display lists of one
\* builder, or the program files of two runs.
SPECIFICATION Spec
CONSTANTS
  Items <- MCItems
  Rects <- MCRects
  Visibles <- MCVisibles
  MaxItems = 3
  FontKeys <- MCFontKeys
  RawFonts <- MCRawFonts
  InstanceFont <- MCInstanceFont
  MAX_ENTRIES = 2
  MaxDeletions = 3
  Pixels = {1, 2, 3}
  ClientItems <- MCClientItems
  MaxShown = 2
  MaxLists = 3
  Binaries <- MCBinaries
  Digests = {"d", "e"}
  MaxSaves = 2
  MaxRuns = 2
\* Lists, deletions and runs may be used up.
CHECK_DEADLOCK FALSE
INVARIANTS
  BlobImagesConsistent
  ListsConsistent
  ProgramsConsistent
