SPECIFICATION Spec
CONSTANTS
  NumPics = 4
  NumBanks = 3
  NumSlots = 4
  MaxReorder = 1
  FrameOutModes = {FALSE}
  Shared = TRUE
  Planar = TRUE
  Pocs = {0, 1, 2}
  MaxRefs = 1
  Conformant = TRUE
  OutBufFits = {TRUE}
INVARIANTS
  AppOwnsUntilRelease
