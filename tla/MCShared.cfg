SPECIFICATION Spec
CONSTANTS
  NumPics = 3
  NumBanks = 3
  NumSlots = 3
  MaxReorder = 1
  FrameOutModes = {FALSE}
  Shared = TRUE
  Planar = FALSE
  Pocs = {0, 1, 2}
  MaxRefs = 1
  Conformant = TRUE
  OutBufFits = {TRUE}
INVARIANT AppOwnsUntilRelease
