SPECIFICATION Spec
CONSTANTS
  NumPics = 3
  NumBanks = 3
  NumSlots = 3
  MaxReorder = 1
  FrameOutModes = {TRUE, FALSE}
  Shared = FALSE
  Planar = TRUE
  Pocs = {0, 1}
  MaxRefs = 3
  Conformant = FALSE
  OutBufFits = {TRUE}
PROPERTIES
  RefinesPool
