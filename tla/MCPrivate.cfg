SPECIFICATION FairSpec
CONSTANTS
  NumPics = 4
  NumBanks = 3
  NumSlots = 4
  MaxReorder = 1
  FrameOutModes = {TRUE, FALSE}
  Shared = FALSE
  Planar = TRUE
  Pocs = {0, 1, 2, 3}
  MaxRefs = 1
  Conformant = TRUE
  OutBufFits = {TRUE}
INVARIANTS
  TypeOK
  DpbIntact
  RefBitIsDpb
  DispBitIsUse
  NeverOnlyReference
  NoLostBuffer
  BacklogIsQueue
  BankOfReference
  NoLostBank
  PoolsSuffice
PROPERTIES
  FlushReturnsAll
  FlushEnds
