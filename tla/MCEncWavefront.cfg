SPECIFICATION FairSpec
CONSTANTS
  Rows = 3
  Cols = 2
  Frames = 2
  MaxMv = 1
  SaoModes = {TRUE, FALSE}
  Threads = {t1, t2}
  SemMax = 1
INVARIANTS RowsInOrder SearchFinal
PROPERTY FramesComplete
