SPECIFICATION Spec
CONSTANTS
  MaxLsbs = {4, 16}
  Reorders = {1}
  StartKinds = {"IDR"}
  MaxPoc = 9
  MaxCvs = 2
  MaxPics = 3
  IntHalf = 1024
PROPERTY OutputInOrder
CHECK_DEADLOCK FALSE
