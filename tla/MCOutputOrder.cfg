SPECIFICATION Spec
CONSTANTS
  MaxLsbs = {8}
  Reorders = {0, 1, 2}
  StartKinds = {"IDR", "BLA", "CRA"}
  MaxPoc = 9
  MaxCvs = 3
  MaxPics = 5
  IntHalf = 64
INVARIANTS NoLateOutput OnlyAfterSeekIgnored
PROPERTY OutputInOrder
CHECK_DEADLOCK FALSE
