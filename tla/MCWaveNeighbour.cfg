SPECIFICATION Spec
CONSTANTS
  Wd = 2
  Ht = 4
  TileWds = {2}
  Rings = {4}
  Chunk = 2
  MaxSlices = 8
  Workers = {w1}
  Main = main
INVARIANT NeighbourHeaderKept
