SPECIFICATION Spec
CONSTANTS
  Wd = 3
  Ht = 2
  TileWds = {1, 3}
  Rings = {4, 8}
  Chunk = 2
  MaxSlices = 6
  Workers = {w1, w2}
  Main = main
INVARIANTS TypeOK HeaderKept SliceHeaderRight NeighboursFirst RowsAboveFinal
PROPERTY PictureCompletes
