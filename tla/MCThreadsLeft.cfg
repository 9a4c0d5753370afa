SPECIFICATION Spec
CONSTANTS
  MaxCores = 2
  CoreCounts = {1, 2}
  Setups <- KeptOneRow
  AnyTime = TRUE
  Threads = {t1, t2}
  Main = main
INVARIANT NoThreadLeft
