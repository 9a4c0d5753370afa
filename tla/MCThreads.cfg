SPECIFICATION Spec
CONSTANTS
  MaxCores = 4
  CoreCounts = {1, 2, 4}
  Setups <- SmallSetups
  AnyTime = FALSE
  Threads = {t1, t2, t3}
  Main = main
INVARIANTS TypeOK WorkersRest FlagsConsumed ContextsPrivate NoThreadLeft QueueNeverFull JobsOnce
PROPERTIES JobsDoneByCall CallsReturn
