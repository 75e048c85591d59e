SPECIFICATION FairSpec
CONSTANTS
  Keys = {k1, k2}
  Clients = {c1, c2}
  Loops = {l1, l2, l3}
  NoLoop = NoLoop
  Orderly = TRUE
  MaxStops = 1
  MaxRestarts = 1
  MaxStray = 1
INVARIANTS TypeOK WatchesExact
PROPERTIES StopsWhenUnused ImplementsSharedWatch
CHECK_DEADLOCK FALSE
