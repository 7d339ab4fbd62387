\* A second process appends to the WAL file of the first.
SPECIFICATION Spec
CONSTANTS
  Threads = {t1, t2}
  Videos <- MCVideos
  Seeds <- MCSeeds
  NoThread = NoThread
  MaxTx <- MCOneEach
  MaxLives = 2
SYMMETRY Symmetry
INVARIANTS IgnoresUncommitted
CHECK_DEADLOCK FALSE
