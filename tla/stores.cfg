\* Two threads on two rows and a process that ends anywhere, or three waiting sessions.
SPECIFICATION StoresSpec
CONSTANTS
  Threads = {t1, t2}
  Videos <- MCVideos
  Seeds <- MCSeeds
  NoThread = NoThread
  MaxTx <- MCMaxTx
  MaxLives = 2
  Sessions <- MCSessions
  Scores <- MCScores
  NoSession = 0
  Tabs = {tab1}
  Admins = {admin}
  Limits = {1, 2}
  MaxToggles = 1
  MaxCrashes = 1
SYMMETRY Symmetry
INVARIANTS StoresTypeOK IndexMatchesHeap NoLostUpdate RecoveryIsExact
INVARIANTS PositionsAreRanks NobodyForgotten
PROPERTIES SortedRefinement
CHECK_DEADLOCK FALSE
