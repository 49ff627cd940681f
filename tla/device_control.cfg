SPECIFICATION FairSpec
CONSTANTS
  a1 = a1
  a2 = a2
  None = None
  Actors = {a1, a2}
  Loops = {1, 2, 3, 4}
  Drivers = {1, 2, 3, 4, 5, 6}
  Overlaps <- SafePairs
INVARIANTS TypeOK NoZombie OnlineIsCollected NoStaleDriver DeletedIsGone
PROPERTIES OperationsEnd
