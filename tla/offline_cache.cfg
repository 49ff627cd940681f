SPECIFICATION FairSpec
CONSTANTS
  d1 = d1
  Devices = {d1}
  MaxPoints = 3
  Bad = {2}
  NotNumbers = {3}
  MaxCache = 2
  Evicted = 1
  MaxRing = 3
  Batch = 2
  MaxFails = 2
  MaxRestarts = 1
INVARIANTS TypeOK CachedIsKept
PROPERTIES Promise RingDrains
