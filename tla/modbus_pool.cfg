SPECIFICATION FairSpec
CONSTANTS
  d1 = d1
  d2 = d2
  h1 = h1
  h2 = h2
  NoHost = NoHost
  NoClient = NoClient
  Devices = {d1, d2}
  Hosts = {h1, h2}
  Primary <- TwoHosts
  Backup <- WithBackup
  MaxClients = 7
  MaxAttempts = 1
  FailoverThreshold = 1
  StableCount = 1
  MaxOutages = 1
  MaxRemovals = 1
INVARIANTS TypeOK PooledIsOpen
PROPERTIES LeasedIsNotClosed
PROPERTIES ComesBack
