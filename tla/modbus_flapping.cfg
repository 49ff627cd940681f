SPECIFICATION FairSpec
CONSTANTS
  d1 = d1
  d2 = d2
  h1 = h1
  h2 = h2
  NoHost = NoHost
  NoClient = NoClient
  Devices = {d1, d2}
  Hosts = {h1}
  Primary <- OneHost
  Backup <- NoBackup
  MaxClients = 7
  MaxAttempts = 2
  FailoverThreshold = 1
  StableCount = 1
  MaxOutages = 1
  MaxRemovals = 0
PROPERTIES Settles
