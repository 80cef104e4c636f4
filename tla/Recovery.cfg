CONSTANTS
  m1 = m1
  m2 = m2
  s1 = s1
  s2 = s2
  s3 = s3
  c1 = c1
  c2 = c2
  NoSnapshot = NoSnapshot
  NoTombstone = NoTombstone
  NoJob = NoJob
  NoRoutes = NoRoutes
  NoAck = NoAck
  Mounts = {m1}
  Snapshots = {s1, s2, s3}
  Rotting = {}
  TombstoneStates = {"withdrawn"}
  CatalogOf <- TwoCatalogs
  MaxMounts = 1
  MaxRefs = 1
  MaxStored = 3
  MaxOld = 2
  Operations = {"activate", "withdraw", "reauthorize", "report"}
  Unconfirmed = {}
SPECIFICATION FairSpec
PROPERTY CatalogComesBack
