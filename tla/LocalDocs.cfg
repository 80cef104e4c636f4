CONSTANTS
  a = a
  b = b
  c = c
  a1 = a1
  a1x = a1x
  a2 = a2
  b1 = b1
  c1 = c1
  None = None
  h1 = h1
  h2 = h2
  h3 = h3
  Publications = {a, b, c}
  Descriptors = {a1, a1x, a2, b1, c1}
  Revisions = {a1, a2, b1, c1}
  RevisionOf <- RevisionIds
  DescriptorsOf <- Catalogs
  First <- AtFirst
  Stored <- BThenAThenC
  Handlers = {h1, h2}
  Visited = {a, c}
  Changing = {a}
  Kinds = {"configure", "fetch", "revalidate", "disable"}
  MaxGenerations = 2
  MaxPublications = 1
  MaxEvents = 2
  MaxKills = 1
  MaxReleases = 1
  MaxFaults = 1
  MaxRejections = 1
SPECIFICATION FairSpec
INVARIANT TypeOK
INVARIANT ActiveIsStored
INVARIANT WithdrawalWins
PROPERTY WithdrawnIsNotServed
PROPERTY ReenabledByAnotherRevision
PROPERTY EveryEventSettles
CHECK_DEADLOCK FALSE
