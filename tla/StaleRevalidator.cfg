CONSTANTS
  a = a
  b = b
  c = c
  a1 = a1
  a1x = a1x
  a2 = a2
  b1 = b1
  c1 = c1
  None = None
  h1 = h1
  h2 = h2
  h3 = h3
  Publications = {a}
  Descriptors = {a1, a2}
  Revisions = {a1, a2}
  RevisionOf <- RevisionIds
  DescriptorsOf <- TwoRevisions
  First <- AtFirst
  Stored <- Nothing
  Handlers = {h1}
  Visited = {a}
  Changing = {a}
  Kinds = {"configure"}
  MaxGenerations = 2
  MaxPublications = 1
  MaxEvents = 3
  MaxKills = 0
  MaxReleases = 1
  MaxFaults = 0
  MaxRejections = 0
SPECIFICATION Spec
INVARIANT ReadyIsExact
CHECK_DEADLOCK FALSE
