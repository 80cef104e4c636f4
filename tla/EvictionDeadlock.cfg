CONSTANTS
  a = a
  b = b
  c = c
  a1 = a1
  a1x = a1x
  a2 = a2
  b1 = b1
  c1 = c1
  None = None
  h1 = h1
  h2 = h2
  h3 = h3
  Publications = {a, b, c}
  Descriptors = {a1, b1, c1}
  Revisions = {a1, a2, b1, c1}
  RevisionOf <- RevisionIds
  DescriptorsOf <- OneEach
  First <- AtFirst
  Stored <- OnlyC
  Handlers = {h1, h2, h3}
  Visited = {a, b, c}
  Changing = {}
  Kinds = {"configure"}
  MaxGenerations = 2
  MaxPublications = 1
  MaxEvents = 3
  MaxKills = 0
  MaxReleases = 0
  MaxFaults = 0
  MaxRejections = 0
SPECIFICATION Spec
INVARIANT NoCircularWait
SYMMETRY Swap
CHECK_DEADLOCK FALSE
