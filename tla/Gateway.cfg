CONSTANTS
  r1 = r1
  r2 = r2
  a1 = a1
  a2 = a2
  o1 = o1
  k1 = k1
  k2 = k2
  Nobody = Nobody
  Impatient = {r1, a1}
  Requests = {r1, r2}
  Activators = {a1, a2}
  Openers = {o1}
  Closers = {k1, k2}
SPECIFICATION FairSpec
INVARIANT TypeOK
INVARIANT GateIsExact
INVARIANT RenderedFromOpenStore
INVARIANT ClosedForGood
PROPERTY RoutesStableWhileServing
PROPERTY EveryoneReturns
CHECK_DEADLOCK FALSE
