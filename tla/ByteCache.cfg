SPECIFICATION FairSpec
CONSTANTS
  Loads = {c1, c2, c3}
  Impatient = {c1}
  k1 = k1
  k2 = k2
  Keys = {k1, k2}
  SnapshotOf <- MCSnapshotOf
  Length <- MCLength
  MaxDecoded <- MCMaxDecoded
  Entries = 2
  Bytes = 3
  FlightEntries = 2
  FlightBytes = 4
  MaxEvictions = 1
  None = None
INVARIANT TypeOK
INVARIANT BudgetsAreExact
INVARIANT LoadedOnce
INVARIANT EvictedStaysOut
INVARIANT JoinedFlightsContinue
PROPERTY EveryLoadReturns
CHECK_DEADLOCK FALSE
