SPECIFICATION Spec
CONSTANTS
  r1 = r1 r2 = r2 r3 = r3 c1 = c1 f = f p = p w1 = w1 w2 = w2 w3 = w3 w4 = w4
  a1 = a1 a2 = a2
  Revisions <- MCRevisions
  NoRevision = NoRevision
  ReviewIDs <- MCReviewIDs
  NoDecision = NoDecision
  MaxGeneration = 4
  Contracts = {c1}
  NoContract = NoContract
  Tracks = {f, p}
  NoTrack = NoTrack
  ContractOf <- MCContractOf
  RefOf <- MCRefOf
  Names = {"main", "commit", "none", "e1", "e2", "a", "b"}
  Refused = Refused
  Skew = 1
  Clients = {a1, a2}
  Commands <- MCCommands
  None = None
  Free = Free
  FirstDirs <- MCFirstDirs
  FirstBlobs = {r1, r2}
  Loose = {}
  MaxCalls = 2
  MaxFaults = 2
  MaxTime = 2
SYMMETRY Sym
CHECK_DEADLOCK FALSE
INVARIANT CommittedBlobsExist
