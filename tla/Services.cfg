SPECIFICATION ServicesSpec
CONSTANTS
  Documents <- MCDocuments
  Components <- MCComponents
  FailureBuckets <- MCBuckets
  Pages <- MCPages
  NoPage = 0
  Cap = 2
  x = x
  y = y
  u = u
  v = v
  Runs = {x, y}
  NoRun = NoRun
  Docs = {"d1"}
  Buckets = {}
  Contents = {u, v}
  Absent = Absent
  GivenGens = 0
  MaxEdits = 1
  MaxFaults = 1
  Threads = {1, 2}
  TTL = 2
  MaxTime = 3
  MaxVersion = 1
SYMMETRY Symmetric
INVARIANTS GraphIsTrue ReadsFit ServedWithinTTL
PROPERTIES ProposalsFit BucketsAgree MiningIsTrue RowsAreTrue
CHECK_DEADLOCK FALSE
