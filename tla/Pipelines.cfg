SPECIFICATION PipesSpec
CONSTANTS
  x1 = x1
  x2 = x2
  y1 = y1
  y2 = y2
  Job = {x1, x2}
  Worker = {y1, y2}
  NoJob = NoJob
  Budget <- OneDeath
  Docs = {1}
  Empty = {}
  Ids = {1, 2, 3}
  Ingesters = {"i1", "i2"}
  Embedders = {"e1", "e2"}
  CommitEvery = 1
  BatchSize = 2
  MaxBody = 2
  MaxFaults = 1
  Teams <- JobTeams
  Sources = {"s", "t"}
  Pages = {1, 2, 3}
  SourceOf <- BackfillSources
  PageLimit = 1
  RetryLimit = 1
  Runs = {x1, x2}
  Calls <- BackfillCalls
  MaxCalls = 2
  MaxFailures = 2
INVARIANTS TypeOK JobsInOrder OneStrandedPerDeath ChunksAgree FileIsTrue
PROPERTIES KeepsPromise CursorsFollow DocsInStep
SYMMETRY Symmetric
CHECK_DEADLOCK FALSE
