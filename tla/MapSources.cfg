SPECIFICATION Spec
CONSTANTS
  None = None
  s1 = s1
  s2 = s2
  r1 = r1
  r2 = r2
  Source = {s1, s2}
  Root = {r1, r2}
  Page = {1, 2, 3}
  SourceOf <- TwoSources
  RootOf <- LoneSeed
  Seeds <- OneSeed
  PageSize = 1
  Margin = 0
  MaxErrorPct = 0
  MaxErrorCount = 1
  SyncOption <- MixedCalls
  InvOption <- NoInv
  MaxClock = 1
  Budget <- LateFaults
INVARIANTS TypeOK
PROPERTIES CommitCoversSeeds PartialRunsKeepWindow
