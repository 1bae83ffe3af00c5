SPECIFICATION Spec
CONSTANTS
  None = None
  s1 = s1
  s2 = s2
  r1 = r1
  r2 = r2
  Source = {s1}
  Root = {r1, r2}
  Page = {1, 2, 3}
  SourceOf <- OneSource
  RootOf <- TwoRoots
  Seeds <- NoSeeds
  PageSize = 1
  Margin = 0
  MaxErrorPct = 0
  MaxErrorCount = 0
  SyncOption <- DryCalls
  InvOption <- RealInv
  MaxClock = 1
  Budget <- CrawlFaults
INVARIANTS LossesAccounted
PROPERTIES ArchivesOnlyGone
