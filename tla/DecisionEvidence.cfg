SPECIFICATION Spec
CONSTANTS
  Decision = {d1}
  Doc = {x1}
  Web = {w1}
  Hash = {h1, h2}
  NoHash = NoHash
  Nonce = {n1, n2}
  Call = {c1, c2}
  None = None
  Budget <- EditScan
SYMMETRY Interchangeable
INVARIANTS VerdictsInLine SnapshotsKept
