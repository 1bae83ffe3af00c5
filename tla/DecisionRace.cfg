SPECIFICATION Spec
CONSTANTS
  Decision = {d1, d2}
  Doc = {x1}
  Web = {}
  Hash = {h1, h2}
  NoHash = NoHash
  Nonce = {n1, n2}
  Call = {c1, c2}
  None = None
  Budget <- CrashScan
SYMMETRY Interchangeable
INVARIANTS NonceOnce NeverEachOther
