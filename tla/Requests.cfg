SPECIFICATION RequestsSpec
CONSTANTS
  Decision = {d1, d2}
  Doc = {x1}
  Web = {}
  Hash = {h1, h2}
  NoHash = NoHash
  Nonce = {n1, n2}
  Call = {c1}
  None = None
  Budget <- EditsReviewScan
  Names = {"a"}
  Askers = {"q1", "q2"}
  Admins = {"w1", "w2"}
  Hosts = {"h1"}
  Teams <- Together
  MaxTokens = 2
  MaxEdits = 1
  Inquiry <- QuestionsAsked
  Says <- Texts
  ContextBudget = 7
  MaxSiblings = 2
  MaxDeltas = 2
SYMMETRY Interchangeable
INVARIANTS
  TypeOK
  SupersededLinked
  MirrorAgrees
  QueriesMeant
  AnswersAreEarned
  RepliesAreTrue
  KeysAgree
CHECK_DEADLOCK FALSE
