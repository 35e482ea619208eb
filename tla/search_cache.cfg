CONSTANTS
  d1 = d1
  d2 = d2
  r1 = r1
  r2 = r2
  Docs = {d1, d2}
  Matching = {d1}
  Readers = {r1, r2}
  Modes = {"keyword", "vector", "hybrid"}
  Limit = 1
  CandidateLimit = 2
  MaxRevision = 2
SPECIFICATION Spec
CHECK_DEADLOCK FALSE
SYMMETRY ModelSymmetry
VIEW LiveView
INVARIANTS
  Fresh
  Complete
  CompleteInv
