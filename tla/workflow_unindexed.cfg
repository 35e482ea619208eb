CONSTANTS
  NoDoc = NoDoc
  c1 = c1
  d1 = d1
  w1 = w1
  x1 = x1
  Docs = {d1}
  Workers = {w1}
  Deleters = {x1}
  Contents = {c1}
  Sha <- SameContent
  MaxRetries = 3
  Crashes = 0
  Faults = {"late_error"}
SPECIFICATION Spec
CHECK_DEADLOCK FALSE
INVARIANTS
  ReadyIsComplete
