CONSTANTS
  NoDoc = NoDoc
  c1 = c1
  d1 = d1
  w1 = w1
  x1 = x1
  x2 = x2
  Docs = {d1}
  Workers = {w1}
  Deleters = {x1, x2}
  Contents = {c1}
  Sha <- SameContent
  MaxRetries = 3
  Crashes = 4
  Faults = {"ack_lost", "api_crash", "db_error"}
SPECIFICATION Spec
CHECK_DEADLOCK FALSE
SYMMETRY DeleterSymmetry
INVARIANTS
  StatusAgreement
  ReadyIsComplete
  AgreementInv
  CompletenessInv
