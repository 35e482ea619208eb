CONSTANTS
  NoDoc = NoDoc
  c1 = c1
  d1 = d1
  d2 = d2
  w1 = w1
  x1 = x1
  Docs = {d1, d2}
  Workers = {w1}
  Deleters = {x1}
  Contents = {c1}
  Sha <- SameContent
  MaxRetries = 2
  Crashes = 1
  Faults = {"ack_lost", "late_error", "db_error", "api_crash"}
SPECIFICATION ApiSpec
CHECK_DEADLOCK FALSE
SYMMETRY DocSymmetry
VIEW ApiView
CONSTRAINT OneIsInserted
INVARIANTS
  ContentIsUnique
  RefusedLeavesNothing
  NotAllAreDuplicates
  NoOrphanFile
  StoredIsKept
  AcceptedIsSent
  DeletedIsGone
PROPERTIES
  SuccessIsFinal
