CONSTANTS
  NoDoc = NoDoc
  c1 = c1
  d1 = d1
  w1 = w1
  w2 = w2
  x1 = x1
  Docs = {d1}
  Workers = {w1, w2}
  Deleters = {x1}
  Contents = {c1}
  Sha <- SameContent
  MaxRetries = 1
  Crashes = 0
  Faults = {"ack_lost", "abandon", "store_error"}
SPECIFICATION RetryingSpec
CHECK_DEADLOCK FALSE
PROPERTIES
  Settles
  ImplementsCorpus
  DeletionCompletes
