CONSTANTS
  NoRequest = NoRequest
  r1 = r1
  r2 = r2
  r3 = r3
  Requests = {r1, r2, r3}
  Modes = {"keyword", "hybrid"}
SPECIFICATION FairSpec
CHECK_DEADLOCK FALSE
INVARIANTS
  EmbedsWithAModel
  RepliesFitTheDeployment
PROPERTIES
  OneModel
  EveryRequestIsAnswered
