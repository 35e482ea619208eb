CONSTANTS
  Chunks = {1, 2, 3, 4}
  MaxMatches = 3
  Limits = {1, 2}
  Multipliers = {1, 2}
  RrfKs = {1, 60}
  Locations = {"a", "b", "c"}
  LocationOf <- ChunkLocations
  Cases <- Judgements
  Discounts <- LogDiscounts
SPECIFICATION EvaluationSpec
CHECK_DEADLOCK FALSE
INVARIANTS
  BetterRanksComeFirst
  OrderIsIndependent
  NothingBetterIsLeftOut
  LimitIsReached
  MetricsAreFractions
  PerfectIsBest
