SPECIFICATION Spec
CONSTANTS
  Scale = 2
  Confidence = 50
  VarWindow = 3
  LastDay = 6
  Sessions <- SevenDays
  Prices = {1, 2}
  LiveTicks <- ByDay
  Backtests = {b1}
  MaxForecasts = 3
  None = None
INVARIANTS
  NoLookAhead
  TailBehindVar
  EvaluationAgrees
PROPERTIES
  FillsScoreFinalClose
  FillSettles
CHECK_DEADLOCK FALSE
