SPECIFICATION Spec
CONSTANTS
  Scale = 2
  Confidence = 50
  VarWindow = 3
  LastDay = 6
  Sessions <- SevenDays
  Prices = {1, 2}
  LiveTicks <- Evening
  Backtests = {b1}
  MaxForecasts = 3
  None = None
INVARIANTS
  ScoresNextSession
CHECK_DEADLOCK FALSE
