SPECIFICATION Spec
CONSTANTS
  s1 = s1
  s2 = s2
  Scripts = {s1, s2}
  TradingDays <- OverWeekend
  Proposals <- SomeProposals
  Vars <- OverOrNone
  MarketPrices <- TwoPrices
  Rules <- SomeRules
  PerBacktest = 2
  CallCosts <- OneOrThree
  CostCap = 4
  Unit = 100
  SlipBps = 1
  MaxPositionQty = 3
  VarBudget = 2
  NoVar = NoVar
  None = None
SYMMETRY AnyScript
INVARIANTS
  EveryShareAccounted
  ReplayReproduces
  StopsHold
  QuantityRebuilt
  LossBounded
PROPERTIES
  ClosedRowsKept
  ImplementsFifoQueue
CHECK_DEADLOCK FALSE
