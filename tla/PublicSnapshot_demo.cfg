SPECIFICATION Spec
CONSTANTS
  None = None
  Torn = Torn
  NotFound = NotFound
  GoldenDays <- ThreeDays
  NoNewsDays <- OneDay
  SeenDays <- FirstDay
  OrderFor <- Mixed
  Grades <- GoodOrBad
  CallCosts <- OneOrThree
  CostCap = 4
  AlphaPct = 30
  MaxStages = 2
  StartRows <- OldAndNew
  MaxExports = 2
INVARIANTS
  ListedIsServed
  SeenTogether
  EvalIsExact
CHECK_DEADLOCK FALSE
