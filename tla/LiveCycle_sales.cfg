SPECIFICATION Spec
CONSTANTS
  c1 = c1
  c2 = c2
  c3 = c3
  Cycles = {c1, c2}
  SymbolSeq <- OneSymbol
  Proposals <- SellOnly
  Vars <- OnlyNoVar
  Prices <- OnePrice
  StartLots <- TwoLots
  MaxAtOnce = 2
  MaxPositionQty = 3
  VarBudget = 2
  NoVar = NoVar
  None = None
SYMMETRY AnyCycle
INVARIANTS
  SalesAreBacked
CHECK_DEADLOCK FALSE
