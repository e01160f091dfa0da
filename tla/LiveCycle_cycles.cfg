SPECIFICATION Spec
CONSTANTS
  c1 = c1
  c2 = c2
  c3 = c3
  Cycles = {c1, c2, c3}
  SymbolSeq <- TwoSymbols
  Proposals <- BuyOrSell
  Vars <- OnlyNoVar
  Prices <- OnePrice
  StartLots <- LotsOfBoth
  MaxAtOnce = 2
  MaxPositionQty = 3
  VarBudget = 2
  NoVar = NoVar
  None = None
SYMMETRY AnyCycle
INVARIANTS
  PositionWithinCap
  WholeCycles
  NoCircularWait
CHECK_DEADLOCK FALSE
