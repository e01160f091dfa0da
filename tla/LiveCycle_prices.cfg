SPECIFICATION Spec
CONSTANTS
  c1 = c1
  c2 = c2
  c3 = c3
  Cycles = {c1, c2}
  SymbolSeq <- OneSymbol
  Proposals <- BuyOrSell
  Vars <- OnlyNoVar
  Prices <- TwoPrices
  StartLots <- NoLots
  MaxAtOnce = 1
  MaxPositionQty = 3
  VarBudget = 2
  NoVar = NoVar
  None = None
SYMMETRY AnyCycle
INVARIANTS
  SnapshotIsObserved
CHECK_DEADLOCK FALSE
