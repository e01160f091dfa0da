SPECIFICATION FairSpec
CONSTANTS
  p1 = p1
  p2 = p2
  p3 = p3
  Procs = {p1, p2, p3}
  NDays = 3
  SymbolSeq <- OneSymbol
  Proposals <- HoldProposals
  Vars <- OnlyNoVar
  Commands <- Spenders
  CallCosts <- Paid
  Priced <- Claude
  Faults <- Exceptions
  MayOverlap = FALSE
  MaxPositionQty = 3
  VarBudget = 2
  NoVar = NoVar
  NoCap = NoCap
  NoUsage = NoUsage
  NoCommand = NoCommand
  NoConfig = NoConfig
INVARIANTS
  RowSettled
  OvershootWithinSpread
PROPERTIES
  EventuallySucceeds
CHECK_DEADLOCK FALSE
