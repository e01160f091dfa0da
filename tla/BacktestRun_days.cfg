SPECIFICATION Spec
CONSTANTS
  p1 = p1
  p2 = p2
  p3 = p3
  Procs = {p1, p2, p3}
  NDays = 2
  SymbolSeq <- TwoSymbols
  Proposals <- OddProposals
  Vars <- NoVarOrTight
  Commands <- AfterCommit
  CallCosts <- Free
  Priced <- Claude
  Faults <- AllFaultsOccur
  MayOverlap = FALSE
  MaxPositionQty = 3
  VarBudget = 2
  NoVar = NoVar
  NoCap = NoCap
  NoUsage = NoUsage
  NoCommand = NoCommand
  NoConfig = NoConfig
SYMMETRY AnyProcess
INVARIANTS
  RunsAreWhole
  OneStrategy
  CodeRecorded
  PositionWithinCap
PROPERTIES
  SuccessIsFinal
  ImplementsPromise
CHECK_DEADLOCK FALSE
