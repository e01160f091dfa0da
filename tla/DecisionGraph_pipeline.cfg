SPECIFICATION Spec
CONSTANTS
  MaxPositionQty = 4
  VarBudget = 2
  NoVar = NoVar
  None = None
  Proposals <- AllProposals
  Vars <- AllVars
  Holdings <- AllHeld
  Explainers = {TRUE, FALSE}
  NewsIsTraced = TRUE
  TailDays <- ThreeDays
  DriverDays = 2
  HeadlinesFor <- Archive
  Replies <- SomeReplies
INVARIANTS
  RulingIsLargestAllowed
  
  ExplainedIffBudgetChanged
  ValidMeansGrounded
  TraceRebuildsExplanation
CHECK_DEADLOCK FALSE
