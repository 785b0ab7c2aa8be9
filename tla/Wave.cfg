SPECIFICATION FairSpec
CONSTANTS
  None = None
  Torn = Torn
  StepOrder <- MCStepOrder
  ArmsOf <- MCArmsOf
  Resume <- MCResume
  NeedsKStar <- MCNeedsKStar
  Defended <- MCDefended
  Size <- MCSize
  Session <- MCSession
  DefaultKStar = 3
  MaxCalls = 2
  GateOrder <- MCGateOrder
  Option <- MCOption
  Fault = {"crash", "error"}
  MaxFaults = 2
  MaxManual = 1
INVARIANTS OkMeansComplete BudgetSettles
PROPERTIES  BudgetSplits ImplementsLog Completes
CHECK_DEADLOCK FALSE
