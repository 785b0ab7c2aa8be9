CONSTANTS
  None = None
  Subscriber <- MCSubscriber
  Slice = {"internet"}
  Provisioned <- MCProvisioned
  Reply <- Budgets
  MaxSteps = 3
  Defense = "both"
  KStar = 1
  HumanConfirm = FALSE
  LeftOver <- OldJob
  NewJob = 70000000
  Fault = {"llm", "mongo", "timeout"}
SPECIFICATION FairSpec
INVARIANTS BudgetHolds IsolationHolds CeilingFollowsCommits
PROPERTIES SessionEnds
CHECK_DEADLOCK FALSE
