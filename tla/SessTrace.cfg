CONSTANTS
  None = None
  Subscriber <- MCSubscriber
  Slice = {"internet"}
  Provisioned <- MCProvisioned
  Reply <- AnyUnit
  MaxSteps = 4
  Defense = "none"
  KStar = 3
  HumanConfirm = TRUE
  LeftOver = {}
  NewJob = 70000000
  Fault = {"llm", "timeout"}
SPECIFICATION Spec
INVARIANTS VerdictsAreTrue ValuesExplainRate EscalatedIsReal ApprovedChanges
CHECK_DEADLOCK FALSE
