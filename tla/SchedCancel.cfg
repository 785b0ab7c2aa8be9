CONSTANTS
  None = None
  Subscriber <- MCSubscriber
  Slice = {"internet"}
  Provisioned <- MCProvisioned
  First = "u1"
  InitRate <- TwentyMbps
  Schedule = {"s1"}
  Request <- OneRaise
  Slot <- MCSlot
  Process = {"agent"}
  Tools <- AgentMonitor
  RateArg = {20}
  Prompt = FALSE
  Fault = {}
SPECIFICATION Spec
INVARIANTS PairStaysWhole CancelledStaysOut
PROPERTIES NoLateStart JobsStayOnTarget
