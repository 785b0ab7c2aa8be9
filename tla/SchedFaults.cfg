CONSTANTS
  None = None
  Subscriber <- MCSubscriber
  Slice = {"internet"}
  Provisioned <- MCProvisioned
  First = "u1"
  InitRate <- NearTheLimit
  Schedule = {"s1"}
  Request <- Doubling
  Slot <- MCSlot
  Process = {"agent", "purge"}
  Tools <- AgentPurge
  RateArg = {}
  Prompt = TRUE
  Fault = {"crash", "mongo"}
SPECIFICATION FairSpec
PROPERTIES FiresEveryDay
