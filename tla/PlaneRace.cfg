CONSTANTS
  None = None
  Subscriber <- MCSubscriber
  Slice <- MCSlice
  Provisioned <- MCProvisioned
  InitDb <- MCInitDb
  Writer = {"agent", "job"}
  Tools <- AgentAndScheduler
  RateArg <- OneRate
  QosArg <- AgentQos
  Fault = {"audit"}
SPECIFICATION Spec
INVARIANTS TypeOK CopiesAgree SuccessIsTrue
PROPERTIES FreshWriteIsLocal
