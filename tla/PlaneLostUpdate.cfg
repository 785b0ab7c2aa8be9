CONSTANTS
  None = None
  Subscriber <- MCSubscriber
  Slice <- MCSlice
  Provisioned <- MCProvisioned
  InitDb <- MCInitDb
  Writer = {"job", "script"}
  Tools <- SchedulerAndScript
  RateArg <- OneRate
  QosArg <- ScriptQos
  Fault = {}
SPECIFICATION Spec
PROPERTY QosWritesLeaveAmbr
