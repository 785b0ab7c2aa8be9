CONSTANTS
  None = None
  Subscriber <- MCSubscriber
  Slice <- MCSlice
  Provisioned <- MCProvisioned
  InitDb <- MCInitDb
  Writer = {"agent"}
  Tools <- OneOfEach
  RateArg = {40000000, 5000}
  QosArg <- ScriptQos
  Fault = {"mongo", "crash"}
SPECIFICATION Spec
INVARIANTS AuditTold
PROPERTIES ImplementsStore
