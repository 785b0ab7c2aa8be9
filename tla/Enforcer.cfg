SPECIFICATION Spec
CONSTANTS
  None = None
  ue2 = ue2
  ue3 = ue3
  Ue <- MCUe
  LastOctet <- MCLastOctet
  Rate <- MCRate
  Fault = {"class", "filter", "change", "crash"}
  MaxFaults = 2
INVARIANTS ReportedIsEnforced AppliedIsEnforced
PROPERTIES ImplementsCeilings
