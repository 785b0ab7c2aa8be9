SPECIFICATION FairSpec
CONSTANTS
  None = None
  N = 2
  Ahead = 2
  Wrap = 3
  MaxStale = 1
  Fault = {"gnb", "length"}
  MaxFaults = 2
INVARIANTS SumOfThisSlot
PROPERTIES NoBlockTwice EveryoneServed
CHECK_DEADLOCK FALSE
