SPECIFICATION FairSpec
CONSTANTS
  None = None
  Torn = Torn
  Daemon = Daemon
  Tick = Tick
  c1 = c1
  c2 = c2
  Cell <- MCCell
  Chain <- MCChain
  Rate = {20, 30, 40}
  Baseline = 20
  Ceiling = 40
  MaxSteps = 12
  MinSamples = 2
  TrialRate = {30}
  Samples = 2
  MaxRecords = 3
  MaxPauses = 1
  Fault = {"mongo", "ping", "kill", "crash", "trial", "pause"}
  MaxFaults = 2
  Arms <- MCArms
  Raised = 30
  AgentRate = {40}
  Trials = 2
  SeedCycles = 1
  ShowCycles = 2
  Waves <- MCWaves
  Repeats = 2
  WaitCycles = 2
  Congested = 30
  Probe = 40
  SessionRate = {40}
  Suites = {"v4", "v4_llm", "v7", "all_v7", "upf", "proxy", "cross_1", "cross_2"}
  Steps = 2
  Small = 50
  Large = 150
  Program = {"chain", "script", "arms", "wave", "suite"}
INVARIANTS SettledTrialIsClean ResultsAreOwn WritesAreShown CleanArmIsClean PutBack SessionsStartAsSet GateJudgesRates
PROPERTIES Converges ChainCompletes
