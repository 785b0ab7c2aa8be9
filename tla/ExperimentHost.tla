---------------------------- MODULE ExperimentHost ----------------------------
(***************************************************************************)
(* The host of the experiments: the collector's daemon beside one program, *)
(* a chain of campaigns, the scripted controller, the behavioural arms, a  *)
(* wave of experiments or a suite of them.                                 *)
(***************************************************************************)
EXTENDS CellCampaign, ScriptedController, BehaviouralArms, SuiteTrials

CONSTANT Program   \* subset of {"chain", "script", "arms", "wave", "suite"}

VARIABLE program

vars == <<circuit, campaign, script, arms, waveVars, suiteVars, program>>

Init ==
  /\ InitCircuit /\ InitCampaign /\ InitScript /\ InitArms /\ InitWave /\ InitSuite
  /\ program \in Program

Collects ==
  (DaemonCycle \/ KillDaemon) /\ Elapses /\ UNCHANGED <<campaign, script, arms, suiteVars, program>>

Campaigns == program = "chain" /\ NextCampaign /\ UNCHANGED <<script, arms, waveVars, suiteVars, program>>

Scripted == program = "script" /\ NextScript /\ UNCHANGED <<campaign, arms, waveVars, suiteVars, program>>

Behavioural == program = "arms" /\ NextArms /\ UNCHANGED <<campaign, script, waveVars, suiteVars, program>>

Wave == program = "wave" /\ NextWave /\ UNCHANGED <<campaign, script, arms, suiteVars, program>>

Suite == program = "suite" /\ NextSuite /\ UNCHANGED <<campaign, script, arms, program>>

Next == Collects \/ Campaigns \/ Scripted \/ Behavioural \/ Wave \/ Suite

Spec == Init /\ [][Next]_vars

(* The daemon's thread and the campaign go on as long as they live (a      *)
(* trial has a timeout), and the operator clears the pause flag and        *)
(* launches the chain again.                                               *)
FairSpec ==
  /\ Spec
  /\ WF_vars(DaemonCycle /\ Elapses /\ UNCHANGED <<campaign, script, arms, suiteVars, program>>)
  /\ WF_vars(program = "chain" /\ (Advance \/ Launch \/ Unpause) /\ UNCHANGED <<script, arms, waveVars, suiteVars, program>>)

TypeOK ==
  /\ CircuitTypeOK /\ CampaignTypeOK /\ ScriptTypeOK
  /\ ArmsTypeOK /\ WaveTypeOK /\ SuiteTypeOK

(* What was written is what the newest record shows, in the scripted       *)
(* controller (FreshReadback), in the behavioural arms (TargetIsShown) and *)
(* in the suites (ReadsAreFresh).                                          *)
WritesAreShown == FreshReadback /\ TargetIsShown /\ ReadsAreFresh

(* Sessions and stages of an experiment start at the rate its protocol     *)
(* sets, in a wave (TrialsStartAsSet) and in a suite (StagesStartAlike).   *)
SessionsStartAsSet == TrialsStartAsSet /\ StagesStartAlike

(* What a program stops or changes it puts back: the arms the collectors   *)
(* (CollectorsResumed), the scripts of a suite the rate (RateGivenBack).   *)
PutBack == CollectorsResumed /\ RateGivenBack

(* A rate that stays in the subscriber documents becomes what readers of   *)
(* the newest record see, for good, when the daemon stays up and suites    *)
(* take out no more records: neither a failed cycle nor an earlier flush   *)
(* or exchange of records stops the thread from publishing it.             *)
Converges ==
  \A r \in Rate :
    <>[](ambr = r /\ daemon = "up" /\ ~At("flush") /\ masked = << >>) => <>[](Latest = r)

(* See Completes of CellCampaign.                                          *)
ChainCompletes == program = "chain" => Completes

=============================================================================
