--------------------------- MODULE BehaviouralArms ---------------------------
(***************************************************************************)
(* The behavioural experiment (run_e7_7a to d of experiments/              *)
(* reproduce_all.py): an agent judges a raise that the script made, in     *)
(* turn with the standard collector and, after the daemon was stopped by a *)
(* signal, with the isolated one, which publishes no rate.  The script     *)
(* runs the cycles of its collector itself.                                *)
(***************************************************************************)
EXTENDS AnalyticsCircuit

CONSTANTS
  Arms,         \* the arms: a sequence of "standard" and "isolated"
  Raised,       \* the rate the script raises the slice to
  AgentRate,    \* rates the agent writes
  Trials,       \* trials of an arm
  SeedCycles,   \* cycles before the first trial
  ShowCycles    \* cycles between the raise and the agent

ASSUME ArmsAssumption ==
  /\ Arms \in Seq({"standard", "isolated"}) /\ Arms # << >>
  /\ Raised \in Rate /\ AgentRate \subseteq Rate
  /\ Trials \in Nat \ {0} /\ SeedCycles \in Nat \ {0} /\ ShowCycles \in Nat \ {0}

VARIABLES
  bpc,       \* "none" while the script does not run
  cond, nth, \* the arm and the trial it is at
  left,      \* cycles still to run
  pids,      \* the arm's list of stopped processes holds the daemon
  sealed,    \* ghost: the purge of this arm did not fail
  shown,     \* ghost: a cycle since the raise published it
  killed     \* ghost: a script was killed while the daemon was stopped

arms == <<bpc, cond, nth, left, pids, sealed, shown, killed>>

Clean == Arms[cond] = "isolated"

InitArms ==
  /\ bpc = "none" /\ cond = 1 /\ nth = 1 /\ left = 0
  /\ pids = FALSE /\ sealed = FALSE /\ shown = FALSE /\ killed = FALSE

StartArms ==
  /\ bpc = "none" /\ bpc' = "arm" /\ cond' = 1 /\ nth' = 1
  /\ EnsureCollector \/ UNCHANGED <<daemon, faults>>
  /\ UNCHANGED <<ambr, smf, seen, left, pids, sealed, shown, killed>>

(* The signal may be refused; the arm then goes on beside the daemon.      *)
PauseCollectors ==
  /\ bpc = "arm" /\ bpc' = "purge"
  /\ IF ~Clean THEN UNCHANGED <<daemon, faults, pids>>
     ELSE \/ /\ daemon' = IF daemon = "up" THEN "stopped" ELSE daemon
             /\ pids' = (daemon # "none") /\ UNCHANGED faults
          \/ daemon = "up" /\ Fails("pause") /\ UNCHANGED <<daemon, pids>>
  /\ UNCHANGED <<ambr, smf, seen, cond, nth, left, sealed, shown, killed>>

(* Mutant: the records are purged in the first arm only.                   *)
PurgeOnce ==
  /\ bpc = "purge" /\ bpc' = "seed" /\ left' = SeedCycles
  /\ smf' = IF cond = 1 THEN UnderWay ELSE smf
  /\ sealed' = (daemon # "up")
  /\ UNCHANGED <<ambr, seen, daemon, faults, cond, nth, pids, shown, killed>>

(* A purge that fails is a warning.                                        *)
Purge ==
  /\ bpc = "purge" /\ bpc' = "seed" /\ left' = SeedCycles
  /\ \/ smf' = UnderWay /\ sealed' = (daemon # "up") /\ UNCHANGED faults
     \/ Fails("mongo") /\ sealed' = FALSE /\ UNCHANGED smf
  /\ UNCHANGED <<ambr, seen, daemon, cond, nth, pids, shown, killed>>

(* A cycle that fails is a warning.                                        *)
RunCycle ==
  /\ bpc \in {"seed", "show"} /\ left > 0
  /\ \/ (Stamp(Tick) \/ ReadSessions(Tick)) /\ UNCHANGED <<left, shown>>
     \/ Insert(Tick, Clean) /\ left' = left - 1 /\ shown' = (shown \/ seen[Tick] = Raised)
     \/ CycleFails(Tick) /\ left' = left - 1 /\ UNCHANGED shown
  /\ UNCHANGED <<bpc, cond, nth, pids, sealed, killed>>

Seeded ==
  /\ bpc = "seed" /\ left = 0 /\ bpc' = "reset"
  /\ UNCHANGED <<circuit, cond, nth, left, pids, sealed, shown, killed>>

(* What the two writes return is ignored.                                  *)
ResetTrial ==
  /\ bpc = "reset" /\ bpc' = "raise" /\ Write(Baseline)
  /\ UNCHANGED <<smf, seen, daemon, cond, nth, left, pids, sealed, shown, killed>>

RaiseTarget ==
  /\ bpc = "raise" /\ bpc' = "show" /\ Write(Raised)
  /\ left' = ShowCycles /\ shown' = FALSE
  /\ UNCHANGED <<smf, seen, daemon, cond, nth, pids, sealed, killed>>

BeginJudging ==
  /\ bpc = "show" /\ left = 0 /\ bpc' = "judge"
  /\ UNCHANGED <<circuit, cond, nth, left, pids, sealed, shown, killed>>

(* The agent may raise further; the newest record then may lag.            *)
AgentWrite ==
  /\ bpc = "judge" /\ shown' = FALSE
  /\ \E r \in AgentRate : ambr' = r
  /\ UNCHANGED <<smf, seen, daemon, faults, bpc, cond, nth, left, pids, sealed, killed>>

EndTrialOfArm ==
  /\ bpc = "judge"
  /\ IF nth < Trials THEN bpc' = "reset" /\ nth' = nth + 1 ELSE bpc' = "last" /\ UNCHANGED nth
  /\ UNCHANGED <<circuit, cond, left, pids, sealed, shown, killed>>

LastReset ==
  /\ bpc = "last" /\ bpc' = "resume" /\ Write(Baseline)
  /\ UNCHANGED <<smf, seen, daemon, cond, nth, left, pids, sealed, shown, killed>>

Resumed == IF daemon = "stopped" /\ pids THEN "up" ELSE daemon

(* The stopped processes go on, and the next arm begins.                   *)
ResumeCollectors ==
  /\ bpc = "resume" /\ daemon' = Resumed /\ pids' = FALSE
  /\ killed' = (killed /\ daemon' = "stopped")
  /\ nth' = 1 /\ sealed' = FALSE /\ shown' = FALSE
  /\ IF cond < Len(Arms) THEN bpc' = "arm" /\ cond' = cond + 1 ELSE bpc' = "none" /\ cond' = 1
  /\ UNCHANGED <<ambr, smf, seen, faults, left>>

(* Mutant: the stopped processes are resumed where the arm returns only.   *)
TrialRaisesThrough ==
  /\ bpc = "judge" /\ Fails("trial")
  /\ bpc' = "none" /\ cond' = 1 /\ nth' = 1 /\ pids' = FALSE
  /\ sealed' = FALSE /\ shown' = FALSE
  /\ UNCHANGED <<ambr, smf, seen, daemon, left, killed>>

(* An exception of a trial ends the script, after the finally clause.      *)
TrialRaises ==
  /\ bpc = "judge" /\ Fails("trial")
  /\ daemon' = Resumed /\ killed' = (killed /\ daemon' = "stopped")
  /\ bpc' = "none" /\ cond' = 1 /\ nth' = 1 /\ pids' = FALSE
  /\ sealed' = FALSE /\ shown' = FALSE
  /\ UNCHANGED <<ambr, smf, seen, left>>

KillArms ==
  /\ bpc # "none" /\ Fails("crash") /\ killed' = (daemon = "stopped")
  /\ bpc' = "none" /\ cond' = 1 /\ nth' = 1 /\ left' = 0 /\ pids' = FALSE
  /\ sealed' = FALSE /\ shown' = FALSE
  /\ smf' = Without(Tick) /\ seen' = [seen EXCEPT ![Tick] = None]
  /\ UNCHANGED <<ambr, daemon>>

NextArms ==
  \/ StartArms \/ PauseCollectors \/ Purge \/ RunCycle \/ Seeded
  \/ ResetTrial \/ RaiseTarget \/ BeginJudging \/ AgentWrite \/ EndTrialOfArm
  \/ LastReset \/ ResumeCollectors \/ TrialRaises \/ KillArms

(***************************************************************************)
(* Properties.                                                             *)
(***************************************************************************)
ArmsTypeOK ==
  /\ bpc \in {"none", "arm", "purge", "seed", "reset", "raise", "show", "judge", "last", "resume"}
  /\ cond \in DOMAIN Arms /\ nth \in 1 .. Trials /\ left \in Nat
  /\ pids \in BOOLEAN /\ sealed \in BOOLEAN /\ shown \in BOOLEAN /\ killed \in BOOLEAN

(* The agent of an isolated arm finds no record with a rate, neither of an *)
(* earlier arm nor of the daemon, whose cycle may have been under way when *)
(* it was stopped, if the purge and the signal worked.                     *)
CleanArmIsClean ==
  bpc = "judge" /\ Clean /\ sealed => Records = << >>

(* The agent of a standard arm is shown the raise it is to judge, as soon  *)
(* as one cycle published it, although the daemon publishes beside it.     *)
TargetIsShown == bpc = "judge" /\ ~Clean /\ shown => Latest \in {Raised, 0}

(* The daemon is stopped only inside an isolated arm, also when a trial    *)
(* raises, unless the script was killed there.                             *)
CollectorsResumed ==
  daemon = "stopped" => killed \/ (bpc \notin {"none", "arm"} /\ Clean)

=============================================================================
