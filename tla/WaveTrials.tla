------------------------------ MODULE WaveTrials ------------------------------
(***************************************************************************)
(* What the runners of wave_experiments do to the network: the clean       *)
(* before a step, the trials of an experiment and their resets and waits,  *)
(* beside the collector's daemon.  ops holds the operations left of the    *)
(* trial under way.  The result files of a wave are in WaveCampaign, what  *)
(* a session does inside in AgentSession.                                  *)
(***************************************************************************)
EXTENDS AnalyticsCircuit

CONSTANTS
  Waves,          \* the runs an operator starts: sequences of steps
  Repeats,        \* trials of a step
  WaitCycles,     \* cycles of the daemon that fit into the contamination wait
  Congested,      \* the rate inject_congestion sets
  Probe,          \* the rate the experiments without an agent write
  SessionRate     \* rates an agent writes

(* The operations of a trial, by experiment.  "agent" is the start of a    *)
(* session; "wait" is the contamination wait, "cycle" a shorter one.       *)
GateTrials     == {<<"agent">>, <<"reset", "cycle", "agent">>}
PollTrial      == <<"probe", "poll", "reset", "wait">>        \* Exp 9 A, B
HoldTrial      == <<"probe", "cycle", "reset", "wait">>       \* Exp 9 C, D
TaxonomyTrial  == <<"probe", "cycle", "reset", "wait">>
BenchmarkTrial == <<"probe", "reset">>
PlainTrial     == <<"agent", "reset", "wait">>                \* Exp 2 to 8
LateResetTrial == <<"agent", "wait", "reset">>                \* Exp 1, 15
RecoveryTrial  == <<"congest", "wait", "agent", "reset", "wait">>
ApiTrial       == <<"agent", "reset", "wait">>

(* By step; mm stands for the experiments of run_multimodel.               *)
Protocols ==
  [gates   |-> GateTrials,
   exp9    |-> {PollTrial, HoldTrial},
   exp14   |-> {TaxonomyTrial},
   exp10bc |-> {BenchmarkTrial},
   exp2    |-> {PlainTrial},
   exp1    |-> {LateResetTrial},
   exp13   |-> {RecoveryTrial},
   mm      |-> {ApiTrial}]

ASSUME WaveTrialsAssumption ==
  /\ Waves \subseteq Seq(DOMAIN Protocols) \ {<< >>}
  /\ {Congested, Probe} \cup SessionRate \subseteq Rate /\ Probe > Baseline
  /\ Repeats \in Nat \ {0}
  /\ WaitCycles \in Nat /\ WaitCycles > 1   \* one cycle may have been under way

VARIABLES
  wpc,      \* "off"; "on"; "done"
  wave,     \* the steps left, with the one under way
  nthTrial,
  ops,
  waits,    \* cycles of the daemon still to wait for
  calm      \* ghost: what was done since the rate a session starts with was written:
            \* "set" nothing, "rested" a whole wait, "shaken" a collector failed,
            \* "written" another write; "unset" that write was refused or left out

waveVars == <<wpc, wave, nthTrial, ops, waits, calm>>

InitWave ==
  /\ wpc = "off" /\ wave = << >> /\ nthTrial = 1
  /\ ops = << >> /\ waits = 0 /\ calm = "unset"

At(op) == ops # << >> /\ Head(ops) = op

Then(rest) ==
  /\ ops' = rest
  /\ waits' = IF rest = << >> THEN 0
              ELSE CASE Head(rest) \in {"wait", "pause"} -> WaitCycles
                     [] Head(rest) = "cycle" -> 1
                     [] OTHER -> 0

(***************************************************************************)
(* The loop over steps and trials.                                         *)
(***************************************************************************)
(* Mutant: a step is cleaned of old records only, since every trial resets *)
(* the rate itself.                                                        *)
CleanRecordsOnly(step) ==
  IF step \in {"gates", "exp9", "exp14", "exp10bc"} THEN << >> ELSE <<"trim">>

CleanBefore(step) ==
  CASE step = "mm" -> <<"flush", "reset", "wait", "wait">>
    [] step \in {"gates", "exp9", "exp14", "exp10bc"} -> << >>
    [] OTHER -> <<"reset", "wait", "trim">>

Begin(steps, before) ==
  IF steps = << >> THEN wpc' = "done" /\ wave' = << >> /\ Then(<< >>)
  ELSE /\ wpc' = "on" /\ wave' = steps
       /\ \E p \in Protocols[Head(steps)] : Then(before \o CleanBefore(Head(steps)) \o p)

(* A run that is resumed starts at a later step, or behind the trials that *)
(* are saved.  The runner of the wave cleans everything first.             *)
LaunchWave ==
  /\ wpc = "off"
  /\ \E w \in Waves : \E k \in DOMAIN w :
       Begin(SubSeq(w, k, Len(w)), IF w[k] = "mm" THEN << >> ELSE <<"reset", "wait", "flush">>)
  /\ nthTrial' \in 1 .. Repeats
  /\ EnsureCollector \/ UNCHANGED <<daemon, faults>>
  /\ UNCHANGED <<ambr, smf, seen, calm>>

NextTrial ==
  /\ wpc = "on" /\ ops = << >>
  /\ IF nthTrial < Repeats
     THEN /\ nthTrial' = nthTrial + 1
          /\ \E p \in Protocols[Head(wave)] : Then(p)
          /\ UNCHANGED <<wpc, wave>>
     ELSE nthTrial' = 1 /\ Begin(Tail(wave), << >>)
  /\ UNCHANGED <<circuit, calm>>

(***************************************************************************)
(* The operations of a trial and of a clean.                               *)
(***************************************************************************)
Goes == UNCHANGED <<wpc, wave, nthTrial>> /\ Then(Tail(ops))

(* The reset and the congestion: what the write returns is ignored.        *)
SetRate(op, r) ==
  /\ At(op) /\ Goes /\ Write(r)
  /\ calm' = IF faults' = faults THEN "set" ELSE "unset"
  /\ UNCHANGED <<smf, seen, daemon>>

Disturbed == IF calm = "unset" THEN calm ELSE "written"

ProbeWrite ==
  /\ At("probe") /\ Goes /\ Write(Probe) /\ calm' = Disturbed
  /\ UNCHANGED <<smf, seen, daemon>>

(* Exp 9 polls for its write until a timeout of twelve cycles, after which *)
(* its first phase goes on with the next trial and leaves the reset out.   *)
Poll ==
  /\ At("poll") /\ UNCHANGED <<wpc, wave, nthTrial>>
  /\ \/ Latest # None /\ Latest >= Probe /\ Then(Tail(ops))
     \/ (daemon # "up" \/ ambr # Probe) /\ (Then(Tail(ops)) \/ Then(<< >>))
  /\ UNCHANGED <<circuit, calm>>

(* The agent writes as often as it likes.                                  *)
SessionWrite ==
  /\ At("agent") \/ At("session")
  /\ \E r \in SessionRate : ambr' = r
  /\ ops' = <<"session">> \o Tail(ops) /\ calm' = Disturbed
  /\ UNCHANGED <<smf, seen, daemon, faults, wpc, wave, nthTrial, waits>>

EndOfSession ==
  /\ At("agent") \/ At("session")
  /\ Goes /\ UNCHANGED <<circuit, calm>>

(* Twelve seconds are two cycles of a daemon that runs.                    *)
WaitOver ==
  /\ At("wait") \/ At("cycle") \/ At("pause")
  /\ waits = 0 \/ daemon # "up"
  /\ calm' = IF ~At("cycle") /\ calm = "set" /\ daemon = "up" THEN "rested" ELSE calm
  /\ Goes /\ UNCHANGED circuit

(* All records are deleted, or those older than 120 s; a failure is a      *)
(* warning.                                                                *)
DeleteRecords ==
  /\ At("flush") \/ At("trim")
  /\ \/ /\ \E n \in IF At("trim") THEN 0 .. Len(smf) ELSE {Len(smf)} :
             smf' = Part(smf, {k \in DOMAIN smf : k > n \/ smf[k] \in Collector})
        /\ UNCHANGED faults
     \/ Fails("mongo") /\ UNCHANGED smf
  /\ Goes /\ UNCHANGED <<ambr, seen, daemon, calm>>

(***************************************************************************)
(* Failures.                                                               *)
(***************************************************************************)
(* What is left belongs to a trial, not to a clean.                        *)
TrialUnderWay ==
  /\ wpc = "on" /\ ops # << >> /\ Head(ops) \notin {"flush", "trim"}
  /\ \E p \in Protocols[Head(wave)] : Len(ops) <= Len(p) /\ IsSuffix(Tail(ops), p)

(* A trial raises, or a gate is not passed.  The step has failed and the   *)
(* next one begins, but a gate ends the run, and run_multimodel waits and  *)
(* goes on with the next trial, without a reset.                           *)
TrialRaisesInWave ==
  /\ TrialUnderWay /\ Fails("trial")
  /\ \/ /\ Head(wave) = "gates"
        /\ wpc' = "off" /\ wave' = << >> /\ nthTrial' = 1 /\ Then(<< >>) /\ UNCHANGED calm
     \/ /\ Head(wave) = "mm" /\ (At("agent") \/ At("session"))
        /\ Then(<<"wait">>) /\ calm' = "unset" /\ UNCHANGED <<wpc, wave, nthTrial>>
     \/ /\ Head(wave) \notin {"gates", "mm"}
        /\ Begin(Tail(wave), << >>) /\ nthTrial' = 1 /\ UNCHANGED calm
  /\ UNCHANGED <<ambr, smf, seen, daemon>>

KillWave ==
  /\ wpc = "on" /\ Fails("crash")
  /\ wpc' = "off" /\ wave' = << >> /\ nthTrial' = 1 /\ Then(<< >>)
  /\ UNCHANGED <<ambr, smf, seen, daemon, calm>>

WaveEnded == wpc = "done" /\ UNCHANGED <<circuit, waveVars>>

NextWave ==
  \/ LaunchWave \/ NextTrial \/ SetRate("reset", Baseline) \/ SetRate("congest", Congested)
  \/ ProbeWrite \/ Poll \/ SessionWrite \/ EndOfSession \/ WaitOver \/ DeleteRecords
  \/ TrialRaisesInWave \/ KillWave \/ WaveEnded

(* What a step of the daemon is to a runner that sleeps.                   *)
Elapses ==
  /\ waits' = IF waits > 0 /\ seen[Daemon] # None /\ seen'[Daemon] = None THEN waits - 1 ELSE waits
  /\ calm' = IF faults' # faults /\ calm \in {"set", "rested"} THEN "shaken" ELSE calm
  /\ UNCHANGED <<wpc, wave, nthTrial, ops>>

(***************************************************************************)
(* Properties.                                                             *)
(***************************************************************************)
WaveTypeOK ==
  /\ wpc \in {"off", "on", "done"} /\ nthTrial \in 1 .. Repeats
  /\ wave # << >> <=> wpc = "on"
  /\ waits \in 0 .. WaitCycles
  /\ calm \in {"set", "rested", "shaken", "written", "unset"}

StartRate == IF Head(wave) = "exp13" THEN Congested ELSE Baseline

(* A session of an experiment starts at the rate its protocol sets,        *)
(* whatever earlier trials wrote, raised, or were killed in, unless the    *)
(* write of that rate was refused or run_multimodel left it out; and after *)
(* a whole wait in which no collector failed, no record of an earlier rate *)
(* is the newest one the agent finds.                                      *)
TrialsStartAsSet ==
  wpc = "on" /\ At("agent") /\ Head(wave) # "gates" =>
    /\ calm # "unset" => ambr = StartRate
    /\ calm = "rested" => Latest \in {None, StartRate}

(* exp9_sensitivity.py says of its first phase that it writes a distinct   *)
(* AMBR value: after a first trial, what the poll waits for is not there   *)
(* before the write.                                                       *)
ProbeIsDistinct ==
  At("probe") /\ ops = PollTrial /\ nthTrial > 1 => ambr # Probe

=============================================================================
