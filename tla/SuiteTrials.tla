------------------------------ MODULE SuiteTrials ------------------------------
(***************************************************************************)
(* The suites of experiments outside the waves: the decomposition of an    *)
(* AMBR change (V4) and the collector's feedback (V7) of                   *)
(* experiments_suite_v2 and reproduce_all, with the autonomous (E4.4,      *)
(* E4.8), the proxy (E4.7) and the cross experiments.  A suite reads and   *)
(* keeps rates, writes them through the policy tool, waits for the         *)
(* feasibility checker's cooldown and for collectors, and asks both what   *)
(* they see.  It uses ops, waits and calm of WaveTrials for the operations *)
(* it has left; what it computes from the answers is left out.             *)
(***************************************************************************)
EXTENDS WaveTrials

CONSTANTS
  Suites,       \* subset of the domain of Programs
  Steps,        \* steps of a decomposition; five or four in the code
  Small, Large  \* what a step and a whole change add, in percent

(* "pause" outlasts the cooldown, "wait" and "cycle" do not; "tick" is a   *)
(* cycle of the suite's own collector; "judge", "sweep" and "check" ask    *)
(* the feasibility checker.                                                *)
Threshold  == <<"find", "pause", "base", "look", "pause", "sweep">>                   \* E4.1
Decompose  == <<"keep">> \o Times(Steps, <<"judge", "step", "pause", "look">>) \o <<"put">>   \* E4.2
Control    == <<"keep", "pause", "check">>                                            \* E4.3
Autonomous == <<"keep">> \o Times(Repeats, <<"put", "cycle", "agent">>) \o <<"put">>  \* E4.4
Truth      == <<"keep", "pause", "leap", "put">>                                      \* E4.5

(* Mutant: the single step is asked for right behind the decomposition.    *)
DecompositionNoPause == Threshold \o Decompose \o <<"keep", "check">> \o Truth

Decomposition == Threshold \o Decompose \o Control \o Truth

(* E7.2 to E7.4: the first raise is not undone.  show lets a collector     *)
(* publish it, more is the pause the script of the suite adds.             *)
Feedback(show, more) ==
  <<"keep", "raise", show, "pause", "mask", "unmask">> \o more \o
  <<"keep", "raise", show, "read", "put", "pause">>

Isolation(show, last) ==
  <<"keep", "raise">> \o show \o <<"put", "pause", "raise">> \o last \o <<"put", "pause">>   \* E7.6

Latency == <<"keep", "raise", "wait", "put">>                                         \* ablation

Proxy == <<"flush", "tick">>
           \o Times(Repeats, <<"reset", "pause", "tick", "read">>
                               \o Times(Steps, <<"climb", "pause", "tick">>) \o <<"read", "reset">>)
Temperature == Times(Repeats, <<"reset", "pause", "agent">>) \o <<"reset">>           \* E4.8
Amplified == <<"flush", "tick">>
               \o Times(Repeats, <<"reset", "pause", "climb", "tick", "agent">>) \o <<"reset">>
Chained == <<"flush", "tick">>
             \o Times(Repeats, <<"reset", "pause", "agent", "tick">>) \o <<"reset">>

(* By program.  E7.6 is skipped without a second database server.          *)
Programs ==
  [v4       |-> {Decomposition \o <<"pause", "restore">>},                            \* run_v4
   v4_llm   |-> {<<"find", "base", "look", "pause">> \o Autonomous \o <<"pause", "restore">>},
   v7       |-> {<<"find">> \o Feedback("wait", <<"pause">>) \o i \o Latency
                   \o <<"compare", "pause", "restore">> :
                   i \in {<< >>, Isolation(<< >>, <<"wait">>)}},
   all_v4   |-> {Decomposition},                                                      \* run_all_v4
   all_v7   |-> {Feedback("tick", << >>) \o i \o Latency :
                   i \in {<< >>, Isolation(<<"tick">>, << >>)}},
   upf      |-> {<<"keep", "probe", "put">>},                                         \* E4.7a
   proxy    |-> {Proxy},                                                              \* E4.7c
   autonomy |-> {Temperature},
   cross_1  |-> {Amplified},
   cross_2  |-> {Chained}]

ASSUME SuiteAssumption ==
  /\ Suites \subseteq DOMAIN Programs
  /\ Steps \in Nat \ {0} /\ Small \in Nat /\ Large \in Nat

VARIABLES
  suite,    \* the program under way, or "off"
  found,    \* the rate it found, to be restored
  own,      \* the rate an experiment found or climbs from
  cooling,  \* an apply_policy record of the slice is younger than the cooldown
  masked,   \* the records E7.4b has taken out
  ended,    \* ghost: the program that ended with no write refused, or "none",
            \* and the rate at its launch
  refused   \* ghost: a write of this program was refused

suiteVars == <<suite, found, own, cooling, masked, ended, refused>>

NoEnd == <<"none", None>>

InitSuite ==
  /\ suite = "off" /\ found = None /\ own = None /\ cooling = FALSE
  /\ masked = << >> /\ ended = NoEnd /\ refused = FALSE

On == suite # "off"

(* The policy tool keeps whole units: a rate is rounded down to one.       *)
Grown(r, percent) == Max({q \in Rate : 100 * q <= r * (100 + percent)})

GivesBack == {"v4", "v4_llm", "v7", "all_v4"}   \* those whose end is compared with their launch

LaunchSuite ==
  /\ ~On
  /\ \E s \in Suites : \E p \in Programs[s] :
       suite' = s /\ Then(p) /\ ended' = <<"none", IF s \in GivesBack THEN ambr ELSE None>>
  /\ EnsureCollector \/ UNCHANGED <<daemon, faults>>
  /\ UNCHANGED <<ambr, smf, seen, wpc, wave, nthTrial, calm, found, own, cooling, masked, refused>>

(***************************************************************************)
(* Reading and writing the rate.                                           *)
(***************************************************************************)
Find ==
  /\ On /\ At("find") /\ Goes /\ found' = ambr
  /\ UNCHANGED <<circuit, calm, suite, own, cooling, masked, ended, refused>>

Keep ==
  /\ On /\ At("keep") /\ Goes /\ own' = ambr
  /\ UNCHANGED <<circuit, calm, suite, found, cooling, masked, ended, refused>>

(* What a write returns is ignored; the attempt is on record either way.   *)
Apply(op, r) ==
  /\ On /\ At(op) /\ Goes /\ Write(r) /\ cooling' = TRUE
  /\ calm' = IF faults' = faults THEN "set" ELSE "unset"
  /\ refused' = (refused \/ faults' # faults)
  /\ UNCHANGED <<smf, seen, daemon, suite, found, masked, ended>>

SuiteWrite ==
  \/ Apply("base", Baseline) /\ UNCHANGED own
  \/ Apply("put", own) /\ UNCHANGED own
  \/ Apply("raise", Grown(own, Small)) /\ UNCHANGED own
  \/ Apply("leap", Grown(own, Large)) /\ UNCHANGED own
  \/ Apply("step", Grown(ambr, Small)) /\ UNCHANGED own     \* read anew for each step
  \/ Apply("probe", Probe) /\ UNCHANGED own
  \/ Apply("restore", found) /\ UNCHANGED own
  \/ Apply("reset", Baseline) /\ own' = Baseline
  \/ Apply("climb", Grown(own, Small)) /\ own' = Grown(own, Small)

(* The end of run_v7 writes only when the rate is another one.             *)
Compare ==
  /\ On /\ At("compare")
  /\ IF ambr = found THEN Then(<< >>) ELSE Then(Tail(ops))
  /\ UNCHANGED <<circuit, calm, wpc, wave, nthTrial, suiteVars>>

(***************************************************************************)
(* The feasibility checker.                                                *)
(***************************************************************************)
(* A sweep that finds no change allowed, in the cooldown or at a critical  *)
(* load, ends the experiments that need its threshold.                     *)
Sweep ==
  /\ On /\ At("sweep")
  /\ \/ ~cooling /\ Then(Tail(ops))
     \/ Then(IF suite = "v4" THEN <<"pause", "restore">> ELSE << >>)
  /\ UNCHANGED <<circuit, calm, wpc, wave, nthTrial, suiteVars>>

(* A step that is refused is neither written nor waited for.               *)
Judge ==
  /\ On /\ At("judge")
  /\ \/ ~cooling /\ Then(Tail(ops))
     \/ Then(SubSeq(ops, 4, Len(ops)))
  /\ UNCHANGED <<circuit, calm, wpc, wave, nthTrial, suiteVars>>

(* Answers that are only reported: E4.3's, the newest record, the rate.    *)
Observe ==
  /\ On
  /\ At("check") \/ At("read") \/ At("look")
  /\ Goes /\ UNCHANGED <<circuit, calm, suiteVars>>

(***************************************************************************)
(* Waits, collectors and sessions.                                         *)
(***************************************************************************)
Sleep ==
  /\ On /\ WaitOver /\ cooling' = (cooling /\ ~At("pause"))
  /\ UNCHANGED <<suite, found, own, masked, ended, refused>>

(* A cycle that fails is a warning.                                        *)
SuiteTick ==
  /\ On /\ At("tick")
  /\ \/ /\ Stamp(Tick) \/ ReadSessions(Tick)
        /\ calm' = IF faults' # faults /\ calm = "rested" THEN "shaken" ELSE calm
        /\ UNCHANGED <<ops, waits, wpc, wave, nthTrial>>
     \/ /\ Insert(Tick, FALSE) /\ Goes
        /\ calm' = IF calm = "set" /\ seen[Tick] = ambr THEN "rested" ELSE calm
     \/ CycleFails(Tick) /\ Goes /\ UNCHANGED calm
  /\ UNCHANGED suiteVars

Purges == On /\ DeleteRecords /\ UNCHANGED suiteVars

(* E7.4b takes the newest records out and puts them back with their stamps,*)
(* before the ones the daemon has stamped since.                           *)
Mask ==
  /\ On /\ At("mask") /\ Goes /\ masked' = Records
  /\ smf' = UnderWay
  /\ UNCHANGED <<ambr, seen, daemon, faults, calm, suite, found, own, cooling, ended, refused>>

Unmask ==
  /\ On /\ At("unmask") /\ Goes /\ masked' = << >>
  /\ smf' = LET s == masked \o smf IN SubSeq(s, Max({1, Len(s) - MaxRecords + 1}), Len(s))
  /\ UNCHANGED <<ambr, seen, daemon, faults, calm, suite, found, own, cooling, ended, refused>>

SuiteSession ==
  /\ On
  /\ \/ SessionWrite /\ cooling' = TRUE
     \/ EndOfSession /\ UNCHANGED cooling
  /\ UNCHANGED <<suite, found, own, masked, ended, refused>>

(***************************************************************************)
(* The end of a program, and its failures.                                 *)
(***************************************************************************)
Leave(as) ==
  /\ suite' = "off" /\ found' = None /\ own' = None /\ masked' = << >>
  /\ ended' = as /\ refused' = FALSE /\ calm' = "unset"
  /\ Then(<< >>) /\ UNCHANGED <<wpc, wave, nthTrial, cooling>>

SuiteOver ==
  /\ On /\ ops = << >> /\ UNCHANGED circuit
  /\ Leave(IF refused THEN NoEnd ELSE <<suite, ended[2]>>)

(* What a session raises is caught, by E4.4 or by run_agent.               *)
SessionRaises ==
  /\ On
  /\ At("agent") \/ At("session")
  /\ Fails("trial") /\ Goes
  /\ UNCHANGED <<ambr, smf, seen, daemon, calm, suiteVars>>

(* A read that fails is not, nor the way to and from the masked records.   *)
StoreRaises ==
  /\ On /\ ops # << >> /\ Head(ops) \in {"find", "keep", "look", "mask", "unmask", "compare"}
  /\ Fails("mongo") /\ Leave(NoEnd) /\ UNCHANGED <<ambr, smf, seen, daemon>>

KillSuite ==
  /\ On /\ Fails("crash") /\ Leave(NoEnd)
  /\ smf' = Without(Tick) /\ seen' = [seen EXCEPT ![Tick] = None]
  /\ UNCHANGED <<ambr, daemon>>

NextSuite ==
  \/ LaunchSuite \/ Find \/ Keep \/ SuiteWrite \/ Compare \/ Sweep \/ Judge \/ Observe
  \/ Sleep \/ SuiteTick \/ Purges \/ Mask \/ Unmask \/ SuiteSession
  \/ SuiteOver \/ SessionRaises \/ StoreRaises \/ KillSuite

(***************************************************************************)
(* Properties.                                                             *)
(***************************************************************************)
SuiteTypeOK ==
  /\ suite \in Suites \cup {"off"} /\ {found, own} \subseteq Rate \cup {None}
  /\ cooling \in BOOLEAN /\ refused \in BOOLEAN /\ Len(masked) <= MaxRecords
  /\ ended[2] \in Rate \cup {None}

(* No answer of the feasibility checker that a suite reports is one of its *)
(* cooldown (exp_config.py, V4_COOLDOWN_WAIT_SEC): every wait stands where *)
(* an earlier write, of the suite or of a program before it, would still   *)
(* block the question.                                                     *)
GateJudgesRates == At("sweep") \/ At("judge") \/ At("check") => ~cooling

(* The stages of the decomposition and the sessions of a suite start from  *)
(* one rate, whatever earlier stages and sessions wrote, if no write of    *)
(* the program was refused.                                                *)
StagesStartAlike ==
  On /\ ~refused =>
    /\ At("agent") => ambr = IF suite = "cross_1" THEN Grown(Baseline, Small) ELSE Baseline
    /\ At("keep") /\ suite \in {"v4", "all_v4", "v4_llm"} => ambr = Baseline

(* What a session or E7.4c finds as the newest record is the rate written, *)
(* after a wait in which no collector failed or a cycle of the suite's     *)
(* own, also behind records that were masked and put back.                 *)
ReadsAreFresh ==
  On /\ (At("agent") \/ At("read")) /\ calm = "rested" => Latest = ambr

(* The scripts of experiments_suite_v2 leave the rate they found.          *)
RateGivenBack ==
  ended[1] \in {"v4", "v4_llm", "v7"} => ambr = ended[2]

(* exp_config.py says of the baseline of the decomposition that it is      *)
(* reset after E4.6.                                                       *)
BaselineIsReset ==
  ended[1] = "all_v4" => ambr = ended[2]

=============================================================================
