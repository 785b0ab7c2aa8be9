-------------------------- MODULE ScriptedController --------------------------
(***************************************************************************)
(* The controller without a model (srsran/e4_scripted_controller.py): it   *)
(* raises the AMBR step by step, runs one cycle of a collector of its own  *)
(* after each write, reads the metric back and goes on while the newest    *)
(* record confirms what it wrote.  Its three arms run in order; the last   *)
(* one differs from the second in its collector alone.  The artifact's     *)
(* script starts the daemon before it.                                     *)
(***************************************************************************)
EXTENDS AnalyticsCircuit

CONSTANTS
  Ceiling,      \* the highest rate the script asks for
  MaxSteps,     \* writes of a session
  MinSamples    \* records the KPI analyzer wants before it answers

ASSUME ScriptAssumption ==
  /\ Ceiling \in Rate /\ MinSamples \in 1 .. MaxRecords /\ MaxSteps \in Nat \ {0}
  /\ \A r \in Rate : r + r \div 2 < Ceiling => r + r \div 2 \in Rate

VARIABLES
  spc,      \* "none" without a script, "idle" between two sessions
  arm,
  steps,
  b,        \* the last rate that was accepted and read back
  target    \* the last rate that was written

script == <<spc, arm, steps, b, target>>

ArmOrder == << "open_loop", "closed_loop", "closed_loop_iso" >>
Isolated == arm = "closed_loop_iso"

InitScript ==
  /\ spc = "none" /\ arm = "open_loop" /\ steps = 0
  /\ b = Baseline /\ target = Baseline

StartScript ==
  /\ spc = "none" /\ spc' = "idle" /\ arm' = "open_loop" /\ steps' = 0
  /\ EnsureCollector \/ UNCHANGED <<daemon, faults>>
  /\ UNCHANGED <<ambr, smf, seen, b, target>>

(* What the first write of a session returns is ignored.                   *)
StartSession ==
  /\ spc = "idle" /\ spc' = "tick"
  /\ \/ UNCHANGED arm
     \/ /\ steps > 0
        /\ \E k \in 1 .. Len(ArmOrder) - 1 : arm = ArmOrder[k] /\ arm' = ArmOrder[k + 1]
  /\ steps' = 0 /\ b' = Baseline /\ target' = Baseline /\ Write(Baseline)
  /\ UNCHANGED <<smf, seen, daemon>>

Target == IF b + b \div 2 < Ceiling THEN b + b \div 2 ELSE Ceiling

(* A write that is not accepted ends the session.                          *)
ScriptWrite ==
  /\ spc = "write" /\ target' = Target /\ steps' = steps + 1
  /\ \/ ambr' = Target /\ spc' = "tick" /\ UNCHANGED faults
     \/ Fails("mongo") /\ spc' = "idle" /\ UNCHANGED ambr
  /\ UNCHANGED <<smf, seen, daemon, arm, b>>

ScriptTick ==
  /\ spc = "tick"
  /\ \/ (Stamp(Tick) \/ ReadSessions(Tick)) /\ UNCHANGED spc
     \/ Insert(Tick, Isolated) /\ spc' = IF steps = 0 THEN "write" ELSE "readback"
     \/ CycleFails(Tick) /\ spc' = "none"    \* not caught here: the script ends
  /\ UNCHANGED <<arm, steps, b, target>>

ReadR == IF Len(Records) < MinSamples THEN None ELSE Latest

(* The readback is within five percent of the write.                       *)
Confirms(readback, written) ==
  readback # None /\ 20 * (readback - written) \in 1 - written .. written - 1

ReadBack ==
  /\ spc = "readback" /\ b' = target
  /\ spc' = IF /\ arm # "open_loop" /\ Confirms(ReadR, target)
               /\ target < Ceiling /\ steps < MaxSteps
            THEN "write" ELSE "idle"
  /\ UNCHANGED <<circuit, arm, steps, target>>

EndScript ==
  /\ spc = "idle" /\ Isolated /\ spc' = "none" /\ Write(Baseline)
  /\ UNCHANGED <<smf, seen, daemon, arm, steps, b, target>>

CrashScript ==
  /\ spc # "none" /\ Fails("crash") /\ spc' = "none"
  /\ smf' = Without(Tick) /\ seen' = [seen EXCEPT ![Tick] = None]
  /\ UNCHANGED <<ambr, daemon, arm, steps, b, target>>

NextScript ==
  \/ StartScript \/ StartSession \/ ScriptWrite \/ ScriptTick \/ ReadBack
  \/ EndScript \/ CrashScript

(***************************************************************************)
(* Properties.                                                             *)
(***************************************************************************)
ScriptTypeOK ==
  /\ spc \in {"none", "idle", "write", "tick", "readback"}
  /\ arm \in {ArmOrder[k] : k \in DOMAIN ArmOrder}
  /\ steps \in 0 .. MaxSteps /\ b \in Rate /\ target \in Rate

(* With the standard collector the newest record confirms every accepted   *)
(* write (or shows the 0 of a read that failed), although the daemon runs  *)
(* beside the script and may insert, last, what it read before the write.  *)
FreshReadback ==
  spc = "readback" /\ ~Isolated /\ ReadR \notin {None, 0} => Confirms(ReadR, target)

(* The script says of its third arm that only the collector differs and    *)
(* that the same rule then stops at once: its readback does not confirm    *)
(* what it wrote.                                                          *)
IsolatedNeverConfirms ==
  spc = "readback" /\ Isolated => ~Confirms(ReadR, target)

=============================================================================
