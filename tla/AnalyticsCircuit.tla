--------------------------- MODULE AnalyticsCircuit ---------------------------
(***************************************************************************)
(* The way a written AMBR comes back as an analytic: collectors (the       *)
(* daemon of collector/collector.py and the single cycles a script runs)   *)
(* publish the subscribers' rate in smf_metrics, and readers take the      *)
(* newest records by timestamp.  A cycle stamps its record first, reads    *)
(* the rate after that and inserts the record last, so a record can appear *)
(* behind newer ones.  smf is in the order of the stamps; in place of a    *)
(* record that is not inserted yet it holds the name of its collector.     *)
(***************************************************************************)
EXTENDS Integers, SequencesExt, SequenceParts

CONSTANTS
  None,
  Daemon, Tick,   \* the collectors: the daemon, a script's own cycle
  Rate,           \* rates of the slice, in Mbps
  Baseline,
  MaxRecords,     \* bound: only the newest records are kept
  Fault,          \* subset of {"mongo", "ping", "kill", "crash", "trial", "pause"}
  MaxFaults       \* bound: faults

Collector == {Daemon, Tick}

ASSUME CircuitAssumption ==
  /\ Baseline \in Rate /\ Rate \subseteq Nat \ {0}
  /\ Fault \subseteq {"mongo", "ping", "kill", "crash", "trial", "pause"} /\ MaxFaults \in Nat
  /\ Daemon # Tick /\ None \notin Collector \cup Nat /\ Collector \cap Nat = {}
  /\ MaxRecords \in Nat /\ MaxRecords > 2    \* room for a record beside two under way

VARIABLES
  ambr,     \* the rate in the subscriber documents of the slice
  smf,      \* smf_metrics, the documents that have ambr_dl_mean
  seen,     \* [collector -> the rate its cycle has read], None before that
  daemon,   \* "none"; "up"; "stopped" by a signal; "dead": its thread has ended
  faults    \* bound

circuit == <<ambr, smf, seen, daemon, faults>>

Records  == Part(smf, {k \in DOMAIN smf : smf[k] \notin Collector})
UnderWay == Part(smf, {k \in DOMAIN smf : smf[k] \in Collector})
Latest   == IF Records = << >> THEN None ELSE Last(Records)
Running(c) == \E i \in DOMAIN smf : smf[i] = c

InitCircuit ==
  /\ ambr \in Rate
  /\ smf \in {<< >>} \cup {<<r, r>> : r \in Rate}
  /\ seen = [c \in Collector |-> None] /\ daemon = "none" /\ faults = 0

Fails(kind) == kind \in Fault /\ faults < MaxFaults /\ faults' = faults + 1

(* A write through the policy tool; one that fails leaves the rate.        *)
Write(r) ==
  \/ ambr' = r /\ UNCHANGED faults
  \/ Fails("mongo") /\ UNCHANGED ambr

Without(c) == Part(smf, {k \in DOMAIN smf : smf[k] # c})

(* The store bounded: the oldest record makes room.                        *)
Bounded(s) ==
  LET records == {k \in DOMAIN s : s[k] \notin Collector}
  IN IF Len(s) <= MaxRecords \/ records = {} THEN s
     ELSE Part(s, DOMAIN s \ {Min(records)})

(***************************************************************************)
(* One cycle of a collector.                                               *)
(***************************************************************************)
(* Mutant: the stamp is taken when the record is inserted, not before the  *)
(* rate is read.                                                           *)
StampedAtInsert(c) ==
  Bounded(Append(Without(c), seen[c]))

(* Mutant: the sessions are read once and kept.                            *)
SessionsCached == IF Latest \in Rate THEN Latest ELSE ambr

Sessions == ambr

Stamp(c) ==
  /\ ~Running(c)
  /\ smf' = Bounded(Append(smf, c))
  /\ UNCHANGED <<ambr, seen, daemon, faults>>

(* A failed read is caught: there are no sessions, and their mean is 0.    *)
ReadSessions(c) ==
  /\ Running(c) /\ seen[c] = None
  /\ \/ seen' = [seen EXCEPT ![c] = Sessions] /\ UNCHANGED faults
     \/ Fails("mongo") /\ seen' = [seen EXCEPT ![c] = 0]
  /\ UNCHANGED <<ambr, smf, daemon>>

Inserted(c) == [i \in DOMAIN smf |-> IF smf[i] = c THEN seen[c] ELSE smf[i]]

(* The isolated collector's record has no field derived from a policy.     *)
Insert(c, isolated) ==
  /\ Running(c) /\ seen[c] # None
  /\ smf' = IF isolated THEN Without(c) ELSE Inserted(c)
  /\ seen' = [seen EXCEPT ![c] = None]
  /\ UNCHANGED <<ambr, daemon, faults>>

(* An insert that raises; the daemon logs it and goes on.                  *)
CycleFails(c) ==
  /\ Running(c) /\ seen[c] # None /\ Fails("mongo")
  /\ smf' = Without(c) /\ seen' = [seen EXCEPT ![c] = None]
  /\ UNCHANGED <<ambr, daemon>>

DaemonCycle ==
  /\ daemon = "up"
  /\ Stamp(Daemon) \/ ReadSessions(Daemon) \/ Insert(Daemon, FALSE) \/ CycleFails(Daemon)

(***************************************************************************)
(* The daemon's life.                                                      *)
(***************************************************************************)
(* ensure_collector: a process that is there, with or without its thread,  *)
(* is left alone.  The thread of a new one ends if its first ping fails.   *)
EnsureCollector ==
  \/ daemon # "none" /\ UNCHANGED <<daemon, faults>>
  \/ daemon = "none" /\ daemon' = "up" /\ UNCHANGED faults
  \/ daemon = "none" /\ Fails("ping") /\ daemon' = "dead"

KillDaemon ==
  /\ daemon \in {"up", "stopped"} /\ Fails("kill") /\ daemon' = "none"
  /\ smf' = Without(Daemon) /\ seen' = [seen EXCEPT ![Daemon] = None]
  /\ UNCHANGED ambr

(***************************************************************************)
(* Properties.                                                             *)
(***************************************************************************)
CircuitTypeOK ==
  /\ ambr \in Rate /\ daemon \in {"none", "up", "stopped", "dead"} /\ faults \in 0 .. MaxFaults
  /\ smf \in Seq(Rate \cup {0} \cup Collector) /\ Len(Records) <= MaxRecords
  /\ seen \in [Collector -> Rate \cup {0, None}]
  /\ \A c \in Collector : /\ Cardinality({i \in DOMAIN smf : smf[i] = c}) <= 1
                          /\ seen[c] # None => Running(c)

=============================================================================
