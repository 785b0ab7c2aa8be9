------------------------------ MODULE HedgeTune ------------------------------
(***************************************************************************)
(* The calibration of the session budget k* (wave_experiments/shared/      *)
(* hedgetune.py).  A session is the sequence of its measurements, the      *)
(* baseline first, each with the number k of policy calls before it and    *)
(* the quality q of the service, an integer on some scale.                 *)
(***************************************************************************)
EXTENDS Integers, Sequences, FiniteSets

CONSTANT None

Least(S)    == CHOOSE x \in S : \A y \in S : x <= y
Greatest(S) == CHOOSE x \in S : \A y \in S : x >= y

Steps(session) == {session[i].k : i \in DOMAIN session}

(* Mutant: a flat quality counts as a fall.                                *)
FallsFlat(session) ==
  {i \in 2 .. Len(session) : session[i].q <= session[i - 1].q}

(* The measurements whose quality is strictly below the one before.        *)
Falls(session) == {i \in 2 .. Len(session) : session[i].q < session[i - 1].q}

(* The step at which quality first falls, None if it never does.           *)
KDagger(session) ==
  IF Falls(session) = {} THEN None ELSE session[Least(Falls(session))].k

(* calibrate counts a session that never falls at its last step.           *)
Onset(session) ==
  IF KDagger(session) = None THEN Greatest(Steps(session)) ELSE KDagger(session)

(* The sessions that count: one with the baseline alone is left out.       *)
Usable(sessions) == {i \in DOMAIN sessions : Len(sessions[i]) >= 2}

Onsets(sessions) == [i \in Usable(sessions) |-> Onset(sessions[i])]

(* The i-th smallest of the numbers ks[j].                                 *)
Ranked(ks, i) ==
  CHOOSE v \in {ks[j] : j \in DOMAIN ks} :
    /\ Cardinality({j \in DOMAIN ks : ks[j] < v}) < i
    /\ Cardinality({j \in DOMAIN ks : ks[j] <= v}) >= i

(* int(statistics.median(...)) of numbers ks[j], at least one.             *)
Median(ks) ==
  LET n == Cardinality(DOMAIN ks) IN
  IF n % 2 = 1 THEN Ranked(ks, (n + 1) \div 2)
  ELSE (Ranked(ks, n \div 2) + Ranked(ks, n \div 2 + 1)) \div 2

(* k*, or None where statistics.median raises for want of data.            *)
KStar(sessions) ==
  IF Usable(sessions) = {} THEN None ELSE Greatest({1, Median(Onsets(sessions))})

=============================================================================
