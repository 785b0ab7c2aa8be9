------------------------------- MODULE TrialLog -------------------------------
(***************************************************************************)
(* What the checkpoints of a campaign promise: the results of an arm are a *)
(* log that grows by one result at its end, one arm at a time, and what is *)
(* in it never changes, however often the campaign is killed and resumed.  *)
(***************************************************************************)
EXTENDS Naturals, Sequences

CONSTANTS Arm, Size, Result
VARIABLE log

Init == log = [a \in Arm |-> << >>]

Add(a) ==
  /\ Len(log[a]) < Size[a]
  /\ \E r \in Result : log' = [log EXCEPT ![a] = Append(@, r)]

Next == \E a \in Arm : Add(a)

Spec == Init /\ [][Next]_log

=============================================================================
