------------------------------ MODULE UeCeilings ------------------------------
(***************************************************************************)
(* What the enforcement point promises (the declared stand-in for the QER  *)
(* of TS 29.244): every UE has a downlink ceiling of its own, a step moves *)
(* the ceiling of one UE, or lifts all of them.                            *)
(***************************************************************************)
CONSTANTS Ue, Ceiling, Unlimited
VARIABLE ceiling

Init == ceiling = [u \in Ue |-> Unlimited]

Cap(u) == \E c \in Ceiling : ceiling' = [ceiling EXCEPT ![u] = c]

Lift == ceiling' = [u \in Ue |-> Unlimited]

Next == Lift \/ \E u \in Ue : Cap(u)

Spec == Init /\ [][Next]_ceiling

=============================================================================
