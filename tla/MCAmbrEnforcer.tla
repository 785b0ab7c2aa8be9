---------------------------- MODULE MCAmbrEnforcer ----------------------------
(***************************************************************************)
(* Two UEs of the pool, with last octets 2 and 3, and three rates of which *)
(* the smallest is raised to the floor.                                    *)
(***************************************************************************)
EXTENDS AmbrEnforcer, TLC

CONSTANTS ue2, ue3

MCUe        == {ue2, ue3}
MCLastOctet == (ue2 :> 2) @@ (ue3 :> 3)
SameOctet   == (ue2 :> 2) @@ (ue3 :> 2)
MCRate      == {0, 200, 600}

=============================================================================
