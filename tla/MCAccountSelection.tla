------------------------- MODULE MCAccountSelection -------------------------
(* Small instances of the selection of an account for TLC. *)
EXTENDS AccountSelection

CONSTANTS r1, r2, r3

MCTwo == {r1, r2}
MCThree == {r1, r2, r3}
MCConn == {1, 2}
MCStrategy == {"round-robin", "fill-first"}
MCRoundRobin == {"round-robin"}
=============================================================================
