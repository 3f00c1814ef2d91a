------------------------- MODULE MCCredentialRefresh -------------------------
(* Small instances of the refresh of credentials for TLC. *)
EXTENDS CredentialRefresh, TLC

CONSTANTS r1, r2, r3, a1, a2

MCReq == {r1, r2, r3}
MCTwo == {r1, r2}
MCAccount == {a1, a2}
MCOne == {a1}
MCAcct == r1 :> a1 @@ r2 :> a1 @@ r3 :> a2
MCFaults == {"response", "crash"}
MCSymmetry == Permutations(MCTwo)
=============================================================================
