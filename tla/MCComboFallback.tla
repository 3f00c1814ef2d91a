--------------------------- MODULE MCComboFallback ---------------------------
(* Small instances of a combo for TLC. *)
EXTENDS ComboFallback

CONSTANTS r1, s1

MCReq == {r1}
MCSession == {s1}
=============================================================================
