---------------------------- MODULE MCFusionPanel ----------------------------
(* A small panel for TLC. *)
EXTENDS FusionPanel

MCBacked == {1, 3}
=============================================================================
