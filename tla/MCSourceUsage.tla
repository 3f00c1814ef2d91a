----------------------------- MODULE MCSourceUsage -----------------------------
(* Small instances of the use of a source, for TLC. *)
EXTENDS SourceUsage, TLC

CONSTANTS r1, r2

MCReq == {r1, r2}
MCLearnable == {1}
MCSymmetry == Permutations(Req)
=============================================================================
