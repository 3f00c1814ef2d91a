--------------------------- MODULE MCAccountLocks ---------------------------
(* Small instances of the account locks for TLC. *)
EXTENDS AccountLocks, TLC

CONSTANTS r1, r2, c1, c2, m1, m2

MCOneReq == {r1}
MCTwoReq == {r1, r2}
MCOneConn == {c1}
MCTwoConn == {c1, c2}
MCOneModel == {m1}
MCTwoModel == {m1, m2}
MCResetIn == {1, 4}
MCEveryFailure == {"rateLimit", "fixed", "reset", "unauthorized", "client"}
MCLimits == {"rateLimit", "unauthorized"}
MCSymmetry == Permutations(Req) \cup Permutations(Conn) \cup Permutations(Model)
=============================================================================
