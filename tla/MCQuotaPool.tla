----------------------------- MODULE MCQuotaPool -----------------------------
(* Small instances of the quota pool for TLC. *)
EXTENDS QuotaPool

CONSTANTS b1, b2, c1, m1, m2

\* One keyed base with and without the connection suffix.
MCBase == {b1}
MCBoth == {b1, b2}
MCConn == {c1}
MCNone == {}
MCOneLogical == {m1}
MCLogical == {m1, m2}

\* A duration below the minimum, the minimum's successor and a long one.
MCSeconds == {0, 3}
MCShortLong == {1, 3}
=============================================================================
