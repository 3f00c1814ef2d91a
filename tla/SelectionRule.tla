---------------------------- MODULE SelectionRule ----------------------------
(***************************************************************************)
(* The strategies of getProviderCredentials (src/sse/services/auth.js): how *)
(* an account is chosen among the available ones from what the rows say of *)
(* their use.  An account is its priority, which orders the rows a read     *)
(* returns; reorderInTx keeps priorities distinct.                          *)
(***************************************************************************)
EXTENDS Integers, FiniteSets

CONSTANTS
    Conn,           \* the accounts of a provider
    StickyLimit     \* stickyRoundRobinLimit

ASSUME RuleAssumption ==
    /\ Conn \subseteq Nat /\ IsFiniteSet(Conn)
    /\ StickyLimit \in Nat \ {0}

\* lastUsedAt, 0 when the account was never used, and consecutiveUseCount.
Use == [last : Nat, count : Nat]

Unused == [last |-> 0, count |-> 0]

First(A) == CHOOSE c \in A : \A d \in A : c <= d

\* Mutant of LeastRecent: sorted the wrong way.
LeastRecentReversed(u, A) == First({c \in A : \A d \in A : u[d].last <= u[c].last})

\* Sorting is stable, so accounts used in the same millisecond keep the order
\* of their priority in both sorts.
MostRecent(u, A) == First({c \in A : \A d \in A : u[d].last <= u[c].last})
LeastRecent(u, A) == First({c \in A : \A d \in A : u[c].last <= u[d].last})

\* The account used last is kept until it has been used StickyLimit times.
Stays(u, A) ==
    LET current == MostRecent(u, A)
    IN  u[current].last # 0 /\ u[current].count < StickyLimit

RoundRobin(u, A) ==
    IF Stays(u, A)
      THEN [conn |-> MostRecent(u, A), count |-> u[MostRecent(u, A)].count + 1]
      ELSE [conn |-> LeastRecent(u, A), count |-> 1]
=============================================================================
