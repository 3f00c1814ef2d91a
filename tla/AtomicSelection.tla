--------------------------- MODULE AtomicSelection ---------------------------
(***************************************************************************)
(* What the selection of an account promises to concurrent requests: each  *)
(* gets an account as if nobody else selected at the same time, by the use *)
(* all earlier selections recorded.                                         *)
(***************************************************************************)
EXTENDS SelectionRule

CONSTANTS Req, NoConn, MaxTime

VARIABLES
    usage,      \* of every account
    status,     \* of every request
    account     \* the one a request was given, NoConn when it was refused

Init ==
    /\ usage = [c \in Conn |-> Unused]
    /\ status = [r \in Req |-> "idle"]
    /\ account = [r \in Req |-> NoConn]

Answer(r, c) ==
    /\ status' = [status EXCEPT ![r] = "answered"]
    /\ account' = [account EXCEPT ![r] = c]

Ask(r) ==
    /\ status[r] # "waiting"
    /\ status' = [status EXCEPT ![r] = "waiting"]
    /\ account' = [account EXCEPT ![r] = NoConn]
    /\ UNCHANGED usage

\* Under fill-first, or pinned to a preferred account: no use is recorded.
Take(r) ==
    /\ status[r] = "waiting"
    /\ \E c \in Conn : Answer(r, c)
    /\ UNCHANGED usage

\* A round-robin selection counts every selection before it, and is stamped no
\* earlier than any of them.
Rotate(r) ==
    /\ status[r] = "waiting"
    /\ \E A \in SUBSET Conn, t \in 1..MaxTime :
          /\ A # {}
          /\ \A c \in Conn : usage[c].last <= t
          /\ Answer(r, RoundRobin(usage, A).conn)
          /\ usage' = [usage EXCEPT ![RoundRobin(usage, A).conn] =
                          [last |-> t, count |-> RoundRobin(usage, A).count]]

\* No account is available, or the selection threw.
Refuse(r) ==
    /\ status[r] # "idle"
    /\ Answer(r, NoConn)
    /\ UNCHANGED usage

Next == \E r \in Req : Ask(r) \/ Take(r) \/ Rotate(r) \/ Refuse(r)

Spec == Init /\ [][Next]_<<usage, status, account>>
=============================================================================
