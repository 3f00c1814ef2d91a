-------------------------- MODULE AccountSelection --------------------------
(***************************************************************************)
(* getProviderCredentials (src/sse/services/auth.js): concurrent requests  *)
(* select an account of a provider.  selectionMutex is a chain of promises: *)
(* a request replaces the tail by a promise of its own, awaits the old one  *)
(* and resolves its own when it leaves, whatever happened.  In between it   *)
(* reads the accounts and the settings and records the use of the account   *)
(* it picks, each with an await around it.                                  *)
(***************************************************************************)
EXTENDS SelectionRule

CONSTANTS
    Req,        \* requests that select at the same time, again on each retry
    NoConn,     \* no account
    Strategy,   \* the fallback strategies the settings may name
    MaxTime,    \* bound on the clock
    MaxTickets  \* bound on the selections of all requests

ASSUME SelectionAssumption ==
    /\ NoConn \notin Conn
    /\ Strategy \subseteq {"round-robin", "fill-first"}
    /\ MaxTime \in Nat \ {0} /\ MaxTickets \in Nat

VARIABLES
    now,
    usage,          \* lastUsedAt and consecutiveUseCount of every row
    selectionMutex, \* the tail of the chain; promises are numbered
    resolved,       \* the promises resolved so far
    pc,             \* where a request stands in the function
    own,            \* the promise a request put into the chain
    awaited,        \* the one it found there
    available,      \* the accounts that are neither excluded nor locked
    snapshot,       \* the rows it read
    pick,           \* the account and the count it will write
    stamp,          \* the lastUsedAt it will write
    latest          \* the account whose use was recorded last: a ghost

chain == <<selectionMutex, resolved, own, awaited>>
local == <<available, snapshot, pick, stamp>>
vars == <<now, usage, chain, pc, local, latest>>

Step == {"idle", "waiting", "reading", "choosing", "writing", "returning",
         "selected", "refused"}

Critical(r) == pc[r] \in {"reading", "choosing", "writing", "returning"}

Init ==
    /\ now = 1
    /\ usage = [c \in Conn |-> Unused]
    /\ selectionMutex = 0 /\ resolved = {0}
    /\ pc = [r \in Req |-> "idle"]
    /\ own = [r \in Req |-> 0] /\ awaited = [r \in Req |-> 0]
    /\ available = [r \in Req |-> {}]
    /\ snapshot = [r \in Req |-> usage]
    /\ pick = [r \in Req |-> [conn |-> NoConn, count |-> 0]]
    /\ stamp = [r \in Req |-> 0]
    /\ latest = NoConn

Goto(r, step) == pc' = [pc EXCEPT ![r] = step]

\* Mutant of Leave: whoever leaves resolves every promise made so far.
LeaveAll(r, step) ==
    /\ Goto(r, step)
    /\ resolved' = 0..selectionMutex
    /\ UNCHANGED <<selectionMutex, own, awaited>>

\* The finally block.
Leave(r, step) ==
    /\ Goto(r, step)
    /\ resolved' = resolved \cup {own[r]}
    /\ UNCHANGED <<selectionMutex, own, awaited>>

Enter(r) ==
    /\ pc[r] \in {"idle", "selected", "refused"}
    /\ selectionMutex < MaxTickets
    /\ Goto(r, "waiting")
    /\ awaited' = [awaited EXCEPT ![r] = selectionMutex]
    /\ selectionMutex' = selectionMutex + 1
    /\ own' = [own EXCEPT ![r] = selectionMutex + 1]
    /\ UNCHANGED <<now, usage, resolved, local, latest>>

\* Mutant of Acquire: a lock without a queue.
AcquireUnordered(r) ==
    /\ pc[r] = "waiting"
    /\ \A s \in Req : ~Critical(s)
    /\ Goto(r, "reading")
    /\ UNCHANGED <<now, usage, chain, local, latest>>

\* Mutant of Acquire: the promise found in the chain is not awaited.
AcquireAtOnce(r) ==
    /\ pc[r] = "waiting"
    /\ Goto(r, "reading")
    /\ UNCHANGED <<now, usage, chain, local, latest>>

Acquire(r) ==
    /\ pc[r] = "waiting"
    /\ awaited[r] \in resolved
    /\ Goto(r, "reading")
    /\ UNCHANGED <<now, usage, chain, local, latest>>

\* The accounts the request may use are those it has not tried and that are not
\* locked for its model; with none the function returns at once.
Read(r, A) ==
    /\ pc[r] = "reading"
    /\ snapshot' = [snapshot EXCEPT ![r] = usage]
    /\ available' = [available EXCEPT ![r] = A]
    /\ IF A = {}
         THEN Leave(r, "refused")
         ELSE Goto(r, "choosing") /\ UNCHANGED chain
    /\ UNCHANGED <<now, usage, pick, stamp, latest>>

Settle(r, c) ==
    /\ pc[r] = "choosing"
    /\ pick' = [pick EXCEPT ![r] = [conn |-> c, count |-> 0]]
    /\ Goto(r, "returning")
    /\ UNCHANGED <<now, usage, chain, available, snapshot, stamp, latest>>

\* The preferred account, when it is available: nothing is written.
Pin(r) == \E c \in available[r] : Settle(r, c)

FillFirst(r) == "fill-first" \in Strategy /\ Settle(r, First(available[r]))

Rotate(r) ==
    /\ pc[r] = "choosing"
    /\ "round-robin" \in Strategy
    /\ pick' = [pick EXCEPT ![r] = RoundRobin(snapshot[r], available[r])]
    /\ stamp' = [stamp EXCEPT ![r] = now]
    /\ Goto(r, "writing")
    /\ UNCHANGED <<now, usage, chain, available, snapshot, latest>>

\* updateProviderConnection merges the two fields into the row.
Write(r) ==
    /\ pc[r] = "writing"
    /\ usage' = [usage EXCEPT ![pick[r].conn] =
                    [last |-> stamp[r], count |-> pick[r].count]]
    /\ latest' = pick[r].conn
    /\ Goto(r, "returning")
    /\ UNCHANGED <<now, chain, local>>

Return(r) ==
    /\ pc[r] = "returning"
    /\ Leave(r, "selected")
    /\ UNCHANGED <<now, usage, local, latest>>

\* Mutant of Throw: the promise is not resolved in a finally block.
ThrowUnresolved(r) ==
    /\ Critical(r)
    /\ Goto(r, "refused")
    /\ UNCHANGED <<now, usage, chain, local, latest>>

\* A read of the rows, the settings or the proxy, or the write, throws.
Throw(r) ==
    /\ Critical(r)
    /\ Leave(r, "refused")
    /\ UNCHANGED <<now, usage, local, latest>>

Tick ==
    /\ now < MaxTime
    /\ now' = now + 1
    /\ UNCHANGED <<usage, chain, pc, local, latest>>

Select(r) ==
    \/ Acquire(r)
    \/ \E A \in SUBSET Conn : Read(r, A)
    \/ Pin(r)
    \/ FillFirst(r)
    \/ Rotate(r)
    \/ Write(r)
    \/ Return(r)

Next == Tick \/ \E r \in Req : Enter(r) \/ Select(r) \/ Throw(r)

Spec == Init /\ [][Next]_vars

\* The event loop resumes every continuation that can run.
FairSpec == Spec /\ \A r \in Req : WF_vars(Select(r))

-----------------------------------------------------------------------------
\* The values of every variable.
TypeOK ==
    /\ now \in Nat \ {0}
    /\ usage \in [Conn -> Use]
    /\ selectionMutex \in Nat
    /\ resolved \subseteq 0..selectionMutex
    /\ pc \in [Req -> Step]
    /\ own \in [Req -> 0..selectionMutex]
    /\ awaited \in [Req -> 0..selectionMutex]
    /\ available \in [Req -> SUBSET Conn]
    /\ snapshot \in [Req -> [Conn -> Use]]
    /\ pick \in [Req -> [conn : Conn \cup {NoConn}, count : Nat]]
    /\ stamp \in [Req -> 0..now]
    /\ latest \in Conn \cup {NoConn}

\* No two requests are between the read of the accounts and the record of the
\* use: "Mutex to prevent race conditions during account selection".
MutualExclusion ==
    \A r, s \in Req : Critical(r) /\ Critical(s) => r = s

\* Requests select in the order in which they called: one that got past the
\* mutex is never overtaken by one that came later, even after a throw.
Active(r) == pc[r] = "waiting" \/ Critical(r)

FirstComeFirstServed ==
    \A r, s \in Req :
        Critical(s) /\ Active(r) /\ r # s => own[s] < own[r]

\* The record of an account's use never goes back in time and never loses a
\* selection: with the awaits and the throws taken out, requests select one
\* after the other on the use recorded so far.
status ==
    [r \in Req |->
        CASE pc[r] = "idle" -> "idle"
          [] pc[r] \in {"returning", "selected", "refused"} -> "answered"
          [] OTHER -> "waiting"]

account ==
    [r \in Req |->
        IF pc[r] \in {"returning", "selected"} THEN pick[r].conn ELSE NoConn]

Atomic == INSTANCE AtomicSelection WITH
    Conn <- Conn, StickyLimit <- StickyLimit, Req <- Req, NoConn <- NoConn,
    MaxTime <- MaxTime, usage <- usage, status <- status, account <- account

SelectsAtomically == Atomic!Spec

\* A rotation moves on: the account whose turns are over is not picked again
\* while another is available, except one used in the same millisecond.  "Pick
\* the least recently used (excluding current if possible)".
Rotates ==
    \A r \in Req :
        /\ pc[r] = "writing" /\ pc'[r] = "returning"
        /\ usage'[pick[r].conn].count = 1
        /\ pick[r].conn = latest
        => \A c \in available[r] : usage[c].last = usage[latest].last

RotationMovesOn == [][Rotates]_vars

\* A request that calls is answered, whatever the others do or throw.
EveryRequestAnswered ==
    \A r \in Req : pc[r] = "waiting" ~> pc[r] \in {"selected", "refused"}
=============================================================================
