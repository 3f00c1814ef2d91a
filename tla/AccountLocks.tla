---------------------------- MODULE AccountLocks ----------------------------
(***************************************************************************)
(* The locks on accounts (src/sse/services/auth.js with                    *)
(* open-sse/services/accountFallback.js) and the loop of a request over the *)
(* accounts of its provider, which every handler has.                       *)
(*                                                                         *)
(* A request picks an account that is not locked for its model and keeps   *)
(* the row it read.  When the upstream fails, the account is marked: its   *)
(* backoff level is read, then the lock, the level and the status are      *)
(* written.  When it succeeds, the error state is cleared by what the row  *)
(* said when the account was picked.  A 401 also marks the whole account in *)
(* the background (open-sse/services/authReverify.js).                      *)
(***************************************************************************)
EXTENDS Integers, FiniteSets, FiniteSetsExt

CONSTANTS
    Conn,           \* the accounts of the provider
    Model,          \* its models
    All,            \* the key of requests that name no model
    NoConn,
    Req,            \* concurrent requests
    Failure,        \* how an upstream may fail
    ResetIn,        \* times to reset a provider may report, in ticks
    MaxReset,       \* MAX_RATE_LIMIT_COOLDOWN_MS
    Base,           \* BACKOFF_CONFIG.base
    MaxBackoff,     \* BACKOFF_CONFIG.max
    MaxLevel,       \* BACKOFF_CONFIG.maxLevel
    Fixed,          \* the cooldown of a rule without backoff
    Window,         \* REVERIFY_DEDUP_MS
    Reverifies,     \* whether the handler reverifies on a 401: chat.js does
    MaxTime,        \* bound on the clock
    MaxRequests     \* bound on the requests

ASSUME LockAssumption ==
    /\ NoConn \notin Conn /\ All \notin Model
    /\ IsFiniteSet(Conn)
    /\ Failure \subseteq {"rateLimit", "fixed", "reset", "unauthorized", "client"}
    /\ ResetIn \subseteq Nat \ {0}
    /\ {MaxReset, Base, MaxBackoff, MaxLevel, Fixed} \subseteq Nat \ {0}
    /\ Window \in Nat \ {0}
    /\ {MaxTime, MaxRequests} \subseteq Nat
    /\ Reverifies \in BOOLEAN

Key == Model \cup {All}

\* A field a row never had, and one that was set to null.
Absent == -2
Null == -1

VARIABLES
    now,
    row,        \* of every account: lock and backoff by key, and testStatus
    pc,         \* where a request stands
    model,      \* the key it was made with
    exclude,    \* the accounts it tried
    conn,       \* the one it is using
    seen,       \* the row of that account when it was picked
    mark,       \* the lock and the level it will write
    retryAfter, \* what it was told when every account was locked, or Null
    reverify,   \* of every account: the background mark and when it started
    requests,   \* made so far
    contended   \* the accounts used while someone else was using or marking
                \* them: a ghost

request == <<pc, model, exclude, conn, seen, mark, retryAfter, requests>>
background == <<reverify, contended>>
vars == <<now, row, request, background>>

Row == [lock : [Key -> Int], backoff : [Key -> Int],
        status : {"active", "unavailable"}]

Untouched == [lock |-> [k \in Key |-> Absent], backoff |-> [k \in Key |-> Absent],
              status |-> "active"]

NoMark == [until |-> Null, level |-> Null]
NoReverify == [step |-> "idle", at |-> Null, mark |-> NoMark]

Init ==
    /\ now = 1
    /\ row = [c \in Conn |-> Untouched]
    /\ pc = [r \in Req |-> "idle"]
    /\ model = [r \in Req |-> All]
    /\ exclude = [r \in Req |-> {}]
    /\ conn = [r \in Req |-> NoConn]
    /\ seen = [r \in Req |-> Untouched]
    /\ mark = [r \in Req |-> NoMark]
    /\ retryAfter = [r \in Req |-> Null]
    /\ reverify = [c \in Conn |-> NoReverify]
    /\ requests = 0
    /\ contended = {}

Goto(r, step) == pc' = [pc EXCEPT ![r] = step]

Using(r, c) == conn[r] = c /\ pc[r] \in {"sent", "marking", "marking401"}

\* Ghost: whether another request is using c, or the background is marking it.
Contend(r, c) ==
    contended' = IF \/ \E s \in Req \ {r} : Using(s, c)
                    \/ reverify[c].step # "idle"
                 THEN contended \cup {c} ELSE contended

-----------------------------------------------------------------------------
\* The locks (accountFallback.js).

Running(until) == until > now

\* The lock of the model is looked at first, and the lock of the account only
\* when the model has none: a lock that expired still counts as one.
LockOf(w, k) == IF w.lock[k] > 0 THEN w.lock[k] ELSE w.lock[All]

IsModelLockActive(w, k) == Running(LockOf(w, k))

\* Mutant of RunningLocks: expired locks are not filtered out.
EveryLock(w) == {w.lock[k] : k \in {j \in Key : w.lock[j] > 0}}

RunningLocks(w) == {w.lock[k] : k \in {j \in Key : Running(w.lock[j])}}

QuotaCooldown(level) ==
    LET wait == Base * 2^(level - 1)
    IN  IF wait < MaxBackoff THEN wait ELSE MaxBackoff

\* What a failure makes of a backoff level: the level to write and how long to
\* lock for.  A missing level counts as 0.
Level(w, k) == IF w.backoff[k] > 0 THEN w.backoff[k] ELSE 0

Lowest(a, b) == IF a < b THEN a ELSE b

Marks(failure, level) ==
    CASE failure = "rateLimit" ->
            LET next == Lowest(level + 1, MaxLevel)
            IN  {[until |-> now + QuotaCooldown(next), level |-> next]}
      [] failure = "reset" ->
            {[until |-> now + Lowest(d, MaxReset), level |-> 0] : d \in ResetIn}
      [] OTHER -> {[until |-> now + Fixed, level |-> level]}

Marked(w, k, m) ==
    [w EXCEPT !.lock[k] = m.until, !.backoff[k] = m.level, !.status = "unavailable"]

-----------------------------------------------------------------------------
\* The loop of a request.

Start(r, k) ==
    /\ pc[r] \in {"idle", "answered"}
    /\ requests < MaxRequests
    /\ requests' = requests + 1
    /\ Goto(r, "selecting")
    /\ model' = [model EXCEPT ![r] = k]
    /\ exclude' = [exclude EXCEPT ![r] = {}]
    /\ conn' = [conn EXCEPT ![r] = NoConn]
    /\ retryAfter' = [retryAfter EXCEPT ![r] = Null]
    /\ UNCHANGED <<now, row, seen, mark, background>>

Available(r) ==
    {c \in Conn \ exclude[r] : ~IsModelLockActive(row[c], model[r])}

\* getProviderCredentials, whichever strategy picks.
Select(r, c) ==
    /\ pc[r] = "selecting"
    /\ c \in Available(r)
    /\ Goto(r, "sent")
    /\ conn' = [conn EXCEPT ![r] = c]
    /\ seen' = [seen EXCEPT ![r] = row[c]]
    /\ Contend(r, c)
    /\ UNCHANGED <<now, row, model, exclude, mark, retryAfter, requests, reverify>>

\* The accounts are all locked or tried; the time to retry at is that of the
\* first lock of any model to expire on a locked account.
GiveUp(r) ==
    LET locked == {c \in Conn : IsModelLockActive(row[c], model[r])}
        expiries == UNION {RunningLocks(row[c]) : c \in locked}
    IN  /\ pc[r] = "selecting"
        /\ Available(r) = {}
        /\ Goto(r, "answered")
        /\ retryAfter' = [retryAfter EXCEPT ![r] =
                             IF expiries = {} THEN Null ELSE Min(expiries)]
        /\ UNCHANGED <<now, row, model, exclude, conn, seen, mark, requests, background>>

\* Mutant of LocksToClear: the locks of other models are cleared as well.
LocksToClearAny(w, k) == {j \in Key : w.lock[j] # Absent}

\* clearAccountError: every decision is made on the row as it was picked.
LocksToClear(w, k) ==
    {j \in Key : /\ w.lock[j] # Absent
                 /\ \/ k # All /\ j \in {k, All}
                    \/ w.lock[j] > 0 /\ ~Running(w.lock[j])}

BackoffsToClear(w, k) ==
    {j \in Key : \/ k # All /\ j = k /\ w.backoff[j] # Absent
                 \/ w.backoff[j] = 0}

NothingToClear(w, k) ==
    /\ LocksToClear(w, k) = {} /\ BackoffsToClear(w, k) = {}
    /\ w.status # "unavailable"

\* Mutant of LocksLeft: nobody asks whether other models are still locked.
LocksLeftNone(w, k) == {}

LocksLeft(w, k) ==
    {j \in Key \ LocksToClear(w, k) : w.lock[j] # Absent /\ Running(w.lock[j])}

Cleared(w, old, k) ==
    [lock |-> [j \in Key |-> IF j \in LocksToClear(old, k) THEN Null ELSE w.lock[j]],
     backoff |-> [j \in Key |-> IF old.backoff[j] # Absent THEN Null
                                ELSE w.backoff[j]],
     status |-> IF LocksLeft(old, k) = {} THEN "active" ELSE w.status]

Succeed(r) ==
    /\ pc[r] = "sent"
    /\ Goto(r, "answered")
    /\ row' = IF NothingToClear(seen[r], model[r]) THEN row
              ELSE [row EXCEPT ![conn[r]] = Cleared(@, seen[r], model[r])]
    /\ UNCHANGED <<now, model, exclude, conn, seen, mark, retryAfter, requests, background>>

\* The request itself was wrong: no other account is tried.
Reject(r) ==
    /\ pc[r] = "sent"
    /\ "client" \in Failure
    /\ Goto(r, "answered")
    /\ UNCHANGED <<now, row, model, exclude, conn, seen, mark, retryAfter, requests,
                   background>>

\* markAccountUnavailable up to its await: the level is read now and the lock
\* is computed from it.
MarkRead(r, failure) ==
    /\ pc[r] = "sent"
    /\ failure \in Failure \ {"client"}
    /\ \E m \in Marks(failure, Level(row[conn[r]], model[r])) :
          mark' = [mark EXCEPT ![r] = m]
    /\ Goto(r, IF failure = "unauthorized" THEN "marking401" ELSE "marking")
    /\ UNCHANGED <<now, row, model, exclude, conn, seen, retryAfter, requests, background>>

\* triggerReverify: once per account and window.
Trigger(r, c) ==
    IF Reverifies /\ (reverify[c].at = Null \/ now - reverify[c].at >= Window)
      THEN /\ reverify' = [reverify EXCEPT ![c] = [step |-> "reading", at |-> now,
                                                   mark |-> NoMark]]
           /\ Contend(r, c)
      ELSE UNCHANGED background

\* The write, and the next turn of the loop without this account.
MarkWrite(r) ==
    /\ pc[r] \in {"marking", "marking401"}
    /\ row' = [row EXCEPT ![conn[r]] = Marked(@, model[r], mark[r])]
    /\ exclude' = [exclude EXCEPT ![r] = @ \cup {conn[r]}]
    /\ Goto(r, "selecting")
    /\ IF pc[r] = "marking401" THEN Trigger(r, conn[r]) ELSE UNCHANGED background
    /\ UNCHANGED <<now, model, conn, seen, mark, retryAfter, requests>>

\* performReverify marks the account without naming a model.
ReverifyRead(c) ==
    /\ reverify[c].step = "reading"
    /\ \E m \in Marks("unauthorized", Level(row[c], All)) :
          reverify' = [reverify EXCEPT ![c].step = "writing", ![c].mark = m]
    /\ UNCHANGED <<now, row, request, contended>>

ReverifyWrite(c) ==
    /\ reverify[c].step = "writing"
    /\ row' = [row EXCEPT ![c] = Marked(@, All, reverify[c].mark)]
    /\ reverify' = [reverify EXCEPT ![c].step = "idle", ![c].mark = NoMark]
    /\ UNCHANGED <<now, request, contended>>

\* A background mark is two local calls, over long before its window is.
Tick ==
    /\ now < MaxTime
    /\ \A c \in Conn : reverify[c].step = "idle"
    /\ now' = now + 1
    /\ UNCHANGED <<row, request, background>>

Advance(r) ==
    \/ \E c \in Conn : Select(r, c)
    \/ GiveUp(r)
    \/ Succeed(r)
    \/ Reject(r)
    \/ \E failure \in Failure : MarkRead(r, failure)
    \/ MarkWrite(r)

Next ==
    \/ \E r \in Req, k \in Key : Start(r, k)
    \/ \E r \in Req : Advance(r)
    \/ \E c \in Conn : ReverifyRead(c) \/ ReverifyWrite(c)
    \/ Tick

Spec == Init /\ [][Next]_vars

-----------------------------------------------------------------------------
\* The values of every variable; no level is above the highest.
MarkType == [until : {Null} \cup Nat, level : Null..MaxLevel]

TypeOK ==
    /\ now \in Nat \ {0}
    /\ row \in [Conn -> Row]
    /\ \A c \in Conn, k \in Key : /\ row[c].lock[k] >= Absent
                                 /\ row[c].backoff[k] \in Absent..MaxLevel
    /\ pc \in [Req -> {"idle", "selecting", "sent", "marking", "marking401",
                       "answered"}]
    /\ model \in [Req -> Key]
    /\ exclude \in [Req -> SUBSET Conn]
    /\ conn \in [Req -> Conn \cup {NoConn}]
    /\ seen \in [Req -> Row]
    /\ mark \in [Req -> MarkType]
    /\ retryAfter \in [Req -> {Null} \cup Nat]
    /\ reverify \in [Conn -> [step : {"idle", "reading", "writing"},
                              at : {Null} \cup Nat, mark : MarkType]]
    /\ requests \in 0..MaxRequests
    /\ contended \subseteq Conn

\* "All accounts unavailable" comes with a time to retry at exactly when an
\* account is locked for the model, and that time lies ahead and not after the
\* moment the first of those accounts can be used again.
TellsWhen(r) ==
    LET locked == {c \in Conn : IsModelLockActive(row[c], model[r])}
    IN  pc[r] = "selecting" /\ pc'[r] = "answered" =>
          IF locked = {} THEN retryAfter'[r] = Null
          ELSE /\ Running(retryAfter'[r])
               /\ \A c \in locked : retryAfter'[r] <= LockOf(row[c], model[r])

RetryNotTooLate == [][\A r \in Req : TellsWhen(r)]_vars

\* "Resets error state only if no active locks remain": an account that is reported
\* healthy has no lock running, through every mixture of models, failures, expiries
\* and successes, when no two requests, and no request and background mark, ever
\* used it at a time.  Of others it does not hold: a success looks at the locks of
\* the row as it was picked, and another request may have locked it since.
Honest(c) == row[c].status = "active" => RunningLocks(row[c]) = {}

HonestUncontended == \A c \in Conn \ contended : Honest(c)

\* Nor does a success on such an account unlock a model that is still locked: it
\* clears its own lock, that of the account, and "lazy-cleans any other expired"
\* ones.
SucceedsFor(r, c) == pc[r] = "sent" /\ pc'[r] = "answered" /\ conn[r] = c

ClearsOnlyExpired ==
    \A c \in Conn \ contended, k \in Key :
        Running(row[c].lock[k]) /\ row'[c].lock[k] = Null =>
           \E r \in Req : SucceedsFor(r, c) /\ k \in {model[r], All}

ClearOnlyExpired == [][ClearsOnlyExpired]_vars
=============================================================================
