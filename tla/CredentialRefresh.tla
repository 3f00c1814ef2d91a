-------------------------- MODULE CredentialRefresh --------------------------
(***************************************************************************)
(* How concurrent requests refresh the OAuth credentials of their accounts *)
(* (open-sse/services/oauthCredentialManager.js, tokenRefresh.js,          *)
(* tokenRefresh/dedup.js, oauthAntiBan.js).  A request reads the row of its *)
(* account, refreshes ahead of expiry or on a 401 or 403 with the refresh   *)
(* token it read, and writes what it got back into the row.  The refresh    *)
(* is shared twice: by a lock per account, kept in a bounded LRU map, and by *)
(* a cache per refresh token.  The provider may rotate the token on every   *)
(* use; tokens are numbered in the order it issues them.                    *)
(***************************************************************************)
EXTENDS Integers, FiniteSets

CONSTANTS
    Req, Account,
    acct,           \* the account a request was given
    Rotating,       \* the accounts whose provider replaces a token on use
    NoReq,          \* no request holds the lock
    LockCap,        \* refreshLocksMaxSize
    SlotCap,        \* perAccountMaxConcurrency
    Ttl,            \* REFRESH_RESULT_TTL_MS
    MaxAttempts,    \* maxRetries of refreshWithRetry
    MaxVersion,     \* bound on the tokens an account is issued
    MaxTime,        \* bound on the clock
    Faults          \* which of "write", "response", "crash" may go wrong, once

ASSUME RefreshAssumption ==
    /\ acct \in [Req -> Account] /\ Rotating \subseteq Account
    /\ NoReq \notin Req /\ IsFiniteSet(Req)
    /\ LockCap \in Nat \ {0} /\ SlotCap \in Nat \ {0}
    /\ Ttl \in Nat /\ MaxAttempts \in Nat \ {0}
    /\ MaxVersion \in Nat \ {0} /\ MaxTime \in Nat
    /\ Faults \subseteq {"write", "response", "crash"}

VARIABLES
    now,
    row,        \* the refresh token in the database
    valid,      \* the one the provider accepts
    pc,         \* where a request stands
    cred,       \* the refresh token it read or was given
    attempt,    \* of refreshWithRetry, 0 when it refreshes ahead of expiry
    awaiting,   \* whose refresh it awaits
    lock,       \* refreshLocks: who refreshes an account
    held, slots,\* inFlight: who holds a slot, and the count per account
    dedup,      \* refreshDedupCache
    rotatedAt,  \* when the provider retired a token, since the start: a ghost
    newest,     \* the newest token the row ever held: a ghost
    faulty      \* whether anything went wrong yet: a ghost

request == <<cred, attempt, awaiting>>
guards == <<lock, held, slots>>
ghosts == <<rotatedAt, newest, faulty>>
vars == <<now, row, valid, pc, request, guards, dedup, ghosts>>

Version == 1..MaxVersion

\* What a refresh returns besides a token: nothing, or an error that says the
\* token is spent.
Null == 0
Unrecoverable == -1

Result == Version \cup {Null, Unrecoverable}

NoEntry == [state |-> "none", result |-> Null, until |-> 0]

Entry == [state : {"none", "flight", "cached"}, result : Result, until : Nat]

Step == {"idle", "sending", "waiting", "jitter", "joined", "fetching",
         "backoff", "persisting"}

\* The request runs the refresh others may await.
Running(r) == pc[r] \in {"jitter", "joined", "fetching"}

\* Timers and the network are served when no promise reaction is left to run.
Drained == \A r \in Req : pc[r] # "persisting"

Init ==
    /\ now = 0
    /\ row = [a \in Account |-> 1] /\ valid = row /\ newest = row
    /\ pc = [r \in Req |-> "idle"]
    /\ cred = [r \in Req |-> Null]
    /\ attempt = [r \in Req |-> 0]
    /\ awaiting = [r \in Req |-> NoReq]
    /\ lock = [a \in Account |-> NoReq]
    /\ held = [r \in Req |-> FALSE] /\ slots = [a \in Account |-> 0]
    /\ dedup = [a \in Account |-> [v \in Version |-> NoEntry]]
    /\ rotatedAt = [a \in Account |-> [v \in Version |-> MaxTime]]
    /\ faulty = FALSE

-----------------------------------------------------------------------------
\* The lock.

Locked == {a \in Account : lock[a] # NoReq}

\* A new entry pushes another one out of a full map, the least recently used one
\* in the code and any one here; whoever holds that one refreshes on.
Evict(r, a) ==
    \/ /\ Cardinality(Locked) < LockCap
       /\ lock' = [lock EXCEPT ![a] = r]
    \/ /\ Cardinality(Locked) >= LockCap
       /\ \E b \in Locked : lock' = [lock EXCEPT ![b] = NoReq, ![a] = r]

\* Mutant of TakeSlot: the cap is looked at after the slot is counted.
TakeSlotPastCap(r, a) ==
    \E enabled \in BOOLEAN :
        LET free == enabled /\ slots[a] <= SlotCap
        IN  /\ held' = [held EXCEPT ![r] = free]
            /\ slots' = [slots EXCEPT ![a] = @ + (IF free THEN 1 ELSE 0)]

\* The settings may switch the guards on and off at any time.  Nobody queues for
\* a slot: at the cap the refresh runs without one.
TakeSlot(r, a) ==
    \E enabled \in BOOLEAN :
        LET free == enabled /\ slots[a] < SlotCap
        IN  /\ held' = [held EXCEPT ![r] = free]
            /\ slots' = [slots EXCEPT ![a] = @ + (IF free THEN 1 ELSE 0)]

\* withCredentialRefreshLock: await the refresh of the account that is in
\* progress, or begin one and sleep for the jitter.
Refresh(r) ==
    LET a == acct[r]
    IN  \/ /\ lock[a] # NoReq
           /\ pc' = [pc EXCEPT ![r] = "waiting"]
           /\ awaiting' = [awaiting EXCEPT ![r] = lock[a]]
           /\ UNCHANGED guards
        \/ /\ lock[a] = NoReq
           /\ pc' = [pc EXCEPT ![r] = "jitter"]
           /\ Evict(r, a)
           /\ TakeSlot(r, a)
           /\ UNCHANGED awaiting

\* Where a request goes on with the result of the refresh it awaited.
After(r, result) ==
    CASE result > 0 -> "persisting"
      [] result <= 0 /\ attempt[r] = 0 -> "sending"
      [] result = Null /\ attempt[r] \in 1..(MaxAttempts - 1) -> "backoff"
      [] OTHER -> "idle"

\* The entry is deleted by its key, whoever it belongs to by now.
Unlocked(a, result) == [lock EXCEPT ![a] = NoReq]

\* Mutant of Awaits: only those whose refresh is still in the map are answered.
AwaitsLocked(T) ==
    {w \in Req : pc[w] = "waiting" /\ awaiting[w] \in T /\ lock[acct[w]] \in T}

Awaits(T) == {w \in Req : pc[w] = "waiting" /\ awaiting[w] \in T}

\* The refreshes T of an account end with the same result.
Finish(T, a, result) ==
    LET W == T \cup Awaits(T)
    IN  /\ pc' = [w \in Req |-> IF w \in W THEN After(w, result) ELSE pc[w]]
        /\ cred' = [w \in Req |->
                        CASE w \in W /\ result > 0 -> result
                          [] w \in W /\ After(w, result) = "idle" -> Null
                          [] OTHER -> cred[w]]
        /\ attempt' = [w \in Req |->
                           IF w \in W /\ After(w, result) = "idle" THEN 0 ELSE attempt[w]]
        /\ awaiting' = [w \in Req |-> IF w \in W THEN NoReq ELSE awaiting[w]]
        /\ lock' = Unlocked(a, result)
        /\ held' = [w \in Req |-> held[w] /\ w \notin T]
        /\ slots' = [slots EXCEPT ![a] = @ - Cardinality({t \in T : held[t]})]

-----------------------------------------------------------------------------
\* Requests.

\* A request reads its row and refreshes at once when the token is about to
\* expire or has not been refreshed for too long; otherwise it is sent.
Start(r) ==
    /\ Drained /\ pc[r] = "idle"
    /\ cred' = [cred EXCEPT ![r] = row[acct[r]]]
    /\ \/ Refresh(r)
       \/ pc' = [pc EXCEPT ![r] = "sending"] /\ UNCHANGED <<awaiting, guards>>
    /\ UNCHANGED <<now, row, valid, attempt, dedup, ghosts>>

Respond(r) ==
    /\ Drained /\ pc[r] = "sending"
    /\ pc' = [pc EXCEPT ![r] = "idle"]
    /\ cred' = [cred EXCEPT ![r] = Null]
    /\ UNCHANGED <<now, row, valid, attempt, awaiting, guards, dedup, ghosts>>

\* A 401 or 403: refresh with the token the request has had since it started.
Unauthorized(r) ==
    /\ Drained /\ pc[r] = "sending"
    /\ attempt' = [attempt EXCEPT ![r] = 1]
    /\ Refresh(r)
    /\ UNCHANGED <<now, row, valid, cred, dedup, ghosts>>

\* The next attempt, after a second or two, or later when the loop is busy.
Retry(r) ==
    /\ Drained /\ pc[r] = "backoff"
    /\ attempt' = [attempt EXCEPT ![r] = @ + 1]
    /\ Refresh(r)
    /\ UNCHANGED <<now, row, valid, cred, dedup, ghosts>>

\* Mutant of PresentJoin: two refreshes with one token both ask the provider.
PresentJoinNot(r, entry) ==
    /\ entry.state = "flight"
    /\ pc' = [pc EXCEPT ![r] = "fetching"]
    /\ UNCHANGED <<request, guards, dedup>>

PresentJoin(r, entry) ==
    /\ entry.state = "flight"
    /\ pc' = [pc EXCEPT ![r] = "joined"]
    /\ UNCHANGED <<request, guards, dedup>>

\* Mutant of Recent: only a token that was returned is kept.
RecentToken(entry) == entry.state = "cached" /\ entry.until > now /\ entry.result > 0

Recent(entry) == entry.state = "cached" /\ entry.until > now

\* dedupRefresh: join the call in flight for the token, take a result that is
\* recent, or ask the provider.
Present(r) ==
    /\ Drained /\ pc[r] = "jitter"
    /\ LET a == acct[r]
           entry == dedup[a][cred[r]]
       IN  \/ PresentJoin(r, entry)
           \/ /\ Recent(entry)
              /\ Finish({r}, a, entry.result)
              /\ UNCHANGED dedup
           \/ /\ entry.state # "flight" /\ ~Recent(entry)
              /\ pc' = [pc EXCEPT ![r] = "fetching"]
              /\ dedup' = [dedup EXCEPT ![a][cred[r]] = [NoEntry EXCEPT !.state = "flight"]]
              /\ UNCHANGED <<request, guards>>
    /\ UNCHANGED <<now, row, valid, ghosts>>

\* The provider's answer reaches every refresh with the same token.
Resolve(r, result) ==
    LET a == acct[r]
        v == cred[r]
        T == {r} \cup {t \in Req : pc[t] = "joined" /\ acct[t] = a /\ cred[t] = v}
    IN  /\ dedup' = [dedup EXCEPT ![a][v] =
                        [state |-> "cached", result |-> result, until |-> now + Ttl]]
        /\ Finish(T, a, result)

\* The token is good and the provider replaces it; the response may get lost.
Rotate(r) ==
    LET a == acct[r]
    IN  /\ Drained /\ pc[r] = "fetching"
        /\ a \in Rotating /\ cred[r] = valid[a] /\ valid[a] < MaxVersion
        /\ valid' = [valid EXCEPT ![a] = @ + 1]
        /\ rotatedAt' = [rotatedAt EXCEPT ![a][cred[r]] = now]
        /\ \/ Resolve(r, valid[a] + 1) /\ UNCHANGED faulty
           \/ "response" \in Faults /\ ~faulty /\ Resolve(r, Null)
              /\ faulty' = TRUE
        /\ UNCHANGED <<now, row, newest>>

\* The provider hands out an access token and lets the refresh token be, or
\* fails for the moment, or refuses a token that it has replaced.
Keep(r) ==
    /\ Drained /\ pc[r] = "fetching"
    /\ \/ cred[r] = valid[acct[r]] /\ Resolve(r, cred[r])
       \/ Resolve(r, Null)
       \/ cred[r] # valid[acct[r]] /\ Resolve(r, Unrecoverable)
    /\ UNCHANGED <<now, row, valid, ghosts>>

\* Where a request goes on when its credentials are written.
Onward(r) == IF attempt[r] = 0 THEN "sending" ELSE "idle"

\* Mutant of Written: a request that was refused keeps the new token to itself.
WrittenAhead(r) == IF attempt[r] = 0 THEN cred[r] ELSE row[acct[r]]

Written(r) == cred[r]

\* updateProviderCredentials; a failed write is logged and forgotten.
Persist(r) ==
    /\ pc[r] = "persisting"
    /\ pc' = [pc EXCEPT ![r] = Onward(r)]
    /\ cred' = [cred EXCEPT ![r] = IF Onward(r) = "idle" THEN Null ELSE @]
    /\ attempt' = [attempt EXCEPT ![r] = 0]
    /\ \/ /\ row' = [row EXCEPT ![acct[r]] = Written(r)]
          /\ newest' = [newest EXCEPT ![acct[r]] =
                           IF row'[acct[r]] > @ THEN row'[acct[r]] ELSE @]
          /\ UNCHANGED faulty
       \/ "write" \in Faults /\ ~faulty /\ faulty' = TRUE /\ UNCHANGED <<row, newest>>
    /\ UNCHANGED <<now, valid, awaiting, guards, dedup, rotatedAt>>

Tick ==
    /\ Drained /\ now < MaxTime
    /\ now' = now + 1
    /\ UNCHANGED <<row, valid, pc, request, guards, dedup, ghosts>>

\* The process dies, between an answer and its write too; the row is kept.
Crash ==
    /\ "crash" \in Faults /\ ~faulty
    /\ faulty' = TRUE
    /\ pc' = [r \in Req |-> "idle"]
    /\ lock' = [a \in Account |-> NoReq]
    /\ held' = [r \in Req |-> FALSE] /\ slots' = [a \in Account |-> 0]
    /\ dedup' = [a \in Account |-> [v \in Version |-> NoEntry]]
    /\ rotatedAt' = [a \in Account |-> [v \in Version |-> MaxTime]]
    /\ cred' = [r \in Req |-> Null] /\ attempt' = [r \in Req |-> 0]
    /\ awaiting' = [r \in Req |-> NoReq]
    /\ UNCHANGED <<now, row, valid, newest>>

\* What the event loop, the timers and the provider's answers do for a request.
Progress(r) ==
    \/ Respond(r) \/ Unauthorized(r) \/ Retry(r)
    \/ Present(r) \/ Rotate(r) \/ Keep(r) \/ Persist(r)

Next ==
    \/ \E r \in Req : Start(r) \/ Progress(r)
    \/ Tick \/ Crash

Spec == Init /\ [][Next]_vars

-----------------------------------------------------------------------------
\* The values of every variable.
TypeOK ==
    /\ now \in Nat
    /\ row \in [Account -> Version] /\ valid \in [Account -> Version]
    /\ pc \in [Req -> Step]
    /\ cred \in [Req -> Version \cup {Null}]
    /\ attempt \in [Req -> 0..MaxAttempts]
    /\ awaiting \in [Req -> Req \cup {NoReq}]
    /\ lock \in [Account -> Req \cup {NoReq}]
    /\ held \in [Req -> BOOLEAN] /\ slots \in [Account -> Nat]
    /\ dedup \in [Account -> [Version -> Entry]]
    /\ rotatedAt \in [Account -> [Version -> Nat]]
    /\ newest \in [Account -> Version] /\ faulty \in BOOLEAN

\* Every entry of refreshLocks is a refresh that runs, of that account, though
\* entries are evicted and deleted by key: one left behind would hand every
\* later request the result of a refresh long past.
LocksRun == \A a \in Account :
    lock[a] # NoReq => Running(lock[a]) /\ acct[lock[a]] = a

\* A request that awaits a refresh awaits one that runs, evicted or not.
WaitersHaveRefresh ==
    \A r \in Req : pc[r] = "waiting" =>
        awaiting[r] \in Req /\ Running(awaiting[r]) /\ acct[awaiting[r]] = acct[r]

\* The provider never sees two calls with one refresh token at once, even when
\* the map of locks is full and an account is refreshed twice.
SingleFlight ==
    \A r, s \in Req :
        /\ pc[r] = "fetching" /\ pc[s] = "fetching"
        /\ acct[r] = acct[s] /\ cred[r] = cred[s]
        => r = s

\* The count of an account is that of the refreshes that hold a slot, within the
\* cap, whichever way they end and though the setting changes in between.
SlotsBalanced ==
    /\ \A a \in Account :
          /\ slots[a] = Cardinality({r \in Req : held[r] /\ acct[r] = a})
          /\ slots[a] <= SlotCap
    /\ \A r \in Req : held[r] => Running(r)

\* A token that the provider has replaced is not presented again for as long as
\* the result is kept, not even when the response was lost on the way.  Later it
\* is, by a request that has not read its row since.
Replays(r) ==
    /\ pc[r] # "fetching" /\ pc'[r] = "fetching"
    /\ cred[r] # valid[acct[r]]

ReplaysLate ==
    \A r \in Req : Replays(r) /\ rotatedAt[acct[r]][cred[r]] < MaxTime
                   => now >= rotatedAt[acct[r]][cred[r]] + Ttl

NoReplayWhileKept == [][ReplaysLate]_vars

\* Unless something fails, every token the provider issues reaches the row
\* before the next event is served.
IssuedTokenWritten == Drained /\ ~faulty => newest = valid
=============================================================================
