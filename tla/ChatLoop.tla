------------------------------ MODULE ChatLoop ------------------------------
(***************************************************************************)
(* handleSingleModelChat (src/sse/handlers/chat.js): one chat request tries *)
(* the accounts of its provider until one answers.  It meets the account   *)
(* locks of AccountLocks and the cooldowns of QuotaPool, here one expiry per *)
(* account each, while other requests lock and cool the same accounts.     *)
(*                                                                         *)
(* A turn of the loop checks the time budget, may prefer a source of the   *)
(* quota pool, selects an account, skips it or sends the request, and reads *)
(* the outcome.                                                             *)
(***************************************************************************)
EXTENDS Integers, FiniteSets

CONSTANTS
    Conn,       \* accounts of the provider
    Keyed,      \* those with an API key, the only ones a preference can skip
    Elsewhere,  \* sources of the logical model that are none of these accounts
    NoConn,
    Pooled,     \* quotaPoolEnabled
    Weighted,   \* providerLimitsEnabled as well
    Budget,     \* FALLBACK_TIME_BUDGET_MS
    MaxFakes,   \* F3_MAX_RETRIES
    Cooldown,   \* how long anything locks or cools an account, in ticks
    MaxTime     \* bound on the clock

ASSUME LoopAssumption ==
    /\ IsFiniteSet(Conn) /\ Keyed \subseteq Conn
    /\ NoConn \notin Conn \cup Elsewhere /\ Elsewhere \cap Conn = {}
    /\ {Pooled, Weighted} \subseteq BOOLEAN /\ (Weighted => Pooled)
    /\ {Budget, MaxTime, Cooldown} \subseteq Nat
    /\ MaxFakes \in Nat \ {0}

VARIABLES
    now,            \* since the request came in
    lock,           \* the lock of every account for the request's model
    cooling,        \* the cooldown of its source in the quota pool
    pc,
    exclude,        \* excludeConnectionIds
    skipped,        \* c1WeightedExcludes
    preferred,      \* c1PreferredSource
    disabled,       \* c1WeightedDisabled
    conn,           \* the account of this turn
    locked,         \* whether its row, as it was read, had a lock
    fakes,          \* f3FakeRetryCount
    tried,          \* the accounts the request was sent to: a ghost
    reply

accounts == <<lock, cooling>>
weights == <<skipped, preferred, disabled>>
pick == <<conn, locked>>
vars == <<now, accounts, pc, exclude, weights, pick, fakes, tried, reply>>

Init ==
    /\ now = 0
    /\ lock = [c \in Conn |-> 0] /\ cooling = [c \in Conn |-> 0]
    /\ pc = "top"
    /\ exclude = {} /\ skipped = {} /\ preferred = NoConn /\ disabled = FALSE
    /\ conn = NoConn /\ locked = FALSE /\ fakes = 0 /\ tried = {} /\ reply = "none"

Answer(what) == pc' = "answered" /\ reply' = what

\* Mutant of WithoutConn: the accounts tried before are forgotten.
WithoutConnOnly ==
    /\ pc' = "top"
    /\ exclude' = {conn}
    /\ conn' = NoConn
    /\ UNCHANGED <<locked, reply>>

\* The next turn, without the account of this one.
WithoutConn ==
    /\ pc' = "top"
    /\ exclude' = exclude \cup {conn}
    /\ conn' = NoConn
    /\ UNCHANGED <<locked, reply>>

Longer(until) == IF until > now + Cooldown THEN until ELSE now + Cooldown
Cool(c) == cooling' = [cooling EXCEPT ![c] = Longer(@)]

\* Mutant of Top: the budget is not looked at.
TopUnbudgeted ==
    /\ pc = "top"
    /\ pc' = IF Weighted /\ ~disabled THEN "preferring" ELSE "choosing"
    /\ UNCHANGED <<now, accounts, exclude, weights, pick, fakes, tried, reply>>

\* The budget is looked at once a turn, before anything is awaited.
Top ==
    /\ pc = "top"
    /\ IF now > Budget
         THEN Answer("budget")
         ELSE /\ pc' = IF Weighted /\ ~disabled THEN "preferring" ELSE "choosing"
              /\ UNCHANGED reply
    /\ UNCHANGED <<now, accounts, exclude, weights, pick, fakes, tried>>

\* selectSourceWithSticky, which may poll a cooling source for a while and may
\* return any source of the logical model or none.  A new preference gives the
\* skipped accounts another chance.
Prefer(s) ==
    /\ pc = "preferring"
    /\ preferred' = s
    /\ skipped' = IF NoConn \in {s, preferred} \/ s = preferred THEN skipped ELSE {}
    /\ pc' = "choosing"
    /\ UNCHANGED <<now, accounts, exclude, disabled, pick, fakes, tried, reply>>

PreferThrows ==
    /\ pc = "preferring"
    /\ preferred' = NoConn /\ disabled' = TRUE
    /\ pc' = "choosing"
    /\ UNCHANGED <<now, accounts, exclude, skipped, pick, fakes, tried, reply>>

\* getProviderCredentials.
Excluded == exclude \cup (IF preferred = NoConn THEN {} ELSE skipped)

Usable == {c \in Conn \ Excluded : lock[c] <= now}

\* Nothing is left because of the preference: it is given up.
FailOpen ==
    /\ pc = "choosing"
    /\ Usable = {} /\ skipped # {}
    /\ skipped' = {} /\ preferred' = NoConn /\ disabled' = TRUE
    /\ pc' = "top"
    /\ UNCHANGED <<now, accounts, exclude, pick, fakes, tried, reply>>

\* Mutant of Refuse: the preference is not given up first.
RefuseSkipped ==
    /\ pc = "choosing"
    /\ Usable = {}
    /\ Answer("unavailable")
    /\ UNCHANGED <<now, accounts, exclude, weights, pick, fakes, tried>>

Refuse ==
    /\ pc = "choosing"
    /\ Usable = {} /\ skipped = {}
    /\ Answer("unavailable")
    /\ UNCHANGED <<now, accounts, exclude, weights, pick, fakes, tried>>

\* Two accounts are skipped at most before one is taken as it comes.
Unwanted(c) ==
    /\ preferred # NoConn
    /\ c \in Keyed /\ c # preferred
    /\ Cardinality(skipped) < 2

Skip(c) ==
    /\ pc = "choosing"
    /\ c \in Usable /\ Unwanted(c)
    /\ skipped' = skipped \cup {c}
    /\ pc' = "top"
    /\ UNCHANGED <<now, accounts, exclude, preferred, disabled, pick, fakes, tried, reply>>

Accept(c) ==
    /\ pc = "choosing"
    /\ c \in Usable /\ ~Unwanted(c)
    /\ conn' = c /\ locked' = (lock[c] # 0)
    /\ pc' = "checking"
    /\ UNCHANGED <<now, accounts, exclude, weights, fakes, tried, reply>>

\* After the token is refreshed, the source of the account is registered and
\* skipped while it cools.
SkipCooling ==
    /\ pc = "checking"
    /\ Pooled /\ cooling[conn] > now
    /\ WithoutConn
    /\ UNCHANGED <<now, accounts, weights, fakes, tried>>

\* checkRateLimit or checkQuotaLimit refuses.  What they count is the matter of
\* SourceUsage; here they may refuse any account.
OverLimit ==
    /\ pc = "checking"
    /\ Weighted /\ cooling[conn] <= now
    /\ Cool(conn)
    /\ WithoutConn
    /\ UNCHANGED <<now, lock, weights, fakes, tried>>

Dispatch ==
    /\ pc = "checking"
    /\ Pooled => cooling[conn] <= now
    /\ pc' = "sent"
    /\ tried' = tried \cup {conn}
    /\ UNCHANGED <<now, accounts, exclude, weights, pick, fakes, reply>>

\* clearAccountError runs before the response is looked at.  It clears the locks of
\* the row as it was picked: one set since on a row that had none stays.
Unlocked == IF locked THEN lock' = [lock EXCEPT ![conn] = 0] ELSE UNCHANGED lock

Succeed ==
    /\ pc = "sent"
    /\ Unlocked
    /\ Answer("success")
    /\ UNCHANGED <<now, cooling, exclude, weights, pick, fakes, tried>>

\* A response the validator rejects counts as a failure of the source.
Fake ==
    /\ pc = "sent"
    /\ Unlocked
    /\ IF Pooled THEN Cool(conn) ELSE UNCHANGED cooling
    /\ fakes' = fakes + 1
    /\ IF fakes + 1 >= MaxFakes
         THEN Answer("fake") /\ UNCHANGED <<exclude, pick>>
         ELSE WithoutConn
    /\ UNCHANGED <<now, weights, tried>>

\* An error that calls for another account: markAccountUnavailable locks this
\* one.  The error analyzer in front of it never cools the source: it reads
\* providerLimitsConfig outside the block that declares it, and the exception
\* is swallowed.
Fail ==
    /\ pc = "sent"
    /\ lock' = [lock EXCEPT ![conn] = now + Cooldown]
    /\ WithoutConn
    /\ UNCHANGED <<now, cooling, weights, fakes, tried>>

\* An error of the client: no other account is tried.
Reject ==
    /\ pc = "sent"
    /\ Answer("error")
    /\ UNCHANGED <<now, accounts, exclude, weights, pick, fakes, tried>>

\* Other requests meanwhile.
Others(c) ==
    /\ pc # "answered"
    /\ \/ lock' = [lock EXCEPT ![c] = now + Cooldown] /\ UNCHANGED cooling
       \/ Pooled /\ Cool(c) /\ UNCHANGED lock
    /\ UNCHANGED <<now, pc, exclude, weights, pick, fakes, tried, reply>>

Tick ==
    /\ now < MaxTime
    /\ now' = now + 1
    /\ UNCHANGED <<accounts, pc, exclude, weights, pick, fakes, tried, reply>>

Turn ==
    \/ Top
    \/ \E s \in Conn \cup Elsewhere \cup {NoConn} : Prefer(s)
    \/ PreferThrows
    \/ FailOpen
    \/ Refuse
    \/ \E c \in Conn : Skip(c) \/ Accept(c)
    \/ SkipCooling
    \/ OverLimit
    \/ Dispatch
    \/ Succeed
    \/ Fake
    \/ Fail
    \/ Reject

Next == Turn \/ Tick \/ \E c \in Conn : Others(c)

Spec == Init /\ [][Next]_vars

\* Every await returns, and time passes.
FairSpec == Spec /\ WF_vars(Turn) /\ WF_vars(Tick)

-----------------------------------------------------------------------------
\* The values of every variable.
TypeOK ==
    /\ now \in 0..MaxTime
    /\ lock \in [Conn -> 0..(MaxTime + Cooldown)]
    /\ cooling \in [Conn -> 0..(MaxTime + Cooldown)]
    /\ pc \in {"top", "preferring", "choosing", "checking", "sent", "answered"}
    /\ exclude \subseteq Conn /\ skipped \subseteq Keyed
    /\ preferred \in Conn \cup Elsewhere \cup {NoConn}
    /\ disabled \in BOOLEAN
    /\ conn \in Conn \cup {NoConn} /\ locked \in BOOLEAN
    /\ fakes \in 0..MaxFakes
    /\ tried \subseteq Conn
    /\ reply \in {"none", "budget", "unavailable", "success", "fake", "error"}

\* A request is never sent twice to the same account, through every mixture of
\* failures, fake responses, preferences and fail-opens.
NeverTriedTwice ==
    [][Dispatch => conn \notin tried]_vars

\* A preference never costs the request an answer: it is refused only when every
\* account is locked, or was tried, or was skipped for its own cooldown.
RefusedForCause ==
    [][reply' = "unavailable" /\ reply = "none"
          => \A c \in Conn : c \in exclude \/ lock[c] > now]_vars

\* Every request is answered.
EveryRequestAnswered == <>(pc = "answered")
=============================================================================
