------------------------------ MODULE QuotaPool ------------------------------
(***************************************************************************)
(* The quota pool: the in-memory registry of physical sources (one per     *)
(* provider, credential and model), the cooldown of each source, and the   *)
(* two places a cooldown and a registration are persisted so that a        *)
(* restarted process can rebuild the pool                                  *)
(* (open-sse/services/quotaPool.js with lib/db/repos/quotaPoolRepo.js).    *)
(*                                                                         *)
(* A source id is a pair <<base, conn>>: the base stands for the           *)
(* provider|maskedKey|model part of the id and conn for the connection     *)
(* suffix, NoConn when the caller passes no connection id.  Several        *)
(* callers register the same base with and without the suffix, which is    *)
(* what makes restarts interesting.                                        *)
(*                                                                         *)
(* Every persistence call is fire-and-forget: it is queued at the call and *)
(* reaches the database later, in order per source, or never if the        *)
(* process dies first.                                                     *)
(***************************************************************************)
EXTENDS Integers, Sequences

CONSTANTS
    Base,            \* provider|maskedKey|model triples
    Conn,            \* connection ids (first eight characters)
    NoConn,          \* the caller passed no connectionId
    Logical,         \* logical model ids
    NoLogical,       \* no row of quota_pool_sources
    Seconds,         \* durations callers pass to coolDown
    MaxTime,         \* bound on the clock
    MaxUsed,         \* bound on the tokens counted against a quota
    MaxPending,      \* bound on writes in flight per source
    MaxCalls,        \* bound on API calls that change the pool
    MaxCrashes,      \* bound on restarts
    WriteMayFail     \* whether a database write may be lost (it is logged only)

ASSUME PoolAssumption ==
    /\ NoConn \notin Conn
    /\ NoLogical \notin Logical
    /\ Seconds \subseteq Nat
    /\ MaxTime \in Nat /\ MaxUsed \in Nat /\ MaxPending \in Nat
    /\ MaxCalls \in Nat /\ MaxCrashes \in Nat
    /\ WriteMayFail \in BOOLEAN

VARIABLES
    now,          \* Date.now()
    registered,   \* the keys of sourcesById
    pool,         \* the SourceState of each registered source
    logicalIndex, \* logicalId -> set of source ids
    rows,         \* quota_pool_sources: the logical_id of each row
    cooldowns,    \* kv cooldown records: expiresAt, 0 when there is none
    rowWrites,    \* upsertSource calls in flight, per source
    coolWrites,   \* saveCooldown (expiry) and clearCooldown (0) in flight
    boot,         \* where initializeApp and hydrateFromRepo have got to
    readRows,     \* the rows loadAllSources returned to this boot
    toHydrate,    \* those not yet registered again
    loaded,       \* what loadCooldowns of this boot returned, 0 for no record
    calls, crashes \* bounds

mem    == <<registered, pool, logicalIndex>>
db     == <<rows, cooldowns>>
writes == <<rowWrites, coolWrites>>
start  == <<boot, readRows, toHydrate, loaded>>
bounds == <<calls, crashes>>
vars   == <<now, mem, db, writes, start, bounds>>

Source == Base \X (Conn \cup {NoConn})
Phase == {"rows", "register", "load", "apply", "up"}
MinCooldown == 1

\* What the pool keeps of a source: its logical model, the time its cooldown
\* ends and the tokens counted against its quota.
SourceState == [logical : Logical \cup {NoLogical}, until : Nat, used : Nat]

\* The state registerSource gives a source it has not seen.
Fresh(l) == [logical |-> l, until |-> 0, used |-> 0]

Absent == Fresh(NoLogical)  \* the record of a source that is not registered

\* isCooling: unknown sources never cool.
Cooling(s) == s \in registered /\ pool[s].until > now

\* What the kv record of s will say once the writes in flight have landed.
Eventual(s) == IF coolWrites[s] = <<>> THEN cooldowns[s]
               ELSE coolWrites[s][Len(coolWrites[s])]

Init ==
    /\ now = 0
    /\ registered = {}
    /\ pool = [s \in Source |-> Absent]
    /\ logicalIndex = [l \in Logical |-> {}]
    /\ rows = [s \in Source |-> NoLogical]
    /\ cooldowns = [s \in Source |-> 0]
    /\ rowWrites = [s \in Source |-> <<>>]
    /\ coolWrites = [s \in Source |-> <<>>]
    /\ boot = "rows"
    /\ readRows = [s \in Source |-> NoLogical]
    /\ toHydrate = {}
    /\ loaded = [s \in Source |-> 0]
    /\ calls = 0
    /\ crashes = 0

-----------------------------------------------------------------------------
(* Registration *)

\* Mutant of Enrol: a source that moves to another model stays in the set of
\* the old one.
EnrolUndetached(s, l) ==
    /\ Len(rowWrites[s]) < MaxPending
    /\ registered' = registered \cup {s}
    /\ pool' = [pool EXCEPT ![s] =
                  IF s \in registered THEN [@ EXCEPT !.logical = l, !.used = 0]
                  ELSE Fresh(l)]
    /\ logicalIndex' = [logicalIndex EXCEPT ![l] = @ \cup {s}]
    /\ rowWrites' = [rowWrites EXCEPT ![s] = Append(@, l)]

\* Mutant of Enrol: a known source starts anew, its cooldown included.
EnrolAnew(s, l) ==
    /\ Len(rowWrites[s]) < MaxPending
    /\ registered' = registered \cup {s}
    /\ pool' = [pool EXCEPT ![s] = Fresh(l)]
    /\ logicalIndex' = [m \in Logical |-> IF m = l THEN logicalIndex[m] \cup {s}
                                          ELSE logicalIndex[m] \ {s}]
    /\ rowWrites' = [rowWrites EXCEPT ![s] = Append(@, l)]

\* The new and the existing branch of registerSource: an existing source gets
\* zeroed counters and, when the logical id changed, is moved in the index.
Enrol(s, l) ==
    /\ Len(rowWrites[s]) < MaxPending
    /\ registered' = registered \cup {s}
    /\ pool' = [pool EXCEPT ![s] =
                  IF s \in registered THEN [@ EXCEPT !.logical = l, !.used = 0]
                  ELSE Fresh(l)]
    /\ logicalIndex' =
         [m \in Logical |->
            IF m = l THEN logicalIndex[m] \cup {s}
            ELSE IF s \in registered /\ m = pool[s].logical
                 THEN logicalIndex[m] \ {s}
                 ELSE logicalIndex[m]]
    /\ rowWrites' = [rowWrites EXCEPT ![s] = Append(@, l)]

\* A caller of the pool makes one call that changes it.
Call == calls < MaxCalls /\ calls' = calls + 1

\* A request registers the credential it is about to use (chat.js), the combo
\* handler a model without a key, start-up an API key without a connection.
RegisterSource(s, l) ==
    /\ Call
    /\ Enrol(s, l)
    /\ UNCHANGED <<now, db, coolWrites, start, crashes>>

UnregisterSource(s) ==
    /\ Call
    /\ s \in registered
    /\ registered' = registered \ {s}
    /\ pool' = [pool EXCEPT ![s] = Absent]
    /\ logicalIndex' = [logicalIndex EXCEPT ![pool[s].logical] = @ \ {s}]
    /\ UNCHANGED <<now, db, writes, start, crashes>>

ClearAll ==
    /\ Call
    /\ registered # {}
    /\ registered' = {}
    /\ pool' = [s \in Source |-> Absent]
    /\ logicalIndex' = [l \in Logical |-> {}]
    /\ UNCHANGED <<now, db, writes, start, crashes>>

\* consumeQuotaTokens after a successful request.
ConsumeQuota(s) ==
    /\ Call
    /\ s \in registered
    /\ pool[s].used < MaxUsed
    /\ pool' = [pool EXCEPT ![s].used = @ + 1]
    /\ UNCHANGED <<now, registered, logicalIndex, db, writes, start, crashes>>

-----------------------------------------------------------------------------
(* Cooldowns *)

\* The expiry coolDown computes: at least MIN_COOLDOWN_SECONDS from now.
Expiry(d) == now + (IF d < MinCooldown THEN MinCooldown ELSE d)

\* Mutant of Extends: the cooldown asked for last wins.
ExtendsAlways(s, t) == t # pool[s].until

\* Whether coolDown has anything to do: it only ever extends a cooldown.
Extends(s, t) == t > pool[s].until

CoolDown(s, d) ==
    /\ Call
    /\ s \in registered
    /\ Extends(s, Expiry(d))
    /\ Len(coolWrites[s]) < MaxPending
    /\ pool' = [pool EXCEPT ![s].until = Expiry(d)]
    /\ coolWrites' = [coolWrites EXCEPT ![s] = Append(@, Expiry(d))]
    /\ UNCHANGED <<now, registered, logicalIndex, db, rowWrites, start, crashes>>

ClearCooldown(s) ==
    /\ Call
    /\ s \in registered
    /\ Len(coolWrites[s]) < MaxPending
    /\ pool' = [pool EXCEPT ![s].until = 0]
    /\ coolWrites' = [coolWrites EXCEPT ![s] = Append(@, 0)]
    /\ UNCHANGED <<now, registered, logicalIndex, db, rowWrites, start, crashes>>

-----------------------------------------------------------------------------
(* The database *)

\* The oldest write in flight for a source reaches its table, or fails: the
\* repository logs the error and the pool never learns of it.
FlushRow(s) ==
    /\ rowWrites[s] # <<>>
    /\ \/ rows' = [rows EXCEPT ![s] = Head(rowWrites[s])]
       \/ WriteMayFail /\ rows' = rows
    /\ rowWrites' = [rowWrites EXCEPT ![s] = Tail(@)]
    /\ UNCHANGED <<now, mem, cooldowns, coolWrites, start, bounds>>

\* Mutant of FlushCooldown: the writes of a source land newest first.
FlushCooldownNewest(s) ==
    LET n == Len(coolWrites[s])
    IN  /\ n > 0
        /\ cooldowns' = [cooldowns EXCEPT ![s] = coolWrites[s][n]]
        /\ coolWrites' = [coolWrites EXCEPT ![s] = SubSeq(@, 1, n - 1)]
        /\ UNCHANGED <<now, mem, rows, rowWrites, start, bounds>>

FlushCooldown(s) ==
    /\ coolWrites[s] # <<>>
    /\ \/ cooldowns' = [cooldowns EXCEPT ![s] = Head(coolWrites[s])]
       \/ WriteMayFail /\ cooldowns' = cooldowns
    /\ coolWrites' = [coolWrites EXCEPT ![s] = Tail(@)]
    /\ UNCHANGED <<now, mem, rows, rowWrites, start, bounds>>

-----------------------------------------------------------------------------
(* Restart *)

\* The process dies: memory and the writes in flight are gone.
Crash ==
    /\ crashes < MaxCrashes
    /\ crashes' = crashes + 1
    /\ registered' = {}
    /\ pool' = [s \in Source |-> Absent]
    /\ logicalIndex' = [l \in Logical |-> {}]
    /\ rowWrites' = [s \in Source |-> <<>>]
    /\ coolWrites' = [s \in Source |-> <<>>]
    /\ boot' = "rows"
    /\ readRows' = [s \in Source |-> NoLogical]
    /\ toHydrate' = {}
    /\ loaded' = [s \in Source |-> 0]
    /\ UNCHANGED <<now, db, calls>>

\* initializeApp reads the rows with loadAllSources.
LoadAllSources ==
    /\ boot = "rows"
    /\ boot' = "register"
    /\ readRows' = rows
    /\ toHydrate' = {s \in Source : rows[s] # NoLogical}
    /\ UNCHANGED <<now, mem, db, writes, loaded, bounds>>

\* hydrateFromRepo registers one row.  It builds the id again from provider,
\* masked key and model, so a connection suffix is not part of it.  Before the
\* next row it awaits getEffectiveLimits, so requests run in between.
HydratedId(s) == <<s[1], NoConn>>

HydrateSource(s) ==
    /\ boot = "register"
    /\ s \in toHydrate
    /\ Enrol(HydratedId(s), readRows[s])
    /\ toHydrate' = toHydrate \ {s}
    /\ UNCHANGED <<now, db, coolWrites, boot, readRows, loaded, bounds>>

\* Mutant of HydrateDone: the cooldowns are read before every row is registered.
HydrateDoneEarly ==
    /\ boot = "register"
    /\ boot' = "load"
    /\ UNCHANGED <<now, mem, db, writes, readRows, toHydrate, loaded, bounds>>

\* After the last row the cooldown records are read, detached from start-up.
HydrateDone ==
    /\ boot = "register"
    /\ toHydrate = {}
    /\ boot' = "load"
    /\ UNCHANGED <<now, mem, db, writes, readRows, toHydrate, loaded, bounds>>

LoadCooldowns ==
    /\ boot = "load"
    /\ boot' = "apply"
    /\ loaded' = cooldowns
    /\ UNCHANGED <<now, mem, db, writes, readRows, toHydrate, bounds>>

\* Mutant of Rehydrated: the comparison with memory is turned around.
RehydratedShorter(s) ==
    IF loaded[s] > now /\ s \in registered /\ loaded[s] < pool[s].until
    THEN loaded[s]
    ELSE pool[s].until

\* Expired records, unknown sources and records that end no later than the
\* cooldown in memory are skipped.
Rehydrated(s) ==
    IF loaded[s] > now /\ s \in registered /\ loaded[s] > pool[s].until
    THEN loaded[s]
    ELSE pool[s].until

ApplyCooldowns ==
    /\ boot = "apply"
    /\ boot' = "up"
    /\ pool' = [s \in Source |-> [pool[s] EXCEPT !.until = Rehydrated(s)]]
    /\ UNCHANGED <<now, registered, logicalIndex, db, writes, readRows, toHydrate, loaded, bounds>>

Tick ==
    /\ now < MaxTime
    /\ now' = now + 1
    /\ UNCHANGED <<mem, db, writes, start, bounds>>

-----------------------------------------------------------------------------
Boot ==
    \/ LoadAllSources
    \/ \E s \in Source : HydrateSource(s)
    \/ HydrateDone
    \/ LoadCooldowns
    \/ ApplyCooldowns

Flush == \E s \in Source : FlushRow(s) \/ FlushCooldown(s)

\* The calls requests, the health probe and start-up make.
Runtime ==
    \/ \E s \in Source, l \in Logical : RegisterSource(s, l)
    \/ \E s \in Source, d \in Seconds : CoolDown(s, d)
    \/ \E s \in Source : ConsumeQuota(s)

\* The exported operations nothing in the program calls today.
Removal ==
    \/ \E s \in Source : UnregisterSource(s) \/ ClearCooldown(s)
    \/ ClearAll

Next == Runtime \/ Removal \/ Flush \/ Boot \/ Crash \/ Tick

Spec == Init /\ [][Next]_vars

\* The program as it is: the pool without the operations it never calls.
\* Start-up and database calls keep running; requests, time and crashes need
\* not.
ProgramNext == Runtime \/ Flush \/ Boot \/ Crash \/ Tick
ProgramSpec == Init /\ [][ProgramNext]_vars
FairProgram == ProgramSpec /\ WF_vars(Boot) /\ WF_vars(Flush)

-----------------------------------------------------------------------------
(* Properties *)

\* The values of every variable.
TypeOK ==
    /\ now \in 0..MaxTime
    /\ registered \subseteq Source
    /\ pool \in [Source -> SourceState]
    /\ logicalIndex \in [Logical -> SUBSET Source]
    /\ rows \in [Source -> Logical \cup {NoLogical}]
    /\ cooldowns \in [Source -> Nat]
    /\ rowWrites \in [Source -> Seq(Logical)]
    /\ coolWrites \in [Source -> Seq(Nat)]
    /\ boot \in Phase
    /\ readRows \in [Source -> Logical \cup {NoLogical}]
    /\ toHydrate \subseteq {s \in Source : readRows[s] # NoLogical}
    /\ loaded \in [Source -> Nat]
    /\ calls \in Nat
    /\ crashes \in Nat

\* The index and the pool agree: a logical model lists exactly the registered
\* sources that carry its id.  Selection reads the index, request accounting
\* the pool; a source left behind in the set of its old model would be chosen
\* for a model it no longer serves (registerSource, detach and attach).
IndexConsistent ==
    \A l \in Logical, s \in Source :
        s \in logicalIndex[l] <=> s \in registered /\ pool[s].logical = l

\* While a source stays registered its cooldown is never shortened: not by a
\* shorter cooldown, not by registering it again, not by a stale record read
\* before the cooldown was set and applied after it.  Only clearCooldown ends
\* one early, and then it ends it altogether.
NeverShortened ==
    \A s \in registered \cap registered' :
        pool'[s].until >= pool[s].until \/ pool'[s].until = 0

CooldownOnlyExtends == [][NeverShortened]_vars

\* The same of the program, which never calls clearCooldown, unregisterSource
\* or clearAll: short of a restart a cooldown only moves later.
OnlyMovesLater ==
    \A s \in registered :
        crashes' = crashes =>
            s \in registered' /\ pool'[s].until >= pool[s].until

ProgramKeepsCooldown == [][OnlyMovesLater]_vars

\* When no write fails, a cooldown in memory is the one the database will hold
\* once the writes in flight have landed, except that one taken from the database
\* at start-up may be longer: a cooldown set between the read of the records and
\* their application overwrites a longer record, memory then takes the longer one.
PersistedMatchesMemory ==
    ~WriteMayFail =>
        \A s \in registered :
            pool[s].until > 0 =>
                \/ Eventual(s) = pool[s].until
                \/ boot = "up" /\ loaded[s] = pool[s].until

\* Whether hydration of this boot should have brought the cooldown of s back:
\* it read both a row and an unexpired cooldown record of s.
Restorable(s) == boot = "up" /\ readRows[s] # NoLogical /\ loaded[s] > now

\* After start-up, whatever requests ran in between, every source whose row and
\* unexpired record were read, and whose id has no connection suffix, is
\* registered and cools at least as long as its record says.
UnsuffixedRestored ==
    \A b \in Base :
        LET s == <<b, NoConn>> IN
        Restorable(s) => s \in registered /\ pool[s].until >= loaded[s]

\* "persist cooldown state so it survives container restarts" (quotaPool.js,
\* coolDown), of every source: one that is registered after start-up cools at
\* least as long as the record the start-up read.  It does not hold: the id
\* hydrateFromRepo builds has no connection suffix, so the record of a source
\* registered by a request finds no source and is dropped.
CooldownSurvivesRestart ==
    \A s \in registered : Restorable(s) => pool[s].until >= loaded[s]

\* A cooldown in the database of a source with a row and no connection suffix
\* comes back: from the start of a boot the source is eventually cooling, unless
\* the record expires first.
CooldownReturns ==
    \A b \in Base :
        LET s == <<b, NoConn>> IN
        boot = "rows" /\ rows[s] # NoLogical /\ cooldowns[s] > now
            ~> Cooling(s) \/ cooldowns[s] <= now
=============================================================================
