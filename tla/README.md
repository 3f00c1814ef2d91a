# OninOneProxy in TLA+

OninOneProxy is a local proxy in front of many AI providers. A request names a
model; the proxy picks an account of a provider that serves it, sends the
request, and on failure locks the account and tries the next one. This
directory models the part that decides *which account, when, and what is
remembered of its failures*, and how the answer is relayed as a stream, checks it
with TLC on small instances, and proves its safety properties with TLAPS for all
values of the constants.

Paths are relative to the repository root, which these modules see as `src/`
(so `src/sse/...` of the repository is `src/src/sse/...` in `PROJECT.json`).

## 1. Inventory

| Component | Code | State | Operations | Talks to |
|---|---|---|---|---|
| Quota pool | `open-sse/services/quotaPool.js`, `lib/db/repos/quotaPoolRepo.js` | `sourcesById`, `logicalIndex`; rows and kv cooldown records in SQLite | register, unregister, cool down, clear, consume quota, hydrate | chat loop, combo, health probe, start-up |
| Failure ladder | `quotaPool.js` `recordFailure` ... | `failureCount`, `lastFailureAtMs` | record, read, reset | chat loop |
| Window counters | `quotaPool.js`, `providerLimits.js` | ring of buckets and its base | increment, sum | quota pool, limits |
| Account selection | `src/sse/services/auth.js` `getProviderCredentials` | `selectionMutex`, `lastUsedAt`, `consecutiveUseCount` | select | every handler |
| Account locks | `auth.js`, `accountFallback.js`, `authReverify.js` | `modelLock_*`, `modelBackoff_*`, `testStatus`; `reverifyMap` | mark, clear, reverify | every handler |
| Chat loop | `src/sse/handlers/chat.js` `handleSingleModelChat` | exclusions, skips, preference, budget, fake count | one turn per account | all of the above |
| Sticky session | `open-sse/services/stickySession.js` | sticky maps per logical model | select with polling | quota pool |
| Provider limits | `open-sse/services/providerLimits.js` | windows and quotas of a source | check, consume, learn | quota pool, chat loop |
| Combo with fallback | `open-sse/services/combo.js` `handleComboChat` | rotation cursor per combo, sticky bindings of conversations, the order and the rounds of a request | rotate, bind, try the models in turn, wait for a cooldown and try again | chat loop once per model, quota pool |
| Combo with fusion | `combo.js` `handleFusionChat` | panel of slots, queue, counters of settled and good answers, timers | start, fail over, collect, recover, filter, refine, judge | chat loop once per slot, quota pool |
| Credential refresh | `open-sse/services/oauthCredentialManager.js`, `tokenRefresh/*`, `src/sse/services/tokenRefresh.js` | lock map of refreshes in flight, cache of results by old token, tokens in the rows | refresh once, retry, write the row | executors, database, provider |
| Streaming relay | `open-sse/handlers/chatCore.js`, `chatCore/streamingHandler.js`, `utils/streamHandler.js`, `utils/stream.js`, `translator/response/openai-to-claude.js`, `lib/db/repos/usageRepo.js` | stall timer, `disconnected`, state of the translation, queues of the pipe, `pendingRequests` and its timers | execute, pipe, translate, flush, stall, close, cancel, count | executors, client, dashboard's counters |
| Anti-ban | `open-sse/services/oauthAntiBan.js` | slots of an account, error window | acquire, jitter, release | credential refresh |
| Key budget, response cache, health probe | `keyBudget.js`, `responseCache.js`, `healthProbe.js` | bounded tables, timers | check, prune, probe | chat loop, pool |

What makes them hard:

* **Concurrency.** One Node process, but every `await` lets other requests in.
  The selection has a promise-chain mutex around its awaits; the locks and the
  error state have none.
* **Failure.** An upstream may fail in ways that lock a model, reset a backoff
  or end the request; reads and writes of the database may throw or be lost.
* **Ordering.** Cooldown and registration writes are fire-and-forget; a
  start-up reads them while requests already run.
* **Time.** Locks, cooldowns, streaks, windows and the retry budget expire.

What makes them correct, in one line each:

* pool: the index agrees with the registry; a cooldown is never shortened; the
  database and a restart agree with memory;
* ladder: the count is the length of the present streak;
* counter: never more than the window, never less than the present bucket;
* selection: as if requests selected one after the other, in order, each answered;
* locks: the retry time is right; the status is honest; no other lock is lifted;
* chat loop: no account twice, no refusal without cause, an answer in the end;
* usage: the gate lets through what the window and the quota of the source allow;
* refresh: one refresh of an account at a time, no spent token presented again,
  an issued token reaches the database, slots balance;
* combo: every model gets its turn and is tried before the request gives up;
* stream: the client's protocol is kept however the upstream mixes its chunks up to
  its finish reason, the client is told the end, silence is cut off, and the request
  leaves the counters;
* fusion: the panel ends for a cause, and neither late nor poor answers spoil it.

## 2. Modules

| Module | Models |
|---|---|
| `QuotaPool` | pool, writes in flight, crash and start-up |
| `FailureLadder` | the failure count of a source, next to the history of outcomes |
| `WindowCounter` | the ring buffer, next to the history of hits |
| `SelectionRule` | the two selection strategies as operators |
| `AtomicSelection` | the promise of the selection (abstract specification) |
| `AccountSelection` | the selection with its mutex, awaits and throws |
| `AccountLocks` | locks, backoff levels, status, the request loop and reverification |
| `ChatLoop` | `handleSingleModelChat` turn by turn |
| `SourceUsage` | registration, gate, usage and failures of one source by concurrent requests: composes `FailureLadder` and `WindowCounter` |
| `CredentialRefresh` | refresh of rotating tokens through lock, cache, slots, retries and the row |
| `FusionPanel` | `handleFusionChat`: the panel, its timers and what is made of its answers |
| `ComboFallback` | `handleComboChat` with round robin, bindings and waiting rounds |
| `ClaudeStream` | what a client is promised of the events of one message (abstract specification) |
| `ClaudeTranslation` | `openaiToClaudeResponse` as operators |
| `StreamRelay` | the relay of one stream and the counters it shares with others |
| `MC*` | instances of these for TLC |
| `QuotaPoolProofs`, `AccountSelectionProofs`, `AccountLocksProofs`, `ChatLoopProofs`, `SourceUsageProofs`, `CredentialRefreshProofs`, `ComboProofs`, `StreamRelayProofs` | theorems |

`AccountSelection` extends `SelectionRule` and instantiates `AtomicSelection`.
`StreamRelay` extends `ClaudeTranslation` and instantiates `ClaudeStream`.
`ChatLoop` composes a request with the locks of `AccountLocks` and the cooldowns
of `QuotaPool`, which it sees as one expiry per account that others may move.

Operators with the comment "Mutant of" are faulty variants of the
definition they precede. They take no part in a specification; each one is there
to show that a property notices the fault.

### QuotaPool

A source is a pair of a base (`provider|maskedKey|model`) and a connection
suffix. The chat handler registers with the suffix, start-up and the combo
handler without; `hydrateFromRepo` rebuilds ids without it. `Enrol` is
`registerSource` with both branches; `rowWrites` and `coolWrites` are the
promises the pool does not wait for; `Crash` loses them and all memory. The
start-up is `LoadAllSources`, one `HydrateSource` per row (it awaits between
rows), `HydrateDone`, `LoadCooldowns`, `ApplyCooldowns`, with requests in
between. Writes of one source land in the order they were issued: the repository
functions await the adapter once and write synchronously, so continuations run
in the order they were queued. `Removal` holds the exported operations that
nothing calls; `ProgramSpec` is the pool without them.

### AccountSelection

Promises of the mutex are numbered: `selectionMutex` is the last one made,
`own` and `awaited` are those of a request, `resolved` those already resolved.
`Enter` runs up to the first await, `Acquire` resumes, `Read`, `Rotate`, `Write`
and `Return` are the pieces between the awaits inside, `Throw` and `Return` run
the `finally` block. Accounts are their priorities, which the database keeps
distinct; excluded and locked accounts are an arbitrary subset (`Read`). The
refinement maps "between entering and having picked" to `waiting` and the rest to
`answered`. `latest` is a ghost.

### AccountLocks

A row has a lock and a backoff level per key (a model, or `All`), where a field
may be absent or null. `MarkRead` is `markAccountUnavailable` up to its write,
`MarkWrite` the write, `Succeed` is `clearAccountError` on the row `seen` at
selection. `ReverifyRead` and `ReverifyWrite` are the background mark of a 401.
The error rules are reduced to the five effects they can have. `lastError` is set
and cleared together with the status and not modelled. `contended` is a ghost: the
accounts that two parties ever used at a time.

### ChatLoop

The loop is cut at its awaits: `Top` (budget), `Prefer`/`PreferThrows` (sticky
selection, an arbitrary source after arbitrary time), `Refuse`, `FailOpen`,
`Skip`, `Accept` (selection), `SkipCooling`, `OverLimit`, `Dispatch` (pool
checks), `Succeed`, `Fake`, `Fail`, `Reject` (outcome). Other requests lock and
cool accounts at any moment (`Others`). The selection itself is any usable account. A success clears the lock of the account
only when its row had one as it was picked (`locked`): `clearAccountError` works on that row.

### FailureLadder, WindowCounter and SourceUsage

The first two keep the code's own numbers beside a ghost history, and the
properties relate the two. Buckets of one second are `BucketTicks` ticks; the ring has
`BucketCount` slots. The clock does not go back. `SourceUsage` is a source as
requests of the chat loop use it. `Gate` registers it (`Registered`, which
replaces its window and its quota by `WindowCounter`'s `Renew`) and then reads the
window, the quota and a learned limit; `Succeed` is what a success reports, `Fail` a
failure, which may teach a limit. `Snapshot` and `ReadFailureCount` are reads
that change state. It instantiates both components on its own variables;
`ComponentsKept` says that their specifications hold of it, and is proved.

### CredentialRefresh

A request works with the row it read (`Start`). `Refresh` is
`withCredentialRefreshLock`: it awaits the refresh of the account that the lock map
holds, or begins one, whose entry may push another one out of the bounded map
(`Evict`, `LockCap`), takes a slot if one is free (`TakeSlot`, `SlotCap`) and sleeps
for the jitter. `Present` is `dedupRefresh`: join a call in flight for the same
token, take a result that is at most `Ttl` ticks old, or ask the provider.
`Resolve` and `Finish` hand a result to everyone who awaits it, release the slot and
delete the lock by key; `Retry` is the next of `MaxAttempts`, `Persist` the write of
the row. The provider (`Rotate`, `Keep`) replaces the token on use for `Rotating`
accounts; tokens are numbered in the order it issues them. `Faults` are a response
that is lost after the provider acted, a write that fails, and a `Crash` that loses
memory but not rows. Only codex's executor refreshes through the lock, and it is
the one modelled; `default.js` and others refresh on a 401 with neither lock nor
cache.

### FusionPanel

Slots are `1 .. N`, those in `Backed` have a second model. A slot is skipped,
queued, asks its primary or its backup, or has settled (`stage`). `Settle` is
`collectPanel`'s handler with the launch of the next slot in the queue; quorum,
grace timer and hard timer are as in the code, and the panel ends once (`Conclude`).
Answers that arrive afterwards still run their handlers. Then come `Recover` for
answers of low quality, the filter (`Decide`), `Refined` and the `Reply` of the
judge or of the only model. An answer is good, low or, when asking again did not
help, poor. Its specification is `PanelSpec`, so that one module of proofs can extend
both kinds of combo.

### ComboFallback

`Start` is the part before the loop: the rotation, the order by capability for an
arbitrary set of capable models, the binding of the conversation. A conversation is
known by its words and not by the combo, so the model it is bound to may be none of
this combo (`Elsewhere`): then the order stays as it is. `Try`, `Answer`,
`Fail`, `Reject` are the turns, `EndRound` gives up or sleeps until a cooldown ends
and `Wake` sorts the models with two separate readings of the clock, as the code
does. Other requests, to this combo or another, take turns, bind the conversation, reset the rotation and cool
models down at any moment. `turns` counts how often each model came first, less the
least of the counts. `Filter` is the code's `filter` as a recursive function.

### StreamRelay, ClaudeTranslation and ClaudeStream

`Execute` starts the request on the counters, `AnswerWhole` stands for every answer
that is not a stream, `AnswerStream` sets up the pipe. A chunk passes the tap
(`Arrive`, which winds up the stall timer), waits in `ahead` until the client has
read everything (`Take`), is transformed (`Transform`) into `queue` and read
(`Read`). The end (`Flush`) and a failure (`Collapse`) come after the last chunk.
`HandleError` is the controller's once-only `handleError` and `handleDisconnect`,
`Stall` the timer, and the stream ends with `CloseWhole`, `CloseCut` or `Leave`.
`Started`, `Finished` and `PendingTimeout` are `trackPendingRequest`, used by other
requests of the model as well.

The transform translates (`translate`), lets through (`passthrough`), or lets through
what belongs to the Gemini family (`unmarked`), which gets no mark from `Flush` and
whose chunks its filter never finds empty.

A chunk is the set of parts it carries, the finish reason among them, and an upstream
sends any chunks in any order. The translation keeps the numbers of the
open blocks and emits the events. It has no guard against what comes after a finish
reason: content opens blocks, and a second finish reason closes every tool block again
and repeats the end of the message (`Conclude`, whose `tools` are never forgotten).
`ClaudeStream` says what a client can still rely on: up to the finish reason, the
API; beyond it (`GoOn`) only that the message does not begin twice, that new blocks are
numbered in order, that whatever is written to or closed has been opened at some time,
and that another end comes with every block closed. Three ghosts of the
translation serve this: `beyond` (the upstream went on), `closed` (the tools that were
closed) and `concluded` (the last chunk that was not empty had a finish reason).

`view` is a ghost: what a client knows after
the events it received, and what `ClaudeStream` sees under the refinement, with the
stage of the message taken as ended once the stream is closed. `disturbed` is a
ghost: the minute of a counter was over, or the request was taken off again after
the flush. `ended` and `others` are ghosts too.

## 3. Runs

| Run | Bounds | Shows |
|---|---|---|
| `quota_pool` | 1 base with and without suffix, 2 logical models, clock 0..2, 4 calls, 1 crash, 2 writes in flight per source | `IndexConsistent`, `PersistedMatchesMemory`, `CooldownOnlyExtends` for all operations |
| `quota_pool_restart` | the same with 1 logical model, 3 calls, writes may fail | `UnsuffixedRestored`, `ProgramKeepsCooldown`, `CooldownReturns` for the program |
| `account_selection` | 2 requests, 2 accounts, 4 selections, sticky limit 2, clock 1..2 | `MutualExclusion`, `FirstComeFirstServed`, `SelectsAtomically`, `RotationMovesOn`, `EveryRequestAnswered` |
| `account_locks` | 2 requests, 2 accounts, 2 models and the key for none, all five failures, clock 1..2 | `HonestUncontended`, `RetryNotTooLate`, `ClearOnlyExpired` |
| `chat_loop` | 2 accounts with keys, 1 source elsewhere, budget 2, clock 0..3, 2 fake responses | `NeverTriedTwice`, `RefusedForCause`, `EveryRequestAnswered` |
| `source_usage` | 2 requests, limit 1, quota 2, quiet period and life of a learned limit 2, 2 buckets of 2 ticks, clock 0..7, 4 events | `CountIsStreak`, `WindowRespected`, `ComponentsKept` |
| `credential_refresh` | 3 requests on 2 accounts, 1 of them rotating, lock map of 1, 1 slot, cache of 1 tick, 2 attempts, 2 tokens issued, clock 0..1, one lost response, one crash | `WaitersHaveRefresh`, `SingleFlight`, `SlotsBalanced`, `IssuedTokenWritten`, `NoReplayWhileKept` |
| `fusion_panel` | 4 slots, 2 with backups, quorum 2, 2 at a time, refinement on | `CountersAgree`, `NoIdleCapacity`, `EndsForCause`, `LateAnswersIgnored`, `AnswersNeverAllLost`, `PanelEnds` |
| `combo_fallback` | 2 models, sticky limit 2, binding of 1 tick, 1 extra round, clock 0..3, 1 request among others | `RotationFair`, `NoModelForgotten`, `SessionMovesForCause`, `EveryRequestAnswered` |
| `stream_relay` | 2 accounts, 3 chunks of 13 kinds (up to two parts each, the finish reason in any of the chunks, up to two pieces of tool calls), 1 other request at a time | `NeverShownAfterEnd`, `CountedExactly`, `EndMarked`, `StreamKeepsProtocol`, `EveryStreamEnds` |

Why the bounds are enough: a crash needs one call before it, one during start-up
and one after; a lost selection needs two requests and an overtaking a third
selection; a contended account needs two requests and one background mark; a
preference is given up with one usable account and one source elsewhere; an eviction
from the lock map needs two accounts and a map of one, a second refresh of the
same account a third request; a slot that waits in the fusion queue needs more slots
than run at a time, and a quorum before the end more slots than the quorum; a
rotation that skips a model shows with two; three chunks open a block, leave it and
conclude, with two calls at a time, or conclude, go on and conclude again; one model that is
no member of the combo stands for all; clock bounds let every lock,
cooldown, streak, window, cache entry, binding and budget run out at least once.
Deadlock is not checked: every model stops when its bounds are used up, and each
run that could stop too early has a liveness property or an invariant about it instead.

Fairness is assumed of what the event loop and start-up do on their own: a
continuation whose promise is resolved runs (`AccountSelection`, `ChatLoop`,
`ComboFallback`, `FusionPanel`), start-up and pending database calls go on
(`QuotaPool`), an upstream call returns or times out and the clock ticks
(`ChatLoop`, `ComboFallback`). In `FusionPanel` no upstream is assumed to answer
while the panel collects: `PanelEnds` rests on its timers alone until then.
In `StreamRelay` the executor returns (it has a time limit), the pipe and the timer
go on, and a client that stays reads on; the upstream owes nothing, so
`EveryStreamEnds` rests on the stall timer. The fairness of the transform is stated of
`Take`, the part of `Transform` that says when it happens.
`CredentialRefresh` and `SourceUsage` assume no fairness. New requests,
throws, faults and crashes are never fair.

### Disagreements between code and comments

Two runs expect a violation:

* `cooldown_survives_restart`: cooldowns of sources that a request registered are
  lost at start-up, as their ids have a suffix that hydration does not rebuild.
* `limit_enforced`: registering a known source replaces its window and its quota
  (`quotaPool.js:543`), and every request registers before it checks them, so a
  limit never stops a request on the chat path.

Others were met while modelling; the models behave as the code does and no run is
kept for them:

* accounts and locks: a success on a stale row reports an account active while
  another model is locked (`auth.js:331` against `289`), and `HonestUncontended`
  shows that sharing the account is what it takes; a success on one model clears
  the backoff levels of all models (`auth.js:325`), where the comment above says
  current or expired ones; an expired lock of a model hides a running lock of the
  account (`accountFallback.js:125`); ties in `lastUsedAt` let a rotation pick the
  current account again, which `RotationMovesOn` exempts and so does not detect, as
  `HonestUncontended` and `ClearOnlyExpired` exempt the accounts that requests share;
* chat loop: a preference that alternates between sources clears the skipped
  accounts each time (`chat.js:746`), so only the budget ends the skipping; the
  budget is checked before the sticky selection, which may poll for a minute; the
  error analyzer reads `providerLimitsConfig` outside its block (`chat.js:1125`) and
  its exception is swallowed, so the cooldown it would set never happens;
* pool: shifting moves the base of a ring to the present bucket, so its sum holds
  only that bucket and not the last 60 s (`quotaPool.js:29`, `255`); a cooldown set
  between the read of the records and their application at start-up leaves the
  shorter one in the database; the existing branch of `registerSource` leaves a
  masked key in place; `getFailureCount` and `computeBackoffMs` have no callers;
* refresh: a request that kept its old row presents a spent token once the cached
  result is gone (10 s), which `CHANGELOG.md:267` says cannot happen; the retries of
  `refreshWithRetry` fall within those 10 s and get the cached null; within them an
  older result can also be written over a newer row; the error window of the
  anti-ban guard is never fed and its queue of waiters never used, though its header
  says that excess requests wait for a slot; the lock map holds 1000 entries,
  documented as 500;
* fusion: with exactly one answer the model is asked again, where the comment says
  the answer is returned (`combo.js:1075` against `1312`); the 60 s abort of the
  refinement is never handed to its call (`1337`); the retry on the same model calls
  the primary; the quorum is not lowered to the slots that start; a slot is left
  out though only its backup cools;
* combo: the status kept from an answer that was too poor is returned with the error
  of the models after it, an error with status 200 (`combo.js:522`, `579`, `605`); a
  model whose cooldown ends between the two readings of the clock is
  dropped from the waiting round (`combo.js:435`, `441`); the bindings of all combos
  share one table without the combo's name in the key (`combo.js:30`), so a conversation can take its
  binding from one combo to another, where it is given up unasked (`401`); and a binding
  is read at the start of a request and written at its end, so of two requests of one
  conversation the later answer wins (`531`), which is why `SessionMovesForCause` speaks of
  the binding a request found;
* stream: `CHANGELOG.md:77` says a second `[DONE]` is prevented, but only the
  translating mode notes the upstream's own (`stream.js:239`, `371`), so what is
  passed through ends with two, which `EndMarked` does not tell apart; a last line without its newline is glued to the
  mark; a Claude client gets `[DONE]` when the stream is cut and no end when
  the upstream ends without a finish reason, where the comment
  (`streamingHandler.js:84`) promises a proper end; a stream that is cut gets `[DONE]`
  for the Gemini family too, whose clients are said to reject it (`stream.js:369`),
  and a whole one passed through gets no mark; `openai-to-claude.js:225` is not guarded against a
  second finish reason nor against content after the first, though `gemini-to-openai.js:122`
  makes one for every upstream chunk that has it: the client then sees tool blocks closed
  twice, blocks that open after `message_stop`, and a second end; a client that leaves after the
  flush has its request taken off the counters twice (`stream.js:340`,
  `chatCore.js:290`), and the minute's timer zeroes the counter of the model for
  all accounts, while any end stops the timer of the account; the stall timer also
  runs out when a slow client holds the chunks back.

## 4. Proofs

`QuotaPoolProofs` proves, for any sources, logical models, durations and bounds:
`TypeCorrect`, `IndexCorrect`, `CooldownExtends`, `ProgramCooldown`,
`MemoryPersisted`, `RestartRestores`. The index invariant is inductive with the
types. `MemoryPersisted` strengthens the property by what the writes in flight
say of every registered source. `RestartRestores` needs to know, for each phase of
the start-up, that a row that was read is either still to be registered or
registered already, and that the records are applied only when none is left.
They use `PoolAssumption`.

`AccountSelectionProofs` proves `TypeCorrect`, `Exclusion`, `Order` and
`Refinement` for any number of requests and accounts. The invariant
(`SelectionInv`) says of the promise chain that promises of active requests are
distinct, each awaits its predecessor, and a promise that is not resolved belongs
to an active request; hence the request inside is the one with the least
unresolved promise. For the refinement it adds that the rows read inside are the
present ones and that no recorded use lies in the future. `MovesOn` proves the action
property `RotationMovesOn` from `Turned`: an account that was used has a turn
counted, and the one recorded last is among the most recently used; hence a first
turn for the same account again is a tie. They use `RuleAssumption` and `SelectionAssumption`.

`ChatLoopProofs` proves `TypeCorrect`, `TriedOnce` and `Refusal` for any accounts,
sources, budget and cap. `NeverTriedTwice` does not follow from the types: the
invariant adds `Progressing`, which says that an account already sent to is excluded,
but for the one of the present turn while its outcome is open. They use
`LoopAssumption`.

`SourceUsageProofs` proves `Components`: a source used by any number of requests
implements the specifications of its ladder and of its counter. Each step of
`SourceUsage` is a step of a component or leaves it alone (`LadderStep`,
`CounterStep`), under a mapping that is the identity on the shared variables.
What the components promise is proved on top of it. `StreakCounted` needs that
after a success the count is zero, and after a failure the time of the last failure
is that of the last outcome (`LastOutcome` in `LadderInv`). `Window` needs that all slots of the ring but
the first are empty, and that the first holds the hits since the base (`CounterInv`);
its sums are cardinalities of sets of tokens, one for each hit. With it
`OnlyPresentBucket` proves the disagreement noted in section 3: the sum of the ring is
exactly the hits of the present bucket. They use `UsageAssumption`.

`StreamRelayProofs` proves all four safety properties of the run, for any accounts,
chunks and numbers of requests. For the counters (`NeverShown`, `Exactness`) the
invariant (`RelayInv`) says when the request has been taken off: exactly when the
stream was flushed or the controller is disconnected; and that the stall timer never
runs past the end of the upstream, so the flush is always the first end. That the
counter of the model is the sum over accounts is proved on the cardinality of the
counted units. For the stream, `Legal` is a step of a client and `Leads` says that a
sequence of events takes it from one place to another. `TranslatedFollows` proves of
the translation that the events of a chunk are legal where the ones before led to,
with a lemma for each of its operators, and for the two folds over lists of calls
(`CallsFollow`, `AllClosed`) an induction on the number done. It has no hypothesis on
the chunk: beyond the finish reason `Legal` is the weaker step of `ClaudeStream`, for
which the place of the translation has to know that every tool has a block below the next number
(`Ground`, `Reach`). The invariant
(`StreamInv`) says that what waits in the queue leads the client to where the
translation is (`InStep`). Then every event read is a step of `ClaudeStream` and
everything else a stutter or its end (`ClientStep`): `ProtocolKept` is the refinement.
`Marked` needs besides that a mark for the end comes last (`MarkLast`: it has been read last, or waits behind everything else) and that an end
or a failure comes after the chunks (`AtTheEnd`). TLC found `StreamInv` to hold of the
run before it was proved. They use `RelayAssumption`.

`AccountLocksProofs` proves `TypeCorrect`, `Honesty`, `Unlocking` and `RetryTime`, for
any accounts, models, requests, failures and cooldowns. The invariant (`LocksInv`)
says of an account that is not contended that it has at most one user (`Alone`),
whose copy of the row is the present one, and none while it is marked in the
background; and that what is about to be written is a time (`Ready`). Then a success
decides on the row as it is. That a backoff is a time rests on powers of two being
natural, which is had by counting subsets. They use `LockAssumption`.

`CredentialRefreshProofs` proves all five properties of the run, for any requests,
accounts, caps, times and faults: `Waiters`, `OneFlight`, `Slots`, `Issuance`,
`NoReplay`, and `TypeCorrect`. The invariant (`RefreshInv`) adds that every entry of the
map of locks is a refresh that runs (`LocksRun`), that whoever asks the provider has
announced it in the cache (`Flights`), that nobody has a token before it is issued
(`Issued`), that a token that is not in the row is in the hands of one about to
write it (`Handed`), and that a retired token's entry stays until its time has passed
(`Kept`). `Ending` is the lemma the rest stands on: when refreshes end, everyone who
awaited them goes on and nobody else. They use `RefreshAssumption`.

`ComboProofs` proves of `ComboFallback` `ComboTyped`, `RoundRobin`, `NothingForgotten` and
`MovedForCause`, for any number of models, requests and waiting rounds. The invariant
(`ComboInv`) computes the turns each model has had from the cursor of the rotation
(`TurnsCounted`), and says of a request under way that each model is behind it or
still in its order, and that the model it found its conversation bound to, if the combo
has it, is the first it asks (`UnderWay`). What rotating, filtering and sorting by `Filter` do to an order is a
family of lemmas on the range and the injectivity of sequences. They use
`ComboAssumption`.

It proves of `FusionPanel` `TypeCorrect`, `Counters`, `Capacity`, `Cause`, `Late` and
`Answers`, for any number of slots, any backups, quorum and cap. The invariant
(`FusionInv`) is these together with three facts: a slot has no outcome before
it settles (`OutcomeOnce`), the grace timer runs only with a quorum
(`Armed`), and a panel reported as failed has no answers (`Reported`). That a
settled slot lets at most one other start is a matter of ranks in a set of
numbers, which are had from `<` being well-founded. They use `FusionAssumption`.

So every safety property and every refinement that a passing run checks is a theorem
as well. Only model-checked is what rests on fairness, which is out of the prover's
reach: `CooldownReturns`, `EveryRequestAnswered` (of `AccountSelection`, `ChatLoop`
and `ComboFallback`), `PanelEnds` and `EveryStreamEnds`. The two runs that expect a
violation are refutations and have no theorem. The type invariants of the modules
with `TypeCorrect` or `ComboTyped` are proved and in no run. Recursion is had from
recursive functions over intervals and folds over sets. As no induction theorem of
the library can be cited, each induction is over the set of numbers a statement
holds of (`Induction`), and that a recursive function has a solution is proved the
same way (`Iteration`).

## 5. Not modelled

* Sticky session maps. `ChatLoop` lets the selection return any source after any
  time. (In `cache_first` its index is only ever 0, so a switch on a time-out returns
  the same source.)
* Selection by remaining capacity and period resets of the pool; the choice of the
  effective limits of a provider from templates and overrides; several windows of
  one source at a time: they repeat what `SourceUsage` has for one.
* The executors that refresh without the lock, the Copilot token and the project id.
* Key budget, response cache, health probe: bounded tables and timers of their own.
* Errors of the database at start-up: `QuotaPool` reads rows and records without
  failure, where the repository answers a read error with an empty list, and
  nothing is then restored. Its writes may fail.
* The early return of the controller on an AbortError (`streamHandler.js:75`): an abort in
  this code follows a controller that has already noted the disconnect.
* The framing of the Responses API in the relay, and answers that are made of a whole
  body. Other translators and the executors convert payloads and share no state. The database below
  the repositories is atomic reads and writes. Dashboard, tunnels, MITM and CLI
  are outside the request path.

## 6. Plan

1. Theorems about the operators that stand for themselves: how long the ladder makes a
   source wait for a streak of any length, and what the two strategies of
   `SelectionRule` return for any rows.
2. Sticky session maps in place of the arbitrary source of `ChatLoop`, and the
   account without authentication.
3. Period resets of the pool's quotas, and response cache and key budget at their
   bounds.
