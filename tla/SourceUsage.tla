------------------------------ MODULE SourceUsage ------------------------------
(***************************************************************************)
(* What concurrent chat requests record about the source they use          *)
(* (src/sse/handlers/chat.js with quotaPool.js and providerLimits.js of     *)
(* open-sse/services): each registers the source, is let through or skipped *)
(* for a cooldown, a rate window or a quota, and reports its outcome, which *)
(* feeds the window counter, the quota, the failure ladder and the limits   *)
(* learned from an upstream.  The counter and the ladder are the modules of *)
(* their own; here they share the clock and the outcomes.                   *)
(***************************************************************************)
EXTENDS Integers, Sequences, FiniteSets

CONSTANTS
    Req,
    Limit,          \* requests a window allows
    Learnable,      \* limits an error of the upstream may reveal
    LearnedTtl,     \* LEARNED_LIMITS_TTL_MS
    Quota,          \* tokens a period allows
    Quiet, BucketCount, BucketTicks, MaxTime, MaxEvents  \* see the two modules

ASSUME UsageAssumption ==
    /\ Limit \in Nat \ {0} /\ Learnable \subseteq Nat \ {0} /\ LearnedTtl \in Nat
    /\ Quota \in Nat \ {0} /\ Quiet \in Nat \ {0}
    /\ BucketCount \in Nat \ {0} /\ BucketTicks \in Nat \ {0}
    /\ MaxTime \in Nat \ {0} /\ MaxEvents \in Nat

VARIABLES
    now,
    failureCount, lastFailureAt, history,   \* of the ladder
    bucketBase, buckets, hits,              \* of the window counter
    used,       \* of the quota
    learned,    \* learnedLimitsMap: a limit, 0 for none, and when it expires
    pc          \* of every request: idle or sent

failures == <<failureCount, lastFailureAt, history>>
window == <<bucketBase, buckets, hits>>
vars == <<now, failures, window, used, learned, pc>>

Ladder == INSTANCE FailureLadder WITH
    Quiet <- Quiet, MaxTime <- MaxTime, MaxEvents <- MaxEvents, now <- now,
    failureCount <- failureCount, lastFailureAt <- lastFailureAt, history <- history

Counter == INSTANCE WindowCounter WITH
    BucketCount <- BucketCount, BucketTicks <- BucketTicks, MaxTime <- MaxTime,
    MaxHits <- MaxEvents, now <- now,
    bucketBase <- bucketBase, buckets <- buckets, hits <- hits

Init ==
    /\ Ladder!Init /\ Counter!Init
    /\ used = 0
    /\ learned = [limit |-> 0, expires |-> 0]
    /\ pc = [r \in Req |-> "idle"]

-----------------------------------------------------------------------------
\* getLearnedLimits overrides the configured count until it expires.
EffectiveLimit ==
    IF learned.limit > 0 /\ now < learned.expires THEN learned.limit ELSE Limit

\* checkRateLimit, and checkQuotaLimit, on the counter registerSource leaves behind.
RateExceeded == Counter!Counted' >= EffectiveLimit

\* A period begins with the registration, so none is over at the check.
Exhausted == used' >= Quota

\* registerSource replaces the windows and the quota by fresh ones.
Registered ==
    /\ Counter!Renew
    /\ used' = 0

\* A request registers the source, and is skipped while it cools down, when its
\* window is full or its quota is used up.  The cooldowns, which the last two
\* extend, are those of QuotaPool: here a source may be cooling at any time.
Gate(r) ==
    /\ pc[r] = "idle"
    /\ Registered
    /\ \E cooling \in BOOLEAN :
          pc' = IF cooling \/ RateExceeded \/ Exhausted THEN pc
                ELSE [pc EXCEPT ![r] = "sent"]
    /\ UNCHANGED <<now, failures, learned>>

\* Mutant of Succeed: the failure count is left as it was.
SucceedUnforgiven(r) ==
    /\ pc[r] = "sent"
    /\ pc' = [pc EXCEPT ![r] = "idle"]
    /\ Counter!Increment
    /\ Ladder!Report("success")
    /\ used' = used + 1
    /\ UNCHANGED <<failureCount, lastFailureAt, learned>>

\* recordUsage, resetFailureCount and consumeQuota.
Succeed(r) ==
    /\ pc[r] = "sent"
    /\ pc' = [pc EXCEPT ![r] = "idle"]
    /\ Counter!Increment
    /\ Ladder!ResetFailureCount
    /\ used' = used + 1
    /\ UNCHANGED learned

\* learnLimitFromError, for a 429, and recordFailure.  The error analyzer never
\* gets to cool the source down, see Fail of ChatLoop.
Fail(r, kind) ==
    /\ pc[r] = "sent"
    /\ pc' = [pc EXCEPT ![r] = "idle"]
    /\ Ladder!RecordFailure(kind)
    /\ \/ UNCHANGED learned
       \/ /\ kind = "rateLimit"
          /\ \E n \in Learnable : learned' = [limit |-> n, expires |-> now + LearnedTtl]
    /\ UNCHANGED <<window, used>>

\* The dashboard reads the window, which shifts it.
Snapshot ==
    /\ Counter!Sum
    /\ UNCHANGED <<failures, used, learned, pc>>

ReadFailureCount ==
    /\ Ladder!GetFailureCount
    /\ UNCHANGED <<window, used, learned, pc>>

Tick ==
    /\ Ladder!Tick /\ Counter!Tick
    /\ UNCHANGED <<used, learned, pc>>

Next ==
    \/ \E r \in Req :
          \/ Gate(r) \/ Succeed(r)
          \/ \E kind \in {"rateLimit", "serverError"} : Fail(r, kind)
    \/ Snapshot \/ ReadFailureCount \/ Tick

Spec == Init /\ [][Next]_vars

-----------------------------------------------------------------------------
\* The count of failures is the length of the present streak of rate-limit
\* failures, whatever requests report at the same time.
CountIsStreak == Ladder!CountIsStreak

\* A limit is never applied to hits that have left the window, nor misses those
\* of the present bucket, however registrations, successes and reads alternate.
WindowRespected == Counter!NeverOvercounts /\ Counter!CountsTheBucket

\* Taken together the requests do to the failure count only what one caller of
\* the ladder could do, and to the window what one caller of the counter could:
\* the composition implements both components.
ComponentsKept == Ladder!Spec /\ Counter!Spec

\* "Rate-window + quota enforcement": no request is sent once as many as the
\* window allows were answered in the present bucket.  It does not hold: the
\* registration before the check replaces the counter it reads.
Served ==
    Cardinality({i \in DOMAIN history :
        /\ history[i].kind = "success"
        /\ Counter!AlignBase(history[i].at) = Counter!AlignBase(now)})

LimitEnforced ==
    [][\A r \in Req : pc[r] = "idle" /\ pc'[r] = "sent" => Served < Limit]_vars
=============================================================================
