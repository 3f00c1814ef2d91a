---------------------------- MODULE WindowCounter ----------------------------
(***************************************************************************)
(* The ring-buffer counter behind every rate window: f6CreateCounter and   *)
(* the rpm/tpm buckets of open-sse/services/quotaPool.js, and              *)
(* createWindowCounter of providerLimits.js, which share one algorithm.    *)
(* It is checked against the sliding window it stands for.                 *)
(***************************************************************************)
EXTENDS Integers, Functions

CONSTANTS
    BucketCount,    \* buckets in a window
    BucketTicks,    \* clock ticks in a bucket
    MaxTime,        \* bound on the clock
    MaxHits         \* bound on the hits recorded

VARIABLES
    now,
    bucketBase,     \* bucketBaseMs, in buckets
    buckets,
    hits            \* the hits this counter recorded at each tick: a ghost

vars == <<now, bucketBase, buckets, hits>>

Index == 0..(BucketCount - 1)
Empty == [i \in Index |-> 0]

\* The bucket a time falls in.
AlignBase(t) == t \div BucketTicks

\* TLA+'s remainder is never negative, like ((s % n) + n) % n.
BucketIndex(base, b) == (b - base) % BucketCount

\* Mutant of Shifted: one bucket too many is emptied, the current one.
ShiftedCurrent(base, bs, t) ==
    LET elapsed == AlignBase(t) - base
        passed == {BucketIndex(base, base + i) : i \in 0..elapsed}
    IN  [base |-> IF elapsed > 0 THEN base + elapsed ELSE base,
         buckets |-> [i \in Index |-> IF i \in passed THEN 0 ELSE bs[i]]]

\* The buckets the base moves over are emptied, all of them by a jump of a whole
\* window; the base never moves back.
Shifted(base, bs, t) ==
    LET elapsed == AlignBase(t) - base
        passed == {BucketIndex(base, base + i) : i \in 0..(elapsed - 1)}
    IN  [base |-> IF elapsed > 0 THEN base + elapsed ELSE base,
         buckets |-> IF elapsed >= BucketCount THEN Empty
                     ELSE [i \in Index |-> IF i \in passed THEN 0 ELSE bs[i]]]

Total(bs) == SumFunction(bs)

Init ==
    /\ now = 1
    /\ bucketBase = AlignBase(now)
    /\ buckets = Empty
    /\ hits = [t \in 0..MaxTime |-> 0]

\* A counter is replaced by a new one, which knows of no hits.
Renew ==
    /\ bucketBase' = AlignBase(now)
    /\ buckets' = Empty
    /\ hits' = [t \in 0..MaxTime |-> 0]
    /\ UNCHANGED now

Increment ==
    LET s == Shifted(bucketBase, buckets, now)
    IN  /\ Total(hits) < MaxHits
        /\ bucketBase' = s.base
        /\ buckets' = [s.buckets EXCEPT ![BucketIndex(s.base, AlignBase(now))] = @ + 1]
        /\ hits' = [hits EXCEPT ![now] = @ + 1]
        /\ UNCHANGED now

\* Reading the sum shifts as well.
Sum ==
    LET s == Shifted(bucketBase, buckets, now)
    IN  /\ bucketBase' = s.base
        /\ buckets' = s.buckets
        /\ UNCHANGED <<now, hits>>

Tick ==
    /\ now < MaxTime
    /\ now' = now + 1
    /\ UNCHANGED <<bucketBase, buckets, hits>>

Next == Renew \/ Increment \/ Sum \/ Tick

Spec == Init /\ [][Next]_vars

-----------------------------------------------------------------------------
\* What sum() returns.
Counted == Total(Shifted(bucketBase, buckets, now).buckets)

HitsFrom(bucket) ==
    SumFunctionOnSet(hits, {t \in 0..now : AlignBase(t) >= bucket})

\* A limit is never applied to hits that have left the window, and never misses
\* those of the bucket the clock is in, however shifts, hits and jumps of the
\* clock alternate.  It may miss any other hit of the window: the slots the base
\* moves over, which are emptied, are those the window still stands for.
NeverOvercounts == Counted <= HitsFrom(AlignBase(now) - BucketCount + 1)

CountsTheBucket == Counted >= HitsFrom(AlignBase(now))
=============================================================================
