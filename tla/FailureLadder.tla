---------------------------- MODULE FailureLadder ----------------------------
(***************************************************************************)
(* The failure count of one source (open-sse/services/quotaPool.js): which *)
(* failures climb the backoff ladder, and when the count is forgiven.      *)
(*                                                                         *)
(* The code keeps two numbers and forgives a stale count lazily, at the    *)
(* next failure or the next read.  The reference it is checked against is  *)
(* the history of outcomes: the count is the number of rate-limit failures *)
(* that no success and no quiet hour separates from the present.           *)
(***************************************************************************)
EXTENDS Integers, Sequences, FiniteSets

CONSTANTS
    Quiet,      \* FAILURE_COUNT_EXPIRY_MS, in ticks
    MaxTime,    \* bound on the clock
    MaxEvents   \* bound on the outcomes reported

VARIABLES
    now,            \* Date.now(), which is never 0
    failureCount,   \* of the source
    lastFailureAt,  \* lastFailureAtMs, 0 when there was none
    history         \* every outcome reported so far: a ghost

vars == <<now, failureCount, lastFailureAt, history>>

Kind == {"rateLimit", "serverError", "success"}

Init ==
    /\ now = 1
    /\ failureCount = 0
    /\ lastFailureAt = 0
    /\ history = <<>>

\* The expiry check both recordFailure and getFailureCount begin with.
Expired ==
    failureCount > 0 /\ lastFailureAt > 0 /\ now - lastFailureAt > Quiet

\* What getFailureCount returns.
Count == IF Expired THEN 0 ELSE failureCount

Report(kind) ==
    /\ Len(history) < MaxEvents
    /\ history' = Append(history, [at |-> now, kind |-> kind])

\* Mutant of RecordFailure: a 5xx climbs the ladder as well.
RecordAnyFailure(kind) ==
    /\ kind # "success"
    /\ Report(kind)
    /\ lastFailureAt' = now
    /\ failureCount' = Count + 1
    /\ UNCHANGED now

\* Any failure restarts the hour; a 5xx does not climb the ladder.
RecordFailure(kind) ==
    /\ kind # "success"
    /\ Report(kind)
    /\ lastFailureAt' = now
    /\ failureCount' = IF kind = "rateLimit" THEN Count + 1 ELSE Count
    /\ UNCHANGED now

ResetFailureCount ==
    /\ Report("success")
    /\ failureCount' = 0
    /\ lastFailureAt' = 0
    /\ UNCHANGED now

GetFailureCount ==
    /\ failureCount' = Count
    /\ UNCHANGED <<now, lastFailureAt, history>>

Tick ==
    /\ now < MaxTime
    /\ now' = now + 1
    /\ UNCHANGED <<failureCount, lastFailureAt, history>>

Next ==
    \/ \E kind \in Kind : RecordFailure(kind)
    \/ ResetFailureCount
    \/ GetFailureCount
    \/ Tick

Spec == Init /\ [][Next]_vars

-----------------------------------------------------------------------------
\* The values of every variable; no outcome lies in the future.
TypeOK ==
    /\ now \in Nat \ {0}
    /\ failureCount \in Nat
    /\ lastFailureAt \in 0..now
    /\ history \in Seq([at : 1..now, kind : Kind])

\* The time from an outcome to the next one, or to the present.
Gap(i) ==
    (IF i = Len(history) THEN now ELSE history[i + 1].at) - history[i].at

\* The rate-limit failures of the present streak.
Streak ==
    {i \in 1..Len(history) :
        /\ history[i].kind = "rateLimit"
        /\ \A j \in i..Len(history) :
              history[j].kind # "success" /\ Gap(j) <= Quiet}

\* The count a caller reads is the length of the present streak, however the
\* lazy forgiving, the two kinds of failure and the successes were interleaved:
\* "5xx does NOT bump the 429 backoff ladder", a streak older than the expiry is
\* forgiven once, and a success starts over.
CountIsStreak == Count = Cardinality(Streak)
=============================================================================
