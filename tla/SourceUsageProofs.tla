--------------------------- MODULE SourceUsageProofs ---------------------------
(***************************************************************************)
(* The composition of SourceUsage implements its two components, for any   *)
(* number of requests and any limits: every step of a request, of a reader *)
(* and of the clock is a step of the ladder or leaves it alone, and the    *)
(* same holds of the window counter.  What each component promises then    *)
(* follows from an invariant of its own: the count is the length of the    *)
(* streak, and the window holds the hits of the present bucket.            *)
(***************************************************************************)
EXTENDS SourceUsage, FiniteSetTheorems, WellFoundedInduction, TLAPS

\* Every step of the composition is a step of the failure ladder or a stutter:
\* only the report of an outcome and the lazy read touch the count.
LEMMA LadderStep == [Next]_vars => [Ladder!Next]_Ladder!vars
<1> SUFFICES ASSUME [Next]_vars PROVE [Ladder!Next]_Ladder!vars
  OBVIOUS
<1> USE DEF failures, window, Ladder!vars
<1>1. ASSUME NEW r \in Req, Gate(r) PROVE UNCHANGED Ladder!vars
  BY <1>1 DEF Gate
<1>2. ASSUME NEW r \in Req, Succeed(r) PROVE Ladder!Next
  BY <1>2 DEF Succeed, Ladder!Next
<1>3. ASSUME NEW r \in Req, NEW kind \in {"rateLimit", "serverError"}, Fail(r, kind)
      PROVE Ladder!Next
  BY <1>3 DEF Fail, Ladder!Next, Ladder!Kind
<1>4. ASSUME Snapshot PROVE UNCHANGED Ladder!vars
  BY <1>4 DEF Snapshot, Counter!Sum
<1>5. ASSUME ReadFailureCount PROVE Ladder!Next
  BY <1>5 DEF ReadFailureCount, Ladder!Next
<1>6. ASSUME Tick PROVE Ladder!Next
  BY <1>6 DEF Tick, Ladder!Next
<1>7. ASSUME UNCHANGED vars PROVE UNCHANGED Ladder!vars
  BY <1>7 DEF vars
<1> QED
  BY <1>1, <1>2, <1>3, <1>4, <1>5, <1>6, <1>7 DEF Next

\* Every step of the composition is a step of the window counter or a stutter:
\* a registration renews it, a success is a hit, the dashboard reads it.
LEMMA CounterStep == [Next]_vars => [Counter!Next]_Counter!vars
<1> SUFFICES ASSUME [Next]_vars PROVE [Counter!Next]_Counter!vars
  OBVIOUS
<1> USE DEF failures, window, Counter!vars
<1>1. ASSUME NEW r \in Req, Gate(r) PROVE Counter!Next
  BY <1>1 DEF Gate, Registered, Counter!Next
<1>2. ASSUME NEW r \in Req, Succeed(r) PROVE Counter!Next
  BY <1>2 DEF Succeed, Counter!Next
<1>3. ASSUME NEW r \in Req, NEW kind \in {"rateLimit", "serverError"}, Fail(r, kind)
      PROVE UNCHANGED Counter!vars
  BY <1>3 DEF Fail, Ladder!RecordFailure
<1>4. ASSUME Snapshot PROVE Counter!Next
  BY <1>4 DEF Snapshot, Counter!Next
<1>5. ASSUME ReadFailureCount PROVE UNCHANGED Counter!vars
  BY <1>5 DEF ReadFailureCount, Ladder!GetFailureCount
<1>6. ASSUME Tick PROVE Counter!Next
  BY <1>6 DEF Tick, Counter!Next
<1>7. ASSUME UNCHANGED vars PROVE UNCHANGED Counter!vars
  BY <1>7 DEF vars
<1> QED
  BY <1>1, <1>2, <1>3, <1>4, <1>5, <1>6, <1>7 DEF Next

\* The composition implements the ladder and the counter: whatever requests
\* overlap, each sees a sequence of calls one caller could have made.
THEOREM Components == Spec => ComponentsKept
<1>1. Init => Ladder!Init /\ Counter!Init
  BY DEF Init
<1> QED
  BY <1>1, LadderStep, CounterStep, PTL
     DEF Spec, ComponentsKept, Ladder!Spec, Counter!Spec

-----------------------------------------------------------------------------
\* What the count rests on: it is nothing after a success, and the hour it is
\* forgiven after begins at the last outcome when that is a failure.
LastOutcome ==
    LET n == Len(history)
    IN  /\ n = 0 => failureCount = 0
        /\ n > 0 => IF history[n].kind = "success" THEN failureCount = 0
                    ELSE lastFailureAt = history[n].at

LadderInv == Ladder!TypeOK /\ LastOutcome /\ CountIsStreak

LEMMA StreakFinite ==
  ASSUME Ladder!TypeOK
  PROVE  /\ Ladder!Streak \subseteq 1..Len(history)
         /\ IsFiniteSet(Ladder!Streak) /\ Cardinality(Ladder!Streak) \in Nat
<1>1. Len(history) \in Nat
  BY DEF Ladder!TypeOK
<1>2. Ladder!Streak \subseteq 1..Len(history)
  BY DEF Ladder!Streak
<1>3. IsFiniteSet(1..Len(history))
  BY <1>1, FS_Interval
<1> QED BY <1>2, <1>3, FS_Subset, FS_CardinalityType

\* What the ladder counts with is what the theorems on finite sets are about.
LEMMA SameCardinality == \A S : Ladder!Cardinality(S) = Cardinality(S)
BY DEF Ladder!Cardinality, Cardinality

LEMMA OutcomeTyped ==
  ASSUME Ladder!TypeOK, NEW i \in 1..Len(history)
  PROVE  history[i].at \in 1..now
<1> DEFINE Outcome == [at : 1..now, kind : Ladder!Kind]
<1>1. history \in Seq(Outcome)
  BY DEF Ladder!TypeOK
<1> HIDE DEF Outcome
<1>2. history[i] \in Outcome
  BY <1>1
<1> QED BY <1>2 DEF Outcome

LEMMA NoneCounted ==
  ASSUME Ladder!Count = 0, Ladder!Streak = {} PROVE CountIsStreak
BY FS_EmptySet, SameCardinality DEF CountIsStreak, Ladder!CountIsStreak

LEMMA NoneCountedNext ==
  ASSUME Ladder!Count' = 0, Ladder!Streak' = {} PROVE CountIsStreak'
BY FS_EmptySet, SameCardinality DEF CountIsStreak, Ladder!CountIsStreak

\* A failure reported now keeps the streak before it: the gap that ends with it
\* is the one that ended with the present.
LEMMA StreakGrows ==
  ASSUME Ladder!TypeOK, Quiet \in Nat, NEW kind \in Ladder!Kind \ {"success"},
         now' = now, history' = Append(history, [at |-> now, kind |-> kind])
  PROVE  Ladder!Streak' = Ladder!Streak \cup
            (IF kind = "rateLimit" THEN {Len(history) + 1} ELSE {})
<1>0. PICK n \in Nat : n = Len(history)
  BY DEF Ladder!TypeOK
<1>1. /\ n \in Nat /\ Len(history') = n + 1 /\ now \in Nat
      /\ history'[n + 1] = [at |-> now, kind |-> kind]
      /\ \A i \in 1..n : history'[i] = history[i]
  BY <1>0 DEF Ladder!TypeOK
<1>2. Ladder!Gap(n + 1)' = 0
  BY <1>1 DEF Ladder!Gap
<1>3. \A i \in 1..n : Ladder!Gap(i)' = Ladder!Gap(i)
  BY <1>0, <1>1 DEF Ladder!Gap
<1>4. \A i \in 1..n : i \in Ladder!Streak' <=> i \in Ladder!Streak
  <2> SUFFICES ASSUME NEW i \in 1..n PROVE i \in Ladder!Streak' <=> i \in Ladder!Streak
    OBVIOUS
  <2>1. i..(n + 1) = (i..n) \cup {n + 1} /\ i..n \subseteq 1..n
    BY <1>1
  <2>2. history'[n + 1].kind # "success" /\ Ladder!Gap(n + 1)' <= Quiet
    BY <1>1, <1>2
  <2> QED BY <1>0, <1>1, <1>3, <2>1, <2>2 DEF Ladder!Streak
<1>5. n + 1 \in Ladder!Streak' <=> kind = "rateLimit"
  <2>1. (n + 1)..(n + 1) = {n + 1}
    BY <1>1
  <2> QED BY <1>1, <1>2, <2>1 DEF Ladder!Streak
<1>6. Ladder!Streak' \subseteq 1..(n + 1) /\ Ladder!Streak \subseteq 1..n
  BY <1>0, <1>1 DEF Ladder!Streak
<1>7. 1..(n + 1) = (1..n) \cup {n + 1} /\ n + 1 \notin 1..n
  BY <1>1
<1> QED BY <1>0, <1>4, <1>5, <1>6, <1>7

\* Nothing but a failure makes a streak: there is none without an outcome, nor
\* after a success, nor when the last outcome is longer ago than the expiry.
LEMMA StreakEmpty ==
  ASSUME Ladder!TypeOK,
         \/ Len(history) = 0
         \/ history[Len(history)].kind = "success"
         \/ ~(now - history[Len(history)].at <= Quiet)
  PROVE  Ladder!Streak = {}
<1>1. Len(history) \in Nat
  BY DEF Ladder!TypeOK
<1>2. \A i \in 1..Len(history) : Len(history) \in i..Len(history)
  BY <1>1
<1>3. Ladder!Gap(Len(history)) = now - history[Len(history)].at
  BY DEF Ladder!Gap
<1> QED BY <1>1, <1>2, <1>3 DEF Ladder!Streak

LEMMA LadderInit == Ladder!Init => LadderInv
<1> SUFFICES ASSUME Ladder!Init PROVE LadderInv
  OBVIOUS
<1>1. Ladder!TypeOK
  BY DEF Ladder!Init, Ladder!TypeOK
<1>2. Len(history) = 0 /\ Ladder!Count = 0
  BY DEF Ladder!Init, Ladder!Count
<1>3. Ladder!Streak = {}
  BY <1>1, <1>2, StreakEmpty
<1> QED
  BY <1>1, <1>2, <1>3, NoneCounted DEF LadderInv, LastOutcome, Ladder!Init

LEMMA LadderTyped == Ladder!TypeOK /\ [Ladder!Next]_Ladder!vars => Ladder!TypeOK'
<1> SUFFICES ASSUME Ladder!TypeOK, [Ladder!Next]_Ladder!vars PROVE Ladder!TypeOK'
  OBVIOUS
<1>1. Ladder!Count \in Nat
  BY DEF Ladder!TypeOK, Ladder!Count
<1>2. /\ now' \in Nat \ {0} /\ now <= now'
      /\ failureCount' \in Nat /\ lastFailureAt' \in 0..now'
  BY <1>1 DEF Ladder!TypeOK, Ladder!Next, Ladder!vars, Ladder!RecordFailure,
        Ladder!ResetFailureCount, Ladder!GetFailureCount, Ladder!Tick
<1>3. history' \in Seq([at : 1..now', kind : Ladder!Kind])
  <2> DEFINE Before == [at : 1..now, kind : Ladder!Kind]
             After == [at : 1..now', kind : Ladder!Kind]
  <2>1. /\ Before \subseteq After
        /\ \A kind \in Ladder!Kind : [at |-> now, kind |-> kind] \in Before
    BY <1>2 DEF Ladder!TypeOK
  <2>2. history \in Seq(Before)
    BY DEF Ladder!TypeOK
  <2>3. \/ history' = history
        \/ \E kind \in Ladder!Kind : history' = Append(history, [at |-> now, kind |-> kind])
    BY DEF Ladder!Next, Ladder!vars, Ladder!RecordFailure, Ladder!ResetFailureCount,
           Ladder!GetFailureCount, Ladder!Tick, Ladder!Report, Ladder!Kind
  <2> HIDE DEF Before, After
  <2>4. history' \in Seq(Before)
    <3>1. CASE history' = history
      BY <2>2, <3>1
    <3>2. ASSUME NEW kind \in Ladder!Kind,
                 history' = Append(history, [at |-> now, kind |-> kind])
          PROVE  history' \in Seq(Before)
      <4> DEFINE new == [at |-> now, kind |-> kind]
      <4>1. new \in Before
        BY <2>1
      <4> HIDE DEF new
      <4>2. Append(history, new) \in Seq(Before)
        BY <2>2, <4>1
      <4> QED BY <3>2, <4>2 DEF new
    <3> QED BY <2>3, <3>1, <3>2
  <2>5. history' \in Seq(After)
    BY <2>1, <2>4
  <2> QED BY <2>5 DEF After
<1> QED BY <1>2, <1>3 DEF Ladder!TypeOK

LEMMA LadderKeeps == LadderInv /\ [Ladder!Next]_Ladder!vars => LadderInv'
<1> SUFFICES ASSUME LadderInv, [Ladder!Next]_Ladder!vars PROVE LadderInv'
  OBVIOUS
<1>0. PICK n \in Nat : n = Len(history)
  BY DEF LadderInv, Ladder!TypeOK
<1>1. Ladder!TypeOK /\ LastOutcome /\ CountIsStreak /\ Ladder!TypeOK'
  BY LadderTyped DEF LadderInv
<1>2. /\ n \in Nat /\ now \in Nat \ {0} /\ failureCount \in Nat
      /\ lastFailureAt \in Nat /\ Quiet \in Nat
  BY <1>1, UsageAssumption DEF Ladder!TypeOK, UsageAssumption
<1>3. ASSUME NEW i \in 1..n PROVE history[i].at \in 1..now
  BY <1>0, <1>1, <1>3, OutcomeTyped
<1>4. ASSUME NEW kind \in Ladder!Kind, Ladder!RecordFailure(kind)
      PROVE  LastOutcome' /\ CountIsStreak'
  <2>1. /\ kind # "success" /\ now' = now /\ lastFailureAt' = now
        /\ history' = Append(history, [at |-> now, kind |-> kind])
        /\ failureCount' = IF kind = "rateLimit" THEN Ladder!Count + 1 ELSE Ladder!Count
    BY <1>0, <1>4 DEF Ladder!RecordFailure, Ladder!Report
  <2>2. Len(history') = n + 1 /\ history'[n + 1] = [at |-> now, kind |-> kind]
    BY <1>0, <1>1, <2>1 DEF Ladder!TypeOK
  <2>3. LastOutcome'
    BY <1>0, <1>2, <2>1, <2>2 DEF LastOutcome
  <2>4. Ladder!Count' = failureCount'
    BY <1>0, <1>2, <2>1 DEF Ladder!Count, Ladder!Expired
  <2>5. n + 1 \notin Ladder!Streak
    BY <1>0, <1>1, <1>2, StreakFinite
  <2>6. CASE kind = "rateLimit"
    <3>1. Ladder!Streak' = Ladder!Streak \cup {n + 1}
      BY <1>0, <1>1, <1>2, <2>1, <2>6, StreakGrows
    <3>2. Cardinality(Ladder!Streak \cup {n + 1}) = Cardinality(Ladder!Streak) + 1
      BY <1>0, <1>1, <2>5, StreakFinite, FS_AddElement
    <3> QED BY <1>0, <1>1, <2>1, <2>3, <2>4, <2>6, <3>1, <3>2, SameCardinality DEF CountIsStreak, Ladder!CountIsStreak
  <2>7. CASE kind # "rateLimit"
    <3>1. Ladder!Streak' = Ladder!Streak \cup {}
      BY <1>0, <1>1, <1>2, <2>1, <2>7, StreakGrows
    <3> QED BY <1>0, <1>1, <2>1, <2>3, <2>4, <2>7, <3>1 DEF CountIsStreak, Ladder!CountIsStreak
  <2> QED BY <1>0, <2>6, <2>7
<1>5. ASSUME Ladder!ResetFailureCount PROVE LastOutcome' /\ CountIsStreak'
  <2>1. /\ failureCount' = 0
        /\ history' = Append(history, [at |-> now, kind |-> "success"])
    BY <1>0, <1>5 DEF Ladder!ResetFailureCount, Ladder!Report
  <2>2. Len(history') = n + 1 /\ history'[n + 1].kind = "success"
    BY <1>0, <1>1, <2>1 DEF Ladder!TypeOK
  <2>3. LastOutcome' /\ Ladder!Count' = 0
    BY <1>0, <1>2, <2>1, <2>2 DEF LastOutcome, Ladder!Count
  <2>4. \A i \in 1..(n + 1) : n + 1 \in i..(n + 1)
    BY <1>0, <1>2
  <2>5. Ladder!Streak' = {}
    BY <1>0, <2>2, <2>4 DEF Ladder!Streak
  <2> QED BY <1>0, <2>3, <2>5, NoneCountedNext
<1>6. ASSUME Ladder!GetFailureCount PROVE LastOutcome' /\ CountIsStreak'
  <2>1. failureCount' = Ladder!Count /\ UNCHANGED <<now, lastFailureAt, history>>
    BY <1>0, <1>6 DEF Ladder!GetFailureCount
  <2>2. LastOutcome'
    BY <1>0, <1>1, <2>1 DEF LastOutcome, Ladder!Count
  <2>3. Ladder!Count' = Ladder!Count
    BY <1>0, <2>1 DEF Ladder!Count, Ladder!Expired
  <2>4. Ladder!Streak' = Ladder!Streak
    BY <1>0, <2>1 DEF Ladder!Streak, Ladder!Gap
  <2> QED BY <1>0, <1>1, <2>2, <2>3, <2>4 DEF CountIsStreak, Ladder!CountIsStreak
<1>7. ASSUME Ladder!Tick PROVE LastOutcome' /\ CountIsStreak'
  <2>1. now' = now + 1 /\ UNCHANGED <<failureCount, lastFailureAt, history>>
    BY <1>0, <1>7 DEF Ladder!Tick
  <2>2. LastOutcome'
    BY <1>0, <1>1, <2>1 DEF LastOutcome
  <2>3. CASE n = 0 \/ history[n].kind = "success"
    <3>1. Ladder!Streak' = {}
      <4>1. \A i \in 1..n : n \in i..n
        BY <1>0, <1>2
      <4> QED BY <1>0, <1>2, <2>1, <2>3, <4>1 DEF Ladder!Streak
    <3>2. failureCount = 0
      BY <1>0, <1>1, <1>2, <2>3 DEF LastOutcome
    <3> QED BY <1>0, <2>1, <2>2, <3>1, <3>2, NoneCountedNext DEF Ladder!Count
  <2>4. CASE n > 0 /\ history[n].kind # "success" /\ now + 1 - history[n].at <= Quiet
    <3>1. lastFailureAt = history[n].at /\ history[n].at \in 1..now
      BY <1>0, <1>1, <1>2, <1>3, <2>4 DEF LastOutcome
    <3>2. Ladder!Count' = failureCount /\ Ladder!Count = failureCount
      <4>1. ~(now + 1 - lastFailureAt > Quiet) /\ ~(now - lastFailureAt > Quiet)
        BY <1>2, <2>4, <3>1
      <4>2. ~Ladder!Expired
        BY <4>1 DEF Ladder!Expired
      <4>3. ~(now' - lastFailureAt' > Quiet)
        BY <1>2, <2>1, <4>1
      <4>4. ~Ladder!Expired'
        BY <4>3 DEF Ladder!Expired
      <4> QED BY <2>1, <4>2, <4>4 DEF Ladder!Count
    <3>3. /\ \A i \in 1..n : i # n => Ladder!Gap(i)' = Ladder!Gap(i)
          /\ Ladder!Gap(n)' <= Quiet /\ Ladder!Gap(n) <= Quiet
      <4>1. \A i \in 1..n : i # n => Ladder!Gap(i)' = Ladder!Gap(i)
        BY <1>0, <2>1 DEF Ladder!Gap
      <4>2. now + 1 - history[n].at <= Quiet /\ now - history[n].at <= Quiet
        BY <1>2, <2>4, <3>1
      <4>3. Ladder!Gap(n) = now - history[n].at /\ Ladder!Gap(n)' = now + 1 - history[n].at
        BY <1>0, <1>2, <2>1, <3>1 DEF Ladder!Gap
      <4> QED BY <4>1, <4>2, <4>3
    <3>4. Ladder!Streak' = Ladder!Streak
      <4>1. \A i \in 1..n : i..n \subseteq 1..n
        BY <1>0, <1>2
      <4>2. \A j \in 1..n : Ladder!Gap(j)' <= Quiet <=> Ladder!Gap(j) <= Quiet
        BY <1>0, <3>3
      <4> QED BY <1>0, <2>1, <4>1, <4>2 DEF Ladder!Streak
    <3> QED BY <1>0, <1>1, <2>2, <3>2, <3>4 DEF CountIsStreak, Ladder!CountIsStreak
  <2>5. CASE n > 0 /\ history[n].kind # "success" /\ ~(now + 1 - history[n].at <= Quiet)
    <3>1. lastFailureAt = history[n].at /\ history[n].at \in 1..now
      BY <1>0, <1>1, <1>2, <1>3, <2>5 DEF LastOutcome
    <3>2. Ladder!Count' = 0
      BY <1>0, <1>2, <2>1, <2>5, <3>1 DEF Ladder!Count, Ladder!Expired
    <3>3. Ladder!Gap(n)' = now + 1 - history[n].at
      BY <1>0, <1>2, <2>1, <3>1 DEF Ladder!Gap
    <3>4. \A i \in 1..n : n \in i..n
      BY <1>0, <1>2
    <3>5. Ladder!Streak' = {}
      BY <1>0, <2>1, <2>5, <3>3, <3>4 DEF Ladder!Streak
    <3> QED BY <1>0, <2>2, <3>2, <3>5, NoneCountedNext
  <2> QED BY <1>0, <1>2, <2>3, <2>4, <2>5
<1>8. ASSUME UNCHANGED Ladder!vars PROVE LastOutcome' /\ CountIsStreak'
  <2>1. UNCHANGED <<now, failureCount, lastFailureAt, history>>
    BY <1>0, <1>8 DEF Ladder!vars
  <2> QED BY <1>0, <1>1, <2>1 DEF LastOutcome, CountIsStreak, Ladder!CountIsStreak, Ladder!Count,
                            Ladder!Expired, Ladder!Streak, Ladder!Gap
<1>9. LastOutcome' /\ CountIsStreak'
  BY <1>4, <1>5, <1>6, <1>7, <1>8 DEF Ladder!Next
<1> QED BY <1>1, <1>9 DEF LadderInv

\* Whatever requests report at the same time, and however late the count is
\* forgiven, a caller reads the length of the present streak of 429s.
THEOREM StreakCounted == Spec => []CountIsStreak
<1>1. Init => LadderInv
  BY LadderInit DEF Init
<1>2. LadderInv /\ [Next]_vars => LadderInv'
  BY LadderStep, LadderKeeps
<1>3. LadderInv => CountIsStreak
  BY DEF LadderInv
<1> QED BY <1>1, <1>2, <1>3, PTL DEF Spec

-----------------------------------------------------------------------------
\* Sums over finite sets.  A sum of naturals is the number of tokens in a set
\* that holds f[x] of them for each x.

Tokens(f, S) == {p \in S \X Nat : p[2] < f[p[1]]}

SumOn(f, S) == Counter!SumFunctionOnSet(f, S)

\* G holds of a set as soon as it holds of the set without any one element.
Inherited(G, S) ==
    {} \in G /\ \A T \in (SUBSET S) \ {{}} : (\A x \in T : T \ {x} \in G) => T \in G

LEMMA SetInduction ==
  ASSUME NEW S, IsFiniteSet(S), NEW G, Inherited(G, S)
  PROVE  S \in G
<1> SUFFICES ASSUME S \notin G PROVE FALSE
  OBVIOUS
<1> DEFINE Bad == {T \in SUBSET S : T \notin G}
           Sizes == {Cardinality(T) : T \in Bad}
           R == {p \in Nat \X Nat : p[1] < p[2]}
<1>1. \A T \in SUBSET S : IsFiniteSet(T) /\ Cardinality(T) \in Nat
  BY FS_Subset, FS_CardinalityType
<1>2. Sizes \in SUBSET Nat /\ Sizes # {}
  BY <1>1
<1>3. IsWellFoundedOn(R, Nat) /\ \A x, y \in Nat : <<y, x>> \in R <=> y < x
  BY NatLessThanWellFounded, Zenon DEF OpToRel
<1> HIDE DEF R, Sizes
<1>4. PICK n \in Sizes : \A m \in Sizes : ~ (<<m, n>> \in R)
  BY <1>2, <1>3, WFMin
<1>5. \A m \in Sizes : ~ (m < n)
  BY <1>2, <1>3, <1>4
<1> USE DEF Sizes
<1>6. PICK T \in Bad : n = Cardinality(T)
  BY <1>4
<1>7. ASSUME NEW x \in T PROVE T \ {x} \in G
  <2>1. Cardinality(T \ {x}) = Cardinality(T) - 1
    BY <1>1, <1>6, FS_RemoveElement
  <2>2. T \ {x} \in SUBSET S
    BY <1>6
  <2>3. Cardinality(T) \in Nat
    BY <1>1, <1>6
  <2>4. T \ {x} \notin Bad
    BY <1>5, <1>6, <2>1, <2>3
  <2> QED BY <2>2, <2>4
<1>8. T # {} /\ T \in SUBSET S /\ T \notin G
  BY <1>6 DEF Inherited
<1> HIDE DEF Bad, Sizes
<1> QED BY <1>7, <1>8 DEF Inherited

LEMMA DisjointUnion ==
  ASSUME NEW P, NEW Q, IsFiniteSet(P), IsFiniteSet(Q), P \cap Q = {}
  PROVE  /\ IsFiniteSet(P \cup Q)
         /\ Cardinality(P \cup Q) = Cardinality(P) + Cardinality(Q)
<1>1. Cardinality(P) \in Nat /\ Cardinality(Q) \in Nat
  BY FS_CardinalityType
<1>2. /\ IsFiniteSet(P \cup Q)
      /\ Cardinality(P \cup Q) = Cardinality(P) + Cardinality(Q) - Cardinality(P \cap Q)
  BY FS_Union
<1>3. Cardinality(P \cap Q) = 0
  BY FS_EmptySet, Zenon
<1> QED BY <1>1, <1>2, <1>3

LEMMA TokensOfOne ==
  ASSUME NEW D, NEW f \in [D -> Nat], NEW x \in D
  PROVE  IsFiniteSet(Tokens(f, {x})) /\ Cardinality(Tokens(f, {x})) = f[x]
<1>1. f[x] \in Nat
  OBVIOUS
<1>2. Tokens(f, {x}) = {x} \X (0..(f[x] - 1))
  BY <1>1 DEF Tokens
<1>3. IsFiniteSet(0..(f[x] - 1)) /\ Cardinality(0..(f[x] - 1)) = f[x]
  BY <1>1, FS_Interval
<1>4. IsFiniteSet({x}) /\ Cardinality({x}) = 1
  BY FS_Singleton
<1> DEFINE A == {x}
           B == 0..(f[x] - 1)
<1> HIDE DEF A, B
<1>5. IsFiniteSet(A \X B) /\ Cardinality(A \X B) = Cardinality(A) * Cardinality(B)
  BY <1>3, <1>4, FS_Product DEF A, B
<1>6. Cardinality(A) * Cardinality(B) = f[x]
  BY <1>1, <1>3, <1>4 DEF A, B
<1> QED BY <1>2, <1>5, <1>6 DEF A, B

\* Taking an element out takes its tokens out.
LEMMA TokensWithout ==
  ASSUME NEW D, NEW f \in [D -> Nat], NEW S \in SUBSET D, NEW x \in S,
         IsFiniteSet(Tokens(f, S \ {x}))
  PROVE  /\ IsFiniteSet(Tokens(f, S))
         /\ Cardinality(Tokens(f, S)) = f[x] + Cardinality(Tokens(f, S \ {x}))
<1>1. IsFiniteSet(Tokens(f, {x})) /\ Cardinality(Tokens(f, {x})) = f[x]
  BY TokensOfOne
<1>2. Tokens(f, S) = Tokens(f, {x}) \cup Tokens(f, S \ {x})
  BY DEF Tokens
<1>3. Tokens(f, {x}) \cap Tokens(f, S \ {x}) = {}
  BY DEF Tokens
<1>4. f[x] \in Nat /\ Cardinality(Tokens(f, S \ {x})) \in Nat
  BY FS_CardinalityType
<1> DEFINE A == Tokens(f, {x})
           B == Tokens(f, S \ {x})
<1> HIDE DEF A, B
<1>5. IsFiniteSet(A \cup B) /\ Cardinality(A \cup B) = Cardinality(A) + Cardinality(B)
  BY <1>1, <1>3, DisjointUnion DEF A, B
<1> QED BY <1>1, <1>2, <1>5 DEF A, B

LEMMA TokensFinite ==
  ASSUME NEW D, NEW f \in [D -> Nat], NEW S \in SUBSET D, IsFiniteSet(S)
  PROVE  IsFiniteSet(Tokens(f, S))
<1> DEFINE G == {T \in SUBSET S : IsFiniteSet(Tokens(f, T))}
<1>1. Tokens(f, {}) = {}
  BY DEF Tokens
<1>2. {} \in G
  BY <1>1, FS_EmptySet
<1>3. ASSUME NEW T \in (SUBSET S) \ {{}}, \A x \in T : T \ {x} \in G PROVE T \in G
  <2>1. PICK x \in T : TRUE
    BY <1>3
  <2>2. T \in SUBSET D
    BY <1>3
  <2>3. IsFiniteSet(Tokens(f, T \ {x}))
    BY <1>3, <2>1
  <2> QED BY <1>3, <2>1, <2>2, <2>3, TokensWithout
<1> HIDE DEF G
<1>4. S \in G
  BY <1>2, <1>3, SetInduction DEF Inherited
<1> QED BY <1>4 DEF G

\* What the fold computes is the number of tokens.
LEMMA SumCounts ==
  ASSUME NEW D, NEW f \in [D -> Nat], NEW S \in SUBSET D, IsFiniteSet(S)
  PROVE  SumOn(f, S) = Cardinality(Tokens(f, S))
<1> DEFINE Pick(s) == CHOOSE x \in s : TRUE
           Rec(g) == [s \in SUBSET S |->
                         IF s = {} THEN 0 ELSE f[Pick(s)] + g[s \ {Pick(s)}]]
           W == [s \in SUBSET S |-> Cardinality(Tokens(f, s))]
           K == CHOOSE g : g = Rec(g)
<1>1. SumOn(f, S) = K[S]
  BY DEF SumOn, Counter!SumFunctionOnSet, Counter!FoldFunctionOnSet, Counter!MapThenFoldSet
<1>2. Tokens(f, {}) = {}
  BY DEF Tokens
<1>3. W[{}] = 0
  BY <1>2, FS_EmptySet
<1>4. \A s \in SUBSET S : s # {} => Pick(s) \in s
  OBVIOUS
<1>5. ASSUME NEW s \in SUBSET S, s # {}
      PROVE  W[s] = f[Pick(s)] + W[s \ {Pick(s)}]
  <2>1. IsFiniteSet(s \ {Pick(s)}) /\ s \ {Pick(s)} \in SUBSET D /\ s \in SUBSET D
    BY FS_Subset
  <2>2. Pick(s) \in s
    BY <1>4, <1>5
  <2> HIDE DEF Pick
  <2>3. IsFiniteSet(Tokens(f, s \ {Pick(s)}))
    BY <2>1, TokensFinite
  <2>4. Cardinality(Tokens(f, s)) = f[Pick(s)] + Cardinality(Tokens(f, s \ {Pick(s)}))
    BY <2>1, <2>2, <2>3, TokensWithout
  <2>5. s \ {Pick(s)} \in SUBSET S
    OBVIOUS
  <2> QED BY <2>4, <2>5
<1>6. W = Rec(W)
  <2>1. \A s \in SUBSET S : W[s] = IF s = {} THEN 0 ELSE f[Pick(s)] + W[s \ {Pick(s)}]
    BY <1>3, <1>5
  <2>2. W = [s \in SUBSET S |-> W[s]]
    OBVIOUS
  <2> HIDE DEF W, Pick
  <2> QED BY <2>1, <2>2
<1>7. K = Rec(K)
  <2> HIDE DEF Rec, W
  <2> QED BY <1>6
<1>8. \A s \in SUBSET S : K[s] = IF s = {} THEN 0 ELSE f[Pick(s)] + K[s \ {Pick(s)}]
  <2>1. ASSUME NEW g, g = Rec(g), NEW s \in SUBSET S
        PROVE  g[s] = IF s = {} THEN 0 ELSE f[Pick(s)] + g[s \ {Pick(s)}]
    <3>1. g[s] = Rec(g)[s]
      BY <2>1
    <3> HIDE DEF Pick
    <3> QED BY <3>1
  <2> HIDE DEF K, Rec, Pick
  <2> QED BY <1>7, <2>1
<1> DEFINE G == {s \in SUBSET S : K[s] = W[s]}
<1> HIDE DEF K, W, Pick
<1>9. {} \in G
  BY <1>3, <1>8
<1>10. ASSUME NEW T \in (SUBSET S) \ {{}}, \A x \in T : T \ {x} \in G PROVE T \in G
  <2>1. T \ {Pick(T)} \in G
    BY <1>4, <1>10, Zenon
  <2> QED BY <1>5, <1>8, <2>1
<1> HIDE DEF G
<1>11. S \in G
  BY <1>9, <1>10, SetInduction DEF Inherited
<1> USE DEF G
<1>12. K[S] = W[S]
  BY <1>11
<1> QED BY <1>1, <1>12 DEF W

\* What the counter needs of sums: they grow with the set, forget what is zero,
\* and one more hit is one more.
LEMMA SumBasics ==
  ASSUME NEW D, NEW f \in [D -> Nat], NEW S \in SUBSET D, IsFiniteSet(S)
  PROVE  /\ SumOn(f, S) \in Nat
         /\ \A T \in SUBSET S :
               /\ SumOn(f, T) <= SumOn(f, S)
               /\ (\A x \in S \ T : f[x] = 0) => SumOn(f, T) = SumOn(f, S)
         /\ \A x \in D : S = {x} => SumOn(f, S) = f[x]
         /\ S = {} => SumOn(f, S) = 0
<1>1. SumOn(f, S) = Cardinality(Tokens(f, S)) /\ IsFiniteSet(Tokens(f, S))
  BY SumCounts, TokensFinite
<1>2. SumOn(f, S) \in Nat
  BY <1>1, FS_CardinalityType
<1>3. ASSUME NEW T \in SUBSET S PROVE SumOn(f, T) <= SumOn(f, S)
  <2>1. IsFiniteSet(T) /\ T \in SUBSET D
    BY FS_Subset
  <2>2. SumOn(f, T) = Cardinality(Tokens(f, T))
    BY <2>1, SumCounts
  <2>3. Tokens(f, T) \in SUBSET Tokens(f, S)
    BY DEF Tokens
  <2> QED BY <1>1, <2>2, <2>3, FS_Subset
<1>4. ASSUME NEW T \in SUBSET S, \A x \in S \ T : f[x] = 0
      PROVE  SumOn(f, T) = SumOn(f, S)
  <2>1. IsFiniteSet(T) /\ T \in SUBSET D
    BY FS_Subset
  <2>2. SumOn(f, T) = Cardinality(Tokens(f, T))
    BY <2>1, SumCounts
  <2>3. Tokens(f, T) = Tokens(f, S)
    BY <1>4 DEF Tokens
  <2> QED BY <1>1, <2>2, <2>3
<1>5. ASSUME NEW x \in D, S = {x} PROVE SumOn(f, S) = f[x]
  BY <1>1, <1>5, TokensOfOne
<1>6. ASSUME S = {} PROVE SumOn(f, S) = 0
  <2>1. Tokens(f, S) = {}
    BY <1>6 DEF Tokens
  <2> QED BY <1>1, <2>1, FS_EmptySet
<1> QED BY <1>2, <1>3, <1>4, <1>5, <1>6

LEMMA SumEmpty ==
  ASSUME NEW D, NEW f \in [D -> Nat]
  PROVE  SumOn(f, {}) = 0
BY FS_EmptySet, SumBasics

LEMMA SumHit ==
  ASSUME NEW D, NEW f \in [D -> Nat], NEW S \in SUBSET D, IsFiniteSet(S), NEW x \in S,
         NEW g, g = [f EXCEPT ![x] = @ + 1]
  PROVE  SumOn(g, S) = SumOn(f, S) + 1
<1>1. f[x] \in Nat /\ g \in [D -> Nat] /\ g[x] = f[x] + 1
  OBVIOUS
<1>2. IsFiniteSet(Tokens(f, S)) /\ SumOn(f, S) = Cardinality(Tokens(f, S))
  BY SumCounts, TokensFinite
<1>3. SumOn(g, S) = Cardinality(Tokens(g, S))
  BY <1>1, SumCounts
<1>4. ASSUME NEW p \in S \X Nat
      PROVE  p[2] < g[p[1]] <=> p[2] < f[p[1]] \/ p = <<x, f[x]>>
  <2>1. PICK y \in S, k \in Nat : p = <<y, k>>
    OBVIOUS
  <2>2. CASE y = x
    BY <1>1, <2>1, <2>2
  <2>3. CASE y # x
    BY <2>1, <2>3
  <2> QED BY <2>2, <2>3
<1>5. Tokens(g, S) = Tokens(f, S) \cup {<<x, f[x]>>}
  BY <1>1, <1>4 DEF Tokens
<1>6. <<x, f[x]>> \notin Tokens(f, S)
  BY <1>1 DEF Tokens
<1> DEFINE A == Tokens(f, S)
           e == <<x, f[x]>>
<1> HIDE DEF A, e
<1>7. Cardinality(A \cup {e}) = Cardinality(A) + 1
  BY <1>2, <1>6, FS_AddElement DEF A, e
<1> QED BY <1>2, <1>3, <1>5, <1>7 DEF A, e

-----------------------------------------------------------------------------
\* The clock of the buckets.
LEMMA BucketNat ==
  ASSUME NEW t \in Nat
  PROVE  Counter!AlignBase(t) \in Nat /\ Counter!AlignBase(t) <= Counter!AlignBase(t + 1)
<1>1. BucketTicks \in Nat \ {0}
  BY UsageAssumption DEF UsageAssumption
<1>2. /\ t \div BucketTicks \in Nat /\ (t + 1) \div BucketTicks \in Nat
      /\ t \div BucketTicks <= (t + 1) \div BucketTicks
  BY <1>1
<1> QED BY <1>2 DEF Counter!AlignBase

LEMMA Origin == 0 \in Counter!Index /\ 0 % BucketCount = 0
<1>1. BucketCount \in Nat \ {0}
  BY UsageAssumption DEF UsageAssumption
<1> QED BY <1>1 DEF Counter!Index

\* What a shift leaves behind when all that was counted is in the first slot:
\* it is the current bucket, and is emptied as soon as the clock leaves it.
FirstOnly(bs) == bs \in [Counter!Index -> Nat] /\ \A i \in Counter!Index \ {0} : bs[i] = 0

LEMMA Shifting ==
  ASSUME NEW base \in Nat, NEW t \in Nat, base <= Counter!AlignBase(t),
         NEW bs, FirstOnly(bs)
  PROVE  LET s == Counter!Shifted(base, bs, t)
         IN  /\ s.base = Counter!AlignBase(t)
             /\ FirstOnly(s.buckets)
             /\ s.buckets[0] = IF base = Counter!AlignBase(t) THEN bs[0] ELSE 0
<1> DEFINE a == Counter!AlignBase(t)
           elapsed == a - base
           passed == {Counter!BucketIndex(base, base + i) : i \in 0..(elapsed - 1)}
           s == Counter!Shifted(base, bs, t)
<1>1. a \in Nat /\ elapsed \in Nat /\ BucketCount \in Nat \ {0} /\ 0 \in Counter!Index
  BY BucketNat, UsageAssumption, Origin DEF UsageAssumption
<1>2. /\ s.base = IF elapsed > 0 THEN base + elapsed ELSE base
      /\ s.buckets = IF elapsed >= BucketCount THEN Counter!Empty
                     ELSE [i \in Counter!Index |-> IF i \in passed THEN 0 ELSE bs[i]]
  BY DEF Counter!Shifted
<1>3. elapsed > 0 => 0 \in passed
  <2>1. Counter!BucketIndex(base, base + 0) = 0
    BY Origin DEF Counter!BucketIndex
  <2> QED BY <1>1, <2>1
<1>4. elapsed = 0 => passed = {}
  BY <1>1
<1> HIDE DEF a, passed, s
<1>5. s.base = a
  BY <1>1, <1>2
<1>6. FirstOnly(s.buckets)
  BY <1>1, <1>2 DEF FirstOnly, Counter!Empty
<1>7. s.buckets[0] = IF base = a THEN bs[0] ELSE 0
  BY <1>1, <1>2, <1>3, <1>4 DEF Counter!Empty
<1> QED BY <1>5, <1>6, <1>7 DEF a, s

\* The sum of such a ring is its first slot.
LEMMA FirstIsTotal ==
  ASSUME NEW bs, FirstOnly(bs)
  PROVE  Counter!Total(bs) = bs[0]
<1>1. BucketCount \in Nat \ {0} /\ 0 \in Counter!Index
  BY UsageAssumption, Origin DEF UsageAssumption
<1>2. IsFiniteSet(Counter!Index)
  BY <1>1, FS_Interval DEF Counter!Index
<1>3. Counter!Total(bs) = SumOn(bs, Counter!Index)
  BY DEF FirstOnly, Counter!Total, Counter!SumFunction, SumOn
<1>4. SumOn(bs, {0}) = SumOn(bs, Counter!Index)
  BY <1>1, <1>2, SumBasics DEF FirstOnly
<1>5. SumOn(bs, {0}) = bs[0]
  BY <1>1, FS_Singleton, SumBasics DEF FirstOnly
<1> QED BY <1>3, <1>4, <1>5

-----------------------------------------------------------------------------
\* The ring as it is used: its first slot holds the hits of the bucket the base
\* stands at, every other slot is empty, and no hit is younger than the base.
CounterInv ==
    /\ now \in 1..MaxTime
    /\ hits \in [0..MaxTime -> Nat]
    /\ bucketBase \in Nat /\ bucketBase <= Counter!AlignBase(now)
    /\ FirstOnly(buckets)
    /\ \A t \in 0..MaxTime :
          hits[t] # 0 => t <= now /\ Counter!AlignBase(t) <= bucketBase
    /\ buckets[0] = Counter!HitsFrom(bucketBase)

From(bucket) == {t \in 0..now : Counter!AlignBase(t) >= bucket}

LEMMA HitsCounted ==
  ASSUME CounterInv, NEW b
  PROVE  /\ From(b) \in SUBSET (0..MaxTime) /\ IsFiniteSet(From(b))
         /\ Counter!HitsFrom(b) = SumOn(hits, From(b))
<1>1. From(b) \in SUBSET (0..now) /\ now \in Nat /\ now <= MaxTime /\ MaxTime \in Nat
  BY UsageAssumption DEF From, CounterInv, UsageAssumption
<1>2. IsFiniteSet(0..now)
  BY <1>1, FS_Interval
<1>3. IsFiniteSet(From(b))
  BY <1>1, <1>2, FS_Subset
<1> QED BY <1>1, <1>3 DEF Counter!HitsFrom, SumOn, From

\* A shift leaves exactly the hits of the bucket the clock is in.
LEMMA ShiftExact ==
  ASSUME CounterInv
  PROVE  LET s == Counter!Shifted(bucketBase, buckets, now)
         IN  /\ s.base = Counter!AlignBase(now)
             /\ FirstOnly(s.buckets)
             /\ s.buckets[0] = Counter!HitsFrom(Counter!AlignBase(now))
<1> DEFINE s == Counter!Shifted(bucketBase, buckets, now)
           a == Counter!AlignBase(now)
<1>1. /\ now \in Nat /\ bucketBase \in Nat /\ bucketBase <= a /\ FirstOnly(buckets)
      /\ now <= MaxTime /\ MaxTime \in Nat
  BY UsageAssumption DEF CounterInv, UsageAssumption
<1>2. /\ s.base = a /\ FirstOnly(s.buckets)
      /\ s.buckets[0] = IF bucketBase = a THEN buckets[0] ELSE 0
  BY <1>1, Shifting
<1>3. CASE bucketBase = a
  BY <1>2, <1>3 DEF CounterInv
<1>4. CASE bucketBase # a
  <2>1. From(a) \in SUBSET (0..MaxTime) /\ IsFiniteSet(From(a))
        /\ Counter!HitsFrom(a) = SumOn(hits, From(a))
    BY HitsCounted
  <2>2. ASSUME NEW t \in From(a) PROVE hits[t] = 0
    <3>1. /\ t \in 0..MaxTime /\ Counter!AlignBase(t) >= a
          /\ Counter!AlignBase(t) \in Nat /\ a \in Nat
      BY <1>1, BucketNat DEF From
    <3>2. ~(Counter!AlignBase(t) <= bucketBase)
      BY <1>1, <1>4, <3>1
    <3> QED BY <3>1, <3>2 DEF CounterInv
  <2>3. SumOn(hits, {}) = SumOn(hits, From(a))
    BY <2>1, <2>2, SumBasics DEF CounterInv
  <2>4. SumOn(hits, {}) = 0
    BY SumEmpty DEF CounterInv
  <2> QED BY <1>2, <1>4, <2>1, <2>3, <2>4
<1> QED BY <1>2, <1>3, <1>4

LEMMA CounterInit == Counter!Init => CounterInv
<1> SUFFICES ASSUME Counter!Init PROVE CounterInv
  OBVIOUS
<1>1. now = 1 /\ now \in 1..MaxTime /\ MaxTime \in Nat
  BY UsageAssumption DEF UsageAssumption, Counter!Init
<1>2. hits \in [0..MaxTime -> Nat] /\ \A t \in 0..MaxTime : hits[t] = 0
  BY DEF Counter!Init
<1>3. bucketBase = Counter!AlignBase(now) /\ bucketBase \in Nat
  BY <1>1, BucketNat DEF Counter!Init
<1>4. FirstOnly(buckets) /\ buckets[0] = 0
  BY Origin DEF FirstOnly, Counter!Init, Counter!Empty
<1>5. From(bucketBase) \in SUBSET (0..MaxTime) /\ IsFiniteSet(From(bucketBase))
  <2>1. From(bucketBase) \in SUBSET (0..now)
    BY DEF From
  <2>2. IsFiniteSet(0..now)
    <3>1. now \in Nat
      BY <1>1
    <3> QED BY <3>1, FS_Interval
  <2>3. 0..now \subseteq 0..MaxTime
    BY <1>1
  <2> QED BY <2>1, <2>2, <2>3, FS_Subset
<1>6. SumOn(hits, From(bucketBase)) = 0
  <2>1. SumOn(hits, {}) = SumOn(hits, From(bucketBase))
    BY <1>2, <1>5, SumBasics
  <2>2. SumOn(hits, {}) = 0
    BY <1>2, SumEmpty
  <2> QED BY <2>1, <2>2
<1>7. Counter!HitsFrom(bucketBase) = SumOn(hits, From(bucketBase))
  BY DEF Counter!HitsFrom, SumOn, From
<1> QED BY <1>1, <1>2, <1>3, <1>4, <1>6, <1>7 DEF CounterInv

LEMMA CounterKeeps == CounterInv /\ [Counter!Next]_Counter!vars => CounterInv'
<1> SUFFICES ASSUME CounterInv, [Counter!Next]_Counter!vars PROVE CounterInv'
  OBVIOUS
<1> DEFINE s == Counter!Shifted(bucketBase, buckets, now)
           a == Counter!AlignBase(now)
<1>1. /\ now \in Nat /\ now \in 1..MaxTime /\ MaxTime \in Nat
      /\ hits \in [0..MaxTime -> Nat] /\ a \in Nat
  <2>1. /\ now \in Nat /\ now \in 1..MaxTime /\ MaxTime \in Nat
        /\ hits \in [0..MaxTime -> Nat]
    BY UsageAssumption DEF CounterInv, UsageAssumption
  <2> QED BY <2>1, BucketNat
<1>2. /\ s.base = a /\ FirstOnly(s.buckets)
      /\ s.buckets[0] = Counter!HitsFrom(a)
  BY ShiftExact
<1>3. \A t \in 0..MaxTime : hits[t] # 0 => t <= now /\ Counter!AlignBase(t) <= a
  <2> SUFFICES ASSUME NEW t \in 0..MaxTime, hits[t] # 0
               PROVE  t <= now /\ Counter!AlignBase(t) <= a
    OBVIOUS
  <2>1. /\ t <= now /\ Counter!AlignBase(t) <= bucketBase /\ bucketBase \in Nat
        /\ bucketBase <= a /\ Counter!AlignBase(t) \in Nat
    BY BucketNat DEF CounterInv
  <2> QED BY <1>1, <2>1
<1> HIDE DEF s, a
<1>4. CASE Counter!Renew
  <2>1. /\ bucketBase' = a /\ buckets' = Counter!Empty /\ now' = now
        /\ hits' = [t \in 0..MaxTime |-> 0]
    BY <1>4 DEF Counter!Renew, a
  <2>2. FirstOnly(buckets') /\ buckets'[0] = 0
    BY <2>1, Origin DEF FirstOnly, Counter!Empty
  <2>3. From(a) \in SUBSET (0..MaxTime) /\ IsFiniteSet(From(a))
    BY HitsCounted
  <2>4. SumOn(hits', {}) = SumOn(hits', From(a)) /\ SumOn(hits', {}) = 0
    <3> DEFINE A == From(a)
    <3>1. hits' \in [0..MaxTime -> Nat] /\ \A t \in 0..MaxTime : hits'[t] = 0
      BY <2>1
    <3>2. A \in SUBSET (0..MaxTime) /\ IsFiniteSet(A) /\ {} \in SUBSET A
      BY <2>3
    <3>3. \A x \in A \ {} : hits'[x] = 0
      BY <3>1, <3>2
    <3> HIDE DEF A
    <3>4. SumOn(hits', {}) = SumOn(hits', A)
      BY <3>1, <3>2, <3>3, SumBasics
    <3> QED BY <3>1, <3>4, SumEmpty DEF A
  <2>5. Counter!HitsFrom(bucketBase)' = SumOn(hits', From(a))
    BY <2>1 DEF Counter!HitsFrom, SumOn, From
  <2>6. bucketBase' <= Counter!AlignBase(now)'
    BY <1>1, <2>1 DEF a
  <2> QED BY <1>1, <2>1, <2>2, <2>4, <2>5, <2>6 DEF CounterInv
<1>5. CASE Counter!Increment
  <2>1. /\ bucketBase' = a /\ now' = now
        /\ buckets' = [s.buckets EXCEPT ![Counter!BucketIndex(a, a)] = @ + 1]
        /\ hits' = [hits EXCEPT ![now] = @ + 1]
    BY <1>2, <1>5 DEF Counter!Increment, a, s
  <2>2. Counter!BucketIndex(a, a) = 0
    BY <1>1, Origin DEF Counter!BucketIndex
  <2>3. FirstOnly(buckets') /\ buckets'[0] = Counter!HitsFrom(a) + 1
    BY <1>2, <2>1, <2>2, Origin DEF FirstOnly
  <2>4. /\ From(a) \in SUBSET (0..MaxTime) /\ IsFiniteSet(From(a))
        /\ Counter!HitsFrom(a) = SumOn(hits, From(a))
    BY HitsCounted
  <2>5. now \in From(a) /\ now \in 0..MaxTime
    BY <1>1 DEF From, a
  <2>6. SumOn(hits', From(a)) = SumOn(hits, From(a)) + 1
    BY <1>1, <2>1, <2>4, <2>5, SumHit
  <2>7. Counter!HitsFrom(bucketBase)' = SumOn(hits', From(a))
    BY <2>1 DEF Counter!HitsFrom, SumOn, From
  <2>8. hits' \in [0..MaxTime -> Nat]
    BY <1>1, <2>1
  <2>9. \A t \in 0..MaxTime : hits'[t] # 0 => t <= now /\ Counter!AlignBase(t) <= a
    BY <1>1, <1>3, <2>1 DEF a
  <2>10. bucketBase' <= Counter!AlignBase(now)'
    BY <1>1, <2>1 DEF a
  <2> QED BY <1>1, <2>1, <2>3, <2>4, <2>6, <2>7, <2>8, <2>9, <2>10 DEF CounterInv
<1>6. CASE Counter!Sum
  <2>1. /\ bucketBase' = a /\ buckets' = s.buckets /\ now' = now /\ hits' = hits
    BY <1>2, <1>6 DEF Counter!Sum, a, s
  <2>2. Counter!HitsFrom(bucketBase)' = Counter!HitsFrom(a)
    BY <2>1 DEF Counter!HitsFrom
  <2>3. bucketBase' <= Counter!AlignBase(now)'
    BY <1>1, <2>1 DEF a
  <2> QED BY <1>1, <1>2, <1>3, <2>1, <2>2, <2>3 DEF CounterInv
<1>7. CASE Counter!Tick
  <2>1. /\ now' = now + 1 /\ now < MaxTime
        /\ UNCHANGED <<bucketBase, buckets, hits>>
    BY <1>7 DEF Counter!Tick
  <2>2. /\ now' \in 1..MaxTime /\ bucketBase' \in Nat
        /\ bucketBase' <= Counter!AlignBase(now)'
    <3>1. a <= Counter!AlignBase(now + 1) /\ Counter!AlignBase(now + 1) \in Nat
      BY <1>1, BucketNat DEF a
    <3>2. bucketBase \in Nat /\ bucketBase <= a
      BY DEF CounterInv, a
    <3> QED BY <1>1, <2>1, <3>1, <3>2
  <2>3. \A t \in 0..MaxTime : hits[t] # 0 => t <= now' /\ Counter!AlignBase(t) <= bucketBase
    BY <1>1, <2>1 DEF CounterInv
  <2>4. Counter!HitsFrom(bucketBase)' = Counter!HitsFrom(bucketBase)
    <3> DEFINE Before == From(bucketBase)
               After == {t \in 0..(now + 1) : Counter!AlignBase(t) >= bucketBase}
    <3>1. Counter!HitsFrom(bucketBase) = SumOn(hits, Before)
      BY HitsCounted
    <3>2. Counter!HitsFrom(bucketBase)' = SumOn(hits, After)
      BY <2>1 DEF Counter!HitsFrom, SumOn
    <3>3. After \in SUBSET (0..MaxTime) /\ Before \in SUBSET After
      BY <1>1, <2>1 DEF From
    <3>4. IsFiniteSet(After)
      <4>1. IsFiniteSet(0..MaxTime)
        BY <1>1, FS_Interval
      <4> QED BY <3>3, <4>1, FS_Subset
    <3>5. \A t \in After \ Before : hits[t] = 0
      <4>1. \A t \in After \ Before : t \in 0..MaxTime /\ ~(t <= now)
        BY <1>1, <2>1 DEF From
      <4> QED BY <4>1 DEF CounterInv
    <3> HIDE DEF Before, After
    <3> QED BY <1>1, <3>1, <3>2, <3>3, <3>4, <3>5, SumBasics
  <2> QED BY <1>1, <2>1, <2>2, <2>3, <2>4 DEF CounterInv
<1>8. CASE UNCHANGED Counter!vars
  BY <1>8 DEF Counter!vars, CounterInv, Counter!HitsFrom
<1> QED BY <1>4, <1>5, <1>6, <1>7, <1>8 DEF Counter!Next

LEMMA CounterExact ==
  ASSUME CounterInv
  PROVE  /\ Counter!Counted = Counter!HitsFrom(Counter!AlignBase(now))
         /\ WindowRespected
<1> DEFINE s == Counter!Shifted(bucketBase, buckets, now)
           a == Counter!AlignBase(now)
           start == a - BucketCount + 1
<1>1. FirstOnly(s.buckets) /\ s.buckets[0] = Counter!HitsFrom(a)
  BY ShiftExact
<1>2. Counter!Counted = Counter!Total(s.buckets)
  BY DEF Counter!Counted
<1> HIDE DEF s
<1>3. Counter!Counted = Counter!HitsFrom(a)
  BY <1>1, <1>2, FirstIsTotal
<1>4. a \in Nat /\ BucketCount \in Nat \ {0}
  BY BucketNat, UsageAssumption DEF UsageAssumption, CounterInv
<1>5. From(a) \in SUBSET From(start)
  <2>1. \A t \in 0..now : Counter!AlignBase(t) \in Nat
    BY BucketNat
  <2> HIDE DEF a
  <2>2. \A t \in 0..now : Counter!AlignBase(t) >= a => Counter!AlignBase(t) >= start
    BY <1>4, <2>1
  <2> QED BY <2>2 DEF From
<1> HIDE DEF a, start
<1>6. /\ From(start) \in SUBSET (0..MaxTime) /\ IsFiniteSet(From(start))
      /\ Counter!HitsFrom(start) = SumOn(hits, From(start))
      /\ Counter!HitsFrom(a) = SumOn(hits, From(a))
      /\ From(a) \in SUBSET (0..MaxTime) /\ IsFiniteSet(From(a))
  BY HitsCounted
<1>7. /\ Counter!HitsFrom(a) \in Nat /\ Counter!HitsFrom(start) \in Nat
      /\ Counter!HitsFrom(a) <= Counter!HitsFrom(start)
  <2> DEFINE A == From(a)
             B == From(start)
  <2>1. /\ A \in SUBSET (0..MaxTime) /\ IsFiniteSet(A) /\ A \in SUBSET B
        /\ B \in SUBSET (0..MaxTime) /\ IsFiniteSet(B)
        /\ hits \in [0..MaxTime -> Nat]
    BY <1>5, <1>6 DEF CounterInv
  <2> HIDE DEF A, B
  <2>2. SumOn(hits, A) \in Nat /\ SumOn(hits, B) \in Nat /\ SumOn(hits, A) <= SumOn(hits, B)
    BY <2>1, SumBasics
  <2> QED BY <1>6, <2>2 DEF A, B
<1>8. Counter!NeverOvercounts
  BY <1>3, <1>7 DEF Counter!NeverOvercounts, a, start
<1>9. Counter!CountsTheBucket
  BY <1>3, <1>7 DEF Counter!CountsTheBucket, a
<1> QED BY <1>3, <1>8, <1>9 DEF WindowRespected, a

LEMMA CounterInvariant == Spec => []CounterInv
<1>1. Init => CounterInv
  BY CounterInit DEF Init
<1>2. CounterInv /\ [Next]_vars => CounterInv'
  BY CounterStep, CounterKeeps
<1> QED BY <1>1, <1>2, PTL DEF Spec

\* For any window and however registrations, successes and reads alternate, no
\* hit that left the window is counted and none of the present bucket is missed.
THEOREM Window == Spec => []WindowRespected
<1>1. CounterInv => WindowRespected
  BY CounterExact
<1> QED BY <1>1, CounterInvariant, PTL

\* The window is never longer than its present bucket, however many it has: moving
\* the base of the ring empties the slots it moves over (shiftBuckets).
THEOREM OnlyPresentBucket ==
  Spec => [](Counter!Counted = Counter!HitsFrom(Counter!AlignBase(now)))
<1>1. CounterInv => Counter!Counted = Counter!HitsFrom(Counter!AlignBase(now))
  BY CounterExact
<1> QED BY <1>1, CounterInvariant, PTL
=============================================================================
