--------------------------- MODULE StreamRelayProofs ---------------------------
(***************************************************************************)
(* The relay of a stream, for any accounts, chunks and numbers of other    *)
(* requests.  The counters of active requests: however a stream ends, its  *)
(* request does not stay on them, and without a time-out or a late          *)
(* disconnect they are exact.  The stream: whatever the upstream sends, the *)
(* client receives the events of the Claude API in order, and is told when  *)
(* it is over.                                                              *)
(***************************************************************************)
EXTENDS StreamRelay, FiniteSetTheorems, WellFoundedInduction, TLAPS

Types ==
    /\ phase \in {"idle", "executing", "streaming", "closed", "left"}
    /\ upstream \in {"open", "ended", "broken"}
    /\ flushed \in BOOLEAN /\ connected \in BOOLEAN /\ stallTimer \in BOOLEAN
    /\ ended \in BOOLEAN /\ disturbed \in BOOLEAN
    /\ byModel \in Nat /\ byAccount \in [Conn -> Nat]
    /\ others \in [Conn -> 0..MaxOthers]

\* A request has been taken off when, and only when, its stream was flushed or
\* cut or its answer is over.
TakenOff ==
    /\ phase \in {"closed", "left"} => ~connected
    /\ ended <=> flushed \/ ~connected
    /\ phase \in {"idle", "executing"} => ~ended

\* The stall timer runs during the stream, up to the end of the upstream, and a
\* stream that it cut is broken.
Timed ==
    /\ stallTimer => phase = "streaming" /\ upstream # "ended"
    /\ phase \in {"idle", "executing"} => upstream = "open"
    /\ phase = "streaming" /\ ~connected => upstream = "broken"

Upper == \A c \in Conn : byAccount[c] <= Counted(c)

Exact == ~disturbed => \A c \in Conn : byAccount[c] = Counted(c)

Summed == ~disturbed => byModel = Cardinality(Units(byAccount))

RelayInv == Types /\ TakenOff /\ Timed /\ Upper /\ Exact /\ Summed

-----------------------------------------------------------------------------
\* One more or one less of what an account counts is one more or one less of all.

LEMMA UnitsFinite ==
    ASSUME NEW f
    PROVE  IsFiniteSet(Units(f))
<1>1. MaxOthers \in Nat /\ IsFiniteSet(Conn)
  BY RelayAssumption
<1>2. IsFiniteSet(1..(MaxOthers + 1))
  BY <1>1, FS_Interval
<1>3. IsFiniteSet(Conn \X (1..(MaxOthers + 1)))
  BY <1>1, <1>2, FS_Product
<1>. QED
  BY <1>3, FS_Subset DEF Units

LEMMA OneMore ==
    ASSUME NEW f \in [Conn -> Nat], NEW c \in Conn, f[c] <= MaxOthers
    PROVE  Cardinality(Units([f EXCEPT ![c] = @ + 1])) = Cardinality(Units(f)) + 1
<1> DEFINE g == [f EXCEPT ![c] = @ + 1]
           u == <<c, f[c] + 1>>
<1>1. MaxOthers \in Nat /\ IsFiniteSet(Conn)
  BY RelayAssumption
<1>2. IsFiniteSet(Units(f))
  BY UnitsFinite
<1>3. u \notin Units(f)
  BY DEF Units
<1>4. Units(g) = Units(f) \cup {u}
  <2>1. ASSUME NEW p \in Conn \X (1..(MaxOthers + 1))
        PROVE  p[2] <= g[p[1]] <=> p[2] <= f[p[1]] \/ p = u
    <3>1. p = <<p[1], p[2]>> /\ p[1] \in Conn /\ p[2] \in Int
      BY <1>1
    <3>. CASE p[1] = c
      BY <3>1
    <3>. CASE p[1] # c
      BY <3>1
    <3>. QED
      OBVIOUS
  <2>2. u \in Conn \X (1..(MaxOthers + 1))
    BY <1>1
  <2>. QED
    BY <2>1, <2>2 DEF Units
<1>. QED
  BY <1>2, <1>3, <1>4, FS_AddElement

LEMMA OneLess ==
    ASSUME NEW f \in [Conn -> Nat], NEW c \in Conn, f[c] > 0, f[c] <= MaxOthers + 1
    PROVE  /\ Cardinality(Units(f)) \in Nat \ {0}
           /\ Cardinality(Units([f EXCEPT ![c] = LessOne(@)])) = Cardinality(Units(f)) - 1
<1> DEFINE g == [f EXCEPT ![c] = LessOne(@)]
<1>1. MaxOthers \in Nat /\ IsFiniteSet(Conn)
  BY RelayAssumption
<1>2. g \in [Conn -> Nat] /\ g[c] = f[c] - 1 /\ g[c] <= MaxOthers
  BY <1>1 DEF LessOne
<1>3. [g EXCEPT ![c] = @ + 1] = f
  <2>1. ASSUME NEW d \in Conn PROVE [g EXCEPT ![c] = @ + 1][d] = f[d]
    BY <1>2
  <2>2. [g EXCEPT ![c] = @ + 1] \in [Conn -> Nat]
    BY <1>2
  <2>. QED
    BY <2>1, <2>2
<1>4. Cardinality(Units(f)) = Cardinality(Units(g)) + 1
  <2>. HIDE DEF g
  <2>. QED
    BY <1>2, <1>3, OneMore
<1>5. Cardinality(Units(g)) \in Nat
  BY UnitsFinite, FS_CardinalityType
<1>. QED
  BY <1>4, <1>5

\* Between calls of trackPendingRequest nothing is counted twice or forgotten.
LEMMA Calm ==
    ASSUME RelayInv, UNCHANGED <<counters, others, ended>>, Types', TakenOff', Timed',
           phase' = "idle" <=> phase = "idle"
    PROVE  RelayInv'
  BY DEF RelayInv, Upper, Exact, Summed, Counted, counters

\* A start adds one to the account, to the model and to what is in flight.
LEMMA Starting ==
    ASSUME RelayInv, NEW c \in Conn, Started(c), Types', TakenOff', Timed',
           Counted(c) <= MaxOthers,
           \A d \in Conn : Counted(d)' = IF d = c THEN Counted(d) + 1 ELSE Counted(d)
    PROVE  RelayInv'
<1>1. byAccount \in [Conn -> Nat] /\ byAccount' \in [Conn -> Nat]
  BY DEF RelayInv, Types
<1>2. \A d \in Conn : Counted(d) \in Nat
  BY RelayAssumption DEF RelayInv, Types, Counted
<1>3. Upper' /\ Exact'
  BY <1>1, <1>2 DEF RelayInv, Upper, Exact, Started
<1>4. Summed'
  <2>1. byAccount[c] <= MaxOthers
    BY <1>1, <1>2, RelayAssumption DEF RelayInv, Upper
  <2>2. Cardinality(Units([byAccount EXCEPT ![c] = @ + 1]))
          = Cardinality(Units(byAccount)) + 1
    BY <1>1, <2>1, OneMore
  <2>. QED
    BY <2>2 DEF RelayInv, Summed, Started, Units
<1>. QED
  BY <1>3, <1>4 DEF RelayInv

\* An end takes one off, if it is the first of a request that was counted.
LEMMA Finishing ==
    ASSUME RelayInv, NEW c \in Conn, Finished(c), Types', TakenOff', Timed',
           Counted(c) <= MaxOthers + 1,
           \A d \in Conn : d # c => Counted(d)' = Counted(d),
           \/ Counted(c) > 0 /\ Counted(c)' = Counted(c) - 1 /\ disturbed' = disturbed
           \/ Counted(c)' = Counted(c) /\ disturbed'
    PROVE  RelayInv'
<1>1. byAccount \in [Conn -> Nat] /\ byAccount' \in [Conn -> Nat]
  BY DEF RelayInv, Types
<1>2. \A d \in Conn : Counted(d) \in Nat
  BY RelayAssumption DEF RelayInv, Types, Counted
<1>3. byAccount' = [byAccount EXCEPT ![c] = LessOne(@)] /\ byModel' = LessOne(byModel)
  BY DEF Finished
<1>4. Upper' /\ Exact'
  BY <1>1, <1>2, <1>3 DEF RelayInv, Upper, Exact, LessOne, Types
<1>5. Summed'
  <2>1. SUFFICES ASSUME ~disturbed'
                 PROVE  byModel' = Cardinality(Units(byAccount'))
    BY DEF Summed
  <2>2. ~disturbed /\ byAccount[c] > 0 /\ byAccount[c] <= MaxOthers + 1
    BY <1>1, <1>2, <2>1 DEF RelayInv, Exact
  <2>3. /\ Cardinality(Units(byAccount)) \in Nat \ {0}
        /\ Cardinality(Units(byAccount')) = Cardinality(Units(byAccount)) - 1
    BY <1>1, <1>3, <2>2, OneLess
  <2>. QED
    BY <1>3, <2>2, <2>3 DEF RelayInv, Summed, LessOne
<1>. QED
  BY <1>4, <1>5 DEF RelayInv

-----------------------------------------------------------------------------
LEMMA Initially == Init => RelayInv
<1> SUFFICES ASSUME Init PROVE RelayInv
  OBVIOUS
<1>1. Units(byAccount) = {}
  BY DEF Init, Units
<1>2. Cardinality(Units(byAccount)) = 0
  BY <1>1, FS_EmptySet
<1>3. Types
  <2>1. others \in [Conn -> 0..MaxOthers]
    BY RelayAssumption DEF Init
  <2>2. byAccount \in [Conn -> Nat]
    BY DEF Init
  <2>. QED
    BY <2>1, <2>2 DEF Init, Types
<1>4. \A c \in Conn : byAccount[c] = Counted(c)
  BY DEF Init, Counted
<1>5. TakenOff /\ Timed /\ Summed
  BY <1>2 DEF Init, TakenOff, Timed, Summed
<1>6. Upper /\ Exact
  BY <1>3, <1>4 DEF Upper, Exact, Types
<1>. QED
  BY <1>3, <1>5, <1>6 DEF RelayInv

\* This request is taken off, for the first time unless its stream was flushed.
LEMMA Ending ==
    ASSUME RelayInv, End, UNCHANGED others, Types', TakenOff', Timed',
           phase # "idle", phase' # "idle", ended => flushed
    PROVE  RelayInv'
<1>1. Own \in Conn /\ MaxOthers \in Nat
  BY RelayAssumption
<1>2. \A d \in Conn : d # Own => Counted(d)' = Counted(d)
  BY DEF Counted
<1>3. Counted(Own) <= MaxOthers + 1
  BY <1>1 DEF RelayInv, Types, Counted
<1>4. \/ Counted(Own) > 0 /\ Counted(Own)' = Counted(Own) - 1 /\ disturbed' = disturbed
      \/ Counted(Own)' = Counted(Own) /\ disturbed'
  <2>1. CASE ended
    BY <1>1, <2>1 DEF RelayInv, Types, Counted, End
  <2>2. CASE ~ended
    BY <1>1, <2>2 DEF RelayInv, Types, TakenOff, Counted, End
  <2>. QED
    BY <2>1, <2>2
<1>. QED
  BY <1>1, <1>2, <1>3, <1>4, Finishing DEF End

\* The controller takes the request off when it was still connected.
LEMMA Handling ==
    ASSUME RelayInv, HandleError, UNCHANGED others, phase = "streaming",
           phase' # "idle", Types', TakenOff', Timed'
    PROVE  RelayInv'
<1>1. CASE connected
  BY <1>1, Ending DEF HandleError, RelayInv, TakenOff
<1>2. CASE ~connected
  BY <1>2, Calm DEF HandleError, RelayInv
<1>. QED
  BY <1>1, <1>2

\* What an end does to the variables it changes.
LEMMA EndTyped ==
    ASSUME Types, End
    PROVE  /\ ended' /\ disturbed' \in BOOLEAN
           /\ byModel' \in Nat /\ byAccount' \in [Conn -> Nat]
<1>1. byAccount' \in [Conn -> Nat]
  BY RelayAssumption DEF Types, End, Finished, LessOne
<1>2. byModel' \in Nat
  BY DEF Types, End, Finished, LessOne
<1>3. ended' /\ disturbed' \in BOOLEAN
  BY Zenon DEF Types, End
<1>. QED
  BY <1>1, <1>2, <1>3

LEMMA Step == RelayInv /\ [Next]_vars => RelayInv'
<1> SUFFICES ASSUME RelayInv, [Next]_vars PROVE RelayInv'
  OBVIOUS
<1>. USE RelayAssumption
<1>1. CASE Arrive
  <2>1. Types' /\ TakenOff' /\ Timed'
    BY <1>1 DEF Arrive, WoundUp, RelayInv, Types, TakenOff, Timed, pipe, counters
  <2>. QED
    BY <1>1, <2>1, Calm DEF Arrive, RelayInv, Types, pipe
<1>2. CASE Eof
  <2>1. Types' /\ TakenOff' /\ Timed'
    BY <1>2 DEF Eof, RelayInv, Types, TakenOff, Timed, pipe, counters
  <2>. QED
    BY <1>2, <2>1, Calm DEF Eof, RelayInv, Types, pipe
<1>3. CASE Break
  <2>1. Types' /\ TakenOff' /\ Timed'
    BY <1>3 DEF Break, RelayInv, Types, TakenOff, Timed, pipe, counters
  <2>. QED
    BY <1>3, <2>1, Calm DEF Break, RelayInv, Types, pipe
<1>4. CASE Transform
  <2>1. Types' /\ TakenOff' /\ Timed'
    BY <1>4 DEF Transform, Take, RelayInv, Types, TakenOff, Timed, pipe, counters
  <2>. QED
    BY <1>4, <2>1, Calm DEF Transform, RelayInv, Types, pipe
<1>5. CASE Collapse
  <2>1. Types' /\ TakenOff' /\ Timed'
    BY <1>5 DEF Collapse, RelayInv, Types, TakenOff, Timed, pipe, counters
  <2>. QED
    BY <1>5, <2>1, Calm DEF Collapse, RelayInv, Types, pipe
<1>6. CASE Read
  <2>1. Types' /\ TakenOff' /\ Timed'
    BY <1>6 DEF Read, RelayInv, Types, TakenOff, Timed, pipe, counters
  <2>. QED
    BY <1>6, <2>1, Calm DEF Read, RelayInv, Types, pipe
<1>7. CASE CloseWhole
  <2>1. Types' /\ TakenOff' /\ Timed'
    BY <1>7 DEF CloseWhole, RelayInv, Types, TakenOff, Timed, pipe, counters
  <2>. QED
    BY <1>7, <2>1, Calm DEF CloseWhole, RelayInv, Types, pipe
<1>8. CASE AnswerStream
  <2>1. Types' /\ TakenOff' /\ Timed'
    BY <1>8 DEF AnswerStream, RelayInv, Types, TakenOff, Timed, pipe, counters
  <2>. QED
    BY <1>8, <2>1, Calm DEF AnswerStream, RelayInv, Types, pipe
<1>9. CASE Stall
  <2>1. Types' /\ TakenOff' /\ Timed'
    BY <1>9, EndTyped DEF Stall, HandleError, RelayInv, Types, TakenOff, Timed, pipe, counters
  <2>. QED
    BY <1>9, <2>1, Handling DEF Stall, RelayInv, Timed
<1>10. CASE CloseCut
  <2>1. Types' /\ TakenOff' /\ Timed'
    BY <1>10, EndTyped DEF CloseCut, HandleError, RelayInv, Types, TakenOff, Timed, pipe, counters
  <2>. QED
    BY <1>10, <2>1, Handling DEF CloseCut, RelayInv, Timed
<1>11. CASE Leave
  <2>1. Types' /\ TakenOff' /\ Timed'
    BY <1>11, EndTyped DEF Leave, HandleError, RelayInv, Types, TakenOff, Timed, pipe, counters
  <2>. QED
    BY <1>11, <2>1, Handling DEF Leave, RelayInv, Timed
<1>12. CASE AnswerWhole
  <2>1. Types' /\ TakenOff' /\ Timed'
    BY <1>12, EndTyped DEF AnswerWhole, RelayInv, Types, TakenOff, Timed, pipe, counters
  <2>. QED
    BY <1>12, <2>1, Ending DEF AnswerWhole, RelayInv, TakenOff
<1>13. CASE Flush
  <2>1. Types' /\ TakenOff' /\ Timed'
    BY <1>13, EndTyped DEF Flush, RelayInv, Types, TakenOff, Timed, pipe, counters
  <2>. QED
    BY <1>13, <2>1, Ending DEF Flush, RelayInv, TakenOff, Timed
<1>14. CASE Execute
  <2>1. Own \in Conn /\ Counted(Own) <= MaxOthers
    BY <1>14 DEF Execute, RelayInv, Types, TakenOff, Counted
  <2>2. \A d \in Conn : Counted(d)' = IF d = Own THEN Counted(d) + 1 ELSE Counted(d)
    BY <1>14 DEF Execute, RelayInv, Types, TakenOff, Counted
  <2>3. Types' /\ TakenOff' /\ Timed'
    BY <1>14 DEF Execute, Started, RelayInv, Types, TakenOff, Timed, pipe, counters
  <2>. QED
    BY <1>14, <2>1, <2>2, <2>3, Starting DEF Execute
<1>15. ASSUME NEW c \in Conn, OtherStarts(c) PROVE RelayInv'
  <2>1. others[c] < MaxOthers /\ Counted(c) <= MaxOthers
    BY <1>15 DEF OtherStarts, RelayInv, Types, Counted
  <2>2. \A d \in Conn : Counted(d)' = IF d = c THEN Counted(d) + 1 ELSE Counted(d)
    BY <1>15 DEF OtherStarts, RelayInv, Types, Counted
  <2>3. Types' /\ TakenOff' /\ Timed'
    BY <1>15, <2>1 DEF OtherStarts, Started, RelayInv, Types, TakenOff, Timed, pipe, counters
  <2>. QED
    BY <1>15, <2>1, <2>2, <2>3, Starting DEF OtherStarts
<1>16. ASSUME NEW c \in Conn, OtherEnds(c) PROVE RelayInv'
  <2>1. Counted(c) <= MaxOthers + 1 /\ Counted(c) > 0 /\ Counted(c)' = Counted(c) - 1
    BY <1>16 DEF OtherEnds, RelayInv, Types, Counted
  <2>2. \A d \in Conn : d # c => Counted(d)' = Counted(d)
    BY <1>16 DEF OtherEnds, RelayInv, Types, Counted
  <2>3. Types' /\ TakenOff' /\ Timed'
    BY <1>16 DEF OtherEnds, Finished, LessOne, RelayInv, Types, TakenOff, Timed, pipe, counters
  <2>. QED
    BY <1>16, <2>1, <2>2, <2>3, Finishing DEF OtherEnds
<1>17. ASSUME NEW c \in Conn, PendingTimeout(c) PROVE RelayInv'
  <2>1. Types' /\ TakenOff' /\ Timed'
    BY <1>17 DEF PendingTimeout, RelayInv, Types, TakenOff, Timed, pipe, counters
  <2>2. Upper'
    BY <1>17 DEF PendingTimeout, RelayInv, Types, Upper, Counted
  <2>. QED
    BY <1>17, <2>1, <2>2 DEF PendingTimeout, RelayInv, Exact, Summed
<1>18. CASE UNCHANGED vars
  <2>1. Types' /\ TakenOff' /\ Timed'
    BY <1>18 DEF vars, RelayInv, Types, TakenOff, Timed, pipe, counters
  <2>. QED
    BY <1>18, <2>1, Calm DEF vars
<1>. QED
  BY <1>1, <1>2, <1>3, <1>4, <1>5, <1>6, <1>7, <1>8, <1>9, <1>10, <1>11, <1>12, <1>13,
     <1>14, <1>15, <1>16, <1>17, <1>18 DEF Next, Respond, Consume

THEOREM Invariance == Spec => []RelayInv
  BY Initially, Step, PTL DEF Spec

\* However a request ends, and whatever times out or overlaps, its account is never
\* shown with more requests than are in flight (trackPendingRequest).
THEOREM NeverShown == Spec => []NeverShownAfterEnd
<1>1. RelayInv => NeverShownAfterEnd
  BY RelayAssumption DEF RelayInv, Types, TakenOff, Upper, NeverShownAfterEnd, Active, Counted
<1>. QED
  BY <1>1, Invariance, PTL

\* Unless the minute is over or a client leaves a flushed stream, the counters are
\* exact, for every account and for the model (trackPendingRequest).
THEOREM Exactness == Spec => []CountedExactly
<1>1. RelayInv => CountedExactly
  BY DEF RelayInv, Exact, Summed, CountedExactly
<1>. QED
  BY <1>1, Invariance, PTL

-----------------------------------------------------------------------------
\* The least element of a set of numbers, and what follows from it.

LEMMA LeastNat ==
    ASSUME NEW S \in SUBSET Nat, S # {}
    PROVE  \E m \in S : \A j \in S : m <= j
<1>1. PICK m \in S : \A j \in S : ~(<<j, m>> \in OpToRel(<, Nat))
  BY NatLessThanWellFounded, WFMin
<1>2. ASSUME NEW j \in S PROVE m <= j
  <2>1. j \in Nat /\ m \in Nat
    OBVIOUS
  <2>2. ~(<<j, m>>[1] < <<j, m>>[2])
    BY <1>1, <2>1 DEF OpToRel
  <2>. QED
    BY <2>1, <2>2
<1>. QED
  BY <1>2

\* Induction, with the numbers a statement holds of as a set.
LEMMA Induction ==
    ASSUME NEW P \in SUBSET Nat, 0 \in P, \A k \in P : k + 1 \in P
    PROVE  P = Nat
<1> SUFFICES ASSUME Nat \ P # {} PROVE FALSE
  OBVIOUS
<1>1. PICK m \in Nat \ P : \A j \in Nat \ P : m <= j
  BY LeastNat
<1>2. m # 0 /\ m - 1 \in Nat
  BY <1>1
<1>3. m - 1 \in P
  BY <1>1, <1>2
<1>. QED
  BY <1>1, <1>2, <1>3

\* A recursion along an interval, step[k] being what it does at k, has a solution.
Steps(n, T) == [1..n -> [T -> T]]

Solves(f, T, a, n, step) ==
    f \in [0..n -> T] /\ f[0] = a /\ \A k \in 1..n : f[k] = step[k][f[k - 1]]

LEMMA Iteration ==
    ASSUME NEW T, NEW a \in T, NEW n \in Nat, NEW step \in Steps(n, T)
    PROVE  \E f : Solves(f, T, a, n, step)
<1> DEFINE P == {m \in Nat : m <= n => \E f : Solves(f, T, a, m, step)}
<1>1. 0 \in P
  <2>1. Solves([k \in 0..0 |-> a], T, a, 0, step)
    BY DEF Solves
  <2>. QED
    BY <2>1
<1>2. ASSUME NEW m \in P PROVE m + 1 \in P
  <2>1. m \in Nat
    OBVIOUS
  <2>. SUFFICES ASSUME m + 1 <= n PROVE \E f : Solves(f, T, a, m + 1, step)
    BY <2>1
  <2>2. PICK f : Solves(f, T, a, m, step)
    BY <1>2, <2>1
  <2> DEFINE g == [k \in 0..(m + 1) |-> IF k = m + 1 THEN step[m + 1][f[m]] ELSE f[k]]
  <2>3. step[m + 1][f[m]] \in T
    <3>1. f[m] \in T /\ m + 1 \in 1..n
      BY <2>1, <2>2 DEF Solves
    <3>. QED
      BY <3>1 DEF Steps
  <2>4. g \in [0..(m + 1) -> T] /\ g[0] = a
    BY <2>1, <2>2, <2>3 DEF Solves
  <2>5. ASSUME NEW k \in 1..(m + 1) PROVE g[k] = step[k][g[k - 1]]
    <3>1. CASE k = m + 1
      <4>1. k - 1 = m /\ m # m + 1 /\ m \in 0..(m + 1) /\ k \in 0..(m + 1)
        BY <3>1, <2>1
      <4>2. g[m] = f[m] /\ g[k] = step[m + 1][f[m]]
        BY <4>1, <3>1
      <4>. QED
        BY <4>1, <4>2, <3>1
    <3>2. CASE k # m + 1
      <4>1. /\ k \in 1..m /\ k - 1 \in 0..m /\ k - 1 # m + 1
            /\ k \in 0..(m + 1) /\ k - 1 \in 0..(m + 1)
        BY <3>2, <2>1
      <4>2. g[k] = f[k] /\ g[k - 1] = f[k - 1]
        BY <4>1, <3>2
      <4>. QED
        BY <4>1, <4>2, <2>2 DEF Solves
    <3>. QED
      BY <3>1, <3>2
  <2>6. Solves(g, T, a, m + 1, step)
    BY <2>4, <2>5 DEF Solves
  <2>. QED
    BY <2>6
<1> HIDE DEF P
<1>3. P = Nat
  <2>1. P \subseteq Nat
    BY DEF P
  <2>. QED
    BY <1>1, <1>2, <2>1, Induction
<1>4. n \in P /\ n <= n
  BY <1>3
<1>. QED
  BY <1>4 DEF P

-----------------------------------------------------------------------------
\* Streams of events: what each makes of a client, and where a sequence leads.

EventType == {"message_start", "content_block_start", "content_block_delta",
              "content_block_stop", "message_delta", "message_stop"}
Event == [type : EventType, index : Nat]

Stage == {"before", "open", "stopping", "stopped"}
Place == [stage : Stage, blocks : SUBSET Nat, next : Nat, beyond : BOOLEAN]

At(stage, B, n, y) == [stage |-> stage, blocks |-> B, next |-> n, beyond |-> y]

\* The stage in which content comes, which is the last when the upstream went on.
Ground(y) == IF y THEN "stopped" ELSE "open"

Reach(a) == IF a.beyond THEN a.blocks \cup (0..(a.next - 1)) ELSE a.blocks

\* The client may receive e at a and is then at b.
Legal(a, e, b) ==
    \/ /\ a.stage = "before" /\ e = [type |-> "message_start", index |-> 0]
       /\ b = At("open", a.blocks, a.next, a.beyond)
    \/ /\ a.stage = Ground(a.beyond)
       /\ e = [type |-> "content_block_start", index |-> a.next]
       /\ b = At(a.stage, a.blocks \cup {a.next}, a.next + 1, a.beyond)
    \/ \E i \in Reach(a) :
          /\ a.stage = Ground(a.beyond)
          /\ e = [type |-> "content_block_delta", index |-> i]
          /\ b = a
    \/ \E i \in Reach(a) :
          /\ a.stage = Ground(a.beyond)
          /\ e = [type |-> "content_block_stop", index |-> i]
          /\ b = At(a.stage, a.blocks \ {i}, a.next, a.beyond)
    \/ /\ a.stage = Ground(a.beyond) /\ a.blocks = {}
       /\ e = [type |-> "message_delta", index |-> 0]
       /\ b = At("stopping", a.blocks, a.next, a.beyond)
    \/ /\ a.stage = "stopping" /\ e = [type |-> "message_stop", index |-> 0]
       /\ b = At("stopped", a.blocks, a.next, a.beyond)

Path(g, q, n) == g \in [0..n -> Place] /\ \A k \in 1..n : Legal(g[k - 1], q[k], g[k])

\* The events of q, received one by one, take a client from a to b.
Leads(a, q, b) == \E g : Path(g, q, Len(q)) /\ g[0] = a /\ g[Len(q)] = b

LEMMA LeadsNowhere ==
    ASSUME NEW a \in Place
    PROVE  /\ Leads(a, <<>>, a)
           /\ \A b : Leads(a, <<>>, b) => a = b
<1>1. Path([k \in 0..0 |-> a], <<>>, 0)
  BY DEF Path
<1>. QED
  BY <1>1 DEF Leads

LEMMA LeadsOn ==
    ASSUME NEW a \in Place, NEW b \in Place, NEW c \in Place, NEW T, NEW q \in Seq(T), NEW e \in T,
           Leads(a, q, b), Legal(b, e, c)
    PROVE  Leads(a, Append(q, e), c)
<1> DEFINE n == Len(q)
           r == Append(q, e)
<1>1. n \in Nat /\ Len(r) = n + 1 /\ r[n + 1] = e /\ \A k \in 1..n : r[k] = q[k]
  OBVIOUS
<1>2. PICK g : Path(g, q, n) /\ g[0] = a /\ g[n] = b
  BY DEF Leads
<1> DEFINE h == [k \in 0..(n + 1) |-> IF k = n + 1 THEN c ELSE g[k]]
<1> HIDE DEF n, r
<1>3. h \in [0..(n + 1) -> Place] /\ h[0] = a /\ h[n + 1] = c
  BY <1>1, <1>2 DEF Path
<1>4. ASSUME NEW k \in 1..(n + 1) PROVE Legal(h[k - 1], r[k], h[k])
  <2>1. CASE k = n + 1
    <3>1. k - 1 = n /\ n \in 0..(n + 1) /\ n # n + 1 /\ k \in 0..(n + 1)
      BY <1>1, <2>1
    <3>2. h[k - 1] = b /\ h[k] = c /\ r[k] = e
      BY <1>1, <1>2, <2>1, <3>1
    <3>. QED
      BY <3>2
  <2>2. CASE k # n + 1
    <3>1. /\ k \in 1..n /\ k - 1 \in 0..n /\ k - 1 # n + 1
          /\ k \in 0..(n + 1) /\ k - 1 \in 0..(n + 1)
      BY <1>1, <2>2
    <3>2. h[k - 1] = g[k - 1] /\ h[k] = g[k] /\ r[k] = q[k]
      BY <1>1, <2>2, <3>1
    <3>. QED
      BY <1>2, <3>1, <3>2 DEF Path
  <2>. QED
    BY <2>1, <2>2
<1>. QED
  BY <1>1, <1>3, <1>4 DEF Leads, Path, r

LEMMA LeadsFirst ==
    ASSUME NEW T, NEW q \in Seq(T), q # <<>>, NEW a, NEW c, Leads(a, q, c)
    PROVE  \E b \in Place : Legal(a, Head(q), b) /\ Leads(b, Tail(q), c)
<1> DEFINE n == Len(q)
           r == Tail(q)
<1>1. /\ n \in Nat \ {0} /\ Len(r) = n - 1 /\ Head(q) = q[1]
      /\ \A k \in 1..(n - 1) : r[k] = q[k + 1]
  OBVIOUS
<1>2. PICK g : Path(g, q, n) /\ g[0] = a /\ g[n] = c
  BY DEF Leads
<1> DEFINE h == [k \in 0..(n - 1) |-> g[k + 1]]
<1> HIDE DEF n, r
<1>3. h \in [0..(n - 1) -> Place] /\ h[0] = g[1] /\ h[n - 1] = c /\ g[1] \in Place
  BY <1>1, <1>2 DEF Path
<1>4. ASSUME NEW k \in 1..(n - 1) PROVE Legal(h[k - 1], r[k], h[k])
  <2>1. /\ k + 1 \in 1..n /\ (k + 1) - 1 = k /\ (k - 1) + 1 = k
        /\ k \in 0..(n - 1) /\ k - 1 \in 0..(n - 1)
    BY <1>1
  <2>2. h[k - 1] = g[k] /\ h[k] = g[k + 1] /\ r[k] = q[k + 1]
    BY <1>1, <2>1
  <2>3. Legal(g[(k + 1) - 1], q[k + 1], g[k + 1])
    BY <1>2, <2>1 DEF Path
  <2>. QED
    BY <2>1, <2>2, <2>3
<1>5. Legal(g[1 - 1], q[1], g[1])
  BY <1>1, <1>2 DEF Path
<1>6. Leads(g[1], r, c)
  BY <1>1, <1>3, <1>4 DEF Leads, Path
<1>. QED
  BY <1>1, <1>2, <1>3, <1>5, <1>6 DEF r

-----------------------------------------------------------------------------
\* The states of the translation and the place they take a client to.

Tool == [idx : Nat, block : Nat, args : BOOLEAN]
State == [started : BOOLEAN, next : Nat, thinking : Nat \cup {None}, text : Nat \cup {None},
          tools : Seq(Tool), finished : BOOLEAN, out : Seq(Event),
          closed : Nat, beyond : BOOLEAN, concluded : BOOLEAN]

\* What only the end of a message changes.
Alike(t, s) ==
    /\ t.finished = s.finished /\ t.closed = s.closed
    /\ t.beyond = s.beyond /\ t.concluded = s.concluded

USE DEF Alike

ToolBlocks(s) == {s.tools[k].block : k \in DOMAIN s.tools}

\* The blocks of the tools after the m-th that have not been closed.
Rest(s, m) == {s.tools[k].block : k \in {k \in DOMAIN s.tools : k > m /\ k > s.closed}}

\* The blocks that have begun and not ended.
OpenBlocks(s) == ({s.thinking, s.text} \ {None}) \cup Rest(s, 0)

PlaceOf(s) ==
    [stage |-> IF ~s.started THEN "before" ELSE IF s.finished THEN "stopped" ELSE "open",
     blocks |-> OpenBlocks(s), next |-> s.next, beyond |-> s.beyond]

\* Blocks are numbered below the next one and no two are the same; at most one of
\* reasoning and text is open; before the finish reason no tool has been closed.
Numbered(s) ==
    /\ ~s.started => /\ s.next = 0 /\ s.thinking = None /\ s.text = None
                     /\ s.tools = <<>> /\ ~s.finished
    /\ s.thinking = None \/ s.text = None
    /\ ~s.finished => ~s.beyond /\ ~s.concluded /\ s.closed = 0
    /\ s.closed <= Len(s.tools)
    /\ s.thinking < s.next /\ s.thinking \notin ToolBlocks(s)
    /\ s.text < s.next /\ s.text \notin ToolBlocks(s)
    /\ \A i \in ToolBlocks(s) : i < s.next
    /\ \A j, k \in DOMAIN s.tools : s.tools[j].block = s.tools[k].block => j = k

\* The events given out so far are legal from a, and lead to the place of s.
Follows(a, s) ==
    s \in State /\ Numbered(s) /\ Leads(a, s.out, PlaceOf(s)) /\ s.beyond = a.beyond

LEMMA PlaceTyped ==
    ASSUME NEW s \in State
    PROVE  PlaceOf(s) \in Place /\ ToolBlocks(s) \in SUBSET Nat
<1>1. s.tools \in Seq(Tool) /\ s.next \in Nat
      /\ s.thinking \in Nat \cup {None} /\ s.text \in Nat \cup {None}
  BY DEF State
<1>2. ASSUME NEW k \in DOMAIN s.tools PROVE s.tools[k].block \in Nat
  <2>1. s.tools[k] \in Tool
    BY <1>1
  <2>. QED
    BY <2>1 DEF Tool
<1>3. ToolBlocks(s) \in SUBSET Nat
  BY <1>2 DEF ToolBlocks
<1>4. OpenBlocks(s) \in SUBSET Nat
  <2>1. Rest(s, 0) \in SUBSET Nat
    BY <1>2 DEF Rest
  <2>. QED
    BY <1>1, <2>1 DEF OpenBlocks
<1>5. s.beyond \in BOOLEAN
  BY DEF State
<1>. QED
  BY <1>1, <1>3, <1>4, <1>5 DEF PlaceOf, Place, Stage

\* What a step that leaves the tools alone, and their number closed, keeps.
LEMMA SameTools ==
    ASSUME NEW s, NEW t, t.tools = s.tools, t.closed = s.closed
    PROVE  ToolBlocks(t) = ToolBlocks(s) /\ \A m : Rest(t, m) = Rest(s, m)
  BY DEF ToolBlocks, Rest

LEMMA RestTyped ==
    ASSUME NEW s, NEW m
    PROVE  Rest(s, m) \subseteq ToolBlocks(s)
  BY DEF ToolBlocks, Rest

LEMMA EmitFields ==
    ASSUME NEW s \in State, NEW type \in EventType, NEW i \in Nat
    PROVE  LET t == Emit(s, type, i)
           IN  /\ t \in State
               /\ t.out = Append(s.out, [type |-> type, index |-> i])
               /\ t.started = s.started /\ t.next = s.next /\ t.thinking = s.thinking
               /\ t.text = s.text /\ t.tools = s.tools /\ Alike(t, s)
<1> DEFINE e == [type |-> type, index |-> i]
           q == Append(s.out, e)
<1>1. e \in Event /\ s.out \in Seq(Event)
  BY DEF Event, State
<1> HIDE DEF e
<1>2. q \in Seq(Event)
  BY <1>1
<1>3. Emit(s, type, i) = [s EXCEPT !.out = q]
  BY DEF Emit, e
<1> HIDE DEF q
<1>4. /\ [s EXCEPT !.out = q] \in State
      /\ [s EXCEPT !.out = q].out = q
  BY <1>2 DEF State
<1>5. LET t == [s EXCEPT !.out = q]
      IN  /\ t.started = s.started /\ t.next = s.next /\ t.thinking = s.thinking
          /\ t.text = s.text /\ t.tools = s.tools /\ Alike(t, s)
  BY DEF State
<1>. QED
  BY <1>3, <1>4, <1>5 DEF q, e

\* What a step from s to t has to show when it gives out one event.
LEMMA FollowsOn ==
    ASSUME NEW a \in Place, NEW s, Follows(a, s), NEW t \in State, Numbered(t),
           t.beyond = s.beyond,
           NEW e \in Event, t.out = Append(s.out, e), Legal(PlaceOf(s), e, PlaceOf(t))
    PROVE  Follows(a, t)
<1>1. s \in State /\ s.out \in Seq(Event) /\ Leads(a, s.out, PlaceOf(s))
  BY DEF Follows, State
<1>2. PlaceOf(s) \in Place /\ PlaceOf(t) \in Place
  BY <1>1, PlaceTyped
<1>3. Leads(a, Append(s.out, e), PlaceOf(t))
  BY <1>1, <1>2, LeadsOn
<1>. QED
  BY <1>3 DEF Follows

LEMMA BeginFollows ==
    ASSUME NEW a \in Place, NEW s, Follows(a, s)
    PROVE  Follows(a, Begin(s)) /\ Begin(s).started /\ Alike(Begin(s), s)
<1>1. CASE s.started
  BY <1>1 DEF Begin
<1>2. CASE ~s.started
  <2> DEFINE m == Emit(s, "message_start", 0)
             t == [m EXCEPT !.started = TRUE, !.next = 0]
             e == [type |-> "message_start", index |-> 0]
  <2>1. s \in State /\ Numbered(s)
    BY DEF Follows
  <2>2. /\ m \in State /\ m.out = Append(s.out, e)
        /\ m.next = s.next /\ m.thinking = s.thinking
        /\ m.text = s.text /\ m.tools = s.tools /\ Alike(m, s)
    BY <2>1, EmitFields DEF EventType
  <2>3. Begin(s) = t
    BY <1>2 DEF Begin
  <2> HIDE DEF m
  <2>4. /\ t \in State /\ t.out = m.out /\ t.started = TRUE /\ t.next = 0
        /\ t.thinking = m.thinking /\ t.text = m.text /\ t.tools = m.tools
        /\ Alike(t, m)
    BY <2>2 DEF State
  <2> HIDE DEF t
  <2>5. /\ s.next = 0 /\ s.thinking = None /\ s.text = None
        /\ s.tools = <<>> /\ ~s.finished
    BY <1>2, <2>1 DEF Numbered
  <2>6. ToolBlocks(s) = {} /\ ToolBlocks(t) = {} /\ Rest(s, 0) = {} /\ Rest(t, 0) = {}
    BY <2>2, <2>4, <2>5 DEF ToolBlocks, Rest
  <2>7. Numbered(t)
    <3>1. /\ t.tools = <<>> /\ Len(t.tools) = 0 /\ DOMAIN t.tools = {}
          /\ ~t.beyond /\ ~t.concluded /\ t.closed = 0
      BY <2>1, <2>2, <2>4, <2>5 DEF Numbered
    <3>. QED
      BY <2>2, <2>4, <2>5, <2>6, <3>1 DEF Numbered, None
  <2>8. Legal(PlaceOf(s), e, PlaceOf(t))
    <3>1. OpenBlocks(s) = {} /\ OpenBlocks(t) = {}
      BY <2>2, <2>4, <2>5, <2>6 DEF OpenBlocks
    <3>2. /\ PlaceOf(s) = At("before", {}, 0, s.beyond)
          /\ PlaceOf(t) = At("open", {}, 0, s.beyond)
      BY <1>2, <2>2, <2>4, <2>5, <3>1 DEF PlaceOf, At
    <3>. QED
      BY <3>2 DEF Legal, At
  <2>9. e \in Event
    BY DEF Event, EventType
  <2>. QED
    BY <2>2, <2>3, <2>4, <2>7, <2>8, <2>9, FollowsOn
<1>. QED
  BY <1>1, <1>2

\* The message is open and its end not yet given out, or the upstream went on.
Going(a, s) == Follows(a, s) /\ s.started /\ (s.finished <=> s.beyond)

\* The events that are legal in the middle of a message.
LEMMA LegalAt ==
    ASSUME NEW B, NEW n, NEW y
    PROVE  LET a == At(Ground(y), B, n, y)
           IN  /\ Legal(a, [type |-> "content_block_start", index |-> n],
                        At(Ground(y), B \cup {n}, n + 1, y))
               /\ \A i \in Reach(a) :
                     /\ Legal(a, [type |-> "content_block_delta", index |-> i], a)
                     /\ Legal(a, [type |-> "content_block_stop", index |-> i],
                              At(Ground(y), B \ {i}, n, y))
               /\ B \subseteq Reach(a)
               /\ y => 0..(n - 1) \subseteq Reach(a)
<1> DEFINE a == At(Ground(y), B, n, y)
<1>1. a.stage = Ground(y) /\ a.blocks = B /\ a.next = n /\ a.beyond = y
  BY DEF At
<1> HIDE DEF a
<1>2. Legal(a, [type |-> "content_block_start", index |-> n],
            At(Ground(y), B \cup {n}, n + 1, y))
  BY <1>1 DEF Legal
<1>3. ASSUME NEW i \in Reach(a)
      PROVE  /\ Legal(a, [type |-> "content_block_delta", index |-> i], a)
             /\ Legal(a, [type |-> "content_block_stop", index |-> i],
                      At(Ground(y), B \ {i}, n, y))
  BY <1>1 DEF Legal
<1>4. B \subseteq Reach(a) /\ (y => 0..(n - 1) \subseteq Reach(a))
  BY <1>1 DEF Reach
<1>. QED
  BY <1>2, <1>3, <1>4 DEF a

LEMMA GoingPlace ==
    ASSUME NEW s, s.started, s.finished <=> s.beyond
    PROVE  PlaceOf(s) = At(Ground(s.beyond), OpenBlocks(s), s.next, s.beyond)
  BY DEF PlaceOf, At, Ground

\* From s to t with one event about a block.
Advances(s, t, e) ==
    \/ /\ e = [type |-> "content_block_start", index |-> s.next]
       /\ OpenBlocks(t) = OpenBlocks(s) \cup {s.next} /\ t.next = s.next + 1
    \/ \E i \in OpenBlocks(s) :
          /\ e = [type |-> "content_block_delta", index |-> i]
          /\ OpenBlocks(t) = OpenBlocks(s) /\ t.next = s.next
    \/ \E i \in OpenBlocks(s) :
          /\ e = [type |-> "content_block_stop", index |-> i]
          /\ OpenBlocks(t) = OpenBlocks(s) \ {i} /\ t.next = s.next

LEMMA GoingOn ==
    ASSUME NEW a \in Place, NEW s, Going(a, s),
           NEW t \in State, Numbered(t), t.started, Alike(t, s),
           NEW e, t.out = Append(s.out, e), Advances(s, t, e)
    PROVE  Going(a, t)
<1> DEFINE y == s.beyond
<1>1. /\ s \in State /\ s.started /\ (s.finished <=> y) /\ s.next \in Nat
      /\ PlaceOf(s) = At(Ground(y), OpenBlocks(s), s.next, y)
      /\ PlaceOf(t) = At(Ground(y), OpenBlocks(t), t.next, y)
  BY GoingPlace DEF Going, Follows, State
<1>2. OpenBlocks(s) \in SUBSET Nat
  <2>1. PlaceOf(s) \in Place
    BY <1>1, PlaceTyped
  <2>. QED
    BY <1>1, <2>1 DEF Place, At
<1> HIDE DEF y
<1>3. Legal(PlaceOf(s), e, PlaceOf(t))
  <2>0. LET q == At(Ground(y), OpenBlocks(s), s.next, y)
        IN  /\ Legal(q, [type |-> "content_block_start", index |-> s.next],
                     At(Ground(y), OpenBlocks(s) \cup {s.next}, s.next + 1, y))
            /\ \A i \in OpenBlocks(s) :
                  /\ Legal(q, [type |-> "content_block_delta", index |-> i], q)
                  /\ Legal(q, [type |-> "content_block_stop", index |-> i],
                           At(Ground(y), OpenBlocks(s) \ {i}, s.next, y))
    BY LegalAt
  <2> DEFINE o == OpenBlocks(s)
             p == OpenBlocks(t)
             n == s.next
  <2> HIDE DEF o, p, n
  <2>1. CASE /\ e = [type |-> "content_block_start", index |-> s.next]
             /\ OpenBlocks(t) = OpenBlocks(s) \cup {s.next} /\ t.next = s.next + 1
    BY <1>1, <2>0, <2>1
  <2>2. CASE \E i \in OpenBlocks(s) :
                /\ e = [type |-> "content_block_delta", index |-> i]
                /\ OpenBlocks(t) = OpenBlocks(s) /\ t.next = s.next
    BY <1>1, <2>0, <2>2
  <2>3. CASE \E i \in OpenBlocks(s) :
                /\ e = [type |-> "content_block_stop", index |-> i]
                /\ OpenBlocks(t) = OpenBlocks(s) \ {i} /\ t.next = s.next
    BY <1>1, <2>0, <2>3
  <2>. QED
    BY <2>1, <2>2, <2>3 DEF Advances
<1>4. e \in Event
  BY <1>1, <1>2 DEF Advances, Event, EventType
<1>5. Follows(a, t)
  BY <1>3, <1>4, FollowsOn DEF Going
<1>. QED
  BY <1>1, <1>5 DEF Going, y

LEMMA StopThinkingFollows ==
    ASSUME NEW a \in Place, NEW s, Going(a, s)
    PROVE  LET t == StopThinkingBlock(s)
           IN  /\ Going(a, t)
               /\ t.thinking = None /\ t.text = s.text /\ t.tools = s.tools
<1>1. s \in State /\ Numbered(s) /\ s.started /\ s.thinking \in Nat \cup {None}
  BY DEF Going, Follows, State
<1>2. CASE s.thinking = None
  BY <1>1, <1>2 DEF StopThinkingBlock
<1>3. CASE s.thinking # None
  <2> DEFINE m == Emit(s, "content_block_stop", s.thinking)
             t == [m EXCEPT !.thinking = None]
             e == [type |-> "content_block_stop", index |-> s.thinking]
  <2>0. s.thinking \in Nat
    BY <1>1, <1>3
  <2>1. /\ m \in State /\ m.out = Append(s.out, e)
        /\ m.started = s.started /\ m.next = s.next
        /\ m.text = s.text /\ m.tools = s.tools /\ Alike(m, s)
    BY <1>1, <2>0, EmitFields DEF EventType
  <2>2. StopThinkingBlock(s) = t
    BY <1>3 DEF StopThinkingBlock
  <2> HIDE DEF m, e
  <2>3. /\ t \in State /\ t.out = m.out /\ t.started = m.started /\ t.next = m.next
        /\ t.thinking = None /\ t.text = m.text /\ t.tools = m.tools
        /\ Alike(t, m)
    BY <2>1 DEF State
  <2> HIDE DEF t
  <2>4. /\ ToolBlocks(t) = ToolBlocks(s) /\ s.next \in Nat /\ ToolBlocks(s) \in SUBSET Nat
        /\ Rest(t, 0) = Rest(s, 0) /\ Rest(s, 0) \subseteq ToolBlocks(s)
    BY <1>1, <2>1, <2>3, PlaceTyped, SameTools, RestTyped DEF State
  <2>5. s.thinking \notin ToolBlocks(s) /\ s.text = None
    BY <1>1, <1>3 DEF Numbered
  <2>6. Numbered(t)
    BY <1>1, <2>1, <2>3, <2>4 DEF Numbered, None
  <2>7. /\ s.thinking \in OpenBlocks(s)
        /\ OpenBlocks(t) = OpenBlocks(s) \ {s.thinking}
    BY <1>1, <1>3, <2>1, <2>3, <2>4, <2>5 DEF OpenBlocks
  <2>8. Advances(s, t, e)
    BY <2>1, <2>3, <2>7 DEF Advances, e
  <2>9. Going(a, t)
    BY <1>1, <2>1, <2>3, <2>6, <2>8, GoingOn
  <2>. QED
    BY <2>1, <2>2, <2>3, <2>9
<1>. QED
  BY <1>2, <1>3

LEMMA StopTextFollows ==
    ASSUME NEW a \in Place, NEW s, Going(a, s)
    PROVE  LET t == StopTextBlock(s)
           IN  /\ Going(a, t)
               /\ t.text = None /\ t.thinking = s.thinking /\ t.tools = s.tools
<1>1. s \in State /\ Numbered(s) /\ s.started /\ s.text \in Nat \cup {None}
  BY DEF Going, Follows, State
<1>2. CASE s.text = None
  BY <1>1, <1>2 DEF StopTextBlock
<1>3. CASE s.text # None
  <2> DEFINE m == Emit(s, "content_block_stop", s.text)
             t == [m EXCEPT !.text = None]
             e == [type |-> "content_block_stop", index |-> s.text]
  <2>0. s.text \in Nat
    BY <1>1, <1>3
  <2>1. /\ m \in State /\ m.out = Append(s.out, e)
        /\ m.started = s.started /\ m.next = s.next
        /\ m.thinking = s.thinking /\ m.tools = s.tools /\ Alike(m, s)
    BY <1>1, <2>0, EmitFields DEF EventType
  <2>2. StopTextBlock(s) = t
    BY <1>3 DEF StopTextBlock
  <2> HIDE DEF m, e
  <2>3. /\ t \in State /\ t.out = m.out /\ t.started = m.started /\ t.next = m.next
        /\ t.text = None /\ t.thinking = m.thinking /\ t.tools = m.tools
        /\ Alike(t, m)
    BY <2>1 DEF State
  <2> HIDE DEF t
  <2>4. /\ ToolBlocks(t) = ToolBlocks(s) /\ s.next \in Nat /\ ToolBlocks(s) \in SUBSET Nat
        /\ Rest(t, 0) = Rest(s, 0) /\ Rest(s, 0) \subseteq ToolBlocks(s)
    BY <1>1, <2>1, <2>3, PlaceTyped, SameTools, RestTyped DEF State
  <2>5. s.text \notin ToolBlocks(s) /\ s.thinking = None
    BY <1>1, <1>3 DEF Numbered
  <2>6. Numbered(t)
    BY <1>1, <2>1, <2>3, <2>4 DEF Numbered, None
  <2>7. /\ s.text \in OpenBlocks(s)
        /\ OpenBlocks(t) = OpenBlocks(s) \ {s.text}
    BY <1>1, <1>3, <2>1, <2>3, <2>4, <2>5 DEF OpenBlocks
  <2>8. Advances(s, t, e)
    BY <2>1, <2>3, <2>7 DEF Advances, e
  <2>9. Going(a, t)
    BY <1>1, <2>1, <2>3, <2>6, <2>8, GoingOn
  <2>. QED
    BY <2>1, <2>2, <2>3, <2>9
<1>. QED
  BY <1>2, <1>3

LEMMA OpenFields ==
    ASSUME NEW s \in State
    PROVE  LET t == OpenBlock(s)
           IN  /\ t \in State
               /\ t.out = Append(s.out, [type |-> "content_block_start", index |-> s.next])
               /\ t.started = s.started /\ t.next = s.next + 1 /\ t.thinking = s.thinking
               /\ t.text = s.text /\ t.tools = s.tools /\ Alike(t, s)
<1> DEFINE m == Emit(s, "content_block_start", s.next)
           t == [m EXCEPT !.next = @ + 1]
           e == [type |-> "content_block_start", index |-> s.next]
<1>1. s.next \in Nat
  BY DEF State
<1>2. /\ m \in State /\ m.out = Append(s.out, e) /\ m.next = s.next
      /\ m.started = s.started /\ m.thinking = s.thinking
      /\ m.text = s.text /\ m.tools = s.tools /\ Alike(m, s)
  BY <1>1, EmitFields DEF EventType
<1>3. OpenBlock(s) = t
  BY DEF OpenBlock
<1> HIDE DEF m, e
<1> DEFINE n == m.next + 1
<1>4. n \in Nat /\ t = [m EXCEPT !.next = n]
  BY <1>1, <1>2
<1> HIDE DEF n, t
<1>5. /\ t \in State /\ t.next = n /\ t.out = m.out
      /\ t.started = m.started /\ t.thinking = m.thinking
      /\ t.text = m.text /\ t.tools = m.tools /\ Alike(t, m)
  BY <1>2, <1>4 DEF State
<1>. QED
  BY <1>2, <1>3, <1>5 DEF e, n

\* A delta goes to an open block.
LEMMA WriteFollows ==
    ASSUME NEW a \in Place, NEW s, Going(a, s), NEW i \in OpenBlocks(s), i \in Nat
    PROVE  Going(a, Emit(s, "content_block_delta", i))
<1> DEFINE t == Emit(s, "content_block_delta", i)
           e == [type |-> "content_block_delta", index |-> i]
<1>1. s \in State /\ Numbered(s) /\ s.started
  BY DEF Going, Follows
<1>2. /\ t \in State /\ t.out = Append(s.out, e)
      /\ t.started = s.started /\ t.next = s.next /\ t.thinking = s.thinking
      /\ t.text = s.text /\ t.tools = s.tools /\ Alike(t, s)
  BY <1>1, EmitFields DEF EventType
<1> HIDE DEF t, e
<1>3. ToolBlocks(t) = ToolBlocks(s) /\ Rest(t, 0) = Rest(s, 0)
  BY <1>2, SameTools
<1>4. Numbered(t) /\ OpenBlocks(t) = OpenBlocks(s)
  BY <1>1, <1>2, <1>3 DEF Numbered, OpenBlocks
<1>5. Advances(s, t, e)
  BY <1>2, <1>4 DEF Advances, e
<1>6. Going(a, t)
  BY <1>1, <1>2, <1>4, <1>5, GoingOn
<1>. QED
  BY <1>6 DEF t

LEMMA OpenThinkingFollows ==
    ASSUME NEW a \in Place, NEW s, Going(a, s), s.thinking = None, s.text = None
    PROVE  LET t == [OpenBlock(s) EXCEPT !.thinking = s.next]
           IN  Going(a, t) /\ t.thinking \in OpenBlocks(t) /\ t.thinking \in Nat
<1> DEFINE m == OpenBlock(s)
           t == [m EXCEPT !.thinking = s.next]
           e == [type |-> "content_block_start", index |-> s.next]
<1>1. s \in State /\ Numbered(s) /\ s.started /\ s.next \in Nat
  BY DEF Going, Follows, State
<1>2. /\ m \in State /\ m.out = Append(s.out, e) /\ m.next = s.next + 1
      /\ m.started = s.started /\ m.text = s.text
      /\ m.tools = s.tools /\ Alike(m, s)
  BY <1>1, OpenFields
<1> HIDE DEF m, e
<1>3. /\ t \in State /\ t.out = m.out /\ t.started = m.started /\ t.next = m.next
      /\ t.thinking = s.next /\ t.text = m.text /\ t.tools = m.tools
      /\ Alike(t, m)
  BY <1>1, <1>2 DEF State
<1> HIDE DEF t
<1>4. /\ ToolBlocks(t) = ToolBlocks(s) /\ ToolBlocks(s) \in SUBSET Nat
      /\ Rest(t, 0) = Rest(s, 0)
  BY <1>1, <1>2, <1>3, PlaceTyped, SameTools
<1>5. \A i \in ToolBlocks(s) : i < s.next
  BY <1>1 DEF Numbered
<1>6. s.next \notin ToolBlocks(s)
  BY <1>1, <1>5
<1>7. Numbered(t)
  <2>1. \A i \in ToolBlocks(s) : i < s.next + 1
    BY <1>1, <1>4, <1>5
  <2>2. -1 < s.next + 1 /\ s.next < s.next + 1 /\ -1 \notin ToolBlocks(s)
    BY <1>1, <1>4
  <2>. QED
    BY <1>1, <1>2, <1>3, <1>4, <1>6, <2>1, <2>2 DEF Numbered, None
<1>8. s.next # None
  BY <1>1 DEF None
<1>9. OpenBlocks(t) = OpenBlocks(s) \cup {s.next} /\ s.next \in OpenBlocks(t)
  BY <1>1, <1>2, <1>3, <1>4, <1>8 DEF OpenBlocks
<1>10. Advances(s, t, e)
  BY <1>2, <1>3, <1>9 DEF Advances, e
<1>11. Going(a, t)
  BY <1>1, <1>2, <1>3, <1>7, <1>10, GoingOn
<1>. QED
  BY <1>1, <1>3, <1>9, <1>11 DEF t, m

LEMMA OpenTextFollows ==
    ASSUME NEW a \in Place, NEW s, Going(a, s), s.text = None, s.thinking = None
    PROVE  LET t == [OpenBlock(s) EXCEPT !.text = s.next]
           IN  Going(a, t) /\ t.text \in OpenBlocks(t) /\ t.text \in Nat
<1> DEFINE m == OpenBlock(s)
           t == [m EXCEPT !.text = s.next]
           e == [type |-> "content_block_start", index |-> s.next]
<1>1. s \in State /\ Numbered(s) /\ s.started /\ s.next \in Nat
  BY DEF Going, Follows, State
<1>2. /\ m \in State /\ m.out = Append(s.out, e) /\ m.next = s.next + 1
      /\ m.started = s.started /\ m.thinking = s.thinking
      /\ m.tools = s.tools /\ Alike(m, s)
  BY <1>1, OpenFields
<1> HIDE DEF m, e
<1>3. /\ t \in State /\ t.out = m.out /\ t.started = m.started /\ t.next = m.next
      /\ t.text = s.next /\ t.thinking = m.thinking /\ t.tools = m.tools
      /\ Alike(t, m)
  BY <1>1, <1>2 DEF State
<1> HIDE DEF t
<1>4. /\ ToolBlocks(t) = ToolBlocks(s) /\ ToolBlocks(s) \in SUBSET Nat
      /\ Rest(t, 0) = Rest(s, 0)
  BY <1>1, <1>2, <1>3, PlaceTyped, SameTools
<1>5. \A i \in ToolBlocks(s) : i < s.next
  BY <1>1 DEF Numbered
<1>6. s.next \notin ToolBlocks(s)
  BY <1>1, <1>5
<1>7. Numbered(t)
  <2>1. \A i \in ToolBlocks(s) : i < s.next + 1
    BY <1>1, <1>4, <1>5
  <2>2. -1 < s.next + 1 /\ s.next < s.next + 1 /\ -1 \notin ToolBlocks(s)
    BY <1>1, <1>4
  <2>. QED
    BY <1>1, <1>2, <1>3, <1>4, <1>6, <2>1, <2>2 DEF Numbered, None
<1>8. s.next # None
  BY <1>1 DEF None
<1>9. OpenBlocks(t) = OpenBlocks(s) \cup {s.next} /\ s.next \in OpenBlocks(t)
  BY <1>1, <1>2, <1>3, <1>4, <1>8 DEF OpenBlocks
<1>10. Advances(s, t, e)
  BY <1>2, <1>3, <1>9 DEF Advances, e
<1>11. Going(a, t)
  BY <1>1, <1>2, <1>3, <1>7, <1>10, GoingOn
<1>. QED
  BY <1>1, <1>3, <1>9, <1>11 DEF t, m

LEMMA ThinkFollows ==
    ASSUME NEW a \in Place, NEW s, Going(a, s), NEW chunk
    PROVE  Going(a, Think(s, chunk))
<1> DEFINE t == StopTextBlock(s)
           u == IF t.thinking = None THEN [OpenBlock(t) EXCEPT !.thinking = t.next] ELSE t
<1>1. Going(a, t) /\ t.text = None
  BY StopTextFollows
<1> HIDE DEF t
<1>2. Going(a, u) /\ u.thinking \in OpenBlocks(u) /\ u.thinking \in Nat
  <2>1. CASE t.thinking = None
    BY <1>1, <2>1, OpenThinkingFollows
  <2>2. CASE t.thinking # None
    <3>1. t.thinking \in Nat
      BY <1>1, <2>2 DEF Going, Follows, State
    <3>2. t.thinking \in OpenBlocks(t)
      BY <2>2, <3>1 DEF OpenBlocks
    <3>. QED
      BY <1>1, <2>2, <3>1, <3>2
  <2>. QED
    BY <2>1, <2>2
<1>3. Think(s, chunk) = Emit(u, "content_block_delta", u.thinking) \/ Think(s, chunk) = s
  BY DEF Think, t
<1> HIDE DEF u
<1>4. Going(a, Emit(u, "content_block_delta", u.thinking))
  BY <1>2, WriteFollows
<1>. QED
  BY <1>3, <1>4

LEMMA SpeakFollows ==
    ASSUME NEW a \in Place, NEW s, Going(a, s), NEW chunk
    PROVE  Going(a, Speak(s, chunk))
<1> DEFINE t == StopThinkingBlock(s)
           u == IF t.text = None THEN [OpenBlock(t) EXCEPT !.text = t.next] ELSE t
<1>1. Going(a, t) /\ t.thinking = None
  BY StopThinkingFollows
<1> HIDE DEF t
<1>2. Going(a, u) /\ u.text \in OpenBlocks(u) /\ u.text \in Nat
  <2>1. CASE t.text = None
    BY <1>1, <2>1, OpenTextFollows
  <2>2. CASE t.text # None
    <3>1. t.text \in Nat
      BY <1>1, <2>2 DEF Going, Follows, State
    <3>2. t.text \in OpenBlocks(t)
      BY <2>2, <3>1 DEF OpenBlocks
    <3>. QED
      BY <1>1, <2>2, <3>1, <3>2
  <2>. QED
    BY <2>1, <2>2
<1>3. Speak(s, chunk) = Emit(u, "content_block_delta", u.text) \/ Speak(s, chunk) = s
  BY DEF Speak, t
<1> HIDE DEF u
<1>4. Going(a, Emit(u, "content_block_delta", u.text))
  BY <1>2, WriteFollows
<1>. QED
  BY <1>3, <1>4

\* The tools of a sequence that is one longer.
LEMMA AppendBlocks ==
    ASSUME NEW s \in State, NEW t \in State, NEW tool \in Tool,
           t.tools = Append(s.tools, tool)
    PROVE  /\ ToolBlocks(t) = ToolBlocks(s) \cup {tool.block}
           /\ t.closed = s.closed /\ s.closed <= Len(s.tools)
              => Rest(t, 0) = Rest(s, 0) \cup {tool.block} /\ t.closed <= Len(t.tools)
           /\ /\ \A j, k \in DOMAIN s.tools : s.tools[j].block = s.tools[k].block => j = k
              /\ tool.block \notin ToolBlocks(s)
              => \A j, k \in DOMAIN t.tools : t.tools[j].block = t.tools[k].block => j = k
<1> DEFINE q == s.tools
           r == t.tools
           n == Len(q)
<1>1. q \in Seq(Tool) /\ n \in Nat /\ DOMAIN q = 1..n /\ s.closed \in Nat
  BY DEF State
<1>2. /\ DOMAIN r = 1..(n + 1) /\ r[n + 1] = tool /\ Len(r) = n + 1
      /\ \A k \in 1..n : r[k] = q[k]
  BY <1>1
<1>3. 1..(n + 1) = (1..n) \cup {n + 1}
  BY <1>1
<1> HIDE DEF n
<1>4. ToolBlocks(t) = ToolBlocks(s) \cup {tool.block}
  BY <1>1, <1>2, <1>3 DEF ToolBlocks
<1>5. ASSUME \A j, k \in DOMAIN s.tools : s.tools[j].block = s.tools[k].block => j = k,
             tool.block \notin ToolBlocks(s),
             NEW j \in DOMAIN r, NEW k \in DOMAIN r, r[j].block = r[k].block
      PROVE  j = k
  BY <1>1, <1>2, <1>3, <1>5 DEF ToolBlocks
<1>6. ASSUME t.closed = s.closed, s.closed <= n
      PROVE  Rest(t, 0) = Rest(s, 0) \cup {tool.block} /\ t.closed <= n + 1
  <2>1. {k \in DOMAIN r : k > 0 /\ k > t.closed}
          = {k \in DOMAIN q : k > 0 /\ k > s.closed} \cup {n + 1}
    BY <1>1, <1>2, <1>3, <1>6
  <2>2. \A k \in {k \in DOMAIN q : k > 0 /\ k > s.closed} : r[k] = q[k]
    BY <1>1, <1>2
  <2>. QED
    BY <1>1, <1>2, <1>6, <2>1, <2>2 DEF Rest
<1>. QED
  BY <1>2, <1>4, <1>5, <1>6 DEF n

LEMMA OpenToolFollows ==
    ASSUME NEW a \in Place, NEW s, Going(a, s), s.thinking = None, s.text = None,
           NEW i \in Nat
    PROVE  Going(a, [OpenBlock(s) EXCEPT
                        !.tools = Append(@, [idx |-> i, block |-> s.next, args |-> FALSE])])
<1> DEFINE m == OpenBlock(s)
           tool == [idx |-> i, block |-> s.next, args |-> FALSE]
           q == Append(m.tools, tool)
           t == [m EXCEPT !.tools = q]
           e == [type |-> "content_block_start", index |-> s.next]
<1>1. s \in State /\ Numbered(s) /\ s.started /\ s.next \in Nat
  BY DEF Going, Follows, State
<1>2. /\ m \in State /\ m.out = Append(s.out, e) /\ m.next = s.next + 1
      /\ m.started = s.started /\ m.text = s.text /\ m.thinking = s.thinking
      /\ m.tools = s.tools /\ Alike(m, s)
  BY <1>1, OpenFields
<1>3. tool \in Tool /\ tool.block = s.next
  BY <1>1 DEF Tool
<1> HIDE DEF m, e, tool
<1>4. q \in Seq(Tool) /\ q = Append(s.tools, tool)
  BY <1>2, <1>3 DEF State
<1> HIDE DEF q
<1>5. /\ t \in State /\ t.out = m.out /\ t.started = m.started /\ t.next = m.next
      /\ t.thinking = m.thinking /\ t.text = m.text /\ t.tools = q
      /\ Alike(t, m)
  BY <1>2, <1>4 DEF State
<1> HIDE DEF t
<1>6. /\ \A j \in ToolBlocks(s) : j < s.next
      /\ \A j, k \in DOMAIN s.tools : s.tools[j].block = s.tools[k].block => j = k
      /\ s.closed <= Len(s.tools)
  BY <1>1 DEF Numbered
<1>7. s.next \notin ToolBlocks(s) /\ ToolBlocks(s) \in SUBSET Nat
  BY <1>1, <1>6, PlaceTyped
<1>8. /\ ToolBlocks(t) = ToolBlocks(s) \cup {s.next}
      /\ Rest(t, 0) = Rest(s, 0) \cup {s.next} /\ t.closed <= Len(t.tools)
      /\ \A j, k \in DOMAIN t.tools : t.tools[j].block = t.tools[k].block => j = k
  <2>1. /\ t \in State /\ t.tools = Append(s.tools, tool) /\ t.closed = s.closed
        /\ s \in State /\ tool \in Tool /\ tool.block \notin ToolBlocks(s)
    BY <1>1, <1>2, <1>3, <1>4, <1>5, <1>7
  <2>. QED
    BY <1>3, <1>6, <2>1, AppendBlocks
<1>9. Numbered(t)
  <2>1. \A j \in ToolBlocks(t) : j < s.next + 1
    BY <1>1, <1>6, <1>7, <1>8
  <2>2. -1 < s.next + 1 /\ -1 \notin ToolBlocks(t)
    BY <1>1, <1>7, <1>8
  <2>. QED
    BY <1>1, <1>2, <1>5, <1>8, <2>1, <2>2 DEF Numbered, None
<1>10. OpenBlocks(t) = OpenBlocks(s) \cup {s.next}
  BY <1>1, <1>2, <1>5, <1>8 DEF OpenBlocks
<1>11. Advances(s, t, e)
  BY <1>2, <1>5, <1>10 DEF Advances, e
<1>12. Going(a, t)
  BY <1>1, <1>2, <1>5, <1>9, <1>11, GoingOn
<1>. QED
  BY <1>12 DEF t, q, tool, m

LEMMA OpenCallFollows ==
    ASSUME NEW a \in Place, NEW s, Going(a, s), NEW call \in Call
    PROVE  Going(a, OpenCall(s, call))
<1> DEFINE r == StopThinkingBlock(s)
           t == StopTextBlock(r)
           u == [OpenBlock(t) EXCEPT
                    !.tools = Append(@, [idx |-> call.idx, block |-> t.next, args |-> FALSE])]
<1>1. Going(a, r) /\ r.thinking = None
  BY StopThinkingFollows
<1> HIDE DEF r
<1>2. Going(a, t) /\ t.thinking = None /\ t.text = None
  BY <1>1, StopTextFollows
<1>3. OpenCall(s, call) = u \/ OpenCall(s, call) = s
  BY DEF OpenCall, r
<1> HIDE DEF t
<1>4. call.idx \in Nat
  BY DEF Call
<1>5. Going(a, u)
  BY <1>2, <1>4, OpenToolFollows
<1>. QED
  BY <1>3, <1>5

LEMMA BufferFollows ==
    ASSUME NEW a \in Place, NEW s, Going(a, s), NEW call \in Call
    PROVE  Going(a, Buffer(s, call))
<1> DEFINE arg(k) == s.tools[k].args \/ (call.args /\ s.tools[k].idx = call.idx)
           q == [k \in DOMAIN s.tools |-> [s.tools[k] EXCEPT !.args = arg(k)]]
           t == [s EXCEPT !.tools = q]
<1>1. s \in State /\ Numbered(s) /\ s.started
      /\ Leads(a, s.out, PlaceOf(s)) /\ s.tools \in Seq(Tool)
  BY DEF Going, Follows, State
<1>2. Buffer(s, call) = t
  BY DEF Buffer
<1>3. ASSUME NEW k \in DOMAIN s.tools
      PROVE  q[k] \in Tool /\ q[k].block = s.tools[k].block
  <2>1. s.tools[k] \in Tool /\ call.args \in BOOLEAN
    BY <1>1 DEF Call
  <2> DEFINE b == arg(k)
             x == s.tools[k]
  <2>2. b \in BOOLEAN
    OBVIOUS
  <2> HIDE DEF b, x
  <2>3. x \in Tool => [x EXCEPT !.args = b] \in Tool /\ [x EXCEPT !.args = b].block = x.block
    BY <2>2 DEF Tool
  <2>. QED
    BY <2>1, <2>3 DEF b, x
<1>4. q \in Seq(Tool) /\ DOMAIN q = DOMAIN s.tools /\ Len(q) = Len(s.tools)
  <2>1. PICK n \in Nat : DOMAIN s.tools = 1..n /\ Len(s.tools) = n
    BY <1>1
  <2>2. q \in [1..n -> Tool]
    BY <1>3, <2>1
  <2> HIDE DEF q
  <2>3. q \in Seq(Tool) /\ DOMAIN q = 1..n /\ Len(q) = n
    BY <2>1, <2>2
  <2>. QED
    BY <2>1, <2>3
<1>5. \A k \in DOMAIN s.tools : q[k].block = s.tools[k].block
  BY <1>3
<1> HIDE DEF q
<1>6. /\ t \in State /\ t.out = s.out /\ t.started = s.started /\ t.next = s.next
      /\ t.thinking = s.thinking /\ t.text = s.text /\ t.tools = q
      /\ Alike(t, s)
  BY <1>1, <1>4 DEF State
<1> HIDE DEF t
<1>7. ToolBlocks(t) = ToolBlocks(s) /\ Rest(t, 0) = Rest(s, 0)
  BY <1>4, <1>5, <1>6 DEF ToolBlocks, Rest
<1>8. \A j, k \in DOMAIN s.tools : s.tools[j].block = s.tools[k].block => j = k
  BY <1>1 DEF Numbered
<1>9. \A j, k \in DOMAIN t.tools : t.tools[j].block = t.tools[k].block => j = k
  BY <1>4, <1>5, <1>6, <1>8
<1>10. Numbered(t)
  BY <1>1, <1>4, <1>6, <1>7, <1>9 DEF Numbered
<1>11. PlaceOf(t) = PlaceOf(s)
  BY <1>6, <1>7 DEF PlaceOf, OpenBlocks
<1>. QED
  BY <1>1, <1>2, <1>6, <1>10, <1>11 DEF Going, Follows

-----------------------------------------------------------------------------
\* All the pieces of calls of a chunk, and the end of the message.

LEMMA CallsFollow ==
    ASSUME NEW a \in Place, NEW s, Going(a, s), NEW chunk \in Chunk
    PROVE  Going(a, CallTools(s, chunk))
<1> DEFINE n == Len(chunk.calls)
           T == {x \in State : Going(a, x)}
           do(x, k) == Buffer(OpenCall(x, chunk.calls[k]), chunk.calls[k])
           step == [k \in 1..n |-> [x \in T |-> do(x, k)]]
           Rec(f) == [k \in 0..n |-> IF k = 0 THEN s ELSE do(f[k - 1], k)]
<1>0. n \in Nat /\ s \in T /\ \A k \in 1..n : chunk.calls[k] \in Call
  BY DEF Chunk, Going, Follows
<1>1. ASSUME NEW x \in T, NEW k \in 1..n PROVE do(x, k) \in T
  <2>1. Going(a, OpenCall(x, chunk.calls[k]))
    BY <1>0, OpenCallFollows
  <2>2. Going(a, do(x, k))
    BY <1>0, <2>1, BufferFollows
  <2>. QED
    BY <2>2 DEF Going, Follows
<1> HIDE DEF T, do
<1>2. step \in Steps(n, T)
  BY <1>1 DEF Steps
<1>3. PICK f : Solves(f, T, s, n, step)
  <2> HIDE DEF step, n
  <2>. QED
    BY <1>0, <1>2, Iteration
<1>4. f = Rec(f)
  <2>1. ASSUME NEW k \in 0..n PROVE f[k] = Rec(f)[k]
    <3>1. CASE k = 0
      BY <3>1, <1>3 DEF Solves
    <3>2. CASE k # 0
      <4>1. k \in 1..n /\ k - 1 \in 0..n
        BY <3>2, <1>0
      <4>2. f[k] = step[k][f[k - 1]] /\ f[k - 1] \in T
        BY <4>1, <1>3 DEF Solves
      <4>3. f[k] = do(f[k - 1], k)
        BY <4>1, <4>2
      <4>. QED
        BY <4>1, <4>3, <3>2
    <3>. QED
      BY <3>1, <3>2
  <2>2. f = [k \in 0..n |-> f[k]] /\ Rec(f) = [k \in 0..n |-> Rec(f)[k]]
    BY <1>3 DEF Solves
  <2> HIDE DEF Rec
  <2>. QED
    BY <2>1, <2>2
<1> DEFINE K == CHOOSE g : g = Rec(g)
<1>5. K = Rec(K)
  <2> HIDE DEF Rec
  <2>. QED
    BY <1>4
<1>6. CallTools(s, chunk) = K[n]
  BY DEF CallTools, do
<1>7. ASSUME NEW g, g = Rec(g)
      PROVE  g[0] = s /\ \A k \in 1..n : g[k] = do(g[k - 1], k)
  <2>1. 0 \in 0..n /\ \A k \in 1..n : k \in 0..n /\ k # 0
    BY <1>0
  <2>2. \A k \in 0..n : g[k] = Rec(g)[k]
    BY <1>7
  <2>. QED
    BY <1>7, <2>1, <2>2
<1> HIDE DEF K, Rec
<1>8. K[0] = s /\ \A k \in 1..n : K[k] = do(K[k - 1], k)
  BY <1>5, <1>7
<1> DEFINE P == {m \in Nat : m <= n => K[m] \in T}
<1>9. P = Nat
  <2>1. 0 \in P
    BY <1>0, <1>8
  <2>2. ASSUME NEW m \in P PROVE m + 1 \in P
    <3>. SUFFICES ASSUME m + 1 <= n PROVE K[m + 1] \in T
      OBVIOUS
    <3>1. m \in Nat /\ m + 1 \in 1..n /\ (m + 1) - 1 = m /\ K[m] \in T
      BY <1>0
    <3>2. K[m + 1] = do(K[m], m + 1)
      BY <1>8, <3>1
    <3>. QED
      BY <1>1, <3>1, <3>2
  <2> HIDE DEF P
  <2>3. P \subseteq Nat
    BY DEF P
  <2>. QED
    BY <2>1, <2>2, <2>3, Induction
<1>10. K[n] \in T
  BY <1>0, <1>9
<1>. QED
  BY <1>6, <1>10 DEF T

\* The states in which the tools up to the m-th are closed.
Midway(s, B) == At(Ground(s.beyond), B, s.next, s.beyond)

ClosedUpTo(a, s, m) ==
    {x \in State :
        /\ x.started /\ Alike(x, s) /\ x.next = s.next
        /\ x.thinking = None /\ x.text = None /\ x.tools = s.tools
        /\ Leads(a, x.out, Midway(s, Rest(s, m)))}

LEMMA CloseTyped ==
    ASSUME NEW x \in State, NEW tool \in Tool
    PROVE  CloseCall(x, tool) \in State
<1> DEFINE t == IF tool.args THEN Emit(x, "content_block_delta", tool.block) ELSE x
<1>1. tool.block \in Nat
  BY DEF Tool
<1>2. t \in State
  BY <1>1, EmitFields DEF EventType
<1>3. CloseCall(x, tool) = Emit(t, "content_block_stop", tool.block)
  BY DEF CloseCall
<1> HIDE DEF t
<1>. QED
  BY <1>1, <1>2, <1>3, EmitFields DEF EventType

LEMMA CloseCallFollows ==
    ASSUME NEW a \in Place, NEW s \in State, Numbered(s), s.finished <=> s.beyond,
           NEW m \in DOMAIN s.tools,
           NEW x \in ClosedUpTo(a, s, m - 1)
    PROVE  CloseCall(x, s.tools[m]) \in ClosedUpTo(a, s, m)
<1> DEFINE tool == s.tools[m]
           i == s.tools[m].block
           A == Rest(s, m - 1)
           B == Rest(s, m)
           t == IF tool.args THEN Emit(x, "content_block_delta", i) ELSE x
           u == Emit(t, "content_block_stop", i)
           delta == [type |-> "content_block_delta", index |-> i]
           stop == [type |-> "content_block_stop", index |-> i]
<1>1. /\ s.tools \in Seq(Tool) /\ s.next \in Nat /\ tool \in Tool /\ i \in Nat
      /\ ToolBlocks(s) \in SUBSET Nat /\ s.closed \in Nat /\ s.beyond \in BOOLEAN
  <2>1. s.tools \in Seq(Tool) /\ s.next \in Nat /\ s.closed \in Nat /\ s.beyond \in BOOLEAN
    BY DEF State
  <2>2. s.tools[m] \in Tool
    BY <2>1
  <2>3. s.tools[m].block \in Nat
    BY <2>2 DEF Tool
  <2>. QED
    BY <2>1, <2>2, <2>3, PlaceTyped
<1>0. "content_block_delta" \in EventType /\ "content_block_stop" \in EventType
  BY DEF EventType
<1>2. PICK n \in Nat : DOMAIN s.tools = 1..n
  BY <1>1
<1>3. \A j, k \in DOMAIN s.tools : s.tools[j].block = s.tools[k].block => j = k
  BY DEF Numbered
<1>4. i \in Reach(Midway(s, A)) /\ A \ {i} = B /\ A \in SUBSET Nat
  <2>1. i \in Reach(Midway(s, A))
    <3>1. CASE m > s.closed
      <4>1. i \in A
        BY <1>2, <3>1 DEF Rest
      <4>. QED
        BY <4>1, LegalAt DEF Midway
    <3>2. CASE ~(m > s.closed)
      <4>1. s.closed # 0
        BY <1>1, <1>2, <3>2
      <4>2. s.beyond /\ i < s.next
        BY <4>1 DEF Numbered, ToolBlocks
      <4>3. i \in 0..(s.next - 1)
        BY <1>1, <4>2
      <4>. QED
        BY <4>2, <4>3, LegalAt DEF Midway
    <3>. QED
      BY <3>1, <3>2
  <2>2. A \in SUBSET Nat
    BY <1>1 DEF Rest, ToolBlocks
  <2>3. ASSUME NEW k \in DOMAIN s.tools
        PROVE  k > m <=> k > m - 1 /\ k # m
    BY <1>2
  <2>4. ASSUME NEW j \in A \ {i} PROVE j \in B
    BY <2>3 DEF Rest
  <2>5. ASSUME NEW j \in B PROVE j \in A \ {i}
    BY <1>3, <2>3 DEF Rest
  <2>. QED
    BY <2>1, <2>2, <2>4, <2>5
<1>5. B \in SUBSET Nat
  BY <1>4
<1>6. /\ Midway(s, A) \in Place /\ Midway(s, B) \in Place
      /\ delta \in Event /\ stop \in Event
  BY <1>1, <1>4, <1>5 DEF Midway, At, Ground, Place, Stage, Event, EventType
<1>7. /\ x \in State /\ x.started /\ Alike(x, s) /\ x.next = s.next
      /\ x.thinking = None /\ x.text = None /\ x.tools = s.tools
      /\ Leads(a, x.out, Midway(s, A))
  BY DEF ClosedUpTo
<1>8. CloseCall(x, s.tools[m]) = u
  BY DEF CloseCall
<1> HIDE DEF tool, i, A, B, delta, stop
<1>9. /\ t \in State /\ t.started /\ Alike(t, s) /\ t.next = s.next
      /\ t.thinking = None /\ t.text = None /\ t.tools = s.tools
      /\ Leads(a, t.out, Midway(s, A))
  <2>1. CASE ~tool.args
    BY <1>7, <2>1
  <2>2. CASE tool.args
    <3> DEFINE v == Emit(x, "content_block_delta", i)
    <3>1. /\ v \in State /\ v.out = Append(x.out, delta)
          /\ v.started = x.started /\ v.next = x.next /\ v.thinking = x.thinking
          /\ v.text = x.text /\ v.tools = x.tools /\ Alike(v, x)
      <4>1. x \in State /\ i \in Nat /\ "content_block_delta" \in EventType
        BY <1>0, <1>1, <1>7
      <4>. QED
        BY <4>1, EmitFields DEF delta
    <3> HIDE DEF v
    <3>2. Legal(Midway(s, A), delta, Midway(s, A))
      BY <1>4, LegalAt DEF delta, Midway
    <3>3. x.out \in Seq(Event)
      BY <1>7 DEF State
    <3>4. Leads(a, v.out, Midway(s, A))
      BY <1>6, <1>7, <3>1, <3>2, <3>3, LeadsOn
    <3>. QED
      BY <1>7, <2>2, <3>1, <3>4 DEF v
  <2>. QED
    BY <2>1, <2>2
<1> HIDE DEF t
<1>10. /\ u \in State /\ u.out = Append(t.out, stop)
       /\ u.started = t.started /\ u.next = t.next /\ u.thinking = t.thinking
       /\ u.text = t.text /\ u.tools = t.tools /\ Alike(u, t)
  <2>1. t \in State /\ i \in Nat /\ "content_block_stop" \in EventType
    BY <1>0, <1>1, <1>9
  <2>. QED
    BY <2>1, EmitFields DEF stop
<1> HIDE DEF u
<1>11. Legal(Midway(s, A), stop, Midway(s, B))
  <2>1. Legal(Midway(s, A), stop, Midway(s, A \ {i}))
    BY <1>4, LegalAt DEF stop, Midway
  <2>. QED
    BY <1>4, <2>1
<1>12. t.out \in Seq(Event)
  BY <1>9 DEF State
<1>13. Leads(a, u.out, Midway(s, B))
  BY <1>6, <1>9, <1>10, <1>11, <1>12, LeadsOn
<1>. QED
  BY <1>8, <1>9, <1>10, <1>13 DEF ClosedUpTo, B

\* The calls are closed one after the other.
LEMMA AllClosed ==
    ASSUME NEW a \in Place, NEW s, Going(a, s), NEW t, Going(a, t),
           t.thinking = None, t.text = None, t.tools = s.tools
    PROVE  LET closed[k \in 0..Len(s.tools)] ==
                   IF k = 0 THEN t ELSE CloseCall(closed[k - 1], s.tools[k])
           IN  closed[Len(s.tools)] \in ClosedUpTo(a, t, Len(s.tools))
<1> DEFINE n == Len(s.tools)
           do(x, k) == CloseCall(x, s.tools[k])
           step == [k \in 1..n |-> [x \in State |-> do(x, k)]]
           Rec(f) == [k \in 0..n |-> IF k = 0 THEN t ELSE do(f[k - 1], k)]
<1>0. /\ n \in Nat /\ t \in State /\ Numbered(t) /\ \A k \in 1..n : s.tools[k] \in Tool
      /\ t.started /\ (t.finished <=> t.beyond)
  BY DEF State, Going, Follows
<1>1. ASSUME NEW x \in State, NEW k \in 1..n PROVE do(x, k) \in State
  BY <1>0, CloseTyped
<1>2. ASSUME NEW k \in 1..n, NEW x \in ClosedUpTo(a, t, k - 1)
      PROVE  do(x, k) \in ClosedUpTo(a, t, k)
  <2>1. k \in DOMAIN t.tools /\ t.tools[k] = s.tools[k]
    BY DEF State, Going, Follows
  <2>2. CloseCall(x, t.tools[k]) \in ClosedUpTo(a, t, k)
    BY <1>0, <2>1, CloseCallFollows
  <2>. QED
    BY <2>1, <2>2
<1>3. t \in ClosedUpTo(a, t, 0)
  <2>1. PlaceOf(t) = At(Ground(t.beyond), OpenBlocks(t), t.next, t.beyond)
    BY <1>0, GoingPlace
  <2>2. OpenBlocks(t) = Rest(t, 0)
    BY DEF OpenBlocks
  <2>3. Leads(a, t.out, Midway(t, Rest(t, 0)))
    BY <2>1, <2>2 DEF Going, Follows, Midway
  <2>. QED
    BY <1>0, <2>3 DEF ClosedUpTo
<1> HIDE DEF do
<1>4. step \in Steps(n, State)
  BY <1>1 DEF Steps
<1>5. PICK f : Solves(f, State, t, n, step)
  <2> HIDE DEF step, n
  <2>. QED
    BY <1>0, <1>4, Iteration
<1>6. f = Rec(f)
  <2>1. ASSUME NEW k \in 0..n PROVE f[k] = Rec(f)[k]
    <3>1. CASE k = 0
      BY <3>1, <1>5 DEF Solves
    <3>2. CASE k # 0
      <4>1. k \in 1..n /\ k - 1 \in 0..n
        BY <3>2, <1>0
      <4>2. f[k] = step[k][f[k - 1]] /\ f[k - 1] \in State
        BY <4>1, <1>5 DEF Solves
      <4>3. f[k] = do(f[k - 1], k)
        BY <4>1, <4>2
      <4>. QED
        BY <4>1, <4>3, <3>2
    <3>. QED
      BY <3>1, <3>2
  <2>2. f = [k \in 0..n |-> f[k]] /\ Rec(f) = [k \in 0..n |-> Rec(f)[k]]
    BY <1>5 DEF Solves
  <2> HIDE DEF Rec
  <2>. QED
    BY <2>1, <2>2
<1> DEFINE K == CHOOSE g : g = Rec(g)
<1>7. K = Rec(K)
  <2> HIDE DEF Rec
  <2>. QED
    BY <1>6
<1>8. ASSUME NEW g, g = Rec(g)
      PROVE  g[0] = t /\ \A k \in 1..n : g[k] = do(g[k - 1], k)
  <2>1. 0 \in 0..n /\ \A k \in 1..n : k \in 0..n /\ k # 0
    BY <1>0
  <2>2. \A k \in 0..n : g[k] = Rec(g)[k]
    BY <1>8
  <2>. QED
    BY <1>8, <2>1, <2>2
<1> HIDE DEF K, Rec
<1>9. K[0] = t /\ \A k \in 1..n : K[k] = do(K[k - 1], k)
  BY <1>7, <1>8
<1> DEFINE P == {m \in Nat : m <= n => K[m] \in ClosedUpTo(a, t, m)}
<1>10. P = Nat
  <2>1. 0 \in P
    BY <1>3, <1>9
  <2>2. ASSUME NEW m \in P PROVE m + 1 \in P
    <3>. SUFFICES ASSUME m + 1 <= n PROVE K[m + 1] \in ClosedUpTo(a, t, m + 1)
      OBVIOUS
    <3>1. /\ m \in Nat /\ m + 1 \in 1..n /\ (m + 1) - 1 = m
          /\ K[m] \in ClosedUpTo(a, t, m)
      BY <1>0
    <3>2. K[m + 1] = do(K[m], m + 1)
      BY <1>9, <3>1
    <3>. QED
      BY <1>2, <3>1, <3>2
  <2> HIDE DEF P
  <2>3. P \subseteq Nat
    BY DEF P
  <2>. QED
    BY <2>1, <2>2, <2>3, Induction
<1>11. K[n] \in ClosedUpTo(a, t, n)
  BY <1>0, <1>10
<1>. QED
  BY <1>11 DEF K, Rec, do

\* The last event of the message came last.
Over(q) == q # <<>> /\ q[Len(q)] = [type |-> "message_stop", index |-> 0]

LEMMA ConcludeFollows ==
    ASSUME NEW a \in Place, NEW s, Going(a, s), NEW chunk
    PROVE  /\ Follows(a, Conclude(s, chunk))
           /\ chunk.finish => Over(Conclude(s, chunk).out)
           /\ ~chunk.finish => Conclude(s, chunk).concluded = (s.concluded /\ Empty(chunk))
<1>1. CASE ~chunk.finish
  <2> DEFINE b == s.concluded /\ Empty(chunk)
             w == [s EXCEPT !.concluded = b]
  <2>1. b \in BOOLEAN /\ Conclude(s, chunk) = w
    BY <1>1 DEF Conclude
  <2>2. s \in State /\ (b => s.concluded)
    BY DEF Going, Follows
  <2> HIDE DEF b
  <2>3. /\ w \in State /\ w.out = s.out /\ w.started = s.started /\ w.next = s.next
        /\ w.thinking = s.thinking /\ w.text = s.text /\ w.tools = s.tools
        /\ w.finished = s.finished /\ w.closed = s.closed /\ w.beyond = s.beyond
        /\ w.concluded = b
    BY <2>1, <2>2 DEF State
  <2> HIDE DEF w
  <2>4. ToolBlocks(w) = ToolBlocks(s) /\ Rest(w, 0) = Rest(s, 0)
    BY <2>3, SameTools
  <2>5. Numbered(w) /\ PlaceOf(w) = PlaceOf(s)
    BY <2>2, <2>3, <2>4 DEF Going, Follows, Numbered, PlaceOf, OpenBlocks
  <2>6. Follows(a, w)
    BY <2>3, <2>5 DEF Going, Follows
  <2>. QED
    BY <1>1, <2>1, <2>3, <2>6 DEF b
<1>2. CASE chunk.finish
  <2> DEFINE r == StopThinkingBlock(s)
             t == StopTextBlock(r)
             closed[k \in 0..Len(s.tools)] ==
                 IF k = 0 THEN t ELSE CloseCall(closed[k - 1], s.tools[k])
             x == closed[Len(s.tools)]
             u == Emit(x, "message_delta", 0)
             v == Emit(u, "message_stop", 0)
             n == Len(s.tools)
             w == [v EXCEPT !.finished = TRUE, !.closed = n, !.concluded = TRUE]
             delta == [type |-> "message_delta", index |-> 0]
             stop == [type |-> "message_stop", index |-> 0]
  <2>1. Conclude(s, chunk) = w
    BY <1>2 DEF Conclude
  <2>2. Going(a, r) /\ r.thinking = None /\ r.tools = s.tools
    BY StopThinkingFollows
  <2> HIDE DEF r
  <2>3. Going(a, t) /\ t.thinking = None /\ t.text = None /\ t.tools = s.tools
    BY <2>2, StopTextFollows
  <2> HIDE DEF t
  <2>4. x \in ClosedUpTo(a, t, Len(s.tools))
    BY <2>3, AllClosed
  <2> HIDE DEF x
  <2>5. /\ t \in State /\ Numbered(t) /\ t.next \in Nat /\ t.tools \in Seq(Tool)
        /\ t.beyond \in BOOLEAN /\ t.beyond = a.beyond /\ n \in Nat
    BY <2>3 DEF Going, Follows, State
  <2>6. DOMAIN t.tools = 1..n /\ Len(t.tools) = n
    BY <2>3, <2>5
  <2> HIDE DEF n
  <2>7. Rest(t, n) = {}
    <3>1. {k \in DOMAIN t.tools : k > n /\ k > t.closed} = {}
      BY <2>5, <2>6
    <3>. QED
      BY <3>1 DEF Rest
  <2> DEFINE nx == t.next
             y == t.beyond
             open == At(Ground(y), {}, nx, y)
             stopping == At("stopping", {}, nx, y)
             stopped == At("stopped", {}, nx, y)
  <2>8. /\ x \in State /\ x.started /\ x.next = nx /\ x.beyond = y
        /\ x.thinking = None /\ x.text = None /\ x.tools = t.tools
        /\ Leads(a, x.out, open)
    BY <2>4, <2>7 DEF ClosedUpTo, Midway, n
  <2>9. /\ open \in Place /\ stopping \in Place /\ stopped \in Place
        /\ delta \in Event /\ stop \in Event
    BY <2>5 DEF At, Ground, Place, Stage, Event, EventType
  <2>10. Legal(open, delta, stopping) /\ Legal(stopping, stop, stopped)
    BY DEF At, Legal
  <2>11. /\ u \in State /\ u.out = Append(x.out, delta)
         /\ u.started = x.started /\ u.next = x.next /\ u.thinking = x.thinking
         /\ u.text = x.text /\ u.tools = x.tools /\ u.beyond = x.beyond
    <3>1. "message_delta" \in EventType /\ x \in State
      BY <2>8 DEF EventType
    <3>. QED
      BY <3>1, EmitFields
  <2> HIDE DEF u
  <2>12. /\ v \in State /\ v.out = Append(u.out, stop)
         /\ v.started = u.started /\ v.next = u.next /\ v.thinking = u.thinking
         /\ v.text = u.text /\ v.tools = u.tools /\ v.beyond = u.beyond
    <3>1. "message_stop" \in EventType /\ u \in State
      BY <2>11 DEF EventType
    <3>. QED
      BY <3>1, EmitFields
  <2> HIDE DEF v
  <2>13. /\ w \in State /\ w.out = v.out /\ w.started = v.started /\ w.next = v.next
         /\ w.thinking = v.thinking /\ w.text = v.text /\ w.tools = v.tools
         /\ w.finished /\ w.closed = n /\ w.concluded /\ w.beyond = v.beyond
    BY <2>5, <2>12 DEF State
  <2> HIDE DEF w, delta, stop, open, stopping, stopped
  <2>14. x.out \in Seq(Event) /\ u.out \in Seq(Event)
    BY <2>8, <2>11 DEF State
  <2>15. Leads(a, u.out, stopping)
    BY <2>8, <2>9, <2>10, <2>11, <2>14, LeadsOn
  <2>16. Leads(a, v.out, stopped)
    BY <2>9, <2>10, <2>12, <2>14, <2>15, LeadsOn
  <2>17. w.tools = t.tools /\ ToolBlocks(w) = ToolBlocks(t) /\ Rest(w, 0) = {}
    <3>1. w.tools = t.tools /\ w.closed = n
      BY <2>8, <2>11, <2>12, <2>13
    <3>2. {k \in DOMAIN w.tools : k > 0 /\ k > w.closed} = {}
      BY <2>5, <2>6, <3>1
    <3>. QED
      BY <3>1, <3>2 DEF ToolBlocks, Rest
  <2>18. PlaceOf(w) = stopped
    BY <2>8, <2>11, <2>12, <2>13, <2>17 DEF PlaceOf, OpenBlocks, At, stopped
  <2>19. Numbered(w)
    <3>1. /\ w.started /\ w.finished /\ w.closed = n /\ w.tools = t.tools
          /\ w.next = t.next /\ w.thinking = t.thinking /\ w.text = t.text
          /\ ToolBlocks(w) = ToolBlocks(t)
      BY <2>3, <2>8, <2>11, <2>12, <2>13, <2>17
    <3>. QED
      BY <2>5, <2>6, <3>1 DEF Numbered
  <2>20. Follows(a, w)
    BY <2>5, <2>8, <2>11, <2>12, <2>13, <2>16, <2>18, <2>19 DEF Follows
  <2>21. Over(v.out)
    BY <2>9, <2>12, <2>14 DEF Over, stop
  <2>. QED
    BY <1>2, <2>1, <2>13, <2>20, <2>21
<1>. QED
  BY <1>1, <1>2

\* A new turn changes nothing but whether the upstream went on.
LEMMA TurnPlace ==
    ASSUME NEW s \in State, NEW chunk, NEW stage, NEW B, NEW n, NEW y,
           PlaceOf(s) = At(stage, B, n, y)
    PROVE  PlaceOf(Turn(s, chunk)) = At(stage, B, n, Turn(s, chunk).beyond)
<1> DEFINE t == Turn(s, chunk)
<1>1. /\ t.started = s.started /\ t.next = s.next /\ t.thinking = s.thinking
      /\ t.text = s.text /\ t.tools = s.tools /\ t.finished = s.finished
      /\ t.closed = s.closed
  BY DEF Turn, State
<1> HIDE DEF t
<1>2. OpenBlocks(t) = OpenBlocks(s)
  BY <1>1, SameTools DEF OpenBlocks
<1>3. /\ PlaceOf(s).stage = stage /\ PlaceOf(s).blocks = B /\ PlaceOf(s).next = n
  BY DEF At
<1>4. PlaceOf(t) = At(PlaceOf(s).stage, PlaceOf(s).blocks, PlaceOf(s).next, t.beyond)
  BY <1>1, <1>2 DEF PlaceOf, At
<1>. QED
  BY <1>3, <1>4 DEF t

\* What an empty chunk does when the message is over.
LEMMA NothingFollows ==
    ASSUME NEW a \in Place, NEW s, Follows(a, s), NEW chunk \in Chunk, Empty(chunk),
           s.started
    PROVE  LET t == Conclude(CallTools(Speak(Think(Begin(s), chunk), chunk), chunk), chunk)
           IN  Follows(a, t) /\ t.out = s.out /\ t.concluded = s.concluded
<1> DEFINE after == CHOOSE g : g = [k \in 0..0 |->
                        IF k = 0 THEN s
                        ELSE Buffer(OpenCall(g[k - 1], chunk.calls[k]), chunk.calls[k])]
           h == [k \in 0..0 |-> s]
<1>1. Speak(Think(Begin(s), chunk), chunk) = s
  BY DEF Begin, Think, Speak, Empty
<1>2. CallTools(s, chunk) = s
  <2>1. Len(chunk.calls) = 0
    BY DEF Empty
  <2>2. \A k \in 0..0 : k = 0
    OBVIOUS
  <2>3. h = [k \in 0..0 |->
                 IF k = 0 THEN s
                 ELSE Buffer(OpenCall(h[k - 1], chunk.calls[k]), chunk.calls[k])]
    BY <2>2
  <2>4. after = [k \in 0..0 |->
                 IF k = 0 THEN s
                 ELSE Buffer(OpenCall(after[k - 1], chunk.calls[k]), chunk.calls[k])]
    BY <2>3
  <2>5. CallTools(s, chunk) = after[0]
    BY <2>1 DEF CallTools
  <2> HIDE DEF after
  <2>6. after[0] = s
    BY <2>4
  <2>. QED
    BY <2>5, <2>6
<1>3. s \in State /\ s.concluded \in BOOLEAN
  BY DEF Follows, State
<1>4. Conclude(s, chunk) = s
  <2> DEFINE b == s.concluded /\ Empty(chunk)
  <2>1. b = s.concluded /\ ~chunk.finish
    BY <1>3 DEF Empty
  <2>2. Conclude(s, chunk) = [s EXCEPT !.concluded = b]
    BY <2>1 DEF Conclude
  <2> HIDE DEF b
  <2>3. [s EXCEPT !.concluded = s.concluded] = s
    BY <1>3 DEF State
  <2>. QED
    BY <2>1, <2>2, <2>3
<1>. QED
  BY <1>1, <1>2, <1>4

\* Whatever a chunk carries, and whenever it comes, its events
\* (openaiToClaudeResponse) are legal where the ones before it led to, and lead to
\* where the translation then is; the finish reason is followed by nothing, unless by
\* a chunk that is not empty.
THEOREM TranslatedFollows ==
    ASSUME NEW s \in State, Numbered(s), NEW chunk \in Chunk
    PROVE  LET t == Translated(s, chunk)
           IN  /\ Follows(PlaceOf(Turn(s, chunk)), t)
               /\ t.concluded => Over(t.out) \/ (s.concluded /\ t.out = <<>>)
<1> DEFINE b == Turn(s, chunk)
           a == PlaceOf(b)
           c == Begin(b)
           d == Think(c, chunk)
           e == Speak(d, chunk)
           f == CallTools(e, chunk)
<1>1. /\ b \in State /\ b.out = <<>>
      /\ b.started = s.started /\ b.next = s.next /\ b.thinking = s.thinking
      /\ b.text = s.text /\ b.tools = s.tools /\ b.finished = s.finished
      /\ b.closed = s.closed /\ b.concluded = s.concluded
      /\ b.beyond = (s.beyond \/ (s.finished /\ ~Empty(chunk)))
  <2> DEFINE q == <<>>
             y == s.beyond \/ (s.finished /\ ~Empty(chunk))
  <2>1. q \in Seq(Event) /\ y \in BOOLEAN
    OBVIOUS
  <2>2. b = [s EXCEPT !.out = q, !.beyond = y]
    BY DEF Turn
  <2> HIDE DEF q, y, b
  <2>3. LET t == [s EXCEPT !.out = q, !.beyond = y]
        IN  /\ t \in State /\ t.out = q
            /\ t.started = s.started /\ t.next = s.next /\ t.thinking = s.thinking
            /\ t.text = s.text /\ t.tools = s.tools /\ t.finished = s.finished
            /\ t.closed = s.closed /\ t.concluded = s.concluded /\ t.beyond = y
    BY <2>1 DEF State
  <2>. QED
    BY <2>2, <2>3 DEF q, y
<1>2. Translated(s, chunk) = Conclude(f, chunk)
  BY DEF Translated
<1> HIDE DEF b
<1>3. ToolBlocks(b) = ToolBlocks(s)
  BY <1>1, SameTools
<1>4. Numbered(b)
  BY <1>1, <1>3 DEF Numbered
<1>5. a \in Place /\ a.beyond = b.beyond
  BY <1>1, PlaceTyped DEF PlaceOf
<1>6. Follows(a, b)
  BY <1>1, <1>4, <1>5, LeadsNowhere DEF Follows
<1> HIDE DEF a
<1>7. CASE s.finished /\ Empty(chunk)
  <2>1. b.started
    BY <1>1, <1>7 DEF Numbered
  <2>2. Follows(a, Conclude(f, chunk)) /\ Conclude(f, chunk).out = <<>>
        /\ Conclude(f, chunk).concluded = s.concluded
    BY <1>1, <1>5, <1>6, <1>7, <2>1, NothingFollows
  <2> HIDE DEF f
  <2>3. /\ Follows(a, Translated(s, chunk)) /\ Translated(s, chunk).out = <<>>
        /\ Translated(s, chunk).concluded => s.concluded
    BY <1>2, <2>2
  <2>. QED
    BY <2>3 DEF a, b
<1>8. CASE ~(s.finished /\ Empty(chunk))
  <2>1. Follows(a, c) /\ c.started /\ Alike(c, b)
    BY <1>5, <1>6, BeginFollows
  <2>2. b.finished <=> b.beyond
    BY <1>1, <1>4, <1>8 DEF Numbered
  <2> HIDE DEF c
  <2>3. Going(a, c)
    BY <2>1, <2>2 DEF Going
  <2>4. Going(a, d)
    BY <1>5, <2>3, ThinkFollows
  <2> HIDE DEF d
  <2>5. Going(a, e)
    BY <1>5, <2>4, SpeakFollows
  <2> HIDE DEF e
  <2>6. Going(a, f)
    BY <1>5, <2>5, CallsFollow
  <2>7. Empty(chunk) => ~f.concluded
    <3>. SUFFICES ASSUME Empty(chunk) PROVE ~f.concluded
      OBVIOUS
    <3>1. ~b.beyond
      BY <1>1, <1>8, <2>2
    <3>. QED
      BY <1>5, <2>6, <3>1 DEF Going, Follows, Numbered
  <2> HIDE DEF f
  <2>8. /\ Follows(a, Conclude(f, chunk))
        /\ chunk.finish => Over(Conclude(f, chunk).out)
        /\ ~chunk.finish => Conclude(f, chunk).concluded = (f.concluded /\ Empty(chunk))
    BY <1>5, <2>6, ConcludeFollows
  <2>9. /\ Follows(a, Translated(s, chunk))
        /\ Translated(s, chunk).concluded => Over(Translated(s, chunk).out)
    BY <1>2, <2>7, <2>8
  <2>. QED
    BY <2>9 DEF a, b
<1>. QED
  BY <1>7, <1>8

-----------------------------------------------------------------------------
\* The stream of a request: what the client has made of what it read, what waits
\* for it, and the state the translation is in.

Kind == EventType \cup {"none", "chunk", "done"}
Item == [type : Kind, index : Nat]

View == [stage : Stage, blocks : SUBSET Nat, next : Nat, last : Item, beat : BOOLEAN,
         mark : Kind]

PlaceOfView == At(view.stage, view.blocks, view.next, translation.beyond)

Shapes ==
    /\ view \in View
    /\ mode \in {"none", "translate", "passthrough", "unmarked"}
    /\ queue \in Seq(Item)
    /\ ahead # <<>> => Head(ahead) \in Chunk

\* Nothing happens before the stream begins, and then its mode is settled.
Untouched ==
    /\ phase \in {"idle", "executing"} =>
          /\ mode = "none" /\ view = NothingYet /\ queue = <<>> /\ ahead = <<>>
          /\ translation = Fresh /\ ~flushed /\ ~errored
    /\ phase \in {"streaming", "closed"} => mode # "none"

\* The end of the upstream, good or bad, comes after its chunks.
AtTheEnd ==
    /\ flushed => upstream = "ended" /\ ahead = <<>>
    /\ errored => upstream = "broken" /\ ahead = <<>> /\ queue = <<>>

\* The events that wait lead the client to where the translation is.
InStep ==
    mode = "translate" =>
        /\ translation \in State /\ Numbered(translation)
        /\ queue \in Seq(Event)
        /\ phase = "streaming" /\ ~errored =>
              Leads(PlaceOfView, queue, PlaceOf(translation))

\* The mark has been read last, or waits behind everything else.
Sealed(mark) == IF queue = <<>> THEN view.mark = mark ELSE queue[Len(queue)].type = mark

MarkLast ==
    phase = "streaming" =>
        /\ mode = "passthrough" /\ flushed => Sealed("done")
        /\ mode = "translate" /\ translation.concluded /\ ~errored => Sealed("message_stop")

StreamInv == Shapes /\ Untouched /\ AtTheEnd /\ InStep /\ MarkLast /\ EndMarked

\* What an event, and what any item, makes of a client.
LEMMA SeeFields ==
    ASSUME view \in View, NEW e \in Item
    PROVE  /\ See(e) \in View /\ See(e).mark = e.type
           /\ mode # "translate" =>
                 /\ See(e).stage = view.stage /\ See(e).blocks = view.blocks
                 /\ See(e).next = view.next /\ See(e).last = view.last
                 /\ See(e).beat = view.beat
           /\ mode = "translate" =>
                 /\ See(e).last = e /\ See(e).beat = ~view.beat
                 /\ See(e).stage = CASE e.type = "message_start" -> "open"
                                     [] e.type = "message_delta" -> "stopping"
                                     [] e.type = "message_stop" -> "stopped"
                                     [] OTHER -> view.stage
                 /\ See(e).blocks = CASE e.type = "content_block_start" -> view.blocks \cup {e.index}
                                      [] e.type = "content_block_stop" -> view.blocks \ {e.index}
                                      [] OTHER -> view.blocks
                 /\ See(e).next = IF e.type = "content_block_start" THEN e.index + 1
                                  ELSE view.next
<1> DEFINE v == [view EXCEPT !.mark = e.type]
           stg == CASE e.type = "message_start" -> "open"
                    [] e.type = "message_delta" -> "stopping"
                    [] e.type = "message_stop" -> "stopped"
                    [] OTHER -> v.stage
           blk == CASE e.type = "content_block_start" -> v.blocks \cup {e.index}
                    [] e.type = "content_block_stop" -> v.blocks \ {e.index}
                    [] OTHER -> v.blocks
           nxt == IF e.type = "content_block_start" THEN e.index + 1 ELSE v.next
           w == [v EXCEPT !.last = e, !.beat = ~@, !.stage = stg, !.blocks = blk, !.next = nxt]
<1>1. See(e) = IF mode # "translate" THEN v ELSE w
  BY Zenon DEF See
<1>2. e.type \in Kind /\ e.index \in Nat
  BY DEF Item
<1>3. /\ v \in View /\ v.mark = e.type /\ v.stage = view.stage /\ v.blocks = view.blocks
      /\ v.next = view.next /\ v.last = view.last /\ v.beat = view.beat
  BY <1>2 DEF View
<1> HIDE DEF v
<1>4. stg \in Stage /\ blk \in SUBSET Nat /\ nxt \in Nat
  BY <1>2, <1>3 DEF View, Stage
<1> HIDE DEF stg, blk, nxt
<1>5. /\ w \in View /\ w.mark = v.mark /\ w.last = e /\ w.beat = ~v.beat
      /\ w.stage = stg /\ w.blocks = blk /\ w.next = nxt
  BY <1>3, <1>4 DEF View
<1> HIDE DEF w
<1>. QED
  BY <1>1, <1>3, <1>5 DEF stg, blk, nxt

LEMMA Seen ==
    ASSUME view \in View, mode = "translate", NEW e \in Event, NEW b,
           Legal(PlaceOfView, e, b)
    PROVE  /\ At(See(e).stage, See(e).blocks, See(e).next, translation.beyond) = b
           /\ See(e) \in View /\ See(e).mark = e.type
           /\ See(e).last = e /\ See(e).beat = ~view.beat
<1> DEFINE v == See(e)
<1>1. e \in Item /\ e.type \in EventType
  BY DEF Event, Item, Kind
<1>2. /\ v \in View /\ v.mark = e.type /\ v.last = e /\ v.beat = ~view.beat
      /\ v.stage = CASE e.type = "message_start" -> "open"
                     [] e.type = "message_delta" -> "stopping"
                     [] e.type = "message_stop" -> "stopped"
                     [] OTHER -> view.stage
      /\ v.blocks = CASE e.type = "content_block_start" -> view.blocks \cup {e.index}
                      [] e.type = "content_block_stop" -> view.blocks \ {e.index}
                      [] OTHER -> view.blocks
      /\ v.next = IF e.type = "content_block_start" THEN e.index + 1 ELSE view.next
  BY <1>1, SeeFields
<1> HIDE DEF v
<1>3. /\ PlaceOfView.stage = view.stage /\ PlaceOfView.blocks = view.blocks
      /\ PlaceOfView.next = view.next /\ PlaceOfView.beyond = translation.beyond
      /\ PlaceOfView = At(view.stage, view.blocks, view.next, translation.beyond)
  BY DEF PlaceOfView, At
<1> DEFINE a == PlaceOfView
<1> HIDE DEF a
<1> DEFINE y == translation.beyond
<1> HIDE DEF y
<1>4. At(v.stage, v.blocks, v.next, y) = b
  <2>1. CASE /\ a.stage = "before" /\ e = [type |-> "message_start", index |-> 0]
             /\ b = At("open", a.blocks, a.next, a.beyond)
    BY <1>2, <1>3, <2>1 DEF a, y
  <2>2. CASE /\ a.stage = Ground(a.beyond)
             /\ e = [type |-> "content_block_start", index |-> a.next]
             /\ b = At(a.stage, a.blocks \cup {a.next}, a.next + 1, a.beyond)
    BY <1>2, <1>3, <2>2 DEF a, y
  <2>3. CASE \E i \in Reach(a) :
                /\ a.stage = Ground(a.beyond)
                /\ e = [type |-> "content_block_delta", index |-> i]
                /\ b = a
    BY <1>2, <1>3, <2>3 DEF a, y
  <2>4. CASE \E i \in Reach(a) :
                /\ a.stage = Ground(a.beyond)
                /\ e = [type |-> "content_block_stop", index |-> i]
                /\ b = At(a.stage, a.blocks \ {i}, a.next, a.beyond)
    BY <1>2, <1>3, <2>4 DEF a, y
  <2>5. CASE /\ a.stage = Ground(a.beyond) /\ a.blocks = {}
             /\ e = [type |-> "message_delta", index |-> 0]
             /\ b = At("stopping", a.blocks, a.next, a.beyond)
    BY <1>2, <1>3, <2>5 DEF a, y
  <2>6. CASE /\ a.stage = "stopping" /\ e = [type |-> "message_stop", index |-> 0]
             /\ b = At("stopped", a.blocks, a.next, a.beyond)
    BY <1>2, <1>3, <2>6 DEF a, y
  <2>. QED
    BY <2>1, <2>2, <2>3, <2>4, <2>5, <2>6 DEF Legal, a
<1>. QED
  BY <1>2, <1>4 DEF v, y

LEMMA FreshPlace ==
    /\ Fresh \in State /\ Numbered(Fresh)
    /\ PlaceOf(Fresh) = At("before", {}, 0, FALSE) /\ Fresh.beyond = FALSE
    /\ NothingYet \in View
<1>1. Fresh \in State
  BY DEF Fresh, State, None
<1>2. ToolBlocks(Fresh) = {} /\ OpenBlocks(Fresh) = {}
  BY DEF Fresh, ToolBlocks, OpenBlocks, Rest, None
<1>3. /\ Numbered(Fresh) /\ PlaceOf(Fresh) = At("before", {}, 0, FALSE)
      /\ Fresh.beyond = FALSE
  <2> DEFINE s == Fresh
  <2>1. /\ s.started = FALSE /\ s.next = 0 /\ s.thinking = None /\ s.text = None
        /\ s.tools = <<>> /\ s.finished = FALSE /\ DOMAIN s.tools = {}
        /\ s.closed = 0 /\ s.beyond = FALSE /\ s.concluded = FALSE
    BY DEF Fresh
  <2>2. ToolBlocks(s) = {} /\ OpenBlocks(s) = {}
    BY <1>2
  <2> HIDE DEF s
  <2>3. Numbered(s)
    BY <2>1, <2>2 DEF Numbered, None
  <2>4. PlaceOf(s) = At("before", {}, 0, FALSE)
    BY <2>1, <2>2 DEF PlaceOf, At
  <2>. QED
    BY <2>1, <2>3, <2>4 DEF s
<1>4. NothingYet \in View
  BY DEF NothingYet, View, Stage, Item, Kind
<1>. QED
  BY <1>1, <1>3, <1>4

LEMMA InitStream == Init => StreamInv
<1> SUFFICES ASSUME Init PROVE StreamInv
  OBVIOUS
<1>1. Shapes /\ Untouched
  BY FreshPlace DEF Init, Shapes, Untouched
<1>2. AtTheEnd /\ InStep /\ MarkLast /\ EndMarked
  BY DEF Init, AtTheEnd, InStep, MarkLast, EndMarked
<1>. QED
  BY <1>1, <1>2 DEF StreamInv

\* Steps that leave the stream itself alone.
LEMMA Aside ==
    ASSUME StreamInv,
           UNCHANGED <<mode, translation, queue, flushed, errored, view, ahead>>,
           upstream' = upstream \/ (~flushed /\ ~errored /\ upstream = "open"),
           phase' = phase \/ (phase = "idle" /\ phase' = "executing") \/ phase' = "left"
    PROVE  StreamInv'
<1>1. Shapes'
  BY DEF StreamInv, Shapes
<1>2. Untouched'
  BY DEF StreamInv, Untouched
<1>3. AtTheEnd'
  BY DEF StreamInv, AtTheEnd
<1>4. InStep'
  BY DEF StreamInv, InStep, PlaceOfView
<1>5. MarkLast'
  BY DEF StreamInv, MarkLast, Sealed
<1>6. EndMarked'
  BY DEF StreamInv, EndMarked
<1>. QED
  BY <1>1, <1>2, <1>3, <1>4, <1>5, <1>6 DEF StreamInv

LEMMA StreamBegins == StreamInv /\ AnswerStream => StreamInv'
<1> SUFFICES ASSUME StreamInv, AnswerStream PROVE StreamInv'
  OBVIOUS
<1>1. /\ phase = "executing" /\ phase' = "streaming"
      /\ mode' \in {"translate", "passthrough", "unmarked"}
      /\ UNCHANGED <<translation, queue, flushed, errored, view, ahead, upstream>>
  BY DEF AnswerStream, pipe
<1>2. /\ view = NothingYet /\ queue = <<>> /\ ahead = <<>>
      /\ translation = Fresh /\ ~flushed /\ ~errored
  BY <1>1 DEF StreamInv, Untouched
<1>3. Shapes' /\ Untouched'
  BY <1>1 DEF StreamInv, Shapes, Untouched
<1>4. AtTheEnd' /\ MarkLast' /\ EndMarked'
  BY <1>1, <1>2 DEF AtTheEnd, MarkLast, EndMarked, Fresh
<1>5. InStep'
  <2>1. PlaceOfView' = At("before", {}, 0, FALSE)
    BY <1>1, <1>2, FreshPlace DEF PlaceOfView, NothingYet
  <2>2. At("before", {}, 0, FALSE) \in Place
    BY DEF At, Place, Stage
  <2>3. queue' = <<>> /\ queue' \in Seq(Event)
    BY <1>1, <1>2
  <2>4. translation' = Fresh
    BY <1>1, <1>2
  <2>5. /\ translation' \in State /\ Numbered(translation')
        /\ PlaceOf(translation') = At("before", {}, 0, FALSE)
    BY <2>4, FreshPlace
  <2>6. Leads(At("before", {}, 0, FALSE), <<>>, At("before", {}, 0, FALSE))
    BY <2>2, LeadsNowhere
  <2>. QED
    BY <2>1, <2>3, <2>5, <2>6 DEF InStep
<1>. QED
  BY <1>3, <1>4, <1>5 DEF StreamInv

LEMMA StreamArrives == StreamInv /\ Arrive => StreamInv'
<1> SUFFICES ASSUME StreamInv, Arrive PROVE StreamInv'
  OBVIOUS
<1>1. /\ phase = "streaming" /\ upstream = "open"
      /\ UNCHANGED <<phase, mode, translation, queue, flushed, errored, view, upstream>>
  BY DEF Arrive
<1>2. PICK chunk \in Chunks : ahead' = <<chunk>>
  BY DEF Arrive
<1>3. chunk \in Chunk /\ ahead' # <<>> /\ Head(ahead') = chunk
  BY <1>2, RelayAssumption
<1>4. Shapes' /\ Untouched'
  BY <1>1, <1>3 DEF StreamInv, Shapes, Untouched
<1>5. AtTheEnd'
  BY <1>1, <1>2, <1>3 DEF StreamInv, AtTheEnd
<1>6. InStep'
  BY <1>1 DEF StreamInv, InStep, PlaceOfView
<1>7. MarkLast' /\ EndMarked'
  BY <1>1 DEF StreamInv, MarkLast, Sealed, EndMarked
<1>. QED
  BY <1>4, <1>5, <1>6, <1>7 DEF StreamInv

\* What the translation has been given is read when it takes a chunk.
LEMMA AllRead ==
    ASSUME StreamInv, phase = "streaming", queue = <<>>, ~errored, mode = "translate"
    PROVE  PlaceOfView = PlaceOf(translation)
<1>1. Leads(PlaceOfView, <<>>, PlaceOf(translation))
  BY DEF StreamInv, InStep
<1>2. translation.beyond \in BOOLEAN
  BY DEF StreamInv, InStep, State
<1>3. PlaceOfView \in Place
  BY <1>2 DEF StreamInv, Shapes, View, PlaceOfView, At, Place
<1>. QED
  BY <1>1, <1>3, LeadsNowhere

\* What a chunk is translated into continues what the client has read.
LEMMA StreamTransforms == StreamInv /\ Transform => StreamInv'
<1> SUFFICES ASSUME StreamInv, Transform PROVE StreamInv'
  OBVIOUS
<1> DEFINE chunk == Head(ahead)
           next == Translated(translation, chunk)
           turn == Turn(translation, chunk)
<1>1. /\ phase = "streaming" /\ queue = <<>> /\ ahead # <<>> /\ ahead' = <<>>
      /\ UNCHANGED <<phase, mode, flushed, errored, view, upstream>>
  BY DEF Transform, Take
<1>2. /\ mode = "translate" => translation' = [next EXCEPT !.out = <<>>] /\ queue' = next.out
      /\ mode # "translate" => queue' = <<>> \/ queue' = <<Output("chunk")>>
  BY DEF Transform
<1>3. ~flushed /\ ~errored /\ chunk \in Chunk
  BY <1>1 DEF StreamInv, AtTheEnd, Shapes
<1> HIDE DEF chunk, next
<1>4. AtTheEnd' /\ EndMarked'
  BY <1>1, <1>3 DEF StreamInv, AtTheEnd, EndMarked
<1>5. Untouched'
  BY <1>1 DEF StreamInv, Untouched
<1>6. CASE mode # "translate"
  <2>1. queue' \in Seq(Item)
    <3>1. Output("chunk") \in Item
      BY DEF Output, Item, Kind
    <3>2. queue' = <<>> \/ queue' = <<Output("chunk")>>
      BY <1>2, <1>6
    <3> DEFINE o == Output("chunk")
    <3> HIDE DEF o
    <3>3. <<>> \in Seq(Item) /\ (o \in Item => <<o>> \in Seq(Item))
      OBVIOUS
    <3>. QED
      BY <3>1, <3>2, <3>3 DEF o
  <2>2. Shapes'
    BY <1>1, <2>1 DEF StreamInv, Shapes
  <2>3. InStep' /\ MarkLast'
    BY <1>1, <1>3, <1>6 DEF InStep, MarkLast
  <2>. QED
    BY <1>4, <1>5, <2>2, <2>3 DEF StreamInv
<1>7. CASE mode = "translate"
  <2>1. translation \in State /\ Numbered(translation)
    BY <1>7 DEF StreamInv, InStep
  <2>2. /\ Follows(PlaceOf(turn), next)
        /\ next.concluded => Over(next.out) \/ (translation.concluded /\ next.out = <<>>)
    BY <1>3, <2>1, TranslatedFollows DEF next
  <2> HIDE DEF turn
  <2>3. /\ next \in State /\ Numbered(next) /\ next.beyond = turn.beyond
        /\ Leads(PlaceOf(turn), next.out, PlaceOf(next))
    BY <2>2 DEF Follows, PlaceOf
  <2> DEFINE after == [next EXCEPT !.out = <<>>]
  <2>4. translation' = after /\ queue' = next.out
    BY <1>2, <1>7
  <2>5. /\ after \in State /\ after.started = next.started /\ after.next = next.next
        /\ after.thinking = next.thinking /\ after.text = next.text
        /\ after.tools = next.tools /\ Alike(after, next)
    <3> DEFINE q == <<>>
    <3>1. q \in Seq(Event)
      OBVIOUS
    <3> HIDE DEF q
    <3>2. LET t == [next EXCEPT !.out = q]
          IN  /\ t \in State /\ t.started = next.started /\ t.next = next.next
              /\ t.thinking = next.thinking /\ t.text = next.text
              /\ t.tools = next.tools /\ Alike(t, next)
      BY <2>3, <3>1 DEF State
    <3>. QED
      BY <3>2 DEF q
  <2> HIDE DEF after
  <2>6. ToolBlocks(after) = ToolBlocks(next) /\ Rest(after, 0) = Rest(next, 0)
    BY <2>5, SameTools
  <2>7. Numbered(after) /\ PlaceOf(after) = PlaceOf(next)
    BY <2>3, <2>5, <2>6 DEF Numbered, PlaceOf, OpenBlocks
  <2>8. queue' \in Seq(Event) /\ queue' \in Seq(Item)
    <3>1. Event \subseteq Item
      BY DEF Event, Item, Kind
    <3>2. next.out \in Seq(Event)
      BY <2>3 DEF State
    <3>. QED
      BY <2>4, <3>1, <3>2
  <2>9. PlaceOfView' = PlaceOf(turn)
    <3>1. PlaceOfView = PlaceOf(translation)
      BY <1>1, <1>3, <1>7, AllRead
    <3>2. PlaceOfView = At(view.stage, view.blocks, view.next, translation.beyond)
      BY DEF PlaceOfView
    <3>3. PlaceOf(turn) = At(view.stage, view.blocks, view.next, turn.beyond)
      BY <2>1, <3>1, <3>2, TurnPlace DEF turn
    <3>4. translation'.beyond = turn.beyond
      BY <2>3, <2>4, <2>5
    <3>. QED
      BY <1>1, <3>3, <3>4 DEF PlaceOfView
  <2>10. Leads(PlaceOfView', queue', PlaceOf(translation'))
    BY <2>3, <2>4, <2>7, <2>9
  <2>11. InStep'
    BY <1>1, <1>7, <2>4, <2>5, <2>7, <2>8, <2>10 DEF InStep
  <2>12. Shapes'
    BY <1>1, <2>8 DEF StreamInv, Shapes
  <2>13. MarkLast'
    <3>1. SUFFICES ASSUME translation'.concluded PROVE Sealed("message_stop")'
      BY <1>1, <1>7 DEF MarkLast
    <3>2. next.concluded
      BY <2>4, <2>5, <3>1
    <3>3. CASE Over(next.out)
      BY <2>4, <3>3 DEF Over, Sealed
    <3>4. CASE translation.concluded /\ next.out = <<>>
      <4>1. Sealed("message_stop")
        BY <1>1, <1>3, <1>7, <3>4 DEF StreamInv, MarkLast
      <4>. QED
        BY <1>1, <2>4, <3>4, <4>1 DEF Sealed
    <3>. QED
      BY <2>2, <3>2, <3>3, <3>4
  <2>. QED
    BY <1>4, <1>5, <2>11, <2>12, <2>13 DEF StreamInv
<1>. QED
  BY <1>6, <1>7

LEMMA StreamFlushes == StreamInv /\ Flush => StreamInv'
<1> SUFFICES ASSUME StreamInv, Flush PROVE StreamInv'
  OBVIOUS
<1>1. /\ phase = "streaming" /\ upstream = "ended" /\ ahead = <<>> /\ flushed' = TRUE
      /\ queue' = IF mode = "passthrough" THEN Append(queue, Output("done")) ELSE queue
      /\ UNCHANGED <<phase, mode, upstream, ahead, translation, errored, view>>
  BY DEF Flush
<1>2. queue \in Seq(Item) /\ Output("done") \in Item
  BY DEF StreamInv, Shapes, Output, Item, Kind
<1>3. queue' \in Seq(Item)
  BY <1>1, <1>2
<1>4. Shapes' /\ Untouched'
  BY <1>1, <1>3 DEF StreamInv, Shapes, Untouched
<1>5. AtTheEnd'
  BY <1>1 DEF StreamInv, AtTheEnd
<1>6. InStep'
  BY <1>1 DEF StreamInv, InStep, PlaceOfView
<1>7. MarkLast'
  <2>1. CASE mode = "passthrough"
    <3> DEFINE o == Output("done")
    <3>1. queue' = Append(queue, o) /\ o.type = "done"
      BY <1>1, <2>1 DEF Output
    <3> HIDE DEF o
    <3>2. queue' # <<>> /\ queue'[Len(queue')] = o
      BY <1>2, <3>1 DEF o
    <3>3. Sealed("done")'
      BY <3>1, <3>2 DEF Sealed
    <3>. QED
      BY <1>1, <2>1, <3>3 DEF MarkLast
  <2>2. CASE mode # "passthrough"
    BY <1>1, <2>2 DEF StreamInv, MarkLast, Sealed
  <2>. QED
    BY <2>1, <2>2
<1>8. EndMarked'
  BY <1>1 DEF EndMarked
<1>. QED
  BY <1>4, <1>5, <1>6, <1>7, <1>8 DEF StreamInv

LEMMA StreamCollapses == StreamInv /\ Collapse => StreamInv'
<1> SUFFICES ASSUME StreamInv, Collapse PROVE StreamInv'
  OBVIOUS
<1>1. /\ phase = "streaming" /\ upstream = "broken" /\ ahead = <<>> /\ errored' = TRUE
      /\ queue' = <<>>
      /\ UNCHANGED <<phase, mode, upstream, ahead, translation, flushed, view>>
  BY DEF Collapse
<1>2. Shapes' /\ Untouched'
  BY <1>1 DEF StreamInv, Shapes, Untouched
<1>3. AtTheEnd' /\ MarkLast' /\ EndMarked'
  BY <1>1 DEF StreamInv, AtTheEnd, MarkLast, EndMarked
<1>4. InStep'
  BY <1>1 DEF StreamInv, InStep, PlaceOfView
<1>. QED
  BY <1>2, <1>3, <1>4 DEF StreamInv

\* The event the client reads is legal, and the ones behind it lead on from there.
LEMMA Reading ==
    ASSUME StreamInv, Read, mode = "translate"
    PROVE  /\ Head(queue) \in Event /\ Tail(queue) \in Seq(Event)
           /\ \E b \in Place : /\ Legal(PlaceOfView, Head(queue), b)
                              /\ Leads(b, Tail(queue), PlaceOf(translation))
<1>1. phase = "streaming" /\ queue # <<>>
  BY DEF Read
<1>2. queue \in Seq(Event) /\ ~errored
  BY <1>1 DEF StreamInv, InStep, AtTheEnd
<1>3. Leads(PlaceOfView, queue, PlaceOf(translation))
  BY <1>1, <1>2 DEF StreamInv, InStep
<1>4. Head(queue) \in Event /\ Tail(queue) \in Seq(Event)
  BY <1>1, <1>2
<1>. QED
  BY <1>1, <1>2, <1>3, <1>4, LeadsFirst

LEMMA StreamReads == StreamInv /\ Read => StreamInv'
<1> SUFFICES ASSUME StreamInv, Read PROVE StreamInv'
  OBVIOUS
<1> DEFINE e == Head(queue)
<1>1. /\ phase = "streaming" /\ queue # <<>>
      /\ view' = See(e) /\ queue' = Tail(queue)
      /\ UNCHANGED <<phase, mode, upstream, ahead, translation, flushed, errored>>
  BY DEF Read
<1>2. /\ view \in View /\ queue \in Seq(Item) /\ e \in Item /\ queue' \in Seq(Item)
  BY <1>1 DEF StreamInv, Shapes
<1>3. PICK n \in Nat : /\ Len(queue) = n + 1 /\ Len(queue') = n /\ e = queue[1]
                       /\ \A k \in 1..n : queue'[k] = queue[k + 1]
                       /\ queue' = <<>> <=> n = 0
  <2>1. /\ Len(queue) \in Nat \ {0} /\ Len(queue') = Len(queue) - 1 /\ e = queue[1]
        /\ \A k \in 1..(Len(queue) - 1) : queue'[k] = queue[k + 1]
        /\ queue' = <<>> <=> Len(queue') = 0
    <3>1. ASSUME NEW T, NEW q \in Seq(T), q # <<>>
          PROVE  /\ Len(q) \in Nat \ {0} /\ Len(Tail(q)) = Len(q) - 1 /\ Head(q) = q[1]
                 /\ \A k \in 1..(Len(q) - 1) : Tail(q)[k] = q[k + 1]
                 /\ Tail(q) = <<>> <=> Len(Tail(q)) = 0
      <4> DEFINE n == Len(q)
                 r == Tail(q)
      <4>1. /\ n \in Nat \ {0} /\ Len(r) = n - 1 /\ Head(q) = q[1]
            /\ \A k \in 1..(n - 1) : r[k] = q[k + 1]
        BY <3>1
      <4>2. r \in Seq(T)
        BY <3>1
      <4>3. r = <<>> <=> Len(r) = 0
        <5> HIDE DEF r
        <5>. QED
          BY <4>2
      <4>. QED
        BY <4>1, <4>3
    <3>. QED
      BY <1>1, <1>2, <3>1
  <2> DEFINE n == Len(queue) - 1
  <2>2. n \in Nat /\ Len(queue) = n + 1
    BY <2>1
  <2>. QED
    BY <2>1, <2>2
<1> HIDE DEF e
<1>4. view' \in View /\ view'.mark = e.type
  BY <1>1, <1>2, SeeFields
<1>5. Shapes' /\ Untouched'
  BY <1>1, <1>2, <1>4 DEF StreamInv, Shapes, Untouched
<1>6. AtTheEnd' /\ EndMarked'
  BY <1>1 DEF StreamInv, AtTheEnd, EndMarked
<1>7. MarkLast'
  <2>1. ASSUME NEW mark, Sealed(mark)
        PROVE  Sealed(mark)'
    <3>1. queue[n + 1].type = mark
      BY <1>1, <1>3, <2>1 DEF Sealed
    <3>2. CASE n = 0
      BY <1>3, <1>4, <3>1, <3>2 DEF Sealed
    <3>3. CASE n # 0
      <4>1. n \in 1..n
        BY <3>3
      <4>. QED
        BY <1>3, <3>1, <3>3, <4>1 DEF Sealed
    <3>. QED
      BY <3>2, <3>3
  <2>. QED
    BY <1>1, <2>1 DEF StreamInv, MarkLast
<1>8. InStep'
  <2>1. CASE mode # "translate"
    BY <1>1, <2>1 DEF InStep
  <2>2. CASE mode = "translate"
    <3>1. PICK b \in Place : /\ Legal(PlaceOfView, e, b) /\ e \in Event
                             /\ Leads(b, queue', PlaceOf(translation))
                             /\ queue' \in Seq(Event)
      BY <1>1, <2>2, Reading DEF e
    <3>2. At(See(e).stage, See(e).blocks, See(e).next, translation.beyond) = b
      BY <1>2, <2>2, <3>1, Seen
    <3>3. PlaceOfView' = b
      BY <1>1, <3>2 DEF PlaceOfView
    <3>4. translation \in State /\ Numbered(translation)
      BY <2>2 DEF StreamInv, InStep
    <3>. QED
      BY <1>1, <2>2, <3>1, <3>3, <3>4 DEF InStep
  <2>. QED
    BY <2>1, <2>2
<1>. QED
  BY <1>5, <1>6, <1>7, <1>8 DEF StreamInv

\* A stream that is over keeps its view, but for the mark of a stream that was cut.
LEMMA StreamCut == StreamInv /\ CloseCut => StreamInv'
<1> SUFFICES ASSUME StreamInv, CloseCut PROVE StreamInv'
  OBVIOUS
<1> DEFINE e == Output("done")
<1>1. /\ phase = "streaming" /\ phase' = "closed" /\ view' = See(e)
      /\ UNCHANGED <<mode, upstream, ahead, translation, flushed, errored, queue>>
  BY DEF CloseCut, pipe
<1>2. e \in Item /\ view \in View /\ e.type = "done"
  BY DEF StreamInv, Shapes, Output, Item, Kind
<1> HIDE DEF e
<1>3. view' \in View /\ view'.mark = "done"
  BY <1>1, <1>2, SeeFields
<1>4. Shapes' /\ Untouched'
  BY <1>1, <1>3 DEF StreamInv, Shapes, Untouched
<1>5. AtTheEnd' /\ MarkLast' /\ EndMarked'
  BY <1>1, <1>3 DEF StreamInv, AtTheEnd, MarkLast, EndMarked
<1>6. InStep'
  BY <1>1 DEF StreamInv, InStep
<1>. QED
  BY <1>4, <1>5, <1>6 DEF StreamInv

\* A stream that was read to its end has had its last event, or none was ever sent.
LEMMA StreamWhole == StreamInv /\ CloseWhole => StreamInv'
<1> SUFFICES ASSUME StreamInv, CloseWhole PROVE StreamInv'
  OBVIOUS
<1>1. /\ phase = "streaming" /\ phase' = "closed" /\ flushed /\ queue = <<>>
      /\ UNCHANGED <<mode, upstream, ahead, translation, flushed, errored, queue, view>>
  BY DEF CloseWhole, pipe
<1>2. Shapes' /\ Untouched'
  BY <1>1 DEF StreamInv, Shapes, Untouched
<1>3. AtTheEnd' /\ MarkLast'
  BY <1>1 DEF StreamInv, AtTheEnd, MarkLast
<1>4. InStep'
  BY <1>1 DEF StreamInv, InStep
<1>5. EndMarked'
  <2>1. mode \in {"translate", "passthrough", "unmarked"} /\ ~errored
    BY <1>1 DEF StreamInv, Shapes, Untouched, AtTheEnd
  <2>2. CASE mode = "passthrough"
    BY <1>1, <2>2 DEF StreamInv, MarkLast, Sealed, EndMarked
  <2>3. CASE mode = "translate" /\ translation.concluded
    BY <1>1, <2>1, <2>3 DEF StreamInv, MarkLast, Sealed, EndMarked
  <2>4. CASE mode = "unmarked" \/ (mode = "translate" /\ ~translation.concluded)
    BY <1>1, <2>4 DEF EndMarked
  <2>. QED
    BY <2>1, <2>2, <2>3, <2>4
<1>. QED
  BY <1>2, <1>3, <1>4, <1>5 DEF StreamInv

LEMMA StreamStep == StreamInv /\ [Next]_vars => StreamInv'
<1> SUFFICES ASSUME StreamInv, [Next]_vars PROVE StreamInv'
  OBVIOUS
<1>1. CASE Execute
  <2>1. /\ UNCHANGED <<mode, translation, queue, flushed, errored, view, ahead>>
        /\ upstream' = upstream
    BY <1>1 DEF Execute, pipe
  <2>2. phase = "idle" /\ phase' = "executing"
    BY <1>1 DEF Execute
  <2>. QED
    BY <2>1, <2>2, Aside
<1>2. CASE AnswerWhole
  <2>1. /\ UNCHANGED <<mode, translation, queue, flushed, errored, view, ahead>>
        /\ upstream' = upstream
    BY <1>2 DEF AnswerWhole, pipe
  <2>2. phase' = "left"
    BY <1>2 DEF AnswerWhole
  <2>. QED
    BY <2>1, <2>2, Aside
<1>3. CASE AnswerStream
  BY <1>3, StreamBegins
<1>4. CASE Arrive
  BY <1>4, StreamArrives
<1>5. CASE Eof
  <2>1. ~flushed /\ ~errored
    BY <1>5 DEF Eof, StreamInv, AtTheEnd
  <2>. QED
    BY <1>5, <2>1, Aside DEF Eof
<1>6. CASE Break
  <2>1. ~flushed /\ ~errored
    BY <1>6 DEF Break, StreamInv, AtTheEnd
  <2>. QED
    BY <1>6, <2>1, Aside DEF Break
<1>7. CASE Transform
  BY <1>7, StreamTransforms
<1>8. CASE Flush
  BY <1>8, StreamFlushes
<1>9. CASE Collapse
  BY <1>9, StreamCollapses
<1>10. CASE Stall
  <2>1. upstream = "open" => ~flushed /\ ~errored
    BY DEF StreamInv, AtTheEnd
  <2>2. /\ UNCHANGED <<mode, translation, queue, flushed, errored, view, ahead>>
        /\ phase' = phase
    BY <1>10 DEF Stall
  <2>3. upstream' = upstream \/ upstream = "open"
    BY <1>10 DEF Stall
  <2>. QED
    BY <2>1, <2>2, <2>3, Aside
<1>11. CASE Read
  BY <1>11, StreamReads
<1>12. CASE CloseCut
  BY <1>12, StreamCut
<1>13. CASE CloseWhole
  BY <1>13, StreamWhole
<1>14. CASE Leave
  <2>1. /\ UNCHANGED <<mode, translation, queue, flushed, errored, view, ahead>>
        /\ upstream' = upstream
    BY <1>14 DEF Leave, pipe
  <2>2. phase' = "left"
    BY <1>14 DEF Leave
  <2>. QED
    BY <2>1, <2>2, Aside
<1>15. ASSUME NEW c \in Conn, PendingTimeout(c) \/ OtherStarts(c) \/ OtherEnds(c)
       PROVE  StreamInv'
  <2>1. /\ UNCHANGED <<mode, translation, queue, flushed, errored, view, ahead>>
        /\ upstream' = upstream
    BY <1>15 DEF PendingTimeout, OtherStarts, OtherEnds, pipe
  <2>2. phase' = phase
    BY <1>15 DEF PendingTimeout, OtherStarts, OtherEnds
  <2>. QED
    BY <2>1, <2>2, Aside
<1>16. CASE UNCHANGED vars
  <2>1. /\ UNCHANGED <<mode, translation, queue, flushed, errored, view, ahead>>
        /\ upstream' = upstream
    BY <1>16 DEF vars, pipe
  <2>2. phase' = phase
    BY <1>16 DEF vars
  <2>. QED
    BY <2>1, <2>2, Aside
<1>. QED
  BY <1>1, <1>2, <1>3, <1>4, <1>5, <1>6, <1>7, <1>8, <1>9, <1>10, <1>11, <1>12, <1>13,
     <1>14, <1>15, <1>16 DEF Next, Respond, Consume

THEOREM StreamInvariance == Spec => []StreamInv
  BY InitStream, StreamStep, PTL DEF Spec

\* A client that stays to the end of a stream gets a mark of the end last, also when
\* the stream is cut; without one end the whole streams of the Gemini family that are
\* passed through, and the translated answers whose finish reason did not come, or was
\* followed by more (stream.js, streamHandler.js).
THEOREM Marked == Spec => []EndMarked
<1>1. StreamInv => EndMarked
  BY DEF StreamInv
<1>. QED
  BY <1>1, StreamInvariance, PTL

-----------------------------------------------------------------------------
\* The refinement.

clientVars == <<IF phase \in {"closed", "left"} THEN "ended" ELSE view.stage,
                view.blocks, view.next, translation.beyond, view.last, view.beat>>

LEMMA ClientInit == Init => Client!Init
  BY FreshPlace DEF Init, NothingYet, Client!Init, Client!NoEvent

\* The end of a stream, which may come with a mark that is no event.
LEMMA ClientEnds ==
    ASSUME StreamInv, phase \notin {"closed", "left"}, phase' \in {"closed", "left"},
           view'.blocks = view.blocks, view'.next = view.next, UNCHANGED translation,
           \/ view'.last = view.last /\ view'.beat = view.beat
           \/ view'.last = Output("done") /\ view'.beat = ~view.beat
    PROVE  Client!End
<1>1. view.stage # "ended"
  BY DEF StreamInv, Shapes, View, Stage
<1>. QED
  BY <1>1 DEF Client!End, Client!Receive, Client!Event, Output

\* A legal event is a step of the client.
LEMMA ClientReceives ==
    ASSUME view \in View, view' \in View, phase \notin {"closed", "left"}, phase' = phase,
           UNCHANGED translation,
           NEW e \in Event, Legal(PlaceOfView, e, PlaceOfView'),
           view'.last = e, view'.beat = ~view.beat
    PROVE  Client!Next
<1> DEFINE a == PlaceOfView
           b == PlaceOfView'
           y == translation.beyond
<1>1. /\ a.stage = view.stage /\ a.blocks = view.blocks /\ a.next = view.next
      /\ b.stage = view'.stage /\ b.blocks = view'.blocks /\ b.next = view'.next
      /\ a.beyond = y /\ y' = y
  BY DEF PlaceOfView, At
<1>2. Legal(a, e, b)
  OBVIOUS
<1> DEFINE on == Client!Going
<1>3. a.stage = Ground(a.beyond) => on
  BY <1>1 DEF Ground, Client!Going
<1>4. Reach(a) = Client!Reachable
  BY <1>1 DEF Reach, Client!Reachable
<1> HIDE DEF a, b, on
<1>5. CASE /\ a.stage = "before" /\ e = [type |-> "message_start", index |-> 0]
           /\ b = At("open", a.blocks, a.next, a.beyond)
  <2>1. Client!MessageStart
    BY <1>1, <1>5 DEF At, Client!MessageStart, Client!Receive, Client!Event
  <2>. QED
    BY <2>1 DEF Client!Next
<1>6. CASE /\ a.stage = Ground(a.beyond)
           /\ e = [type |-> "content_block_start", index |-> a.next]
           /\ b = At(a.stage, a.blocks \cup {a.next}, a.next + 1, a.beyond)
  <2>1. Client!ContentBlockStart
    BY <1>1, <1>3, <1>6 DEF on, At, Client!ContentBlockStart, Client!Receive, Client!Event
  <2>. QED
    BY <2>1 DEF Client!Next
<1>7. CASE \E i \in Reach(a) :
              /\ a.stage = Ground(a.beyond)
              /\ e = [type |-> "content_block_delta", index |-> i]
              /\ b = a
  <2>1. Client!ContentBlockDelta
    BY <1>1, <1>3, <1>4, <1>7 DEF on, Client!ContentBlockDelta, Client!Receive, Client!Event
  <2>. QED
    BY <2>1 DEF Client!Next
<1>8. CASE \E i \in Reach(a) :
              /\ a.stage = Ground(a.beyond)
              /\ e = [type |-> "content_block_stop", index |-> i]
              /\ b = At(a.stage, a.blocks \ {i}, a.next, a.beyond)
  <2>1. Client!ContentBlockStop
    BY <1>1, <1>3, <1>4, <1>8
       DEF on, At, Client!ContentBlockStop, Client!Receive, Client!Event
  <2>. QED
    BY <2>1 DEF Client!Next
<1>9. CASE /\ a.stage = Ground(a.beyond) /\ a.blocks = {}
           /\ e = [type |-> "message_delta", index |-> 0]
           /\ b = At("stopping", a.blocks, a.next, a.beyond)
  <2>1. Client!MessageDelta
    BY <1>1, <1>3, <1>9 DEF on, At, Client!MessageDelta, Client!Receive, Client!Event
  <2>. QED
    BY <2>1 DEF Client!Next
<1>10. CASE /\ a.stage = "stopping" /\ e = [type |-> "message_stop", index |-> 0]
            /\ b = At("stopped", a.blocks, a.next, a.beyond)
  <2>1. Client!MessageStop
    BY <1>1, <1>10 DEF At, Client!MessageStop, Client!Receive, Client!Event
  <2>. QED
    BY <2>1 DEF Client!Next
<1>. QED
  BY <1>2, <1>5, <1>6, <1>7, <1>8, <1>9, <1>10 DEF Legal

\* A chunk that comes after the finish reason takes the client beyond the end.
LEMMA ClientGoesOn == StreamInv /\ Transform => Client!GoOn \/ UNCHANGED clientVars
<1> SUFFICES ASSUME StreamInv, Transform PROVE Client!GoOn \/ UNCHANGED clientVars
  OBVIOUS
<1> DEFINE chunk == Head(ahead)
           next == Translated(translation, chunk)
           turn == Turn(translation, chunk)
<1>1. /\ phase = "streaming" /\ queue = <<>> /\ ahead # <<>>
      /\ UNCHANGED <<phase, view>>
  BY DEF Transform, Take
<1>2. CASE mode # "translate"
  BY <1>1, <1>2 DEF Transform, clientVars
<1>3. CASE mode = "translate"
  <2>1. translation' = [next EXCEPT !.out = <<>>]
    BY <1>3 DEF Transform
  <2>2. ~errored /\ chunk \in Chunk
    BY <1>1 DEF StreamInv, AtTheEnd, Shapes
  <2>3. translation \in State /\ Numbered(translation)
    BY <1>3 DEF StreamInv, InStep
  <2>4. next \in State /\ next.beyond = turn.beyond
    <3> HIDE DEF turn
    <3>1. Follows(PlaceOf(turn), next)
      BY <2>2, <2>3, TranslatedFollows DEF turn
    <3>. QED
      BY <3>1 DEF Follows, PlaceOf
  <2>5. turn.beyond = (translation.beyond \/ (translation.finished /\ ~Empty(chunk)))
    BY <2>3 DEF Turn, State
  <2> HIDE DEF chunk, next, turn
  <2>6. translation'.beyond = turn.beyond
    BY <2>1, <2>4 DEF State
  <2>7. CASE turn.beyond = translation.beyond
    BY <1>1, <2>6, <2>7 DEF clientVars
  <2>8. CASE turn.beyond # translation.beyond
    <3>1. translation.beyond = FALSE /\ turn.beyond = TRUE /\ translation.finished
      BY <2>3, <2>5, <2>8 DEF State
    <3>2. PlaceOf(translation).stage = "stopped"
      BY <2>3, <3>1 DEF PlaceOf, Numbered
    <3>3. view.stage = "stopped"
      BY <1>1, <1>3, <2>2, <3>2, AllRead DEF PlaceOfView, At
    <3>. QED
      BY <1>1, <2>6, <3>1, <3>3 DEF Client!GoOn
  <2>. QED
    BY <2>7, <2>8
<1>. QED
  BY <1>2, <1>3

LEMMA ClientStep == StreamInv /\ [Next]_vars => [Client!Next]_clientVars
<1> SUFFICES ASSUME StreamInv, [Next]_vars PROVE [Client!Next]_clientVars
  OBVIOUS
<1>1. view \in View
  BY DEF StreamInv, Shapes
<1>2. ASSUME UNCHANGED <<view, translation>>,
             phase' = phase \/ (phase \notin {"closed", "left"} /\ phase' \notin {"closed", "left"})
      PROVE  UNCHANGED clientVars
  BY <1>2 DEF clientVars
<1>3. ASSUME UNCHANGED <<view, translation>>, phase \notin {"closed", "left"}, phase' \in {"closed", "left"}
      PROVE  Client!Next
  BY <1>3, ClientEnds DEF Client!Next
<1>4. CASE Execute \/ AnswerStream
  BY <1>2, <1>4 DEF Execute, AnswerStream, pipe
<1>5. CASE AnswerWhole
  BY <1>3, <1>5 DEF AnswerWhole, pipe
<1>6. CASE Arrive \/ Eof \/ Break \/ Flush \/ Collapse \/ Stall
  BY <1>2, <1>6 DEF Arrive, Eof, Break, Flush, Collapse, Stall
<1>7. CASE CloseWhole \/ Leave
  BY <1>3, <1>7 DEF CloseWhole, Leave, pipe
<1>8. ASSUME NEW c \in Conn, PendingTimeout(c) \/ OtherStarts(c) \/ OtherEnds(c)
      PROVE  UNCHANGED clientVars
  BY <1>2, <1>8 DEF PendingTimeout, OtherStarts, OtherEnds, pipe
<1>9. CASE UNCHANGED vars
  BY <1>2, <1>9 DEF vars, pipe
<1>10. CASE CloseCut
  <2> DEFINE e == Output("done")
  <2>1. /\ phase = "streaming" /\ phase' = "closed" /\ view' = See(e)
        /\ UNCHANGED translation
    BY <1>10 DEF CloseCut, pipe
  <2>2. e \in Item /\ e.type = "done"
    BY DEF Output, Item, Kind
  <2> HIDE DEF e
  <2>3. /\ view'.blocks = view.blocks /\ view'.next = view.next
        /\ \/ view'.last = view.last /\ view'.beat = view.beat
           \/ view'.last = e /\ view'.beat = ~view.beat
    BY <1>1, <2>1, <2>2, SeeFields
  <2>. QED
    BY <2>1, <2>3, ClientEnds DEF Client!Next, e
<1>11. CASE Read
  <2> DEFINE e == Head(queue)
  <2>1. /\ phase = "streaming" /\ phase' = phase /\ queue # <<>> /\ view' = See(e)
        /\ UNCHANGED translation
    BY <1>11 DEF Read
  <2>2. CASE mode # "translate"
    <3>1. e \in Item
      BY <2>1 DEF StreamInv, Shapes
    <3> HIDE DEF e
    <3>2. /\ view'.stage = view.stage /\ view'.blocks = view.blocks
          /\ view'.next = view.next /\ view'.last = view.last /\ view'.beat = view.beat
      BY <1>1, <2>1, <2>2, <3>1, SeeFields
    <3>. QED
      BY <2>1, <3>2 DEF clientVars
  <2>3. CASE mode = "translate"
    <3>1. PICK b \in Place : Legal(PlaceOfView, e, b) /\ e \in Event
      BY <1>11, <2>3, Reading
    <3> HIDE DEF e
    <3>2. /\ At(See(e).stage, See(e).blocks, See(e).next, translation.beyond) = b
          /\ See(e) \in View /\ See(e).last = e /\ See(e).beat = ~view.beat
      BY <1>1, <2>3, <3>1, Seen
    <3>3. /\ PlaceOfView' = b /\ view' \in View
          /\ view'.last = e /\ view'.beat = ~view.beat
      BY <2>1, <3>2 DEF PlaceOfView
    <3>. QED
      BY <1>1, <2>1, <3>1, <3>3, ClientReceives
  <2>. QED
    BY <2>2, <2>3
<1>12. CASE Transform
  BY <1>12, ClientGoesOn DEF Client!Next
<1>. QED
  BY <1>4, <1>5, <1>6, <1>7, <1>8, <1>9, <1>10, <1>11, <1>12 DEF Next, Respond, Consume

\* Whatever the upstream sends, and wherever the stream is cut, the client receives
\* the events of the Claude API in order up to the end of the message, and after it
\* only what ClaudeStream says (openai-to-claude.js): the relay implements it.
THEOREM ProtocolKept == Spec => StreamKeepsProtocol
<1>1. Spec => Client!Init /\ [][Client!Next]_clientVars
  BY ClientInit, ClientStep, StreamInvariance, PTL DEF Spec
<1>. QED
  BY <1>1 DEF StreamKeepsProtocol, Client!Spec, clientVars
=============================================================================
