----------------------- MODULE AccountSelectionProofs -----------------------
(***************************************************************************)
(* The mutex of the account selection and what it buys, for any accounts,  *)
(* requests, strategies and limits.                                        *)
(***************************************************************************)
EXTENDS AccountSelection, WellFoundedInduction, TLAPS

\* A set of naturals that is not empty has a least element.
LEMMA Least ==
  ASSUME NEW A \in SUBSET Nat, A # {}
  PROVE  \E x \in A : \A y \in A : x <= y
  <1> DEFINE R == {p \in Nat \X Nat : p[1] < p[2]}
  <1>1. IsWellFoundedOn(R, Nat)
    BY NatLessThanWellFounded, Zenon DEF OpToRel
  <1>2. \A x, y \in Nat : <<y, x>> \in R <=> y < x
    OBVIOUS
  <1> HIDE DEF R
  <1>3. PICK x \in A : \A y \in A : ~ (<<y, x>> \in R)
    BY <1>1, WFMin
  <1>4. ASSUME NEW y \in A PROVE x <= y
    <2>1. x \in Nat /\ y \in Nat
      OBVIOUS
    <2>2. ~ (y < x)
      BY <1>2, <1>3, <2>1
    <2> QED BY <2>1, <2>2
  <1> QED BY <1>4

LEMMA FirstIn ==
  ASSUME NEW A \in SUBSET Nat, A # {}
  PROVE  First(A) \in A
  BY Least DEF First

\* Both sorts of the round-robin have a first element among the available.
LEMMA RoundRobinTyped ==
  ASSUME NEW A \in SUBSET Conn, A # {}, NEW bound \in Nat,
         NEW u \in [Conn -> Use], \A c \in Conn : u[c].last <= bound
  PROVE  /\ RoundRobin(u, A).conn \in A
         /\ RoundRobin(u, A).count \in Nat
  <1>1. A \subseteq Nat /\ \A c \in A : u[c].last \in 0..bound /\ u[c].count \in Nat
    BY RuleAssumption DEF RuleAssumption, Use
  <1>2. LeastRecent(u, A) \in A
    <2> DEFINE L == {u[c].last : c \in A}
    <2>1. L \in SUBSET Nat /\ L # {}
      <3>1. \A c \in A : u[c].last \in Nat
        BY <1>1
      <3> QED BY <3>1
    <2> HIDE DEF L
    <2>2. PICK x \in L : \A y \in L : x <= y
      BY <2>1, Least
    <2> USE DEF L
    <2>3. {c \in A : \A d \in A : u[c].last <= u[d].last} # {}
      BY <2>2
    <2> QED BY <1>1, <2>3, FirstIn DEF LeastRecent
  <1>3. MostRecent(u, A) \in A
    <2> DEFINE L == {bound - u[c].last : c \in A}
    <2>1. L \in SUBSET Nat /\ L # {}
      <3>1. \A c \in A : bound - u[c].last \in Nat
        BY <1>1
      <3> QED BY <3>1
    <2> HIDE DEF L
    <2>2. PICK x \in L : \A y \in L : x <= y
      BY <2>1, Least
    <2> USE DEF L
    <2>3. PICK c \in A : \A d \in A : bound - u[c].last <= bound - u[d].last
      BY <2>2
    <2>4. \A d \in A : u[d].last <= u[c].last
      BY <1>1, <2>3
    <2>5. {e \in A : \A d \in A : u[d].last <= u[e].last} # {}
      BY <2>4
    <2> QED BY <1>1, <2>5, FirstIn DEF MostRecent
  <1>4. CASE Stays(u, A)
    <2>1. u[MostRecent(u, A)].count + 1 \in Nat
      <3>1. \A c \in A : u[c].count + 1 \in Nat
        BY <1>1
      <3> QED BY <1>3, <3>1, Zenon
    <2> QED BY <1>3, <1>4, <2>1 DEF RoundRobin
  <1>5. CASE ~Stays(u, A)
    BY <1>2, <1>5 DEF RoundRobin
  <1> QED BY <1>4, <1>5

-----------------------------------------------------------------------------
\* The parts of the type invariant that the clock bounds.
Clocked ==
    /\ now \in 1..MaxTime
    /\ \A c \in Conn : usage[c].last <= now

\* The promises: a request holds one of its own that nobody else holds and that
\* is not resolved before it leaves, awaits the one before it, and the resolved
\* ones are the oldest.
Chain ==
    /\ \A r \in Req : Active(r) => /\ own[r] \notin resolved
                                   /\ own[r] = awaited[r] + 1
    /\ \A r, s \in Req : Active(r) /\ Active(s) /\ own[r] = own[s] => r = s
    /\ \A r \in Req : Critical(r) => awaited[r] \in resolved
    /\ \A t \in resolved, i \in Nat : i <= t => i \in resolved

\* What a request read is still what the table holds when it uses it.
Current ==
    \A r \in Req :
        /\ pc[r] \in {"choosing", "writing"}
              => available[r] # {} /\ snapshot[r] = usage
        /\ pc[r] = "writing"
              => /\ pick[r] = RoundRobin(snapshot[r], available[r])
                 /\ \A c \in Conn : usage[c].last <= stamp[r]
                 /\ stamp[r] # 0

SelectionInv == TypeOK /\ Clocked /\ Chain /\ Current

LEMMA InitInv == Init => SelectionInv
  <1> SUFFICES ASSUME Init PROVE SelectionInv
    OBVIOUS
  <1>1. TypeOK
    BY DEF Init, TypeOK, Unused, Use, Step
  <1>2. Clocked
    BY SelectionAssumption DEF SelectionAssumption, Init, Clocked, Unused
  <1>3. Chain
    BY DEF Init, Chain, Active, Critical
  <1>4. Current
    BY DEF Init, Current
  <1> QED BY <1>1, <1>2, <1>3, <1>4 DEF SelectionInv

\* What leaving the function does to the variables it changes.
LEMMA LeaveTyped ==
  ASSUME TypeOK, NEW r \in Req, NEW step \in Step, Leave(r, step)
  PROVE  pc' \in [Req -> Step] /\ resolved' \subseteq 0..selectionMutex
  BY DEF TypeOK, Leave, Goto

LEMMA StepTyped == TypeOK /\ Clocked /\ Current /\ [Next]_vars => TypeOK' /\ Clocked'
  <1> SUFFICES ASSUME TypeOK, Clocked, Current, [Next]_vars PROVE TypeOK' /\ Clocked'
    OBVIOUS
  <1>1. ASSUME NEW r \in Req, Enter(r) PROVE TypeOK' /\ Clocked'
    <2>1. 0..selectionMutex \subseteq 0..selectionMutex' /\ selectionMutex' \in Nat
      BY <1>1 DEF Enter, TypeOK
    <2>2. own' \in [Req -> 0..selectionMutex'] /\ awaited' \in [Req -> 0..selectionMutex']
      BY <1>1, <2>1 DEF Enter, TypeOK
    <2>3. pc' \in [Req -> Step]
      BY <1>1 DEF Enter, Goto, Step, TypeOK
    <2>4. UNCHANGED <<now, usage, resolved, available, snapshot, pick, stamp, latest>>
      BY <1>1 DEF Enter, local
    <2> QED BY <2>1, <2>2, <2>3, <2>4 DEF TypeOK, Clocked
  <1>2. ASSUME NEW r \in Req, Acquire(r) PROVE TypeOK' /\ Clocked'
    <2>1. pc' \in [Req -> Step]
      BY <1>2 DEF Acquire, Goto, Step, TypeOK
    <2> QED BY <1>2, <2>1 DEF Acquire, local, chain, TypeOK, Clocked
  <1>3. ASSUME NEW r \in Req, NEW A \in SUBSET Conn, Read(r, A) PROVE TypeOK' /\ Clocked'
    <2>1. /\ snapshot' \in [Req -> [Conn -> Use]]
          /\ available' \in [Req -> SUBSET Conn]
      BY <1>3 DEF Read, TypeOK
    <2>2. CASE A = {}
      <3>1. Leave(r, "refused")
        BY <1>3, <2>2 DEF Read
      <3>2. pc' \in [Req -> Step] /\ resolved' \subseteq 0..selectionMutex
        BY <3>1, LeaveTyped DEF Step
      <3> QED BY <1>3, <2>1, <3>1, <3>2 DEF Read, Leave, TypeOK, Clocked
    <2>3. CASE A # {}
      <3>1. pc' \in [Req -> Step]
        BY <1>3, <2>3 DEF Read, Goto, Step, TypeOK
      <3> QED BY <1>3, <2>1, <2>3, <3>1 DEF Read, chain, TypeOK, Clocked
    <2> QED BY <2>2, <2>3
  <1>4. ASSUME NEW r \in Req, NEW c \in Conn, Settle(r, c) PROVE TypeOK' /\ Clocked'
    <2>1. pc' \in [Req -> Step]
      BY <1>4 DEF Settle, Goto, Step, TypeOK
    <2>2. pick' \in [Req -> [conn : Conn \cup {NoConn}, count : Nat]]
      BY <1>4 DEF Settle, TypeOK
    <2> QED BY <1>4, <2>1, <2>2 DEF Settle, chain, TypeOK, Clocked
  <1>5. ASSUME NEW r \in Req, Rotate(r) PROVE TypeOK' /\ Clocked'
    <2>1. pc' \in [Req -> Step]
      BY <1>5 DEF Rotate, Goto, Step, TypeOK
    <2>2. /\ available[r] \in SUBSET Conn /\ available[r] # {}
          /\ snapshot[r] \in [Conn -> Use]
          /\ \A c \in Conn : snapshot[r][c].last <= now
      BY <1>5 DEF Rotate, TypeOK, Clocked, Current
    <2>3. RoundRobin(snapshot[r], available[r])
            \in [conn : Conn \cup {NoConn}, count : Nat]
      <3>1. /\ RoundRobin(snapshot[r], available[r]).conn \in Conn
            /\ RoundRobin(snapshot[r], available[r]).count \in Nat
        BY <2>2, RoundRobinTyped DEF TypeOK
      <3>2. \E x, n : RoundRobin(snapshot[r], available[r]) = [conn |-> x, count |-> n]
        BY DEF RoundRobin
      <3> QED BY <3>1, <3>2
    <2>4. pick' \in [Req -> [conn : Conn \cup {NoConn}, count : Nat]]
      BY <1>5, <2>3 DEF Rotate, TypeOK
    <2>5. stamp' \in [Req -> 0..now]
      BY <1>5 DEF Rotate, TypeOK
    <2> QED BY <1>5, <2>1, <2>4, <2>5 DEF Rotate, chain, TypeOK, Clocked
  <1>6. ASSUME NEW r \in Req, Write(r) PROVE TypeOK' /\ Clocked'
    <2>1. pc' \in [Req -> Step]
      BY <1>6 DEF Write, Goto, Step, TypeOK
    <2>2. /\ pick[r].conn \in Conn \cup {NoConn} /\ pick[r].count \in Nat
          /\ stamp[r] \in 0..now
      BY DEF TypeOK
    <2>3. [last |-> stamp[r], count |-> pick[r].count] \in Use
      BY <2>2 DEF TypeOK, Use
    <2>4. usage' \in [Conn -> Use] /\ \A c \in Conn : usage'[c].last <= now
      <3> DEFINE v == [last |-> stamp[r], count |-> pick[r].count]
      <3>1. usage' = [usage EXCEPT ![pick[r].conn] = v]
        BY <1>6 DEF Write
      <3>2. v \in Use /\ v.last <= now
        BY <2>2, <2>3
      <3> HIDE DEF v
      <3> QED BY <3>1, <3>2 DEF TypeOK, Clocked
    <2>5. latest' \in Conn \cup {NoConn}
      BY <1>6, <2>2 DEF Write
    <2>6. UNCHANGED <<now, chain, local>>
      BY <1>6 DEF Write
    <2> QED BY <2>1, <2>4, <2>5, <2>6 DEF chain, local, TypeOK, Clocked
  <1>7. ASSUME NEW r \in Req, Return(r) \/ Throw(r) PROVE TypeOK' /\ Clocked'
    <2>1. PICK step \in Step : Leave(r, step)
      BY <1>7 DEF Return, Throw, Step
    <2>2. pc' \in [Req -> Step] /\ resolved' \subseteq 0..selectionMutex
      BY <2>1, LeaveTyped
    <2> QED BY <1>7, <2>1, <2>2 DEF Return, Throw, Leave, local, TypeOK, Clocked
  <1>8. CASE Tick
    <2>1. now' \in Nat \ {0} /\ now' \in 1..MaxTime /\ 0..now \subseteq 0..now'
      BY <1>8, SelectionAssumption DEF SelectionAssumption, Tick, TypeOK
    <2>2. stamp' \in [Req -> 0..now']
      BY <1>8, <2>1 DEF Tick, local, TypeOK
    <2>3. \A c \in Conn : usage'[c].last <= now'
      BY <1>8, <2>1 DEF Tick, TypeOK, Use, Clocked
    <2>4. UNCHANGED <<usage, chain, pc, available, snapshot, pick, latest>>
      BY <1>8 DEF Tick, local
    <2> QED BY <2>1, <2>2, <2>3, <2>4 DEF chain, TypeOK, Clocked
  <1>9. CASE UNCHANGED vars
    BY <1>9 DEF vars, chain, local, TypeOK, Clocked
  <1>10. \A r \in Req : Pin(r) \/ FillFirst(r) => \E c \in Conn : Settle(r, c)
    <2> SUFFICES ASSUME NEW r \in Req, Pin(r) \/ FillFirst(r)
                 PROVE  \E c \in Conn : Settle(r, c)
      OBVIOUS
    <2>1. available[r] \in SUBSET Conn /\ (pc[r] = "choosing" => available[r] # {})
      BY DEF TypeOK, Current
    <2>2. FillFirst(r) => First(available[r]) \in Conn
      BY <2>1, FirstIn, RuleAssumption DEF RuleAssumption, FillFirst, Settle
    <2> QED BY <2>1, <2>2 DEF Pin, FillFirst
  <1> QED BY <1>1, <1>2, <1>3, <1>4, <1>5, <1>6, <1>7, <1>8, <1>9, <1>10
          DEF Next, Select

\* The chain only depends on the promises and on who is inside.
LEMMA ChainKept ==
  ASSUME Chain, UNCHANGED chain,
         \A r \in Req : Active(r)' = Active(r) /\ (Critical(r)' => Critical(r))
  PROVE  Chain'
  BY DEF Chain, chain

LEMMA ChainAfterLeave ==
  ASSUME TypeOK, Chain, NEW r \in Req, Critical(r),
         NEW step \in {"selected", "refused"}, Leave(r, step)
  PROVE  Chain'
  <1>1. \A q \in Req : q # r => Active(q)' = Active(q) /\ Critical(q)' = Critical(q)
    BY DEF Leave, Goto, TypeOK, Active, Critical
  <1>2. ~Active(r)' /\ ~Critical(r)'
    BY DEF Leave, Goto, TypeOK, Active, Critical
  <1>3. resolved' = resolved \cup {own[r]} /\ own' = own /\ awaited' = awaited
    BY DEF Leave
  <1>4. Active(r) /\ own[r] = awaited[r] + 1 /\ awaited[r] \in resolved
    BY DEF Chain, Active
  <1>5. ASSUME NEW t \in resolved', NEW i \in Nat, i <= t PROVE i \in resolved'
    <2>1. CASE t \in resolved
      BY <1>3, <1>5, <2>1 DEF Chain
    <2>2. CASE t = own[r]
      <3>1. i = own[r] \/ i <= awaited[r]
        BY <1>4, <1>5, <2>2 DEF TypeOK
      <3> QED BY <1>3, <1>4, <3>1 DEF Chain
    <2> QED BY <1>3, <2>1, <2>2
  <1>6. \A q \in Req : Active(q)' => own'[q] \notin resolved' /\ own'[q] = awaited'[q] + 1
    BY <1>1, <1>2, <1>3, <1>4 DEF Chain
  <1>7. \A q, s \in Req : Active(q)' /\ Active(s)' /\ own'[q] = own'[s] => q = s
    BY <1>1, <1>2, <1>3 DEF Chain
  <1>8. \A q \in Req : Critical(q)' => awaited'[q] \in resolved'
    BY <1>1, <1>2, <1>3 DEF Chain
  <1> QED BY <1>5, <1>6, <1>7, <1>8 DEF Chain

LEMMA StepChain == TypeOK /\ Chain /\ [Next]_vars => Chain'
  <1> SUFFICES ASSUME TypeOK, Chain, [Next]_vars PROVE Chain'
    OBVIOUS
  <1> USE DEF Active, Critical
  <1>1. ASSUME NEW r \in Req, Enter(r) PROVE Chain'
    <2>1. /\ own' = [own EXCEPT ![r] = selectionMutex + 1]
          /\ awaited' = [awaited EXCEPT ![r] = selectionMutex]
          /\ resolved' = resolved
          /\ pc' = [pc EXCEPT ![r] = "waiting"]
      BY <1>1 DEF Enter, Goto
    <2>2. \A q \in Req : q # r => /\ own'[q] = own[q] /\ awaited'[q] = awaited[q]
                                  /\ pc'[q] = pc[q]
      BY <2>1 DEF TypeOK
    <2>3. own'[r] = selectionMutex + 1 /\ awaited'[r] = selectionMutex /\ pc'[r] = "waiting"
      BY <2>1 DEF TypeOK
    <2>4. selectionMutex + 1 \notin resolved /\ \A q \in Req : own[q] # selectionMutex + 1
      BY DEF TypeOK
    <2>5. \A q \in Req : Active(q)' => own'[q] \notin resolved' /\ own'[q] = awaited'[q] + 1
      BY <2>1, <2>2, <2>3, <2>4 DEF Chain
    <2>6. \A q, s \in Req : Active(q)' /\ Active(s)' /\ own'[q] = own'[s] => q = s
      BY <2>2, <2>3, <2>4 DEF Chain
    <2>7. \A q \in Req : Critical(q)' => awaited'[q] \in resolved'
      BY <2>1, <2>2, <2>3 DEF Chain
    <2> QED BY <2>1, <2>5, <2>6, <2>7 DEF Chain
  <1>2. ASSUME NEW r \in Req, Acquire(r) PROVE Chain'
    <2>1. pc' = [pc EXCEPT ![r] = "reading"] /\ awaited[r] \in resolved /\ pc[r] = "waiting"
      BY <1>2 DEF Acquire, Goto
    <2>2. UNCHANGED chain
      BY <1>2 DEF Acquire
    <2>3. \A q \in Req : Active(q)' = Active(q) /\ (Critical(q)' => q = r \/ Critical(q))
      BY <2>1 DEF TypeOK
    <2> QED BY <2>1, <2>2, <2>3 DEF Chain, chain
  <1>3. ASSUME NEW r \in Req, NEW A \in SUBSET Conn, Read(r, A) PROVE Chain'
    <2>1. CASE A = {}
      <3>1. Leave(r, "refused") /\ pc[r] = "reading"
        BY <1>3, <2>1 DEF Read
      <3> QED BY <3>1, ChainAfterLeave
    <2>2. CASE A # {}
      <3>1. /\ pc' = [pc EXCEPT ![r] = "choosing"] /\ pc[r] = "reading"
            /\ UNCHANGED chain
        BY <1>3, <2>2 DEF Read, Goto
      <3>2. \A q \in Req : Active(q)' = Active(q) /\ (Critical(q)' => Critical(q))
        BY <3>1 DEF TypeOK
      <3> QED BY <3>1, <3>2, ChainKept
    <2> QED BY <2>1, <2>2
  <1>4. ASSUME NEW r \in Req,
               \/ \E c : Settle(r, c)
               \/ Rotate(r)
               \/ Write(r)
        PROVE  Chain'
    <2>1. PICK step \in {"writing", "returning"} : pc' = [pc EXCEPT ![r] = step]
      BY <1>4 DEF Settle, Rotate, Write, Goto
    <2>2. pc[r] \in {"choosing", "writing"} /\ UNCHANGED chain
      BY <1>4 DEF Settle, Rotate, Write
    <2>3. \A q \in Req : Active(q)' = Active(q) /\ (Critical(q)' => Critical(q))
      BY <2>1, <2>2 DEF TypeOK
    <2> QED BY <2>2, <2>3, ChainKept
  <1>5. ASSUME NEW r \in Req, Return(r) \/ Throw(r) PROVE Chain'
    <2>1. PICK step \in {"selected", "refused"} : Leave(r, step)
      BY <1>5 DEF Return, Throw
    <2>2. Critical(r)
      BY <1>5 DEF Return, Throw
    <2> QED BY <2>1, <2>2, ChainAfterLeave
  <1>6. CASE Tick \/ UNCHANGED vars
    <2>1. UNCHANGED <<chain, pc>>
      BY <1>6 DEF Tick, vars
    <2> QED BY <2>1, ChainKept
  <1> QED BY <1>1, <1>2, <1>3, <1>4, <1>5, <1>6 DEF Next, Select, Pin, FillFirst

\* Whoever is inside came first.
LEMMA ChainOrders ==
  ASSUME TypeOK, Chain
  PROVE  FirstComeFirstServed /\ MutualExclusion
  <1>1. ASSUME NEW r \in Req, NEW s \in Req, Critical(s), Active(r), r # s
        PROVE  own[s] < own[r]
    <2>1. /\ own[r] \in Nat /\ own[s] \in Nat /\ awaited[s] \in Nat
          /\ own[r] # own[s]
      BY <1>1 DEF TypeOK, Chain, Active
    <2>2. own[s] = awaited[s] + 1 /\ awaited[s] \in resolved /\ own[r] \notin resolved
      BY <1>1 DEF Chain, Active
    <2>3. ~ (own[r] <= awaited[s])
      BY <2>1, <2>2 DEF Chain
    <2> QED BY <2>1, <2>2, <2>3
  <1>2. FirstComeFirstServed
    BY <1>1 DEF FirstComeFirstServed
  <1>3. ASSUME NEW r \in Req, NEW s \in Req, Critical(r), Critical(s), r # s
        PROVE  FALSE
    <2>1. own[s] < own[r] /\ own[r] < own[s]
      BY <1>1, <1>3 DEF Active
    <2> QED BY <2>1 DEF TypeOK
  <1> QED BY <1>2, <1>3 DEF MutualExclusion

\* A step of r that leaves the table and what the others read alone.
LEMMA CurrentKept ==
  ASSUME TypeOK, Current, UNCHANGED usage, NEW r \in Req,
         \A q \in Req \ {r} : /\ pc'[q] = pc[q] /\ available'[q] = available[q]
                              /\ snapshot'[q] = snapshot[q] /\ pick'[q] = pick[q]
                              /\ stamp'[q] = stamp[q],
         pc'[r] \notin {"choosing", "writing"}
  PROVE  Current'
  BY DEF Current

LEMMA StepCurrent ==
  TypeOK /\ Clocked /\ Chain /\ Current /\ [Next]_vars => Current'
  <1> SUFFICES ASSUME TypeOK, Clocked, Chain, Current, [Next]_vars PROVE Current'
    OBVIOUS
  <1>1. ASSUME NEW r \in Req,
               \/ Enter(r) \/ Acquire(r) \/ Return(r) \/ Throw(r)
               \/ \E c : Settle(r, c)
        PROVE  Current'
    <2>1. PICK step \in Step \ {"choosing", "writing"} : pc' = [pc EXCEPT ![r] = step]
      BY <1>1 DEF Enter, Acquire, Return, Throw, Settle, Leave, Goto, Step
    <2>2. UNCHANGED <<usage, available, snapshot, stamp>>
      BY <1>1 DEF Enter, Acquire, Return, Throw, Settle, local
    <2>3. \A q \in Req \ {r} : pick'[q] = pick[q]
      BY <1>1 DEF Enter, Acquire, Return, Throw, Settle, local, TypeOK
    <2> QED BY <2>1, <2>2, <2>3, CurrentKept DEF TypeOK
  <1>2. ASSUME NEW r \in Req, NEW A \in SUBSET Conn, Read(r, A) PROVE Current'
    <2>1. /\ snapshot' = [snapshot EXCEPT ![r] = usage]
          /\ available' = [available EXCEPT ![r] = A]
          /\ UNCHANGED <<usage, pick, stamp>>
      BY <1>2 DEF Read
    <2>2. \/ A = {} /\ pc' = [pc EXCEPT ![r] = "refused"]
          \/ A # {} /\ pc' = [pc EXCEPT ![r] = "choosing"]
      BY <1>2 DEF Read, Leave, Goto
    <2> QED BY <2>1, <2>2 DEF Current, TypeOK
  <1>3. ASSUME NEW r \in Req, Rotate(r) PROVE Current'
    <2>1. /\ pc' = [pc EXCEPT ![r] = "writing"] /\ pc[r] = "choosing"
          /\ pick' = [pick EXCEPT ![r] = RoundRobin(snapshot[r], available[r])]
          /\ stamp' = [stamp EXCEPT ![r] = now]
          /\ UNCHANGED <<usage, available, snapshot>>
      BY <1>3 DEF Rotate, Goto
    <2>2. pick'[r] = RoundRobin(snapshot'[r], available'[r])
      BY <2>1 DEF TypeOK
    <2>3. stamp'[r] = now /\ now # 0 /\ \A c \in Conn : usage'[c].last <= stamp'[r]
      BY <2>1 DEF TypeOK, Clocked
    <2>4. available'[r] # {} /\ snapshot'[r] = usage'
      BY <2>1 DEF Current
    <2>5. \A q \in Req \ {r} : pc'[q] = pc[q] /\ pick'[q] = pick[q] /\ stamp'[q] = stamp[q]
      BY <2>1 DEF TypeOK
    <2>6. \A q \in Req \ {r} : pc'[q] = "writing"
             => pick'[q] = RoundRobin(snapshot'[q], available'[q])
      BY <2>1, <2>5 DEF Current
    <2> QED BY <2>1, <2>2, <2>3, <2>4, <2>5, <2>6 DEF Current
  <1>4. ASSUME NEW r \in Req, Write(r) PROVE Current'
    <2>1. pc' = [pc EXCEPT ![r] = "returning"] /\ Critical(r)
      BY <1>4 DEF Write, Goto, Critical
    <2>2. \A q \in Req : pc'[q] \notin {"choosing", "writing"}
      BY <2>1, ChainOrders DEF MutualExclusion, Critical, TypeOK
    <2> QED BY <2>2 DEF Current
  <1>5. CASE Tick \/ UNCHANGED vars
    BY <1>5 DEF Tick, vars, local, Current
  <1> QED BY <1>1, <1>2, <1>3, <1>4, <1>5 DEF Next, Select, Pin, FillFirst

-----------------------------------------------------------------------------
LEMMA StepInv == SelectionInv /\ [Next]_vars => SelectionInv'
  BY StepTyped, StepChain, StepCurrent DEF SelectionInv

LEMMA InvHolds == Spec => []SelectionInv
  BY InitInv, StepInv, PTL DEF Spec

\* Every variable of the selection keeps its type.
THEOREM TypeCorrect == Spec => []TypeOK
  <1>1. SelectionInv => TypeOK
    BY DEF SelectionInv
  <1> QED BY <1>1, InvHolds, PTL

\* The chain of promises is a mutex: no two requests are ever between the read
\* of the accounts and the record of a use.
THEOREM Exclusion == Spec => []MutualExclusion
  <1>1. SelectionInv => MutualExclusion
    BY ChainOrders DEF SelectionInv
  <1> QED BY <1>1, InvHolds, PTL

\* It is a fair one: whoever is inside called before everybody who waits.
THEOREM Order == Spec => []FirstComeFirstServed
  <1>1. SelectionInv => FirstComeFirstServed
    BY ChainOrders DEF SelectionInv
  <1> QED BY <1>1, InvHolds, PTL

-----------------------------------------------------------------------------
\* The rule means the same seen through the instance.
LEMMA SameRule == \A u, A : Atomic!RoundRobin(u, A) = RoundRobin(u, A)
  BY DEF Atomic!RoundRobin, Atomic!Stays, Atomic!MostRecent, Atomic!LeastRecent,
         Atomic!First, RoundRobin, Stays, MostRecent, LeastRecent, First

aVars == <<usage, status, account>>

LEMMA InitAtomic == Init => Atomic!Init
  BY DEF Init, Atomic!Init, Atomic!Unused, Unused, status, account

\* A step of r that changes neither what it was answered nor the table.
LEMMA Unseen ==
  ASSUME TypeOK, NEW r \in Req, NEW step \in Step, pc' = [pc EXCEPT ![r] = step],
         UNCHANGED usage, \A q \in Req \ {r} : pick'[q] = pick[q],
         \/ {pc[r], step} \subseteq {"waiting", "reading", "choosing", "writing"}
         \/ {pc[r], step} \subseteq {"returning", "selected"} /\ pick'[r] = pick[r]
  PROVE  UNCHANGED aVars
  <1>1. status' = status
    BY DEF status, TypeOK
  <1>2. account' = account
    BY DEF account, TypeOK
  <1> QED BY <1>1, <1>2 DEF aVars

\* A step of r that answers it.
LEMMA Answered ==
  ASSUME TypeOK, NEW r \in Req, NEW step \in {"returning", "refused"}, NEW c,
         pc' = [pc EXCEPT ![r] = step],
         \A q \in Req \ {r} : pick'[q] = pick[q],
         IF step = "returning" THEN pick'[r].conn = c ELSE c = NoConn
  PROVE  Atomic!Answer(r, c)
  <1>1. status' = [status EXCEPT ![r] = "answered"]
    BY DEF status, TypeOK
  <1>2. account' = [account EXCEPT ![r] = c]
    BY DEF account, TypeOK
  <1> QED BY <1>1, <1>2 DEF Atomic!Answer

LEMMA StepAtomic == SelectionInv /\ [Next]_vars => [Atomic!Next]_aVars
  <1> SUFFICES ASSUME SelectionInv, [Next]_vars PROVE [Atomic!Next]_aVars
    OBVIOUS
  <1> USE DEF SelectionInv
  <1>1. ASSUME NEW r \in Req, Enter(r) PROVE Atomic!Ask(r)
    <2>1. /\ pc' = [pc EXCEPT ![r] = "waiting"]
          /\ pc[r] \in {"idle", "selected", "refused"}
          /\ UNCHANGED <<usage, pick>>
      BY <1>1 DEF Enter, Goto, local
    <2>2. status' = [status EXCEPT ![r] = "waiting"] /\ status[r] # "waiting"
      BY <2>1 DEF status, TypeOK
    <2>3. account' = [account EXCEPT ![r] = NoConn]
      BY <2>1 DEF account, TypeOK
    <2> QED BY <2>1, <2>2, <2>3 DEF Atomic!Ask
  <1>2. ASSUME NEW r \in Req, Acquire(r) \/ Rotate(r) PROVE UNCHANGED aVars
    <2>1. /\ \E step \in {"reading", "writing"} : pc' = [pc EXCEPT ![r] = step]
          /\ pc[r] \in {"waiting", "choosing"}
          /\ UNCHANGED usage
      BY <1>2 DEF Acquire, Rotate, Goto
    <2>2. \A q \in Req \ {r} : pick'[q] = pick[q]
      BY <1>2 DEF Acquire, Rotate, local, TypeOK
    <2> QED BY <2>1, <2>2, Unseen DEF Step
  <1>3. ASSUME NEW r \in Req, NEW A \in SUBSET Conn, Read(r, A)
        PROVE  Atomic!Refuse(r) \/ UNCHANGED aVars
    <2>1. UNCHANGED <<usage, pick>> /\ pc[r] = "reading"
      BY <1>3 DEF Read
    <2>2. CASE A = {}
      <3>1. pc' = [pc EXCEPT ![r] = "refused"]
        BY <1>3, <2>2 DEF Read, Leave, Goto
      <3>2. Atomic!Answer(r, NoConn)
        BY <2>1, <3>1, Answered
      <3>3. status[r] # "idle"
        BY <2>1 DEF status
      <3> QED BY <2>1, <3>2, <3>3 DEF Atomic!Refuse
    <2>3. CASE A # {}
      <3>1. pc' = [pc EXCEPT ![r] = "choosing"]
        BY <1>3, <2>3 DEF Read, Goto
      <3> QED BY <2>1, <3>1, Unseen DEF Step
    <2> QED BY <2>2, <2>3
  <1>4. ASSUME NEW r \in Req, Pin(r) \/ FillFirst(r) PROVE Atomic!Take(r)
    <2>1. PICK c \in Conn : Settle(r, c)
      <3>1. available[r] \in SUBSET Conn /\ (pc[r] = "choosing" => available[r] # {})
        BY DEF TypeOK, Current
      <3>2. FillFirst(r) => First(available[r]) \in Conn
        BY <3>1, FirstIn, RuleAssumption DEF RuleAssumption, FillFirst, Settle
      <3> QED BY <1>4, <3>1, <3>2 DEF Pin, FillFirst
    <2>2. /\ pc[r] = "choosing" /\ UNCHANGED usage
          /\ pc' = [pc EXCEPT ![r] = "returning"]
          /\ pick' = [pick EXCEPT ![r] = [conn |-> c, count |-> 0]]
      BY <2>1 DEF Settle, Goto
    <2>3. pick'[r].conn = c /\ \A q \in Req \ {r} : pick'[q] = pick[q]
      BY <2>2 DEF TypeOK
    <2>4. Atomic!Answer(r, c)
      BY <2>2, <2>3, Answered
    <2>5. status[r] = "waiting"
      BY <2>2 DEF status
    <2> QED BY <2>2, <2>4, <2>5 DEF Atomic!Take
  <1>5. ASSUME NEW r \in Req, Write(r) PROVE Atomic!Rotate(r)
    <2> DEFINE A == available[r]
               p == RoundRobin(usage, A)
    <2>1. /\ pc[r] = "writing" /\ pc' = [pc EXCEPT ![r] = "returning"]
          /\ UNCHANGED pick
          /\ usage' = [usage EXCEPT ![pick[r].conn] =
                           [last |-> stamp[r], count |-> pick[r].count]]
      BY <1>5 DEF Write, Goto, local
    <2>2. /\ pick[r] = p /\ A # {} /\ A \in SUBSET Conn
          /\ \A c \in Conn : usage[c].last <= stamp[r]
      BY <2>1 DEF Current, TypeOK
    <2>3. stamp[r] \in 1..MaxTime
      BY <2>1, SelectionAssumption DEF SelectionAssumption, Current, TypeOK, Clocked
    <2>4. Atomic!Answer(r, p.conn)
      BY <2>1, <2>2, Answered
    <2>5. status[r] = "waiting"
      BY <2>1 DEF status
    <2>6. usage' = [usage EXCEPT ![p.conn] = [last |-> stamp[r], count |-> p.count]]
      BY <2>1, <2>2
    <2>7. p = Atomic!RoundRobin(usage, A)
      BY SameRule
    <2> HIDE DEF A, p
    <2> QED BY <2>2, <2>3, <2>4, <2>5, <2>6, <2>7 DEF Atomic!Rotate
  <1>6. ASSUME NEW r \in Req, Return(r) PROVE UNCHANGED aVars
    <2>1. pc[r] = "returning" /\ pc' = [pc EXCEPT ![r] = "selected"] /\ UNCHANGED <<usage, pick>>
      BY <1>6 DEF Return, Leave, Goto, local
    <2> QED BY <2>1, Unseen DEF Step
  <1>7. ASSUME NEW r \in Req, Throw(r) PROVE Atomic!Refuse(r)
    <2>1. /\ Critical(r) /\ pc' = [pc EXCEPT ![r] = "refused"] /\ UNCHANGED <<usage, pick>>
      BY <1>7 DEF Throw, Leave, Goto, local
    <2>2. Atomic!Answer(r, NoConn)
      BY <2>1, Answered
    <2>3. status[r] # "idle"
      BY <2>1 DEF status, Critical
    <2> QED BY <2>1, <2>2, <2>3 DEF Atomic!Refuse
  <1>8. CASE Tick \/ UNCHANGED vars
    <2>1. UNCHANGED <<usage, pc, pick>>
      BY <1>8 DEF Tick, vars, local
    <2> QED BY <2>1 DEF aVars, status, account
  <1> QED BY <1>1, <1>2, <1>3, <1>4, <1>5, <1>6, <1>7, <1>8
          DEF Next, Select, Atomic!Next

\* Concurrent requests select as if they came one after the other: no use of an
\* account is lost or counted twice, whatever the interleaving of the awaits
\* and whichever selections throw.
THEOREM Refinement == Spec => SelectsAtomically
  <1>1. SelectionInv /\ [Next]_vars => [Atomic!Next]_<<usage, status, account>>
    BY StepAtomic DEF aVars
  <1> QED BY <1>1, InitAtomic, InvHolds, PTL DEF Spec, SelectsAtomically, Atomic!Spec

-----------------------------------------------------------------------------
\* The rows of a rotation: an account that was used has a turn counted, and the
\* account recorded last is one of the most recently used.
Turned ==
    /\ \A c \in Conn : usage[c].last # 0 => usage[c].count # 0
    /\ latest # NoConn => /\ usage[latest].last # 0
                          /\ \A c \in Conn : usage[c].last <= usage[latest].last

\* Every pick counts a turn.
LEMMA PickCounts ==
  ASSUME NEW A \in SUBSET Conn, A # {}, NEW bound \in Nat,
         NEW u \in [Conn -> Use], \A c \in Conn : u[c].last <= bound
  PROVE  RoundRobin(u, A).count # 0
  <1>1. CASE Stays(u, A)
    <2>1. MostRecent(u, A) \in Conn
      BY <1>1, RoundRobinTyped DEF RoundRobin
    <2>2. \A c \in Conn : u[c].count + 1 # 0
      BY DEF Use
    <2>3. u[MostRecent(u, A)].count + 1 # 0
      BY <2>1, <2>2, Zenon
    <2> QED BY <1>1, <2>3 DEF RoundRobin
  <1>2. CASE ~Stays(u, A)
    BY <1>2 DEF RoundRobin
  <1> QED BY <1>1, <1>2

\* An account that was used and gets its first turn is none that was used more
\* recently than another available one.
LEMMA FirstTurn ==
  ASSUME NEW A \in SUBSET Conn, A # {}, NEW bound \in Nat,
         NEW u \in [Conn -> Use], \A c \in Conn : u[c].last <= bound,
         \A c \in Conn : u[c].last # 0 => u[c].count # 0,
         RoundRobin(u, A).count = 1
  PROVE  \A d \in A : u[RoundRobin(u, A).conn].last <= u[d].last
  <1>1. ~Stays(u, A)
    <2> SUFFICES ASSUME Stays(u, A) PROVE FALSE
      OBVIOUS
    <2>1. MostRecent(u, A) \in Conn
      BY RoundRobinTyped DEF RoundRobin
    <2>2. u[MostRecent(u, A)].last # 0
      BY DEF Stays
    <2>3. u[MostRecent(u, A)].count \in Nat
      BY <2>1 DEF Use
    <2>4. u[MostRecent(u, A)].count # 0
      BY <2>1, <2>2
    <2>5. u[MostRecent(u, A)].count + 1 = 1
      BY DEF RoundRobin
    <2> QED BY <2>3, <2>4, <2>5
  <1> DEFINE L == {u[c].last : c \in A}
             Oldest == {c \in A : \A d \in A : u[c].last <= u[d].last}
  <1>2. L \in SUBSET Nat /\ L # {}
    BY DEF Use
  <1> HIDE DEF L
  <1>3. PICK x \in L : \A y \in L : x <= y
    BY <1>2, Least
  <1> USE DEF L
  <1>4. Oldest # {}
    BY <1>3
  <1>5. Oldest \in SUBSET Nat
    BY RuleAssumption DEF RuleAssumption
  <1> HIDE DEF Oldest
  <1>6. First(Oldest) \in Oldest
    BY <1>4, <1>5, FirstIn
  <1> USE DEF Oldest
  <1>7. RoundRobin(u, A).conn = First(Oldest)
    BY <1>1 DEF RoundRobin, LeastRecent
  <1> QED BY <1>6, <1>7

LEMMA InitTurned == Init => Turned
  BY DEF Init, Turned, Unused

LEMMA StepTurned == SelectionInv /\ Turned /\ [Next]_vars => Turned'
  <1> SUFFICES ASSUME SelectionInv, Turned, [Next]_vars PROVE Turned'
    OBVIOUS
  <1>1. ASSUME NEW r \in Req, Write(r) PROVE Turned'
    <2> DEFINE p == pick[r].conn
    <2>1. /\ available[r] \in SUBSET Conn /\ available[r] # {}
          /\ snapshot[r] = usage /\ usage \in [Conn -> Use]
          /\ pick[r] = RoundRobin(usage, available[r])
          /\ stamp[r] \in Nat /\ stamp[r] # 0
          /\ \A c \in Conn : usage[c].last <= stamp[r]
      BY <1>1 DEF SelectionInv, TypeOK, Current, Write
    <2>2. p \in Conn
      BY <2>1, RoundRobinTyped
    <2>3. pick[r].count # 0
      BY <2>1, PickCounts
    <2>4. /\ usage' = [usage EXCEPT ![p] = [last |-> stamp[r], count |-> pick[r].count]]
          /\ latest' = p
      BY <1>1 DEF Write
    <2>5. usage'[p].last = stamp[r] /\ usage'[p].count = pick[r].count
      BY <2>1, <2>2, <2>4
    <2>6. \A c \in Conn \ {p} : usage'[c] = usage[c]
      BY <2>1, <2>4
    <2>7. \A c \in Conn : usage'[c].last # 0 => usage'[c].count # 0
      BY <2>3, <2>5, <2>6 DEF Turned
    <2>8. \A c \in Conn : usage'[c].last <= usage'[p].last
      BY <2>1, <2>5, <2>6
    <2> QED BY <2>1, <2>4, <2>5, <2>7, <2>8 DEF Turned
  <1>2. CASE \A r \in Req : ~Write(r)
    <2>1. UNCHANGED <<usage, latest>>
      BY <1>2 DEF Next, Tick, Enter, Select, Acquire, Read, Pin, FillFirst, Settle,
                  Rotate, Return, Throw, local, vars
    <2> QED BY <2>1 DEF Turned
  <1> QED BY <1>1, <1>2

\* Round-robin moves on: the account recorded last gets a first turn again only
\* when every available one was used in the same millisecond.
THEOREM MovesOn == Spec => RotationMovesOn
  <1>1. SelectionInv /\ Turned /\ [Next]_vars => [Rotates]_vars
    <2> SUFFICES ASSUME SelectionInv, Turned, [Next]_vars, NEW r \in Req,
                        pc[r] = "writing", pc'[r] = "returning",
                        usage'[pick[r].conn].count = 1, pick[r].conn = latest,
                        NEW c \in available[r]
                 PROVE  usage[c].last = usage[latest].last
      BY DEF Rotates
    <2>1. /\ available[r] \in SUBSET Conn /\ available[r] # {}
          /\ usage \in [Conn -> Use]
          /\ pick[r] = RoundRobin(usage, available[r])
          /\ stamp[r] \in Nat
          /\ \A d \in Conn : usage[d].last <= stamp[r]
      BY DEF SelectionInv, TypeOK, Current
    <2>2. pick[r].conn \in Conn
      BY <2>1, RoundRobinTyped
    <2>3. Write(r)
      BY DEF Next, Tick, Enter, Select, Acquire, Read, Pin, FillFirst, Settle,
             Rotate, Write, Return, Throw, Leave, Goto, local, vars, SelectionInv, TypeOK
    <2>4. pick[r].count = 1
      BY <2>1, <2>2, <2>3 DEF Write
    <2>5. usage[latest].last <= usage[c].last
      BY <2>1, <2>4, FirstTurn DEF Turned
    <2>6. usage[c].last <= usage[latest].last
      BY <2>1, <2>2, RuleAssumption, SelectionAssumption
         DEF Turned, RuleAssumption, SelectionAssumption
    <2>7. usage[c].last \in Nat /\ usage[latest].last \in Nat
      BY <2>1, <2>2 DEF Use
    <2> QED BY <2>5, <2>6, <2>7
  <1>2. Spec => []Turned
    BY InvHolds, InitTurned, StepTurned, PTL DEF Spec
  <1> QED BY <1>1, <1>2, InvHolds, PTL DEF RotationMovesOn, Spec
=============================================================================
