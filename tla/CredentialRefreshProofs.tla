----------------------- MODULE CredentialRefreshProofs -----------------------
(***************************************************************************)
(* The refresh of credentials, for any requests, accounts, sizes of the map *)
(* of locks and faults: whoever awaits a refresh awaits one that runs, the   *)
(* provider is asked once at a time, slots are given back, no retired token  *)
(* is shown again too soon, and an issued token reaches the row.             *)
(***************************************************************************)
EXTENDS CredentialRefresh, FiniteSetTheorems, TLAPS

-----------------------------------------------------------------------------
\* The invariant.

HasToken == \A r \in Req : pc[r] # "idle" => cred[r] \in Version

\* Whoever is to try again may.
Retrying == \A r \in Req : pc[r] = "backoff" => attempt[r] \in 1..(MaxAttempts - 1)

\* The requests, their locks and their slots.
Orderly ==
    TypeOK /\ HasToken /\ Retrying /\ LocksRun /\ WaitersHaveRefresh /\ SlotsBalanced

\* Whoever asks the provider has announced it.
Flights == \A r \in Req :
    pc[r] = "fetching" => dedup[acct[r]][cred[r]].state = "flight"

\* Nobody has a token that was not issued yet.
Issued ==
    /\ \A r \in Req : cred[r] <= valid[acct[r]]
    /\ \A a \in Account :
          /\ row[a] <= valid[a] /\ newest[a] <= valid[a]
          /\ \A v \in Version : dedup[a][v].result <= valid[a]

\* A token that is not in the row yet is in the hands of one about to write it.
Handed == ~faulty => \A a \in Account :
    \/ newest[a] = valid[a]
    \/ \E r \in Req : pc[r] = "persisting" /\ acct[r] = a /\ cred[r] = valid[a]

\* The result of a refresh is kept for Ttl from the time its token was retired.
Kept == \A a \in Account, v \in Version :
    rotatedAt[a][v] < MaxTime =>
        /\ rotatedAt[a][v] <= now
        /\ dedup[a][v].state # "none"
        /\ dedup[a][v].state = "cached" => dedup[a][v].until >= rotatedAt[a][v] + Ttl

RefreshInv == Orderly /\ Flights /\ SingleFlight /\ Issued /\ Handed /\ Kept

\* The variables of the requests, their locks and their slots.
RequestTypes ==
    /\ pc \in [Req -> Step]
    /\ cred \in [Req -> Version \cup {Null}]
    /\ attempt \in [Req -> 0..MaxAttempts]
    /\ awaiting \in [Req -> Req \cup {NoReq}]
    /\ lock \in [Account -> Req \cup {NoReq}]
    /\ held \in [Req -> BOOLEAN] /\ slots \in [Account -> Nat]

Held(a) == {r \in Req : held[r] /\ acct[r] = a}

-----------------------------------------------------------------------------
\* The lock and its slots.

\* Where a request goes on: it keeps its token unless it is done.
LEMMA Afterwards ==
    ASSUME TypeOK, NEW r \in Req, NEW result \in Result
    PROVE  /\ result > 0 => After(r, result) = "persisting"
           /\ result <= 0 => After(r, result) \in {"sending", "backoff", "idle"}
           /\ After(r, result) \in Step
           /\ After(r, result) = "backoff" => attempt[r] \in 1..(MaxAttempts - 1)
  BY DEF After, TypeOK, Result, Version, Null, Unrecoverable, Step

\* The slots given back are those of the refreshes that end.
LEMMA GivingBack ==
    ASSUME Orderly, NEW T \in SUBSET Req, NEW a \in Account,
           \A t \in T : acct[t] = a,
           held' = [w \in Req |-> held[w] /\ w \notin T],
           slots' = [slots EXCEPT ![a] = @ - Cardinality({t \in T : held[t]})]
    PROVE  /\ slots' \in [Account -> Nat]
           /\ \A b \in Account : slots'[b] = Cardinality(Held(b)') /\ slots'[b] <= SlotCap
<1> DEFINE D == {t \in T : held[t]}
<1>1. /\ \A b \in Account : slots[b] = Cardinality(Held(b)) /\ slots[b] <= SlotCap
      /\ slots \in [Account -> Nat] /\ IsFiniteSet(Req) /\ SlotCap \in Nat
  BY RefreshAssumption DEF Orderly, SlotsBalanced, TypeOK, Held
<1>2. \A b \in Account : IsFiniteSet(Held(b)) /\ IsFiniteSet(Held(b)')
  BY <1>1, FS_Subset DEF Held
<1>3. ASSUME NEW b \in Account, b # a
      PROVE  slots'[b] = Cardinality(Held(b)') /\ slots'[b] = slots[b]
  <2>1. Held(b)' = Held(b)
    BY <1>3 DEF Held
  <2>. QED
    BY <1>1, <1>3, <2>1
<1>4. /\ slots'[a] = Cardinality(Held(a)') /\ slots'[a] <= SlotCap
      /\ slots'[a] \in Nat
  <2>1. Held(a)' = Held(a) \ D /\ Held(a) \cap D = D
    BY DEF Held
  <2>2. Cardinality(Held(a)') = Cardinality(Held(a)) - Cardinality(D)
    <3> HIDE DEF D
    <3>. QED
      BY <1>2, <2>1, FS_Difference
  <2>3. /\ slots'[a] = slots[a] - Cardinality(D)
        /\ IsFiniteSet(D) /\ Cardinality(D) \in Nat
    BY <1>1, <1>2, <2>1, FS_Subset, FS_CardinalityType
  <2>4. Cardinality(Held(a)') \in Nat
    BY <1>2, FS_CardinalityType
  <2>. QED
    BY <1>1, <2>2, <2>3, <2>4
<1>. QED
  BY <1>1, <1>3, <1>4

\* When refreshes end, everyone who awaited them goes on, and nobody else.
LEMMA Ending ==
    ASSUME Orderly, NEW T \in SUBSET Req, NEW a \in Account, NEW result \in Result,
           \A t \in T : Running(t) /\ acct[t] = a,
           Finish(T, a, result)
    PROVE  /\ RequestTypes' /\ HasToken' /\ Retrying'
           /\ LocksRun' /\ WaitersHaveRefresh' /\ SlotsBalanced'
           /\ \A w \in Req :
                 \/ w \notin T /\ pc'[w] = pc[w] /\ cred'[w] = cred[w]
                 \/ /\ (w \in T \/ pc[w] = "waiting") /\ acct[w] = a
                    /\ pc'[w] \in {"persisting", "sending", "backoff", "idle"}
                    /\ cred'[w] \in {result, Null, cred[w]}
                    /\ result > 0 => pc'[w] = "persisting" /\ cred'[w] = result
           /\ result > 0 => \A t \in T : pc'[t] = "persisting" /\ cred'[t] = result
           /\ \A t \in T : ~Running(t)'
<1> DEFINE W == T \cup Awaits(T)
<1>1. /\ pc' = [w \in Req |-> IF w \in W THEN After(w, result) ELSE pc[w]]
      /\ cred' = [w \in Req |->
                      CASE w \in W /\ result > 0 -> result
                        [] w \in W /\ After(w, result) = "idle" -> Null
                        [] OTHER -> cred[w]]
      /\ attempt' = [w \in Req |->
                         IF w \in W /\ After(w, result) = "idle" THEN 0 ELSE attempt[w]]
      /\ awaiting' = [w \in Req |-> IF w \in W THEN NoReq ELSE awaiting[w]]
      /\ lock' = [lock EXCEPT ![a] = NoReq]
      /\ held' = [w \in Req |-> held[w] /\ w \notin T]
      /\ slots' = [slots EXCEPT ![a] = @ - Cardinality({t \in T : held[t]})]
  BY DEF Finish, Unlocked
<1>2. TypeOK /\ HasToken /\ Retrying /\ LocksRun /\ WaitersHaveRefresh /\ SlotsBalanced
  BY DEF Orderly
<1>3. \A w \in W : w \in Req /\ acct[w] = a /\ (w \in T \/ pc[w] = "waiting")
                   /\ (w \in T => pc[w] \in {"jitter", "joined", "fetching"})
  BY <1>2 DEF Awaits, WaitersHaveRefresh, Running
<1>4. \A w \in Req : /\ result > 0 => After(w, result) = "persisting"
                     /\ result <= 0 => After(w, result) \in {"sending", "backoff", "idle"}
                     /\ After(w, result) \in Step
                     /\ After(w, result) = "backoff" => attempt[w] \in 1..(MaxAttempts - 1)
  BY <1>2, Afterwards
<1>5. result \in Int /\ (result > 0 => result \in Version)
  BY RefreshAssumption DEF Result, Version, Null, Unrecoverable
<1>6. ASSUME NEW w \in W
      PROVE  /\ pc'[w] = After(w, result) /\ awaiting'[w] = NoReq
             /\ result > 0 => cred'[w] = result
             /\ result <= 0 /\ After(w, result) = "idle" => cred'[w] = Null
             /\ result <= 0 /\ After(w, result) # "idle" => cred'[w] = cred[w]
  BY <1>1, <1>3, <1>4, <1>5, <1>6
<1>7. ASSUME NEW w \in Req, w \notin W
      PROVE  pc'[w] = pc[w] /\ cred'[w] = cred[w] /\ awaiting'[w] = awaiting[w]
  BY <1>1, <1>7
<1>8. /\ slots' \in [Account -> Nat]
      /\ \A b \in Account : slots'[b] = Cardinality(Held(b)') /\ slots'[b] <= SlotCap
  BY <1>1, GivingBack
<1>. HIDE DEF W
<1>9. HasToken'
  <2> SUFFICES ASSUME NEW w \in Req, pc'[w] # "idle" PROVE cred'[w] \in Version
    BY DEF HasToken
  <2>1. CASE w \in W
    BY <1>2, <1>3, <1>4, <1>5, <1>6, <2>1 DEF HasToken
  <2>2. CASE w \notin W
    BY <1>2, <1>7, <2>2 DEF HasToken
  <2>. QED
    BY <2>1, <2>2
<1>10. RequestTypes'
  <2>1. \A w \in Req : pc'[w] \in Step
    BY <1>2, <1>4, <1>6, <1>7 DEF TypeOK
  <2>2. \A w \in Req : cred'[w] \in Version \cup {Null}
    BY <1>2, <1>4, <1>5, <1>6, <1>7 DEF TypeOK
  <2>3. \A w \in Req : attempt'[w] \in 0..MaxAttempts
    BY <1>1, <1>2, RefreshAssumption DEF TypeOK
  <2>4. \A w \in Req : awaiting'[w] \in Req \cup {NoReq}
    BY <1>2, <1>6, <1>7 DEF TypeOK
  <2>5. lock' \in [Account -> Req \cup {NoReq}] /\ held' \in [Req -> BOOLEAN]
    BY <1>1, <1>2 DEF TypeOK
  <2>6. /\ pc' \in [Req -> Step] /\ cred' \in [Req -> Version \cup {Null}]
        /\ attempt' \in [Req -> 0..MaxAttempts]
        /\ awaiting' \in [Req -> Req \cup {NoReq}]
    <3>1. /\ pc' = [w \in Req |-> pc'[w]] /\ cred' = [w \in Req |-> cred'[w]]
          /\ attempt' = [w \in Req |-> attempt'[w]]
          /\ awaiting' = [w \in Req |-> awaiting'[w]]
      BY <1>1
    <3>. QED
      BY <2>1, <2>2, <2>3, <2>4, <3>1
  <2>. QED
    BY <1>8, <2>5, <2>6 DEF RequestTypes
<1>11. ASSUME NEW t \in Req, Running(t), t \notin T PROVE t \notin W /\ Running(t)'
  BY <1>3, <1>7, <1>11 DEF Running
<1>12. \A t \in T : ~Running(t)'
  BY <1>3, <1>4, <1>5, <1>6 DEF Running, W
<1>13. LocksRun'
  <2> SUFFICES ASSUME NEW b \in Account, lock'[b] # NoReq
               PROVE  /\ pc'[lock'[b]] \in {"jitter", "joined", "fetching"}
                      /\ acct[lock'[b]] = b
    BY DEF LocksRun, Running
  <2>1. b # a /\ lock'[b] = lock[b] /\ lock[b] \in Req
    BY <1>1, <1>2 DEF TypeOK
  <2>2. Running(lock[b]) /\ acct[lock[b]] = b
    BY <1>2, <2>1 DEF LocksRun
  <2>3. lock[b] \notin T
    BY <2>1, <2>2
  <2>. QED
    BY <1>11, <2>1, <2>2, <2>3 DEF Running
<1>14. WaitersHaveRefresh'
  <2> SUFFICES ASSUME NEW w \in Req, pc'[w] = "waiting"
               PROVE  /\ awaiting'[w] \in Req
                      /\ pc'[awaiting'[w]] \in {"jitter", "joined", "fetching"}
                      /\ acct[awaiting'[w]] = acct[w]
    BY DEF WaitersHaveRefresh, Running
  <2>1. w \notin W
    BY <1>4, <1>5, <1>6
  <2>2. /\ pc[w] = "waiting" /\ awaiting'[w] = awaiting[w]
        /\ awaiting[w] \in Req /\ Running(awaiting[w]) /\ acct[awaiting[w]] = acct[w]
    BY <1>2, <1>7, <2>1 DEF WaitersHaveRefresh
  <2>3. awaiting[w] \notin T
    BY <2>1, <2>2 DEF W, Awaits
  <2>. QED
    BY <1>11, <2>2, <2>3 DEF Running
<1>15. SlotsBalanced'
  <2>1. ASSUME NEW w \in Req, held'[w] PROVE Running(w)'
    <3>1. held[w] /\ w \notin T /\ Running(w)
      BY <1>1, <1>2, <2>1 DEF SlotsBalanced
    <3>. QED
      BY <1>11, <3>1
  <2>. QED
    BY <1>8, <2>1 DEF SlotsBalanced, Held
<1>16. ASSUME NEW w \in Req, w \in W
       PROVE  /\ (w \in T \/ pc[w] = "waiting") /\ acct[w] = a
              /\ pc'[w] \in {"persisting", "sending", "backoff", "idle"}
              /\ cred'[w] \in {result, Null, cred[w]}
              /\ result > 0 => pc'[w] = "persisting" /\ cred'[w] = result
  BY <1>3, <1>4, <1>5, <1>6, <1>16
<1>17. Retrying'
  <2> SUFFICES ASSUME NEW w \in Req, pc'[w] = "backoff"
               PROVE  attempt'[w] \in 1..(MaxAttempts - 1)
    BY DEF Retrying
  <2>1. CASE w \in W
    <3>1. attempt'[w] = attempt[w]
      BY <1>1, <1>6, <2>1
    <3>. QED
      BY <1>4, <1>6, <2>1, <3>1
  <2>2. CASE w \notin W
    <3>1. attempt'[w] = attempt[w]
      BY <1>1, <2>2
    <3>. QED
      BY <1>2, <1>7, <2>2, <3>1 DEF Retrying
  <2>. QED
    BY <2>1, <2>2
<1>18. T \subseteq W
  BY DEF W
<1>. QED
  BY <1>7, <1>9, <1>10, <1>12, <1>13, <1>14, <1>15, <1>16, <1>17, <1>18

\* A refresh begins for an account that none is known of, or is awaited.
LEMMA Beginning ==
    ASSUME Orderly, NEW r \in Req, pc[r] \in {"idle", "sending", "backoff"},
           NEW c \in Version, cred' = [cred EXCEPT ![r] = c],
           attempt' \in [Req -> 0..MaxAttempts],
           \A w \in Req \ {r} : attempt'[w] = attempt[w],
           Refresh(r)
    PROVE  /\ RequestTypes' /\ HasToken' /\ Retrying'
           /\ LocksRun' /\ WaitersHaveRefresh' /\ SlotsBalanced'
           /\ pc'[r] \in {"waiting", "jitter"}
           /\ \A w \in Req \ {r} : pc'[w] = pc[w] /\ cred'[w] = cred[w]
<1> DEFINE a == acct[r]
<1>1. TypeOK /\ HasToken /\ Retrying /\ LocksRun /\ WaitersHaveRefresh /\ SlotsBalanced
  BY DEF Orderly
<1>2. a \in Account /\ NoReq \notin Req /\ acct \in [Req -> Account]
  BY RefreshAssumption
<1>3. ~Running(r) /\ ~held[r]
  BY <1>1 DEF Running, SlotsBalanced
<1>4. ASSUME NEW x \in {"waiting", "jitter"}, pc' = [pc EXCEPT ![r] = x]
      PROVE  /\ pc' \in [Req -> Step] /\ pc'[r] = x
             /\ cred' \in [Req -> Version \cup {Null}] /\ HasToken'
             /\ \A w \in Req \ {r} : pc'[w] = pc[w] /\ cred'[w] = cred[w]
             /\ \A w \in Req : Running(w) => w # r /\ Running(w)'
             /\ Retrying'
  <2>1. pc'[r] = x /\ \A w \in Req \ {r} : pc'[w] = pc[w]
    BY <1>1, <1>4 DEF TypeOK
  <2>2. Retrying'
    BY <1>1, <2>1 DEF Retrying
  <2>. QED
    BY <1>1, <1>3, <1>4, <2>2 DEF TypeOK, Step, HasToken, Running
<1>5. CASE /\ lock[a] # NoReq
           /\ pc' = [pc EXCEPT ![r] = "waiting"]
           /\ awaiting' = [awaiting EXCEPT ![r] = lock[a]]
           /\ UNCHANGED guards
  <2>1. lock' = lock /\ held' = held /\ slots' = slots
    BY <1>5 DEF guards
  <2>2. lock[a] \in Req /\ Running(lock[a]) /\ acct[lock[a]] = a
    BY <1>1, <1>2, <1>5 DEF TypeOK, LocksRun
  <2>3. RequestTypes'
    BY <1>1, <1>4, <1>5, <2>1, <2>2 DEF RequestTypes, TypeOK
  <2>4. LocksRun'
    <3> SUFFICES ASSUME NEW b \in Account, lock[b] # NoReq
                 PROVE  pc'[lock[b]] \in {"jitter", "joined", "fetching"}
                        /\ acct[lock[b]] = b
      BY <2>1 DEF LocksRun, Running
    <3>1. lock[b] \in Req /\ Running(lock[b]) /\ acct[lock[b]] = b
      BY <1>1 DEF TypeOK, LocksRun
    <3>. QED
      BY <1>4, <1>5, <3>1 DEF Running
  <2>5. WaitersHaveRefresh'
    <3> SUFFICES ASSUME NEW w \in Req, pc'[w] = "waiting"
                 PROVE  /\ awaiting'[w] \in Req /\ acct[awaiting'[w]] = acct[w]
                        /\ pc'[awaiting'[w]] \in {"jitter", "joined", "fetching"}
      BY DEF WaitersHaveRefresh, Running
    <3>1. CASE w = r
      <4>1. awaiting'[w] = lock[a]
        BY <1>1, <1>5, <3>1 DEF TypeOK
      <4>. QED
        BY <1>4, <1>5, <2>2, <3>1, <4>1 DEF Running
    <3>2. CASE w # r
      <4>1. /\ awaiting'[w] = awaiting[w] /\ awaiting[w] \in Req
            /\ acct[awaiting[w]] = acct[w] /\ Running(awaiting[w])
        BY <1>1, <1>4, <1>5, <3>2 DEF TypeOK, WaitersHaveRefresh
      <4>. QED
        BY <1>4, <1>5, <4>1 DEF Running
    <3>. QED
      BY <3>1, <3>2
  <2>6. SlotsBalanced'
    BY <1>1, <1>4, <1>5, <2>1 DEF SlotsBalanced
  <2>. QED
    BY <1>4, <1>5, <2>3, <2>4, <2>5, <2>6
<1>6. CASE /\ lock[a] = NoReq
           /\ pc' = [pc EXCEPT ![r] = "jitter"]
           /\ Evict(r, a) /\ TakeSlot(r, a) /\ UNCHANGED awaiting
  <2>1. /\ lock' \in [Account -> Req \cup {NoReq}]
        /\ \A b \in Account : \/ b = a /\ lock'[b] = r
                              \/ lock'[b] = NoReq
                              \/ lock'[b] = lock[b]
    <3>1. CASE lock' = [lock EXCEPT ![a] = r]
      BY <1>1, <1>2, <3>1 DEF TypeOK
    <3>2. ASSUME NEW b \in Locked, lock' = [lock EXCEPT ![b] = NoReq, ![a] = r]
          PROVE  <2>1!1 /\ <2>1!2
      BY <1>1, <1>2, <3>2 DEF TypeOK, Locked
    <3>. QED
      BY <1>6, <3>1, <3>2 DEF Evict
  <2>2. PICK free \in BOOLEAN :
            /\ free => slots[a] < SlotCap
            /\ held' = [held EXCEPT ![r] = free]
            /\ slots' = [slots EXCEPT ![a] = @ + (IF free THEN 1 ELSE 0)]
    BY <1>6, Zenon DEF TakeSlot
  <2>3. held' \in [Req -> BOOLEAN] /\ slots' \in [Account -> Nat]
    <3> DEFINE n == IF free THEN 1 ELSE 0
    <3>1. n \in Nat /\ slots' = [slots EXCEPT ![a] = @ + n]
      BY <2>2
    <3>2. held' \in [Req -> BOOLEAN]
      BY <1>1, <2>2, Zenon DEF TypeOK
    <3>3. slots' \in [Account -> Nat]
      <4> HIDE DEF n
      <4>. QED
        BY <1>1, <1>2, <3>1 DEF TypeOK
    <3>. QED
      BY <3>2, <3>3
  <2>4. RequestTypes'
    BY <1>1, <1>4, <1>6, <2>1, <2>3 DEF RequestTypes, TypeOK
  <2>5. LocksRun'
    <3> SUFFICES ASSUME NEW b \in Account, lock'[b] # NoReq
                 PROVE  pc'[lock'[b]] \in {"jitter", "joined", "fetching"}
                        /\ acct[lock'[b]] = b
      BY DEF LocksRun, Running
    <3>1. CASE b = a /\ lock'[b] = r
      BY <1>4, <1>6, <3>1
    <3>2. CASE lock'[b] = lock[b]
      <4>1. lock[b] \in Req /\ Running(lock[b]) /\ acct[lock[b]] = b
        BY <1>1, <3>2 DEF TypeOK, LocksRun
      <4>. QED
        BY <1>4, <1>6, <3>2, <4>1 DEF Running
    <3>. QED
      BY <2>1, <3>1, <3>2
  <2>6. WaitersHaveRefresh'
    <3> SUFFICES ASSUME NEW w \in Req, pc'[w] = "waiting"
                 PROVE  /\ awaiting[w] \in Req /\ acct[awaiting[w]] = acct[w]
                        /\ pc'[awaiting[w]] \in {"jitter", "joined", "fetching"}
      BY <1>6 DEF WaitersHaveRefresh, Running
    <3>1. /\ awaiting[w] \in Req /\ acct[awaiting[w]] = acct[w]
          /\ Running(awaiting[w])
      BY <1>1, <1>4, <1>6 DEF WaitersHaveRefresh
    <3>. QED
      BY <1>4, <1>6, <3>1 DEF Running
  <2>7. SlotsBalanced'
    <3>1. ASSUME NEW b \in Account
          PROVE  slots'[b] = Cardinality(Held(b)') /\ slots'[b] <= SlotCap
      <4>1. /\ slots[b] = Cardinality(Held(b)) /\ slots[b] <= SlotCap
            /\ slots \in [Account -> Nat] /\ IsFiniteSet(Held(b)) /\ SlotCap \in Nat
        <5>1. IsFiniteSet(Held(b))
          BY RefreshAssumption, FS_Subset DEF Held
        <5>. QED
          BY <1>1, <5>1, RefreshAssumption DEF SlotsBalanced, TypeOK, Held
      <4>2. held \in [Req -> BOOLEAN] /\ r \notin Held(b)
        BY <1>1, <1>3 DEF TypeOK, Held
      <4>3. CASE b = a /\ free
        <5>1. Held(b)' = Held(b) \cup {r}
          BY <2>2, <4>2, <4>3 DEF Held
        <5>2. Cardinality(Held(b)') = Cardinality(Held(b)) + 1
          BY <4>1, <4>2, <5>1, FS_AddElement
        <5>. QED
          BY <2>2, <4>1, <4>3, <5>2
      <4>4. CASE b # a \/ ~free
        <5>1. Held(b)' = Held(b)
          <6>1. ASSUME NEW w \in Req
                PROVE  held'[w] /\ acct[w] = b <=> held[w] /\ acct[w] = b
            <7>1. CASE w = r
              BY <1>3, <2>2, <4>2, <4>4, <7>1
            <7>2. CASE w # r
              BY <2>2, <4>2, <7>2
            <7>. QED
              BY <7>1, <7>2
          <6>. QED
            BY <6>1 DEF Held
        <5>2. slots'[b] = slots[b]
          BY <2>2, <4>1, <4>4
        <5>. QED
          BY <4>1, <5>1, <5>2
      <4>. QED
        BY <4>3, <4>4
    <3>2. ASSUME NEW w \in Req, held'[w] PROVE Running(w)'
      <4>1. CASE w = r
        BY <1>4, <1>6, <4>1 DEF Running
      <4>2. CASE w # r
        BY <1>1, <1>4, <1>6, <2>2, <3>2, <4>2 DEF SlotsBalanced, TypeOK
      <4>. QED
        BY <4>1, <4>2
    <3>. QED
      BY <3>1, <3>2 DEF SlotsBalanced, Held
  <2>. QED
    BY <1>4, <1>6, <2>4, <2>5, <2>6, <2>7
<1>. QED
  BY <1>5, <1>6 DEF Refresh

-----------------------------------------------------------------------------
\* The provider's answer.

LEMMA Resolving ==
    ASSUME RefreshInv, NEW r \in Req, pc[r] = "fetching",
           NEW result \in Result, Resolve(r, result),
           now' = now, row' = row, newest' = newest, faulty' \in BOOLEAN,
           valid' \in [Account -> Version], \A a \in Account : valid[a] <= valid'[a],
           result <= valid'[acct[r]],
           rotatedAt' \in [Account -> [Version -> Nat]],
           \A a \in Account, v \in Version :
               \/ rotatedAt'[a][v] = rotatedAt[a][v]
               \/ a = acct[r] /\ v = cred[r] /\ rotatedAt'[a][v] = now
    PROVE  /\ Orderly' /\ Flights' /\ SingleFlight' /\ Issued' /\ Kept'
           /\ result > 0 => pc'[r] = "persisting" /\ cred'[r] = result
<1> DEFINE a == acct[r]
           v == cred[r]
           T == {r} \cup {t \in Req : pc[t] = "joined" /\ acct[t] = a /\ cred[t] = v}
           entry == [state |-> "cached", result |-> result, until |-> now + Ttl]
<1>1. /\ dedup' = [dedup EXCEPT ![a][v] = entry]
      /\ Finish(T, a, result)
  BY DEF Resolve
<1>2. /\ Orderly /\ TypeOK /\ Flights /\ SingleFlight /\ Issued /\ Kept
      /\ a \in Account /\ v \in Version
  BY RefreshAssumption DEF RefreshInv, Orderly, HasToken
<1>3. /\ T \in SUBSET Req /\ r \in T
      /\ \A t \in T : Running(t) /\ acct[t] = a
  BY DEF Running
<1>4. entry \in Entry /\ Ttl \in Nat /\ now \in Nat
  BY <1>2, RefreshAssumption DEF Entry, TypeOK
<1>5. /\ dedup' \in [Account -> [Version -> Entry]]
      /\ dedup'[a][v] = entry
      /\ \A b \in Account, u \in Version :
            b # a \/ u # v => dedup'[b][u] = dedup[b][u]
  <2> HIDE DEF entry, a, v
  <2>. QED
    BY <1>1, <1>2, <1>4 DEF TypeOK
<1>6. /\ RequestTypes' /\ HasToken' /\ Retrying'
      /\ LocksRun' /\ WaitersHaveRefresh' /\ SlotsBalanced'
      /\ \A w \in Req :
            \/ w \notin T /\ pc'[w] = pc[w] /\ cred'[w] = cred[w]
            \/ /\ acct[w] = a
               /\ pc'[w] \in {"persisting", "sending", "backoff", "idle"}
               /\ cred'[w] \in {result, Null, cred[w]}
      /\ result > 0 => \A t \in T : pc'[t] = "persisting" /\ cred'[t] = result
      /\ \A t \in T : ~Running(t)'
  <2> HIDE DEF T, a
  <2>1. Orderly /\ a \in Account /\ Finish(T, a, result)
    BY <1>1, <1>2
  <2>. QED
    BY <1>3, <2>1, Ending
<1>7. Orderly'
  BY <1>2, <1>4, <1>5, <1>6 DEF Orderly, RequestTypes, TypeOK
<1>8. ASSUME NEW w \in Req, pc'[w] = "fetching"
      PROVE  pc[w] = "fetching" /\ cred'[w] = cred[w] /\ w # r
  BY <1>3, <1>6, <1>8
<1>9. Flights'
  <2> SUFFICES ASSUME NEW w \in Req, pc'[w] = "fetching"
               PROVE  dedup'[acct[w]][cred'[w]].state = "flight"
    BY DEF Flights
  <2>1. pc[w] = "fetching" /\ cred'[w] = cred[w] /\ w # r /\ cred[w] \in Version
    BY <1>2, <1>8 DEF Orderly, HasToken
  <2>2. acct[w] # a \/ cred[w] # v
    BY <1>2, <2>1 DEF SingleFlight
  <2>3. acct[w] \in Account
    BY RefreshAssumption
  <2>. QED
    BY <1>2, <1>5, <2>1, <2>2, <2>3 DEF Flights
<1>10. SingleFlight'
  BY <1>2, <1>8 DEF SingleFlight
<1>11. Issued'
  <2>1. ASSUME NEW w \in Req PROVE cred'[w] <= valid'[acct[w]]
    <3>1. /\ cred[w] \in Int /\ cred[w] <= valid[acct[w]]
          /\ acct[w] \in Account
      BY <1>2, RefreshAssumption DEF TypeOK, Issued, Version, Null
    <3>2. /\ valid[acct[w]] \in Int /\ valid'[acct[w]] \in Int
          /\ valid'[acct[w]] >= 0 /\ valid[acct[w]] <= valid'[acct[w]]
      BY <1>2, <3>1, RefreshAssumption DEF TypeOK, Version
    <3>. QED
      BY <1>6, <3>1, <3>2 DEF Null
  <2>2. ASSUME NEW b \in Account
        PROVE  /\ row'[b] <= valid'[b] /\ newest'[b] <= valid'[b]
               /\ \A u \in Version : dedup'[b][u].result <= valid'[b]
    <3>1. /\ valid[b] \in Int /\ valid'[b] \in Int /\ valid[b] <= valid'[b]
          /\ row[b] \in Int /\ newest[b] \in Int
          /\ row[b] <= valid[b] /\ newest[b] <= valid[b]
      BY <1>2, RefreshAssumption DEF TypeOK, Version, Issued
    <3>2. ASSUME NEW u \in Version PROVE dedup'[b][u].result <= valid'[b]
      <4>1. CASE b = a /\ u = v
        BY <1>5, <4>1
      <4>2. CASE b # a \/ u # v
        <5>1. dedup[b][u].result \in Int /\ dedup[b][u].result <= valid[b]
          <6>1. dedup[b][u] \in Entry
            BY <1>2 DEF TypeOK
          <6>2. dedup[b][u].result \in Result
            BY <6>1 DEF Entry
          <6>. QED
            BY <1>2, <6>2, RefreshAssumption
               DEF Result, Version, Null, Unrecoverable, Issued
        <5>2. dedup'[b][u] = dedup[b][u]
          BY <1>5, <4>2
        <5>. QED
          BY <3>1, <5>1, <5>2
      <4>. QED
        BY <4>1, <4>2
    <3>. QED
      BY <3>1, <3>2
  <2>. QED
    BY <2>1, <2>2 DEF Issued
<1>12. Kept'
  <2> SUFFICES ASSUME NEW b \in Account, NEW u \in Version, rotatedAt'[b][u] < MaxTime
               PROVE  /\ rotatedAt'[b][u] <= now
                      /\ dedup'[b][u].state # "none"
                      /\ dedup'[b][u].state = "cached"
                            => dedup'[b][u].until >= rotatedAt'[b][u] + Ttl
    BY DEF Kept
  <2>1. rotatedAt'[b][u] <= now /\ rotatedAt'[b][u] \in Nat
    BY <1>2, <1>4 DEF Kept
  <2>2. CASE b = a /\ u = v
    BY <1>4, <1>5, <2>1, <2>2
  <2>3. CASE b # a \/ u # v
    <3>1. rotatedAt'[b][u] = rotatedAt[b][u] /\ dedup'[b][u] = dedup[b][u]
      BY <1>5, <2>3
    <3>. QED
      BY <1>2, <2>1, <3>1 DEF Kept
  <2>. QED
    BY <2>2, <2>3
<1>13. result > 0 => pc'[r] = "persisting" /\ cred'[r] = result
  BY <1>3, <1>6
<1>. QED
  BY <1>7, <1>9, <1>10, <1>11, <1>12, <1>13

-----------------------------------------------------------------------------
\* Every action.

LEMMA Initially == Init => RefreshInv
<1> SUFFICES ASSUME Init PROVE RefreshInv
  OBVIOUS
<1>1. /\ 1 \in Version /\ NoEntry \in Entry /\ MaxTime \in Nat /\ IsFiniteSet(Req)
      /\ \A i \in Version : i \in Int /\ 1 <= i
  BY RefreshAssumption DEF Version, NoEntry, Entry, Result, Null
<1>2. TypeOK
  <2>1. /\ row \in [Account -> Version] /\ valid \in [Account -> Version]
        /\ newest \in [Account -> Version] /\ now \in Nat /\ faulty \in BOOLEAN
    BY <1>1 DEF Init
  <2>2. /\ pc \in [Req -> Step] /\ cred \in [Req -> Version \cup {Null}]
        /\ attempt \in [Req -> 0..MaxAttempts]
    BY RefreshAssumption DEF Init, Step
  <2>3. /\ awaiting \in [Req -> Req \cup {NoReq}]
        /\ lock \in [Account -> Req \cup {NoReq}] /\ held \in [Req -> BOOLEAN]
    BY DEF Init
  <2>4. slots \in [Account -> Nat] /\ rotatedAt \in [Account -> [Version -> Nat]]
    BY <1>1 DEF Init
  <2>5. dedup \in [Account -> [Version -> Entry]]
    BY <1>1 DEF Init
  <2>. QED
    BY <2>1, <2>2, <2>3, <2>4, <2>5 DEF TypeOK
<1>3. HasToken /\ Retrying /\ LocksRun /\ WaitersHaveRefresh /\ SingleFlight /\ Flights
  BY <1>2 DEF Init, HasToken, Retrying, LocksRun, WaitersHaveRefresh, SingleFlight, Flights
<1>4. SlotsBalanced
  <2>1. \A a \in Account : {w \in Req : held[w] /\ acct[w] = a} = {}
    BY DEF Init
  <2>2. \A a \in Account : slots[a] = 0
    BY DEF Init
  <2>3. \A w \in Req : ~held[w]
    BY DEF Init
  <2>4. ASSUME NEW a \in Account
        PROVE  /\ slots[a] = Cardinality({w \in Req : held[w] /\ acct[w] = a})
               /\ slots[a] <= SlotCap
    BY <2>1, <2>2, FS_EmptySet, RefreshAssumption
  <2>. QED
    BY <2>3, <2>4 DEF SlotsBalanced
<1>5. Issued
  BY <1>1, RefreshAssumption DEF Init, Issued, NoEntry, Null
<1>6. Handed
  BY DEF Init, Handed
<1>7. Kept
  BY RefreshAssumption DEF Init, Kept
<1>. QED
  BY <1>2, <1>3, <1>4, <1>5, <1>6, <1>7 DEF RefreshInv, Orderly

\* A request begins a refresh, or is sent with the token in its row.
LEMMA Asking ==
    ASSUME RefreshInv, Drained,
           NEW r \in Req, pc[r] \in {"idle", "sending", "backoff"},
           NEW c \in Version, c <= valid[acct[r]], cred' = [cred EXCEPT ![r] = c],
           attempt' \in [Req -> 0..MaxAttempts],
           \A w \in Req \ {r} : attempt'[w] = attempt[w],
           Refresh(r),
           UNCHANGED <<now, row, valid, dedup, ghosts>>
    PROVE  RefreshInv'
<1>1. /\ Orderly /\ TypeOK /\ Flights /\ SingleFlight /\ Issued /\ Kept /\ Handed
  BY DEF RefreshInv, Orderly
<1>2. /\ RequestTypes' /\ HasToken' /\ Retrying'
      /\ LocksRun' /\ WaitersHaveRefresh' /\ SlotsBalanced'
      /\ pc'[r] \in {"waiting", "jitter"}
      /\ \A w \in Req \ {r} : pc'[w] = pc[w] /\ cred'[w] = cred[w]
  BY <1>1, Beginning
<1>3. Orderly'
  BY <1>1, <1>2 DEF Orderly, RequestTypes, TypeOK, ghosts
<1>4. Flights' /\ SingleFlight'
  BY <1>1, <1>2 DEF Flights, SingleFlight
<1>5. Issued'
  <2>1. cred'[r] = c
    BY <1>1 DEF TypeOK
  <2>. QED
    BY <1>1, <1>2, <2>1 DEF Issued, ghosts
<1>6. Handed'
  BY <1>1, <1>2 DEF Handed, Drained, ghosts
<1>7. Kept'
  BY <1>1 DEF Kept, ghosts
<1>. QED
  BY <1>3, <1>4, <1>5, <1>6, <1>7 DEF RefreshInv

\* A step of one request that leaves locks and slots alone.
LEMMA Moving ==
    ASSUME RefreshInv, NEW r \in Req, ~Running(r),
           NEW x \in {"idle", "sending"}, pc' = [pc EXCEPT ![r] = x],
           NEW c \in Version \cup {Null}, c <= valid[acct[r]], x = "sending" => c # Null,
           cred' = [cred EXCEPT ![r] = c],
           attempt' \in [Req -> 0..MaxAttempts],
           \A w \in Req \ {r} : attempt'[w] = attempt[w],
           UNCHANGED <<awaiting, guards, dedup>>,
           now' = now, valid' = valid, rotatedAt' = rotatedAt,
           faulty' \in BOOLEAN,
           row' \in [Account -> Version], newest' \in [Account -> Version],
           \A a \in Account : row'[a] <= valid[a] /\ newest'[a] <= valid[a]
    PROVE  Orderly' /\ Flights' /\ SingleFlight' /\ Issued' /\ Kept'
<1>1. /\ TypeOK /\ Flights /\ SingleFlight /\ Issued /\ Kept
      /\ HasToken /\ Retrying /\ LocksRun /\ WaitersHaveRefresh /\ SlotsBalanced
  BY DEF RefreshInv, Orderly
<1>2. lock' = lock /\ held' = held /\ slots' = slots /\ awaiting' = awaiting
  BY DEF guards
<1>3. pc'[r] = x /\ cred'[r] = c
      /\ \A w \in Req \ {r} : pc'[w] = pc[w] /\ cred'[w] = cred[w]
  BY <1>1 DEF TypeOK
<1>4. \A w \in Req : Running(w) => w # r /\ Running(w)'
  BY <1>3 DEF Running
<1>5. TypeOK'
  BY <1>1, <1>2 DEF TypeOK, Step
<1>6. HasToken' /\ Retrying'
  BY <1>1, <1>3 DEF HasToken, Retrying
<1>7. LocksRun'
  <2> SUFFICES ASSUME NEW b \in Account, lock[b] # NoReq
               PROVE  pc'[lock[b]] \in {"jitter", "joined", "fetching"}
                      /\ acct[lock[b]] = b
    BY <1>2 DEF LocksRun, Running
  <2>1. lock[b] \in Req /\ Running(lock[b]) /\ acct[lock[b]] = b
    BY <1>1 DEF TypeOK, LocksRun
  <2>. QED
    BY <1>4, <2>1 DEF Running
<1>8. WaitersHaveRefresh'
  <2> SUFFICES ASSUME NEW w \in Req, pc'[w] = "waiting"
               PROVE  /\ awaiting[w] \in Req /\ acct[awaiting[w]] = acct[w]
                      /\ pc'[awaiting[w]] \in {"jitter", "joined", "fetching"}
    BY <1>2 DEF WaitersHaveRefresh, Running
  <2>1. /\ awaiting[w] \in Req /\ acct[awaiting[w]] = acct[w] /\ Running(awaiting[w])
    BY <1>1, <1>3 DEF WaitersHaveRefresh
  <2>. QED
    BY <1>4, <2>1 DEF Running
<1>9. SlotsBalanced'
  <2>1. /\ \A w \in Req : held[w] => Running(w)'
        /\ held' = held /\ slots' = slots
    BY <1>1, <1>2, <1>4 DEF SlotsBalanced
  <2>. QED
    BY <1>1, <2>1 DEF SlotsBalanced
<1>10. Flights' /\ SingleFlight'
  BY <1>1, <1>3 DEF Flights, SingleFlight
<1>11. Issued'
  BY <1>1, <1>3 DEF Issued
<1>12. Kept'
  BY <1>1 DEF Kept
<1>. QED
  BY <1>5, <1>6, <1>7, <1>8, <1>9, <1>10, <1>11, <1>12 DEF Orderly

\* A refresh is presented: it joins one in flight or asks the provider.
LEMMA Joining ==
    ASSUME Orderly, NEW r \in Req, pc[r] = "jitter",
           NEW x \in {"joined", "fetching"}, pc' = [pc EXCEPT ![r] = x],
           UNCHANGED <<request, guards, now, row, valid, ghosts>>,
           dedup' \in [Account -> [Version -> Entry]]
    PROVE  /\ Orderly' /\ pc'[r] = x
           /\ \A w \in Req \ {r} : pc'[w] = pc[w]
<1>1. TypeOK /\ HasToken /\ Retrying /\ LocksRun /\ WaitersHaveRefresh /\ SlotsBalanced
  BY DEF Orderly
<1>2. /\ cred' = cred /\ attempt' = attempt /\ awaiting' = awaiting
      /\ lock' = lock /\ held' = held /\ slots' = slots
      /\ rotatedAt' = rotatedAt /\ newest' = newest /\ faulty' = faulty
  BY DEF request, guards, ghosts
<1>3. pc'[r] = x /\ \A w \in Req \ {r} : pc'[w] = pc[w]
  BY <1>1 DEF TypeOK
<1>4. \A w \in Req : Running(w) => Running(w)'
  BY <1>3 DEF Running
<1>5. TypeOK'
  BY <1>1, <1>2 DEF TypeOK, Step
<1>6. HasToken' /\ Retrying'
  BY <1>1, <1>2, <1>3 DEF HasToken, Retrying
<1>7. LocksRun'
  <2> SUFFICES ASSUME NEW b \in Account, lock[b] # NoReq
               PROVE  pc'[lock[b]] \in {"jitter", "joined", "fetching"}
                      /\ acct[lock[b]] = b
    BY <1>2 DEF LocksRun, Running
  <2>1. lock[b] \in Req /\ Running(lock[b]) /\ acct[lock[b]] = b
    BY <1>1 DEF TypeOK, LocksRun
  <2>. QED
    BY <1>4, <2>1 DEF Running
<1>8. WaitersHaveRefresh'
  <2> SUFFICES ASSUME NEW w \in Req, pc'[w] = "waiting"
               PROVE  /\ awaiting[w] \in Req /\ acct[awaiting[w]] = acct[w]
                      /\ pc'[awaiting[w]] \in {"jitter", "joined", "fetching"}
    BY <1>2 DEF WaitersHaveRefresh, Running
  <2>1. /\ awaiting[w] \in Req /\ acct[awaiting[w]] = acct[w] /\ Running(awaiting[w])
    BY <1>1, <1>3 DEF WaitersHaveRefresh
  <2>. QED
    BY <1>4, <2>1 DEF Running
<1>9. SlotsBalanced'
  <2>1. \A w \in Req : held[w] => Running(w)'
    BY <1>1, <1>4 DEF SlotsBalanced
  <2>. QED
    BY <1>1, <1>2, <2>1 DEF SlotsBalanced
<1>. QED
  BY <1>3, <1>5, <1>6, <1>7, <1>8, <1>9 DEF Orderly

LEMMA Presenting ==
    ASSUME RefreshInv, NEW r \in Req, Present(r)
    PROVE  RefreshInv'
<1> DEFINE a == acct[r]
           v == cred[r]
           entry == dedup[a][v]
<1>1. /\ Orderly /\ TypeOK /\ Flights /\ SingleFlight /\ Issued /\ Kept /\ Handed
      /\ pc[r] = "jitter" /\ Drained
      /\ UNCHANGED <<now, row, valid, ghosts>>
  BY DEF RefreshInv, Orderly, Present
<1>2. /\ rotatedAt' = rotatedAt /\ newest' = newest /\ faulty' = faulty
      /\ now' = now /\ row' = row /\ valid' = valid
  BY <1>1 DEF ghosts
<1>3. a \in Account /\ v \in Version /\ entry \in Entry
  BY <1>1, RefreshAssumption DEF Orderly, HasToken, TypeOK
<1>4. CASE PresentJoin(r, entry)
  <2>1. pc' = [pc EXCEPT ![r] = "joined"] /\ UNCHANGED <<request, guards, dedup>>
    BY <1>4 DEF PresentJoin
  <2>2. /\ Orderly' /\ pc'[r] = "joined"
        /\ \A w \in Req \ {r} : pc'[w] = pc[w]
    BY <1>1, <2>1, Joining DEF TypeOK
  <2>3. cred' = cred
    BY <2>1 DEF request
  <2>4. Flights' /\ SingleFlight'
    BY <1>1, <2>1, <2>2, <2>3 DEF Flights, SingleFlight
  <2>5. Issued' /\ Kept' /\ Handed'
    BY <1>1, <1>2, <2>1, <2>2, <2>3 DEF Issued, Kept, Handed, Drained
  <2>. QED
    BY <2>2, <2>4, <2>5 DEF RefreshInv
<1>5. CASE Recent(entry) /\ Finish({r}, a, entry.result) /\ UNCHANGED dedup
  <2>1. /\ entry.result \in Result /\ entry.result \in Int
        /\ entry.result <= valid[a]
    BY <1>1, <1>3, RefreshAssumption
       DEF Entry, Issued, Result, Version, Null, Unrecoverable
  <2>2. /\ RequestTypes' /\ HasToken' /\ Retrying'
        /\ LocksRun' /\ WaitersHaveRefresh' /\ SlotsBalanced'
        /\ \A w \in Req :
              \/ w \notin {r} /\ pc'[w] = pc[w] /\ cred'[w] = cred[w]
              \/ /\ acct[w] = a
                 /\ pc'[w] \in {"persisting", "sending", "backoff", "idle"}
                 /\ cred'[w] \in {entry.result, Null, cred[w]}
    <3> DEFINE T == {r}
               result == entry.result
    <3>1. /\ T \in SUBSET Req /\ \A t \in T : Running(t) /\ acct[t] = a
          /\ \A w \in Req : w \notin T => w \notin {r}
          /\ result \in Result /\ Finish(T, a, result) /\ result = entry.result
      BY <1>1, <1>5, <2>1 DEF Running
    <3> HIDE DEF T, result, entry, a
    <3>2. /\ RequestTypes' /\ HasToken' /\ Retrying'
          /\ LocksRun' /\ WaitersHaveRefresh' /\ SlotsBalanced'
          /\ \A w \in Req :
                \/ w \notin T /\ pc'[w] = pc[w] /\ cred'[w] = cred[w]
                \/ /\ acct[w] = a
                   /\ pc'[w] \in {"persisting", "sending", "backoff", "idle"}
                   /\ cred'[w] \in {result, Null, cred[w]}
      BY <1>1, <1>3, <3>1, Ending
    <3>. QED
      BY <3>1, <3>2
  <2>3. Orderly'
    BY <1>1, <1>2, <1>5, <2>2 DEF Orderly, RequestTypes, TypeOK
  <2>4. Flights' /\ SingleFlight'
    BY <1>1, <1>5, <2>2 DEF Flights, SingleFlight
  <2>5. Issued'
    <3>1. ASSUME NEW w \in Req PROVE cred'[w] <= valid[acct[w]]
      <4>1. cred[w] <= valid[acct[w]] /\ acct[w] \in Account
            /\ valid[acct[w]] \in Int /\ 0 <= valid[acct[w]]
        BY <1>1, RefreshAssumption DEF TypeOK, Issued, Version
      <4>. QED
        BY <2>1, <2>2, <4>1 DEF Null
    <3>. QED
      BY <1>1, <1>2, <1>5, <3>1 DEF Issued
  <2>6. Kept'
    BY <1>1, <1>2, <1>5 DEF Kept
  <2>7. Handed'
    BY <1>1, <1>2 DEF Handed, Drained
  <2>. QED
    BY <2>3, <2>4, <2>5, <2>6, <2>7 DEF RefreshInv
<1>6. CASE /\ entry.state # "flight" /\ ~Recent(entry)
           /\ pc' = [pc EXCEPT ![r] = "fetching"]
           /\ dedup' = [dedup EXCEPT ![a][v] = [NoEntry EXCEPT !.state = "flight"]]
           /\ UNCHANGED <<request, guards>>
  <2> DEFINE flight == [NoEntry EXCEPT !.state = "flight"]
  <2>1. flight \in Entry /\ flight.state = "flight" /\ flight.result = 0
    BY DEF NoEntry, Entry, Result, Null
  <2>2. /\ dedup' \in [Account -> [Version -> Entry]] /\ dedup'[a][v] = flight
        /\ \A b \in Account, u \in Version :
              b # a \/ u # v => dedup'[b][u] = dedup[b][u]
    <3> HIDE DEF flight, a, v
    <3>. QED
      BY <1>1, <1>3, <1>6, <2>1 DEF TypeOK, flight
  <2>3. /\ Orderly' /\ pc'[r] = "fetching"
        /\ \A w \in Req \ {r} : pc'[w] = pc[w]
    BY <1>1, <1>6, <2>2, Joining
  <2>4. cred' = cred
    BY <1>6 DEF request
  <2>5. ASSUME NEW w \in Req, w # r, pc'[w] = "fetching"
        PROVE  /\ acct[w] \in Account /\ cred[w] \in Version
               /\ acct[w] # a \/ cred[w] # v
               /\ dedup[acct[w]][cred[w]].state = "flight"
    BY <1>1, <1>6, <2>3, <2>5, RefreshAssumption DEF Flights, Orderly, HasToken
  <2>6. Flights'
    <3> SUFFICES ASSUME NEW w \in Req, pc'[w] = "fetching"
                 PROVE  dedup'[acct[w]][cred[w]].state = "flight"
      BY <2>4 DEF Flights
    <3>1. CASE w = r
      BY <2>1, <2>2, <3>1
    <3>2. CASE w # r
      BY <2>2, <2>5, <3>2
    <3>. QED
      BY <3>1, <3>2
  <2>7. SingleFlight'
    BY <1>1, <2>3, <2>4, <2>5 DEF SingleFlight
  <2>8. Issued'
    <3>1. ASSUME NEW b \in Account, NEW u \in Version
          PROVE  dedup'[b][u].result <= valid[b]
      <4>1. valid[b] \in Int /\ 0 <= valid[b] /\ dedup[b][u].result <= valid[b]
        <5>1. valid[b] \in Version
          BY <1>1 DEF TypeOK
        <5>. QED
          BY <1>1, <5>1, RefreshAssumption DEF Version, Issued
      <4>. QED
        BY <2>1, <2>2, <4>1
    <3>. QED
      BY <1>1, <1>2, <2>4, <3>1 DEF Issued
  <2>9. Kept'
    <3> SUFFICES ASSUME NEW b \in Account, NEW u \in Version, rotatedAt[b][u] < MaxTime
                 PROVE  /\ rotatedAt[b][u] <= now
                        /\ dedup'[b][u].state # "none"
                        /\ dedup'[b][u].state = "cached"
                              => dedup'[b][u].until >= rotatedAt[b][u] + Ttl
      BY <1>2 DEF Kept
    <3>. QED
      BY <1>1, <2>1, <2>2 DEF Kept
  <2>10. Handed'
    BY <1>1, <1>2 DEF Handed, Drained
  <2>. QED
    BY <2>3, <2>6, <2>7, <2>8, <2>9, <2>10 DEF RefreshInv
<1>. QED
  BY <1>4, <1>5, <1>6 DEF Present

\* The provider replaces the token; the new one is written before anything else.
LEMMA Replacing ==
    ASSUME RefreshInv, NEW r \in Req, Rotate(r)
    PROVE  RefreshInv'
<1> DEFINE a == acct[r]
           v == cred[r]
<1>1. /\ TypeOK /\ Handed /\ Drained /\ pc[r] = "fetching"
      /\ v = valid[a] /\ valid[a] < MaxVersion
      /\ valid' = [valid EXCEPT ![a] = @ + 1]
      /\ rotatedAt' = [rotatedAt EXCEPT ![a][v] = now]
      /\ UNCHANGED <<now, row, newest>>
  BY DEF RefreshInv, Orderly, Rotate
<1>2. a \in Account /\ v \in Version /\ now \in Nat
  BY <1>1, RefreshAssumption DEF RefreshInv, Orderly, HasToken, TypeOK
<1>3. /\ valid' \in [Account -> Version] /\ valid[a] + 1 \in Version
      /\ valid'[a] = valid[a] + 1 /\ valid'[a] \in Int /\ 0 <= valid'[a]
      /\ \A b \in Account : valid[b] <= valid'[b] /\ (b # a => valid'[b] = valid[b])
  <2>1. valid \in [Account -> Version] /\ \A b \in Account : valid[b] \in Int
    BY <1>1 DEF TypeOK, Version
  <2>2. valid[a] + 1 \in Version /\ 0 <= valid[a] + 1
    BY <1>1, <1>2, <2>1, RefreshAssumption DEF Version
  <2> HIDE DEF a
  <2>3. /\ valid'[a] = valid[a] + 1
        /\ \A b \in Account : b # a => valid'[b] = valid[b]
    BY <1>1, <1>2, <2>1
  <2>4. valid' \in [Account -> Version]
    BY <1>1, <1>2, <2>1, <2>2
  <2>. QED
    BY <2>1, <2>2, <2>3, <2>4, <1>2
<1>4. /\ rotatedAt' \in [Account -> [Version -> Nat]]
      /\ \A b \in Account, u \in Version :
            \/ rotatedAt'[b][u] = rotatedAt[b][u]
            \/ b = a /\ u = v /\ rotatedAt'[b][u] = now
  <2> HIDE DEF a, v
  <2>. QED
    BY <1>1, <1>2 DEF TypeOK
<1>5. CASE Resolve(r, valid[a] + 1) /\ UNCHANGED faulty
  <2>1. valid[a] + 1 \in Result /\ valid[a] + 1 <= valid'[a] /\ valid[a] + 1 > 0
    BY <1>1, <1>2, <1>3 DEF Result, TypeOK, Version
  <2>2. /\ Orderly' /\ Flights' /\ SingleFlight' /\ Issued' /\ Kept'
        /\ pc'[r] = "persisting" /\ cred'[r] = valid[a] + 1
    <3> DEFINE result == valid[a] + 1
    <3>1. Resolve(r, result) /\ result \in Result /\ result <= valid'[a] /\ result > 0
      BY <1>5, <2>1
    <3> HIDE DEF result
    <3>2. /\ Orderly' /\ Flights' /\ SingleFlight' /\ Issued' /\ Kept'
          /\ pc'[r] = "persisting" /\ cred'[r] = result
      BY <1>1, <1>3, <1>4, <1>5, <3>1, Resolving DEF TypeOK
    <3>. QED
      BY <3>2 DEF result
  <2>3. Handed'
    <3> SUFFICES ASSUME ~faulty', NEW b \in Account
                 PROVE  \/ newest'[b] = valid'[b]
                        \/ \E w \in Req : /\ pc'[w] = "persisting" /\ acct[w] = b
                                          /\ cred'[w] = valid'[b]
      BY DEF Handed
    <3>1. CASE b = a
      BY <1>3, <2>2, <3>1
    <3>2. CASE b # a
      BY <1>1, <1>3, <1>5, <3>2 DEF Handed, Drained
    <3>. QED
      BY <3>1, <3>2
  <2>. QED
    BY <2>2, <2>3 DEF RefreshInv
<1>6. CASE Resolve(r, Null) /\ faulty' = TRUE
  <2>1. Null \in Result /\ Null <= valid'[a]
    BY <1>3 DEF Result, Null
  <2>2. Orderly' /\ Flights' /\ SingleFlight' /\ Issued' /\ Kept'
    BY <1>1, <1>3, <1>4, <1>6, <2>1, Resolving DEF TypeOK
  <2>3. Handed'
    BY <1>6 DEF Handed
  <2>. QED
    BY <2>2, <2>3 DEF RefreshInv
<1>. QED
  BY <1>5, <1>6 DEF Rotate

LEMMA Keeping ==
    ASSUME RefreshInv, NEW r \in Req, Keep(r)
    PROVE  RefreshInv'
<1> DEFINE a == acct[r]
<1>1. /\ TypeOK /\ Handed /\ Drained /\ pc[r] = "fetching" /\ Issued
      /\ now' = now /\ row' = row /\ valid' = valid
      /\ rotatedAt' = rotatedAt /\ newest' = newest /\ faulty' = faulty
  BY DEF RefreshInv, Orderly, Keep, ghosts
<1>2. a \in Account /\ cred[r] \in Version /\ valid[a] \in Version
  BY <1>1, RefreshAssumption DEF RefreshInv, Orderly, HasToken, TypeOK
<1>3. PICK result \in {cred[r], Null, Unrecoverable} : Resolve(r, result)
  BY DEF Keep
<1>4. result \in Result /\ result <= valid[a]
  BY <1>1, <1>2, <1>3, RefreshAssumption
     DEF Result, Null, Unrecoverable, Version, Issued
<1>5. /\ \A b \in Account : valid[b] <= valid'[b]
      /\ valid' \in [Account -> Version] /\ faulty' \in BOOLEAN
      /\ rotatedAt' \in [Account -> [Version -> Nat]]
  BY <1>1 DEF TypeOK, Version
<1>6. Orderly' /\ Flights' /\ SingleFlight' /\ Issued' /\ Kept'
  BY <1>1, <1>3, <1>4, <1>5, Resolving
<1>7. Handed'
  BY <1>1 DEF Handed, Drained
<1>. QED
  BY <1>6, <1>7 DEF RefreshInv

\* The row gets what the request has; should it be the newest token, it has it now.
LEMMA Persisting ==
    ASSUME RefreshInv, NEW r \in Req, Persist(r)
    PROVE  RefreshInv'
<1> DEFINE a == acct[r]
           x == Onward(r)
           c == IF x = "idle" THEN Null ELSE cred[r]
<1>1. /\ TypeOK /\ Issued /\ Handed /\ pc[r] = "persisting"
      /\ pc' = [pc EXCEPT ![r] = x] /\ cred' = [cred EXCEPT ![r] = c]
      /\ attempt' = [attempt EXCEPT ![r] = 0]
      /\ \A w \in Req \ {r} : attempt'[w] = attempt[w]
      /\ now' = now /\ valid' = valid /\ rotatedAt' = rotatedAt
      /\ UNCHANGED <<awaiting, guards, dedup>>
  BY DEF RefreshInv, Orderly, TypeOK, Persist
<1>2. /\ a \in Account /\ cred[r] \in Version /\ cred[r] <= valid[a]
      /\ x \in {"idle", "sending"} /\ cred[r] # Null
      /\ \A b \in Account : valid[b] \in Int /\ 0 <= valid[b] /\ newest[b] \in Int
  <2>1. a \in Account /\ valid[a] \in Version
    BY <1>1, RefreshAssumption DEF TypeOK
  <2>2. cred[r] \in Version /\ cred[r] <= valid[a]
    BY <1>1 DEF RefreshInv, Orderly, HasToken, Issued
  <2>3. x \in {"idle", "sending"}
    BY DEF Onward
  <2>4. \A b \in Account : valid[b] \in Version /\ newest[b] \in Version
    BY <1>1 DEF TypeOK
  <2>. QED
    BY <2>1, <2>2, <2>3, <2>4 DEF Version, Null
<1>3. /\ c \in Version \cup {Null} /\ c <= valid[a] /\ (x = "sending" => c # Null)
      /\ attempt' \in [Req -> 0..MaxAttempts] /\ ~Running(r)
  BY <1>1, <1>2, RefreshAssumption DEF TypeOK, Null, Running
<1>4. ASSUME faulty' \in BOOLEAN,
             row' \in [Account -> Version], newest' \in [Account -> Version],
             \A b \in Account : row'[b] <= valid[b] /\ newest'[b] <= valid[b]
      PROVE  Orderly' /\ Flights' /\ SingleFlight' /\ Issued' /\ Kept'
  <2> HIDE DEF x, c
  <2>. QED
    BY <1>1, <1>2, <1>3, <1>4, Moving
<1>5. CASE /\ row' = [row EXCEPT ![a] = cred[r]]
           /\ newest' = [newest EXCEPT ![a] = IF row'[a] > @ THEN row'[a] ELSE @]
           /\ UNCHANGED faulty
  <2>1. /\ row' \in [Account -> Version] /\ row'[a] = cred[r]
        /\ \A b \in Account : row'[b] <= valid[b]
    BY <1>1, <1>2, <1>5 DEF TypeOK, Issued
  <2>2. /\ newest' \in [Account -> Version]
        /\ newest'[a] = IF cred[r] > newest[a] THEN cred[r] ELSE newest[a]
        /\ \A b \in Account : b # a => newest'[b] = newest[b]
    <3> HIDE DEF a
    <3>. QED
      BY <1>1, <1>2, <1>5, <2>1 DEF TypeOK
  <2>3. \A b \in Account : newest'[b] <= valid[b]
    BY <1>1, <1>2, <2>2 DEF Issued
  <2>4. Handed'
    <3> SUFFICES ASSUME ~faulty, NEW b \in Account
                 PROVE  \/ newest'[b] = valid[b]
                        \/ \E w \in Req : /\ pc'[w] = "persisting" /\ acct[w] = b
                                          /\ cred'[w] = valid[b]
      BY <1>1, <1>5 DEF Handed
    <3>1. CASE newest[b] = valid[b]
      BY <1>2, <2>2, <3>1 DEF Version
    <3>2. ASSUME NEW w \in Req, pc[w] = "persisting", acct[w] = b, cred[w] = valid[b]
          PROVE  \/ newest'[b] = valid[b]
                 \/ pc'[w] = "persisting" /\ cred'[w] = valid[b]
      <4>1. CASE w = r
        <5>1. newest[b] <= valid[b] /\ newest[b] \in Int /\ valid[b] \in Int
          BY <1>1, <1>2 DEF Issued
        <5>. QED
          BY <2>2, <3>2, <4>1, <5>1
      <4>2. CASE w # r
        BY <1>1, <3>2, <4>2 DEF TypeOK
      <4>. QED
        BY <4>1, <4>2
    <3>3. newest[b] = valid[b] \/ \E w \in Req :
              pc[w] = "persisting" /\ acct[w] = b /\ cred[w] = valid[b]
      BY <1>1 DEF Handed
    <3>. QED
      BY <3>1, <3>2, <3>3
  <2>5. faulty' \in BOOLEAN
    BY <1>1, <1>5, Zenon DEF TypeOK
  <2>. QED
    BY <1>4, <2>1, <2>2, <2>3, <2>4, <2>5 DEF RefreshInv
<1>6. CASE faulty' = TRUE /\ UNCHANGED <<row, newest>>
  <2>1. Handed'
    BY <1>6 DEF Handed
  <2>2. /\ row' \in [Account -> Version] /\ newest' \in [Account -> Version]
        /\ \A b \in Account : row'[b] <= valid[b] /\ newest'[b] <= valid[b]
    BY <1>1, <1>6 DEF TypeOK, Issued
  <2>. QED
    BY <1>4, <1>6, <2>1, <2>2 DEF RefreshInv
<1>. QED
  BY <1>5, <1>6 DEF Persist, Written

LEMMA Crashing ==
    ASSUME RefreshInv, Crash
    PROVE  RefreshInv'
<1>1. /\ TypeOK /\ Issued /\ \A i \in Version : i \in Int /\ 1 <= i
      /\ NoEntry \in Entry /\ MaxTime \in Nat /\ NoEntry.result = 0
  BY RefreshAssumption
     DEF RefreshInv, Orderly, Version, NoEntry, Entry, Result, Null
<1>2. TypeOK'
  <2>1. /\ row' \in [Account -> Version] /\ valid' \in [Account -> Version]
        /\ newest' \in [Account -> Version] /\ now' \in Nat /\ faulty' \in BOOLEAN
    BY <1>1 DEF Crash, TypeOK
  <2>2. /\ pc' \in [Req -> Step] /\ cred' \in [Req -> Version \cup {Null}]
        /\ attempt' \in [Req -> 0..MaxAttempts]
    BY RefreshAssumption DEF Crash, Step
  <2>3. /\ awaiting' \in [Req -> Req \cup {NoReq}]
        /\ lock' \in [Account -> Req \cup {NoReq}] /\ held' \in [Req -> BOOLEAN]
    BY DEF Crash
  <2>4. slots' \in [Account -> Nat] /\ rotatedAt' \in [Account -> [Version -> Nat]]
    BY <1>1 DEF Crash
  <2>5. dedup' \in [Account -> [Version -> Entry]]
    BY <1>1 DEF Crash
  <2>. QED
    BY <2>1, <2>2, <2>3, <2>4, <2>5 DEF TypeOK
<1>3. /\ HasToken' /\ Retrying' /\ LocksRun' /\ WaitersHaveRefresh'
      /\ SingleFlight' /\ Flights'
  BY <1>2 DEF Crash, HasToken, Retrying, LocksRun, WaitersHaveRefresh, SingleFlight, Flights
<1>4. SlotsBalanced'
  <2>1. \A a \in Account : {w \in Req : held'[w] /\ acct[w] = a} = {}
    BY DEF Crash
  <2>2. \A a \in Account : slots'[a] = 0
    BY DEF Crash
  <2>3. \A w \in Req : ~held'[w]
    BY DEF Crash
  <2>4. ASSUME NEW a \in Account
        PROVE  /\ slots'[a] = Cardinality({w \in Req : held'[w] /\ acct[w] = a})
               /\ slots'[a] <= SlotCap
    BY <2>1, <2>2, FS_EmptySet, RefreshAssumption
  <2>. QED
    BY <2>3, <2>4 DEF SlotsBalanced
<1>5. Issued'
  <2>1. \A a \in Account : valid[a] \in Int /\ 0 <= valid[a]
    BY <1>1 DEF TypeOK
  <2>2. \A w \in Req : cred'[w] = 0 /\ acct[w] \in Account
    BY RefreshAssumption DEF Crash, Null
  <2>3. \A a \in Account, v \in Version : dedup'[a][v].result = 0
    BY <1>1 DEF Crash
  <2>4. row' = row /\ valid' = valid /\ newest' = newest
    BY DEF Crash
  <2>. QED
    BY <1>1, <2>1, <2>2, <2>3, <2>4 DEF Issued
<1>6. Handed'
  BY DEF Crash, Handed
<1>7. Kept'
  BY <1>1 DEF Crash, Kept
<1>. QED
  BY <1>2, <1>3, <1>4, <1>5, <1>6, <1>7 DEF RefreshInv, Orderly

\* Only the clock moves, if anything does.
LEMMA Resting ==
    ASSUME Orderly, now' \in Nat,
           UNCHANGED <<row, valid, pc, request, guards, dedup, ghosts>>
    PROVE  Orderly'
<1>1. /\ row' = row /\ valid' = valid /\ pc' = pc /\ cred' = cred
      /\ attempt' = attempt /\ awaiting' = awaiting /\ lock' = lock
      /\ held' = held /\ slots' = slots /\ dedup' = dedup
      /\ rotatedAt' = rotatedAt /\ newest' = newest /\ faulty' = faulty
  BY DEF request, guards, ghosts
<1>2. TypeOK' /\ HasToken' /\ Retrying'
  BY <1>1 DEF Orderly, TypeOK, HasToken, Retrying
<1>3. LocksRun' /\ WaitersHaveRefresh'
  BY <1>1 DEF Orderly, LocksRun, WaitersHaveRefresh, Running
<1>4. SlotsBalanced'
  BY <1>1 DEF Orderly, SlotsBalanced, Running
<1>. QED
  BY <1>2, <1>3, <1>4 DEF Orderly

LEMMA Ticking ==
    ASSUME RefreshInv, Tick
    PROVE  RefreshInv'
<1>1. /\ now \in Nat /\ now' = now + 1
      /\ row' = row /\ valid' = valid /\ pc' = pc /\ cred' = cred
      /\ attempt' = attempt /\ awaiting' = awaiting /\ lock' = lock
      /\ held' = held /\ slots' = slots /\ dedup' = dedup
      /\ rotatedAt' = rotatedAt /\ newest' = newest /\ faulty' = faulty
  BY DEF RefreshInv, Orderly, TypeOK, Tick, request, guards, ghosts
<1>2. Orderly'
  BY <1>1, Resting DEF RefreshInv, Tick
<1>3. Flights' /\ SingleFlight' /\ Issued' /\ Handed'
  BY <1>1 DEF RefreshInv, Flights, SingleFlight, Issued, Handed
<1>4. Kept'
  <2>1. \A a \in Account, v \in Version : rotatedAt[a][v] \in Nat
    BY DEF RefreshInv, Orderly, TypeOK
  <2>. QED
    BY <1>1, <2>1 DEF RefreshInv, Kept
<1>. QED
  BY <1>2, <1>3, <1>4 DEF RefreshInv

LEMMA Stuttering == RefreshInv /\ UNCHANGED vars => RefreshInv'
<1> SUFFICES ASSUME RefreshInv, UNCHANGED vars PROVE RefreshInv'
  OBVIOUS
<1>1. Orderly'
  BY Resting DEF vars, RefreshInv, Orderly, TypeOK
<1>2. Flights' /\ SingleFlight' /\ Issued' /\ Handed' /\ Kept'
  BY DEF vars, request, ghosts, RefreshInv, Flights, SingleFlight, Issued, Handed, Kept
<1>. QED
  BY <1>1, <1>2 DEF RefreshInv

\* A request is sent or answered: no lock, no slot and no row changes.
LEMMA Sending ==
    ASSUME RefreshInv, Drained, NEW r \in Req, ~Running(r),
           NEW x \in {"idle", "sending"}, pc' = [pc EXCEPT ![r] = x],
           NEW c \in Version \cup {Null}, c <= valid[acct[r]], x = "sending" => c # Null,
           cred' = [cred EXCEPT ![r] = c],
           UNCHANGED <<now, row, valid, attempt, awaiting, guards, dedup, ghosts>>
    PROVE  RefreshInv'
<1>1. /\ TypeOK /\ Issued /\ Handed
      /\ newest' = newest /\ faulty' = faulty /\ rotatedAt' = rotatedAt
  BY DEF RefreshInv, Orderly, ghosts
<1>2. /\ attempt' \in [Req -> 0..MaxAttempts] /\ faulty' \in BOOLEAN
      /\ row' \in [Account -> Version] /\ newest' \in [Account -> Version]
      /\ \A a \in Account : row'[a] <= valid[a] /\ newest'[a] <= valid[a]
  BY <1>1 DEF TypeOK, Issued
<1>3. Orderly' /\ Flights' /\ SingleFlight' /\ Issued' /\ Kept'
  BY <1>1, <1>2, Moving
<1>4. Handed'
  BY <1>1 DEF Handed, Drained
<1>. QED
  BY <1>3, <1>4 DEF RefreshInv

LEMMA Inductive == RefreshInv /\ [Next]_vars => RefreshInv'
<1> SUFFICES ASSUME RefreshInv, [Next]_vars PROVE RefreshInv'
  OBVIOUS
<1>1. TypeOK /\ HasToken /\ Issued
  BY DEF RefreshInv, Orderly
<1>2. ASSUME NEW r \in Req
      PROVE  /\ row[acct[r]] \in Version /\ row[acct[r]] <= valid[acct[r]]
             /\ row[acct[r]] # Null
             /\ cred[r] <= valid[acct[r]]
             /\ pc[r] # "idle" => cred[r] \in Version
             /\ cred = [cred EXCEPT ![r] = cred[r]]
             /\ valid[acct[r]] \in Int /\ Null <= valid[acct[r]]
  <2>1. /\ row[acct[r]] \in Version /\ valid[acct[r]] \in Version
        /\ row[acct[r]] <= valid[acct[r]]
    BY <1>1, RefreshAssumption DEF TypeOK, Issued
  <2>. QED
    BY <1>1, <2>1 DEF TypeOK, HasToken, Issued, Version, Null
<1>3. ASSUME NEW r \in Req, Start(r) PROVE RefreshInv'
  <2>1. /\ Drained /\ pc[r] = "idle" /\ ~Running(r)
        /\ cred' = [cred EXCEPT ![r] = row[acct[r]]]
        /\ UNCHANGED <<now, row, valid, attempt, dedup, ghosts>>
    BY <1>3 DEF Start, Running
  <2>2. CASE Refresh(r)
    <3>1. attempt' \in [Req -> 0..MaxAttempts]
      BY <1>1, <2>1 DEF TypeOK
    <3>. QED
      BY <1>2, <2>1, <2>2, <3>1, Asking
  <2>3. CASE pc' = [pc EXCEPT ![r] = "sending"] /\ UNCHANGED <<awaiting, guards>>
    BY <1>2, <2>1, <2>3, Sending
  <2>. QED
    BY <1>3, <2>2, <2>3 DEF Start
<1>4. ASSUME NEW r \in Req, Respond(r) PROVE RefreshInv'
  <2>1. /\ Drained /\ pc[r] = "sending" /\ ~Running(r)
        /\ pc' = [pc EXCEPT ![r] = "idle"] /\ cred' = [cred EXCEPT ![r] = Null]
        /\ UNCHANGED <<now, row, valid, attempt, awaiting, guards, dedup, ghosts>>
    BY <1>4 DEF Respond, Running
  <2>. QED
    BY <1>2, <2>1, Sending
<1>5. ASSUME NEW r \in Req, Unauthorized(r) \/ Retry(r) PROVE RefreshInv'
  <2>1. /\ Drained /\ pc[r] \in {"sending", "backoff"} /\ Refresh(r)
        /\ UNCHANGED <<now, row, valid, cred, dedup, ghosts>>
        /\ \A w \in Req \ {r} : attempt'[w] = attempt[w]
    BY <1>1, <1>5 DEF Unauthorized, Retry, TypeOK
  <2>2. attempt' \in [Req -> 0..MaxAttempts]
    <3>1. CASE Unauthorized(r)
      BY <1>1, <3>1, RefreshAssumption DEF Unauthorized, TypeOK
    <3>2. CASE Retry(r)
      <4>1. attempt[r] + 1 \in 0..MaxAttempts
        BY <3>2, RefreshAssumption DEF RefreshInv, Orderly, Retrying, Retry
      <4>. QED
        BY <1>1, <3>2, <4>1 DEF Retry, TypeOK
    <3>. QED
      BY <1>5, <3>1, <3>2
  <2>. QED
    BY <1>2, <2>1, <2>2, Asking
<1>6. CASE \E r \in Req : Present(r)
  BY <1>6, Presenting
<1>7. CASE \E r \in Req : Rotate(r)
  BY <1>7, Replacing
<1>8. CASE \E r \in Req : Keep(r)
  BY <1>8, Keeping
<1>9. CASE \E r \in Req : Persist(r)
  BY <1>9, Persisting
<1>10. CASE Tick
  BY <1>10, Ticking
<1>11. CASE Crash
  BY <1>11, Crashing
<1>12. CASE UNCHANGED vars
  BY <1>12, Stuttering
<1>. QED
  BY <1>3, <1>4, <1>5, <1>6, <1>7, <1>8, <1>9, <1>10, <1>11, <1>12 DEF Next, Progress

-----------------------------------------------------------------------------
THEOREM Invariance == Spec => []RefreshInv
  BY Initially, Inductive, PTL DEF Spec

\* The variables of the refresh keep their types (oauthCredentialManager).
THEOREM TypeCorrect == Spec => []TypeOK
<1>1. RefreshInv => TypeOK
  BY DEF RefreshInv, Orderly
<1>. QED
  BY <1>1, Invariance, PTL

\* Whoever awaits a refresh awaits one that runs, even if its lock was evicted
\* (withCredentialRefreshLock).
THEOREM Waiters == Spec => []WaitersHaveRefresh
<1>1. RefreshInv => WaitersHaveRefresh
  BY DEF RefreshInv, Orderly
<1>. QED
  BY <1>1, Invariance, PTL

\* A refresh token is never presented by two calls at once (dedupRefresh).
THEOREM OneFlight == Spec => []SingleFlight
<1>1. RefreshInv => SingleFlight
  BY DEF RefreshInv
<1>. QED
  BY <1>1, Invariance, PTL

\* The slots of an account are those of its refreshes (acquireSlot, releaseSlot).
THEOREM Slots == Spec => []SlotsBalanced
<1>1. RefreshInv => SlotsBalanced
  BY DEF RefreshInv, Orderly
<1>. QED
  BY <1>1, Invariance, PTL

\* Unless something fails, an issued token is in the row before the next event
\* (updateProviderCredentials).
THEOREM Issuance == Spec => []IssuedTokenWritten
<1>1. RefreshInv => IssuedTokenWritten
  <2> SUFFICES ASSUME RefreshInv, Drained, ~faulty PROVE newest = valid
    BY DEF IssuedTokenWritten
  <2>1. \A a \in Account : newest[a] = valid[a]
    BY DEF RefreshInv, Handed, Drained
  <2>2. newest \in [Account -> Version] /\ valid \in [Account -> Version]
    BY DEF RefreshInv, Orderly, TypeOK
  <2>. QED
    BY <2>1, <2>2
<1>. QED
  BY <1>1, Invariance, PTL

\* A retired token is not presented while the result of its refresh is kept
\* (REFRESH_RESULT_TTL_MS of dedupRefresh).
THEOREM NoReplay == Spec => NoReplayWhileKept
<1>1. RefreshInv /\ [Next]_vars => [ReplaysLate]_vars
  <2> SUFFICES ASSUME RefreshInv, Next, NEW r \in Req,
                      pc[r] # "fetching", pc'[r] = "fetching",
                      rotatedAt[acct[r]][cred[r]] < MaxTime
               PROVE  now >= rotatedAt[acct[r]][cred[r]] + Ttl
    BY DEF ReplaysLate, Replays
  <2> DEFINE entry == dedup[acct[r]][cred[r]]
  <2>1. /\ TypeOK /\ HasToken /\ Kept /\ Orderly
        /\ acct[r] \in Account
    BY RefreshAssumption DEF RefreshInv, Orderly
  <2>2. ASSUME NEW w \in Req, NEW x \in Step \ {"fetching"}, pc' = [pc EXCEPT ![w] = x]
        PROVE  FALSE
    BY <2>1, <2>2 DEF TypeOK
  <2>3. ASSUME NEW T \in SUBSET Req, NEW a \in Account, NEW result, Finish(T, a, result)
        PROVE  FALSE
    BY <2>3 DEF Finish, After
  <2>4. ASSUME NEW w \in Req, Refresh(w) PROVE FALSE
    BY <2>2, <2>4 DEF Refresh, Step
  <2>5. ASSUME NEW w \in Req, NEW result, Resolve(w, result) PROVE FALSE
    <3>1. {w} \cup {t \in Req : pc[t] = "joined" /\ acct[t] = acct[w] /\ cred[t] = cred[w]}
              \in SUBSET Req /\ acct[w] \in Account
      BY RefreshAssumption
    <3>. QED
      BY <2>3, <2>5, <3>1 DEF Resolve
  <2>6. ASSUME NEW w \in Req, Present(w)
        PROVE  /\ w = r /\ cred[r] \in Version
               /\ entry.state # "flight" /\ ~Recent(entry)
    <3>1. pc[w] = "jitter" /\ acct[w] \in Account
      BY <2>6, RefreshAssumption DEF Present
    <3>2. ~(PresentJoin(w, dedup[acct[w]][cred[w]]))
      BY <2>2 DEF PresentJoin, Step
    <3>3. {w} \in SUBSET Req
      OBVIOUS
    <3>4. /\ dedup[acct[w]][cred[w]].state # "flight" /\ ~Recent(dedup[acct[w]][cred[w]])
          /\ pc' = [pc EXCEPT ![w] = "fetching"]
      BY <2>3, <2>6, <3>1, <3>2, <3>3 DEF Present
    <3>5. w = r
      BY <2>1, <3>4 DEF TypeOK
    <3>. QED
      BY <2>1, <3>1, <3>4, <3>5 DEF HasToken
  <2>7. CASE \E w \in Req : Present(w)
    <3>1. /\ cred[r] \in Version /\ entry.state # "flight" /\ ~Recent(entry)
          /\ entry \in Entry
      BY <2>1, <2>6, <2>7 DEF TypeOK
    <3>2. /\ entry.state \in {"none", "flight", "cached"} /\ entry.until \in Nat
          /\ rotatedAt[acct[r]][cred[r]] \in Nat /\ now \in Nat /\ Ttl \in Nat
      BY <2>1, <3>1, RefreshAssumption DEF Entry, TypeOK
    <3>3. /\ entry.state # "none"
          /\ entry.state = "cached" => entry.until >= rotatedAt[acct[r]][cred[r]] + Ttl
      BY <2>1, <3>1 DEF Kept
    <3> HIDE DEF entry
    <3>4. entry.state = "cached" /\ ~(entry.until > now)
      BY <3>1, <3>2, <3>3 DEF Recent
    <3>. QED
      BY <3>2, <3>3, <3>4
  <2>8. ASSUME NEW w \in Req, Start(w) \/ Respond(w) \/ Unauthorized(w) \/ Retry(w)
        PROVE  FALSE
    BY <2>2, <2>4, <2>8 DEF Start, Respond, Unauthorized, Retry, Step
  <2>9. ASSUME NEW w \in Req, Rotate(w) \/ Keep(w) PROVE FALSE
    BY <2>5, <2>9 DEF Rotate, Keep
  <2>10. ASSUME NEW w \in Req, Persist(w) PROVE FALSE
    BY <2>2, <2>10 DEF Persist, Onward, Step
  <2>11. CASE Tick \/ Crash
    BY <2>11 DEF Tick, Crash
  <2>. QED
    BY <2>7, <2>8, <2>9, <2>10, <2>11 DEF Next, Progress
<1>. QED
  BY <1>1, Invariance, PTL DEF Spec, NoReplayWhileKept
=============================================================================
