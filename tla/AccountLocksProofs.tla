-------------------------- MODULE AccountLocksProofs --------------------------
(***************************************************************************)
(* The locks on accounts, for any accounts, models, requests, failures and  *)
(* cooldowns: an account nobody contended for is reported healthy only when  *)
(* none of its locks runs, a success unlocks no model that is still locked,   *)
(* and the time to retry at is neither past nor too late.                    *)
(***************************************************************************)
EXTENDS AccountLocks, FiniteSetTheorems, WellFoundedInduction, TLAPS

-----------------------------------------------------------------------------
\* The invariant.

\* Whoever uses or marks an account has one, and a lock to write that is a time.
Ready ==
    /\ \A r \in Req : pc[r] \in {"sent", "marking", "marking401"} => conn[r] \in Conn
    /\ \A r \in Req : pc[r] \in {"marking", "marking401"} => mark[r].until # Null
    /\ \A c \in Conn : reverify[c].step = "writing" => reverify[c].mark.until # Null

\* An account that is not contended has one user at most, whose row is the present
\* one, and none while it is marked in the background.
Alone == \A c \in Conn \ contended :
    /\ \A r, s \in Req : Using(r, c) /\ Using(s, c) => r = s
    /\ \A r \in Req : Using(r, c) => reverify[c].step = "idle"
    /\ \A r \in Req : Using(r, c) /\ pc[r] = "sent" => seen[r] = row[c]

LocksInv == TypeOK /\ Ready /\ Alone /\ HonestUncontended

-----------------------------------------------------------------------------
\* Times and levels.

\* A power of two counts the subsets of a set.
LEMMA PowerNat == ASSUME NEW n \in Nat PROVE 2^n \in Nat
<1>1. IsFiniteSet(1..n) /\ Cardinality(1..n) = n
  BY FS_Interval
<1>2. IsFiniteSet(SUBSET (1..n)) /\ Cardinality(SUBSET (1..n)) = 2^n
  BY <1>1, FS_SUBSET
<1>. QED
  BY <1>2, FS_CardinalityType

LEMMA CooldownNat == ASSUME NEW n \in Nat \ {0} PROVE QuotaCooldown(n) \in Nat
<1>1. 2^(n - 1) \in Nat
  BY PowerNat
<1>2. Base \in Nat /\ MaxBackoff \in Nat
  BY LockAssumption
<1>3. \A p \in Nat : Base * p \in Nat
  BY <1>2
<1>. QED
  BY <1>1, <1>2, <1>3 DEF QuotaCooldown

\* What a failure is to write: a lock in the future or now, a level not too high.
LEMMA MarksType ==
    ASSUME now \in Nat, NEW failure \in Failure, NEW level \in 0..MaxLevel,
           NEW m \in Marks(failure, level)
    PROVE  m \in MarkType /\ m.until # Null
<1>1. /\ MaxLevel \in Nat \ {0} /\ Fixed \in Nat /\ MaxReset \in Nat
      /\ ResetIn \subseteq Nat
  BY LockAssumption
<1>2. CASE failure = "rateLimit"
  <2> DEFINE next == Lowest(level + 1, MaxLevel)
  <2>1. next \in 1..MaxLevel
    BY <1>1 DEF Lowest
  <2>2. QuotaCooldown(next) \in Nat
    BY <1>1, <2>1, CooldownNat
  <2>3. m = [until |-> now + QuotaCooldown(next), level |-> next]
    BY <1>2 DEF Marks
  <2>4. now + QuotaCooldown(next) \in Nat /\ next \in Null..MaxLevel
    BY <1>1, <2>1, <2>2 DEF Null
  <2> HIDE DEF next
  <2>. QED
    BY <2>3, <2>4 DEF MarkType, Null
<1>3. CASE failure = "reset"
  <2>1. PICK d \in ResetIn : m = [until |-> now + Lowest(d, MaxReset), level |-> 0]
    BY <1>3 DEF Marks
  <2>2. now + Lowest(d, MaxReset) \in Nat /\ 0 \in Null..MaxLevel
    BY <1>1 DEF Lowest, Null
  <2>. QED
    BY <2>1, <2>2 DEF MarkType, Null
<1>4. CASE failure \notin {"rateLimit", "reset"}
  <2>1. m = [until |-> now + Fixed, level |-> level]
    BY <1>4 DEF Marks
  <2>2. now + Fixed \in Nat /\ level \in Null..MaxLevel
    BY <1>1 DEF Null
  <2>. QED
    BY <2>1, <2>2 DEF MarkType, Null
<1>. QED
  BY <1>2, <1>3, <1>4

\* Rows as the code writes them.
GoodRow == {w \in Row : \A k \in Key : w.lock[k] >= Absent
                                       /\ w.backoff[k] \in Absent..MaxLevel}

LEMMA RowsGood == TypeOK <=> TypeOK /\ row \in [Conn -> GoodRow]
  BY DEF TypeOK, GoodRow

LEMMA LevelType ==
    ASSUME NEW w \in GoodRow, NEW k \in Key
    PROVE  Level(w, k) \in 0..MaxLevel
<1>1. w.backoff[k] \in Absent..MaxLevel /\ MaxLevel \in Nat
  BY LockAssumption DEF GoodRow
<1>. QED
  BY <1>1 DEF Level, Absent

LEMMA MarkedType ==
    ASSUME NEW w \in GoodRow, NEW k \in Key, NEW m \in MarkType
    PROVE  /\ Marked(w, k, m) \in GoodRow
           /\ Marked(w, k, m).status = "unavailable"
           /\ Marked(w, k, m).lock[k] = m.until
           /\ \A j \in Key \ {k} : Marked(w, k, m).lock[j] = w.lock[j]
<1> DEFINE lock == [w.lock EXCEPT ![k] = m.until]
           backoff == [w.backoff EXCEPT ![k] = m.level]
<1>1. /\ w \in Row /\ w.lock \in [Key -> Int] /\ w.backoff \in [Key -> Int]
      /\ \A j \in Key : w.lock[j] >= Absent /\ w.backoff[j] \in Absent..MaxLevel
  BY DEF GoodRow, Row
<1>2. /\ m.until \in Int /\ m.until >= Absent /\ m.level \in Absent..MaxLevel
      /\ m.level \in Int
  BY LockAssumption DEF MarkType, Null, Absent
<1>3. Marked(w, k, m) = [lock |-> lock, backoff |-> backoff, status |-> "unavailable"]
  <2>1. w \in [lock : [Key -> Int], backoff : [Key -> Int],
               status : {"active", "unavailable"}]
    BY <1>1 DEF Row
  <2> DEFINE w1 == [w EXCEPT !.lock[k] = m.until]
             w2 == [w1 EXCEPT !.backoff[k] = m.level]
  <2>2. w1 = [lock |-> lock, backoff |-> w.backoff, status |-> w.status]
    BY <2>1
  <2>3. w2 = [lock |-> lock, backoff |-> backoff, status |-> w.status]
    <3>1. w1 \in [lock : {lock}, backoff : {w.backoff}, status : {w.status}]
          /\ w1.backoff = w.backoff
      BY <2>2
    <3> HIDE DEF w1, lock
    <3>. QED
      BY <3>1
  <2>4. Marked(w, k, m) = [w2 EXCEPT !.status = "unavailable"]
    BY DEF Marked
  <2>. QED
    BY <2>3, <2>4
<1>4. /\ lock \in [Key -> Int] /\ lock[k] = m.until
      /\ \A j \in Key \ {k} : lock[j] = w.lock[j]
  BY <1>1, <1>2
<1>5. /\ backoff \in [Key -> Int] /\ backoff[k] = m.level
      /\ \A j \in Key \ {k} : backoff[j] = w.backoff[j]
  BY <1>1, <1>2
<1> HIDE DEF lock, backoff
<1>6. \A j \in Key : lock[j] >= Absent /\ backoff[j] \in Absent..MaxLevel
  BY <1>1, <1>2, <1>4, <1>5
<1>. QED
  BY <1>3, <1>4, <1>5, <1>6 DEF GoodRow, Row

LEMMA ClearedType ==
    ASSUME NEW w \in GoodRow, NEW old, NEW k \in Key
    PROVE  Cleared(w, old, k) \in GoodRow
<1> DEFINE lock == [j \in Key |-> IF j \in LocksToClear(old, k) THEN Null ELSE w.lock[j]]
           backoff == [j \in Key |-> IF old.backoff[j] # Absent THEN Null
                                     ELSE w.backoff[j]]
           status == IF LocksLeft(old, k) = {} THEN "active" ELSE w.status
<1>1. /\ w.lock \in [Key -> Int] /\ w.backoff \in [Key -> Int]
      /\ w.status \in {"active", "unavailable"}
      /\ \A j \in Key : w.lock[j] >= Absent /\ w.backoff[j] \in Absent..MaxLevel
  BY DEF GoodRow, Row
<1>2. Cleared(w, old, k) = [lock |-> lock, backoff |-> backoff, status |-> status]
  BY DEF Cleared
<1>3. Null \in Int /\ Null >= Absent /\ Null \in Absent..MaxLevel
  BY LockAssumption DEF Null, Absent
<1>4. lock \in [Key -> Int] /\ \A j \in Key : lock[j] >= Absent
  BY <1>1, <1>3
<1>5. backoff \in [Key -> Int] /\ \A j \in Key : backoff[j] \in Absent..MaxLevel
  BY <1>1, <1>3
<1>6. status \in {"active", "unavailable"}
  BY <1>1
<1> HIDE DEF lock, backoff, status
<1>. QED
  BY <1>2, <1>4, <1>5, <1>6 DEF GoodRow, Row

-----------------------------------------------------------------------------
\* Every action.

LEMMA Initially == Init => LocksInv
<1> SUFFICES ASSUME Init PROVE LocksInv
  OBVIOUS
<1>1. /\ Untouched \in GoodRow /\ Untouched \in Row
      /\ \A k \in Key : Untouched.lock[k] = Absent
  BY LockAssumption DEF Untouched, GoodRow, Row, Absent
<1>2. NoMark \in MarkType /\ NoReverify.step = "idle"
  BY LockAssumption DEF NoMark, MarkType, Null, NoReverify
<1>3. NoReverify \in [step : {"idle", "reading", "writing"}, at : {Null} \cup Nat,
                      mark : MarkType]
  BY <1>2 DEF NoReverify
<1>4. row \in [Conn -> GoodRow]
  BY <1>1 DEF Init
<1>5. TypeOK
  <2>1. /\ now \in Nat \ {0} /\ contended \subseteq Conn /\ requests \in 0..MaxRequests
        /\ pc \in [Req -> {"idle", "selecting", "sent", "marking", "marking401",
                           "answered"}]
    BY LockAssumption DEF Init
  <2>2. /\ model \in [Req -> Key] /\ exclude \in [Req -> SUBSET Conn]
        /\ conn \in [Req -> Conn \cup {NoConn}]
        /\ retryAfter \in [Req -> {Null} \cup Nat]
    BY DEF Init, Key
  <2>3. /\ seen \in [Req -> Row] /\ mark \in [Req -> MarkType]
        /\ reverify \in [Conn -> [step : {"idle", "reading", "writing"},
                                  at : {Null} \cup Nat, mark : MarkType]]
    BY <1>1, <1>2, <1>3 DEF Init
  <2>. QED
    BY <1>4, <2>1, <2>2, <2>3 DEF TypeOK, GoodRow
<1>6. Ready /\ Alone
  BY <1>2 DEF Init, Ready, Alone, Using
<1>7. HonestUncontended
  BY <1>1 DEF Init, HonestUncontended, Honest, RunningLocks, Running, Absent
<1>. QED
  BY <1>5, <1>6, <1>7 DEF LocksInv

\* A step that writes no row and begins no use of an account.
LEMMA Quiet ==
    ASSUME LocksInv, TypeOK', Ready', UNCHANGED <<now, row, background>>,
           \A s \in Req, c \in Conn : Using(s, c)' =>
               /\ Using(s, c)
               /\ pc'[s] = "sent" => pc[s] = "sent" /\ seen'[s] = seen[s]
    PROVE  LocksInv'
<1>1. row' = row /\ now' = now /\ reverify' = reverify /\ contended' = contended
  BY DEF background
<1>2. Alone'
  BY <1>1 DEF LocksInv, Alone
<1>3. HonestUncontended'
  BY <1>1 DEF LocksInv, HonestUncontended, Honest, RunningLocks, Running
<1>. QED
  BY <1>2, <1>3 DEF LocksInv

LEMMA Starting ==
    ASSUME LocksInv, NEW r \in Req, NEW k \in Key, Start(r, k)
    PROVE  LocksInv'
<1>1. TypeOK /\ Ready
  BY DEF LocksInv
<1>2. /\ pc' = [pc EXCEPT ![r] = "selecting"]
      /\ conn' = [conn EXCEPT ![r] = NoConn]
      /\ UNCHANGED <<now, row, seen, mark, background>>
      /\ reverify' = reverify /\ contended' = contended
  BY DEF Start, Goto, background
<1>3. TypeOK'
  <2>1. requests' \in 0..MaxRequests
    BY <1>1, LockAssumption DEF Start, TypeOK
  <2>. QED
    BY <1>1, <1>2, <2>1 DEF Start, TypeOK
<1>4. /\ pc'[r] = "selecting"
      /\ \A s \in Req \ {r} : pc'[s] = pc[s] /\ conn'[s] = conn[s]
  BY <1>1, <1>2 DEF TypeOK
<1>5. Ready'
  BY <1>1, <1>2, <1>4 DEF Ready
<1>6. \A s \in Req, c \in Conn : Using(s, c)' =>
          /\ Using(s, c)
          /\ pc'[s] = "sent" => pc[s] = "sent" /\ seen'[s] = seen[s]
  BY <1>2, <1>4 DEF Using
<1>. QED
  BY <1>2, <1>3, <1>5, <1>6, Quiet

\* Times to retry at are times.
LEMMA Earliest ==
    ASSUME now \in Nat, NEW S \in SUBSET Int, S # {}, \A t \in S : t > now
    PROVE  /\ Min(S) \in S /\ Min(S) \in Nat
           /\ \A t \in S : Min(S) <= t
<1>1. S \in SUBSET Nat
  OBVIOUS
<1>2. PICK m \in S : \A t \in S : ~(<<t, m>> \in OpToRel(<, Nat))
  BY <1>1, NatLessThanWellFounded, WFMin
<1>3. ASSUME NEW t \in S PROVE m <= t
  <2>1. t \in Nat /\ m \in Nat
    BY <1>1
  <2>2. ~(<<t, m>>[1] < <<t, m>>[2])
    BY <1>2, <2>1 DEF OpToRel
  <2>. QED
    BY <2>1, <2>2
<1>4. Min(S) \in S /\ \A t \in S : Min(S) <= t
  BY <1>3 DEF Min
<1>. QED
  BY <1>1, <1>4

LEMMA Expiries ==
    ASSUME TypeOK, NEW L \in SUBSET Conn
    PROVE  LET S == UNION {RunningLocks(row[c]) : c \in L}
           IN  S \in SUBSET Int /\ \A t \in S : t > now
<1>1. ASSUME NEW c \in Conn
      PROVE  RunningLocks(row[c]) \in SUBSET Int /\ \A t \in RunningLocks(row[c]) : t > now
  <2>1. row[c].lock \in [Key -> Int]
    BY DEF TypeOK, Row
  <2>. QED
    BY <2>1 DEF RunningLocks, Running
<1>. QED
  BY <1>1

LEMMA GivingUp ==
    ASSUME LocksInv, NEW r \in Req, GiveUp(r)
    PROVE  LocksInv'
<1> DEFINE locked == {c \in Conn : IsModelLockActive(row[c], model[r])}
           expiries == UNION {RunningLocks(row[c]) : c \in locked}
<1>1. TypeOK /\ Ready
  BY DEF LocksInv
<1>2. /\ pc' = [pc EXCEPT ![r] = "answered"]
      /\ retryAfter' = [retryAfter EXCEPT ![r] =
                           IF expiries = {} THEN Null ELSE Min(expiries)]
      /\ UNCHANGED <<now, row, model, exclude, conn, seen, mark, requests, background>>
      /\ reverify' = reverify /\ contended' = contended
  BY DEF GiveUp, Goto, background
<1>3. (IF expiries = {} THEN Null ELSE Min(expiries)) \in {Null} \cup Nat
  <2>1. expiries \in SUBSET Int /\ \A t \in expiries : t > now
    BY <1>1, Expiries
  <2>2. now \in Nat
    BY <1>1 DEF TypeOK
  <2> HIDE DEF expiries
  <2>. QED
    BY <2>1, <2>2, Earliest
<1>4. TypeOK'
  <2> HIDE DEF expiries
  <2>. QED
    BY <1>1, <1>2, <1>3 DEF TypeOK
<1>5. pc'[r] = "answered" /\ \A s \in Req \ {r} : pc'[s] = pc[s]
  BY <1>1, <1>2 DEF TypeOK
<1>6. Ready'
  BY <1>1, <1>2, <1>5 DEF Ready
<1>7. \A s \in Req, c \in Conn : Using(s, c)' =>
          /\ Using(s, c)
          /\ pc'[s] = "sent" => pc[s] = "sent" /\ seen'[s] = seen[s]
  BY <1>2, <1>5 DEF Using
<1>. QED
  BY <1>2, <1>4, <1>6, <1>7, Quiet

LEMMA Rejecting ==
    ASSUME LocksInv, NEW r \in Req, Reject(r)
    PROVE  LocksInv'
<1>1. TypeOK /\ Ready
  BY DEF LocksInv
<1>2. /\ pc' = [pc EXCEPT ![r] = "answered"]
      /\ UNCHANGED <<now, row, model, exclude, conn, seen, mark, retryAfter, requests,
                     background>>
      /\ reverify' = reverify /\ contended' = contended
  BY DEF Reject, Goto, background
<1>3. TypeOK'
  BY <1>1, <1>2 DEF TypeOK
<1>4. pc'[r] = "answered" /\ \A s \in Req \ {r} : pc'[s] = pc[s]
  BY <1>1, <1>2 DEF TypeOK
<1>5. Ready'
  BY <1>1, <1>2, <1>4 DEF Ready
<1>6. \A s \in Req, c \in Conn : Using(s, c)' =>
          /\ Using(s, c)
          /\ pc'[s] = "sent" => pc[s] = "sent" /\ seen'[s] = seen[s]
  BY <1>2, <1>4 DEF Using
<1>. QED
  BY <1>2, <1>3, <1>5, <1>6, Quiet

LEMMA Reading ==
    ASSUME LocksInv, NEW r \in Req, NEW failure \in Failure, MarkRead(r, failure)
    PROVE  LocksInv'
<1>1. TypeOK /\ Ready
  BY DEF LocksInv
<1>2. PICK m \in Marks(failure, Level(row[conn[r]], model[r])) :
          mark' = [mark EXCEPT ![r] = m]
  BY DEF MarkRead
<1>3. /\ pc[r] = "sent"
      /\ pc' = [pc EXCEPT ![r] = IF failure = "unauthorized" THEN "marking401"
                                 ELSE "marking"]
      /\ UNCHANGED <<now, row, model, exclude, conn, seen, retryAfter, requests,
                     background>>
      /\ reverify' = reverify /\ contended' = contended
  BY DEF MarkRead, Goto, background
<1>4. m \in MarkType /\ m.until # Null
  <2>1. row[conn[r]] \in GoodRow /\ model[r] \in Key /\ now \in Nat
    BY <1>1, <1>3 DEF TypeOK, GoodRow, Ready
  <2>2. Level(row[conn[r]], model[r]) \in 0..MaxLevel
    BY <2>1, LevelType
  <2>. QED
    BY <1>2, <2>1, <2>2, MarksType
<1>5. TypeOK'
  BY <1>1, <1>2, <1>3, <1>4 DEF TypeOK
<1>6. /\ pc'[r] \in {"marking", "marking401"} /\ mark'[r] = m
      /\ \A s \in Req \ {r} : pc'[s] = pc[s] /\ mark'[s] = mark[s]
  BY <1>1, <1>2, <1>3 DEF TypeOK
<1>7. Ready'
  BY <1>1, <1>3, <1>4, <1>6 DEF Ready
<1>8. \A s \in Req, c \in Conn : Using(s, c)' =>
          /\ Using(s, c)
          /\ pc'[s] = "sent" => pc[s] = "sent" /\ seen'[s] = seen[s]
  BY <1>3, <1>6 DEF Using
<1>. QED
  BY <1>3, <1>5, <1>7, <1>8, Quiet

\* The first to pick an account that is not being marked has it for itself.
LEMMA Selecting ==
    ASSUME LocksInv, NEW r \in Req, NEW c \in Conn, Select(r, c)
    PROVE  LocksInv'
<1>1. TypeOK /\ Ready /\ Alone /\ HonestUncontended
  BY DEF LocksInv
<1>2. /\ pc[r] = "selecting"
      /\ pc' = [pc EXCEPT ![r] = "sent"]
      /\ conn' = [conn EXCEPT ![r] = c]
      /\ seen' = [seen EXCEPT ![r] = row[c]]
      /\ Contend(r, c)
      /\ UNCHANGED <<now, row, model, exclude, mark, retryAfter, requests, reverify>>
  BY DEF Select, Goto
<1>3. /\ contended' \subseteq Conn /\ contended \subseteq contended'
      /\ c \notin contended' => /\ \A s \in Req \ {r} : ~Using(s, c)
                                /\ reverify[c].step = "idle"
  BY <1>1, <1>2 DEF Contend, TypeOK
<1>4. TypeOK'
  BY <1>1, <1>2, <1>3 DEF TypeOK
<1>5. /\ pc'[r] = "sent" /\ conn'[r] = c /\ seen'[r] = row[c]
      /\ \A s \in Req \ {r} : /\ pc'[s] = pc[s] /\ conn'[s] = conn[s]
                              /\ seen'[s] = seen[s]
  BY <1>1, <1>2 DEF TypeOK
<1>6. Ready'
  BY <1>1, <1>2, <1>5 DEF Ready
<1>7. Alone'
  <2> SUFFICES ASSUME NEW d \in Conn \ contended'
               PROVE  /\ \A s, t \in Req : Using(s, d)' /\ Using(t, d)' => s = t
                      /\ \A s \in Req : Using(s, d)' => reverify'[d].step = "idle"
                      /\ \A s \in Req : Using(s, d)' /\ pc'[s] = "sent"
                                           => seen'[s] = row'[d]
    BY DEF Alone
  <2>1. CASE d = c
    BY <1>2, <1>3, <1>5, <2>1 DEF Using
  <2>2. CASE d # c
    BY <1>1, <1>2, <1>3, <1>5, <2>2 DEF Using, Alone
  <2>. QED
    BY <2>1, <2>2
<1>8. HonestUncontended'
  BY <1>1, <1>2, <1>3 DEF HonestUncontended, Honest, RunningLocks, Running
<1>. QED
  BY <1>4, <1>6, <1>7, <1>8 DEF LocksInv

\* What a success leaves of a row it knows: no lock but those that remain, and
\* nothing that runs but its own is cleared.
LEMMA Clearing ==
    ASSUME now \in Nat, NEW w \in GoodRow, NEW k \in Key
    PROVE  /\ RunningLocks(Cleared(w, w, k)) \subseteq RunningLocks(w)
           /\ LocksLeft(w, k) = {} => RunningLocks(Cleared(w, w, k)) = {}
           /\ \A j \in Key : Running(w.lock[j]) /\ Cleared(w, w, k).lock[j] = Null
                                 => j \in {k, All}
<1>1. \A j \in Key : w.lock[j] \in Int
  BY DEF GoodRow, Row
<1>2. \A j \in Key : Cleared(w, w, k).lock[j] =
          IF j \in LocksToClear(w, k) THEN Null ELSE w.lock[j]
  BY DEF Cleared
<1>3. \A j \in Key : Running(Cleared(w, w, k).lock[j]) =>
          j \notin LocksToClear(w, k) /\ Running(w.lock[j]) /\ w.lock[j] # Absent
          /\ Cleared(w, w, k).lock[j] = w.lock[j]
  BY <1>1, <1>2 DEF Running, Null, Absent
<1>4. RunningLocks(Cleared(w, w, k)) \subseteq RunningLocks(w)
  BY <1>3 DEF RunningLocks
<1>5. LocksLeft(w, k) = {} => RunningLocks(Cleared(w, w, k)) = {}
  BY <1>3 DEF RunningLocks, LocksLeft
<1>6. ASSUME NEW j \in Key, Running(w.lock[j]), Cleared(w, w, k).lock[j] = Null
      PROVE  j \in {k, All}
  <2>1. w.lock[j] # Null
    BY <1>1, <1>6 DEF Running, Null
  <2>2. j \in LocksToClear(w, k)
    BY <1>2, <1>6, <2>1
  <2>. QED
    BY <1>6, <2>2 DEF LocksToClear
<1>. QED
  BY <1>4, <1>5, <1>6

LEMMA Succeeding ==
    ASSUME LocksInv, NEW r \in Req, Succeed(r)
    PROVE  LocksInv'
<1> DEFINE c == conn[r]
           k == model[r]
<1>1. TypeOK /\ Ready /\ Alone /\ HonestUncontended
  BY DEF LocksInv
<1>2. /\ pc[r] = "sent"
      /\ pc' = [pc EXCEPT ![r] = "answered"]
      /\ row' = IF NothingToClear(seen[r], k) THEN row
                ELSE [row EXCEPT ![c] = Cleared(@, seen[r], k)]
      /\ UNCHANGED <<now, model, exclude, conn, seen, mark, retryAfter, requests,
                     background>>
      /\ reverify' = reverify /\ contended' = contended
  BY DEF Succeed, Goto, background
<1>3. /\ c \in Conn /\ k \in Key /\ now \in Nat /\ Using(r, c)
      /\ row \in [Conn -> GoodRow] /\ row[c] \in GoodRow
  BY <1>1, <1>2, RowsGood DEF Ready, TypeOK, Using
<1>4. Cleared(row[c], seen[r], k) \in GoodRow
  BY <1>3, ClearedType
<1>5. /\ row' \in [Conn -> GoodRow]
      /\ \A d \in Conn : d # c => row'[d] = row[d]
      /\ row'[c] \in {row[c], Cleared(row[c], seen[r], k)}
  <2> HIDE DEF c, k
  <2>. QED
    BY <1>2, <1>3, <1>4
<1>6. TypeOK'
  BY <1>1, <1>2, <1>5, RowsGood DEF TypeOK, GoodRow
<1>7. pc'[r] = "answered" /\ \A s \in Req \ {r} : pc'[s] = pc[s]
  BY <1>1, <1>2 DEF TypeOK
<1>8. Ready'
  BY <1>1, <1>2, <1>7 DEF Ready
<1>9. Alone'
  <2> SUFFICES ASSUME NEW d \in Conn \ contended
               PROVE  /\ \A s, t \in Req : Using(s, d)' /\ Using(t, d)' => s = t
                      /\ \A s \in Req : Using(s, d)' => reverify[d].step = "idle"
                      /\ \A s \in Req : Using(s, d)' /\ pc'[s] = "sent"
                                           => seen[s] = row'[d]
    BY <1>2 DEF Alone
  <2>1. \A s \in Req : Using(s, d)' => s # r /\ Using(s, d) /\ pc'[s] = pc[s]
    BY <1>2, <1>7 DEF Using
  <2>2. CASE d = c
    BY <1>1, <1>3, <2>1, <2>2 DEF Alone
  <2>3. CASE d # c
    BY <1>1, <1>5, <2>1, <2>3 DEF Alone
  <2>. QED
    BY <2>2, <2>3
<1>10. HonestUncontended'
  <2> SUFFICES ASSUME NEW d \in Conn \ contended, row'[d].status = "active"
               PROVE  {row'[d].lock[j] : j \in {i \in Key : row'[d].lock[i] > now}} = {}
    BY <1>2 DEF HonestUncontended, Honest, RunningLocks, Running
  <2>1. CASE row'[d] = row[d]
    BY <1>1, <2>1 DEF HonestUncontended, Honest, RunningLocks, Running
  <2>2. CASE d = c /\ row'[c] = Cleared(row[c], seen[r], k)
    <3>1. seen[r] = row[c]
      BY <1>1, <1>2, <1>3, <2>2 DEF Alone
    <3>2. row'[d] = Cleared(row[c], row[c], k)
      BY <2>2, <3>1
    <3>3. RunningLocks(Cleared(row[c], row[c], k)) = {}
      <4>1. CASE LocksLeft(row[c], k) = {}
        BY <1>3, <4>1, Clearing
      <4>2. CASE LocksLeft(row[c], k) # {}
        <5>1. row[c].status = "active"
          BY <3>2, <4>2 DEF Cleared
        <5>2. RunningLocks(row[c]) = {}
          BY <1>1, <2>2, <5>1 DEF HonestUncontended, Honest
        <5>. QED
          BY <1>3, <5>2, Clearing
      <4>. QED
        BY <4>1, <4>2
    <3>. QED
      BY <3>2, <3>3 DEF RunningLocks, Running
  <2>. QED
    BY <1>5, <2>1, <2>2
<1>. QED
  BY <1>6, <1>8, <1>9, <1>10 DEF LocksInv

\* A mark is written by the only user, and says "unavailable".
LEMMA Marking ==
    ASSUME LocksInv, NEW r \in Req, MarkWrite(r)
    PROVE  LocksInv'
<1> DEFINE c == conn[r]
           k == model[r]
<1>1. TypeOK /\ Ready /\ Alone /\ HonestUncontended
  BY DEF LocksInv
<1>2. /\ pc[r] \in {"marking", "marking401"}
      /\ row' = [row EXCEPT ![c] = Marked(@, k, mark[r])]
      /\ exclude' = [exclude EXCEPT ![r] = @ \cup {c}]
      /\ pc' = [pc EXCEPT ![r] = "selecting"]
      /\ UNCHANGED <<now, model, conn, seen, mark, retryAfter, requests>>
      /\ \/ reverify' = reverify /\ contended' = contended
         \/ /\ reverify' = [reverify EXCEPT ![c] = [step |-> "reading", at |-> now,
                                                    mark |-> NoMark]]
            /\ Contend(r, c)
  BY DEF MarkWrite, Goto, Trigger, background
<1>3. /\ c \in Conn /\ k \in Key /\ now \in Nat /\ Using(r, c)
      /\ row \in [Conn -> GoodRow] /\ row[c] \in GoodRow /\ mark[r] \in MarkType
  BY <1>1, <1>2, RowsGood DEF Ready, TypeOK, Using
<1>4. /\ Marked(row[c], k, mark[r]) \in GoodRow
      /\ Marked(row[c], k, mark[r]).status = "unavailable"
  BY <1>3, MarkedType
<1>5. /\ row' \in [Conn -> GoodRow]
      /\ row'[c].status = "unavailable"
      /\ \A d \in Conn : d # c => row'[d] = row[d]
  <2> HIDE DEF c, k
  <2>. QED
    BY <1>2, <1>3, <1>4
<1>6. /\ reverify' \in [Conn -> [step : {"idle", "reading", "writing"},
                                 at : {Null} \cup Nat, mark : MarkType]]
      /\ \A d \in Conn : d # c => reverify'[d] = reverify[d]
      /\ reverify'[c].step = "writing" => reverify'[c] = reverify[c]
      /\ contended' \subseteq Conn /\ contended \subseteq contended'
      /\ c \notin contended' /\ reverify'[c].step # "idle"
            => \A s \in Req \ {r} : ~Using(s, c)
  <2>1. NoMark \in MarkType
    BY LockAssumption DEF NoMark, MarkType, Null
  <2> HIDE DEF c, k
  <2>2. CASE reverify' = reverify /\ contended' = contended
    BY <1>1, <1>3, <2>2 DEF TypeOK, Alone
  <2>3. CASE /\ reverify' = [reverify EXCEPT ![c] = [step |-> "reading", at |-> now,
                                                     mark |-> NoMark]]
             /\ Contend(r, c)
    BY <1>1, <1>3, <2>1, <2>3 DEF TypeOK, Contend
  <2>. QED
    BY <1>2, <2>2, <2>3
<1>7. TypeOK'
  BY <1>1, <1>2, <1>3, <1>5, <1>6, RowsGood DEF TypeOK, GoodRow
<1>8. pc'[r] = "selecting" /\ \A s \in Req \ {r} : pc'[s] = pc[s]
  BY <1>1, <1>2 DEF TypeOK
<1>9. Ready'
  BY <1>1, <1>2, <1>6, <1>8 DEF Ready
<1>10. Alone'
  <2> SUFFICES ASSUME NEW d \in Conn \ contended'
               PROVE  /\ \A s, t \in Req : Using(s, d)' /\ Using(t, d)' => s = t
                      /\ \A s \in Req : Using(s, d)' => reverify'[d].step = "idle"
                      /\ \A s \in Req : Using(s, d)' /\ pc'[s] = "sent"
                                           => seen'[s] = row'[d]
    BY DEF Alone
  <2>1. \A s \in Req : Using(s, d)' => s # r /\ Using(s, d) /\ pc'[s] = pc[s]
    BY <1>2, <1>8 DEF Using
  <2>2. CASE d = c
    BY <1>1, <1>3, <1>6, <2>1, <2>2 DEF Alone
  <2>3. CASE d # c
    BY <1>1, <1>2, <1>5, <1>6, <2>1, <2>3 DEF Alone
  <2>. QED
    BY <2>2, <2>3
<1>11. HonestUncontended'
  <2> SUFFICES ASSUME NEW d \in Conn \ contended', row'[d].status = "active"
               PROVE  {row'[d].lock[j] : j \in {i \in Key : row'[d].lock[i] > now}} = {}
    BY <1>2 DEF HonestUncontended, Honest, RunningLocks, Running
  <2>1. d # c /\ row'[d] = row[d] /\ d \notin contended
    BY <1>5, <1>6
  <2>. QED
    BY <1>1, <2>1 DEF HonestUncontended, Honest, RunningLocks, Running
<1>. QED
  BY <1>7, <1>9, <1>10, <1>11 DEF LocksInv

LEMMA ReverifyReading ==
    ASSUME LocksInv, NEW c \in Conn, ReverifyRead(c)
    PROVE  LocksInv'
<1>1. TypeOK /\ Ready /\ Alone /\ HonestUncontended
  BY DEF LocksInv
<1>2. PICK m \in Marks("unauthorized", Level(row[c], All)) :
          reverify' = [reverify EXCEPT ![c].step = "writing", ![c].mark = m]
  BY DEF ReverifyRead
<1>3. /\ reverify[c].step = "reading" /\ contended' = contended
      /\ row' = row /\ now' = now /\ pc' = pc /\ model' = model
      /\ exclude' = exclude /\ conn' = conn /\ seen' = seen /\ mark' = mark
      /\ retryAfter' = retryAfter /\ requests' = requests
  BY DEF ReverifyRead, request
<1>4. m \in MarkType /\ m.until # Null
  <2>1. row[c] \in GoodRow /\ All \in Key /\ now \in Nat
    BY <1>1 DEF TypeOK, GoodRow, Key
  <2>2. Level(row[c], All) \in 0..MaxLevel
    BY <2>1, LevelType
  <2>3. m = [until |-> now + Fixed, level |-> Level(row[c], All)]
    BY <1>2 DEF Marks
  <2>4. now + Fixed \in Nat /\ Level(row[c], All) \in Null..MaxLevel
    BY <2>1, <2>2, LockAssumption DEF Null
  <2>. QED
    BY <2>3, <2>4 DEF MarkType, Null
<1>5. /\ reverify' \in [Conn -> [step : {"idle", "reading", "writing"},
                                 at : {Null} \cup Nat, mark : MarkType]]
      /\ reverify'[c].step = "writing" /\ reverify'[c].mark = m
      /\ \A d \in Conn : d # c => reverify'[d] = reverify[d]
  BY <1>1, <1>2, <1>4 DEF TypeOK
<1>6. TypeOK'
  BY <1>1, <1>3, <1>5 DEF TypeOK
<1>7. Ready'
  BY <1>1, <1>3, <1>4, <1>5 DEF Ready
<1>8. Alone'
  <2> SUFFICES ASSUME NEW d \in Conn \ contended
               PROVE  /\ \A s, t \in Req : Using(s, d) /\ Using(t, d) => s = t
                      /\ \A s \in Req : Using(s, d) => reverify'[d].step = "idle"
                      /\ \A s \in Req : Using(s, d) /\ pc[s] = "sent" => seen[s] = row[d]
    BY <1>3 DEF Alone, Using
  <2>1. \A s \in Req : ~Using(s, c) \/ d # c
    BY <1>1, <1>3 DEF Alone
  <2>. QED
    BY <1>1, <1>5, <2>1 DEF Alone
<1>9. HonestUncontended'
  BY <1>1, <1>3 DEF HonestUncontended, Honest, RunningLocks, Running
<1>. QED
  BY <1>6, <1>7, <1>8, <1>9 DEF LocksInv

LEMMA ReverifyWriting ==
    ASSUME LocksInv, NEW c \in Conn, ReverifyWrite(c)
    PROVE  LocksInv'
<1>1. TypeOK /\ Ready /\ Alone /\ HonestUncontended
  BY DEF LocksInv
<1>2. /\ reverify[c].step = "writing" /\ contended' = contended
      /\ row' = [row EXCEPT ![c] = Marked(@, All, reverify[c].mark)]
      /\ reverify' = [reverify EXCEPT ![c].step = "idle", ![c].mark = NoMark]
      /\ now' = now /\ pc' = pc /\ model' = model
      /\ exclude' = exclude /\ conn' = conn /\ seen' = seen /\ mark' = mark
      /\ retryAfter' = retryAfter /\ requests' = requests
  BY DEF ReverifyWrite, request
<1>3. /\ row \in [Conn -> GoodRow] /\ row[c] \in GoodRow /\ All \in Key
      /\ reverify[c].mark \in MarkType /\ NoMark \in MarkType
  BY <1>1, RowsGood, LockAssumption DEF TypeOK, Key, NoMark, MarkType, Null
<1>4. /\ Marked(row[c], All, reverify[c].mark) \in GoodRow
      /\ Marked(row[c], All, reverify[c].mark).status = "unavailable"
  BY <1>3, MarkedType
<1>5. /\ row' \in [Conn -> GoodRow] /\ row'[c].status = "unavailable"
      /\ \A d \in Conn : d # c => row'[d] = row[d]
  BY <1>2, <1>3, <1>4
<1>6. /\ reverify' \in [Conn -> [step : {"idle", "reading", "writing"},
                                 at : {Null} \cup Nat, mark : MarkType]]
      /\ reverify'[c].step = "idle"
      /\ \A d \in Conn : d # c => reverify'[d] = reverify[d]
  BY <1>1, <1>2, <1>3 DEF TypeOK
<1>7. TypeOK'
  BY <1>1, <1>2, <1>5, <1>6, RowsGood DEF TypeOK, GoodRow
<1>8. Ready'
  BY <1>1, <1>2, <1>6 DEF Ready
<1>9. Alone'
  <2>0. contended' = contended /\ pc' = pc /\ conn' = conn /\ seen' = seen
    BY <1>2
  <2> SUFFICES ASSUME NEW d \in Conn \ contended
               PROVE  /\ \A s, t \in Req : Using(s, d) /\ Using(t, d) => s = t
                      /\ \A s \in Req : Using(s, d) => reverify'[d].step = "idle"
                      /\ \A s \in Req : Using(s, d) /\ pc[s] = "sent" => seen[s] = row'[d]
    BY <2>0 DEF Alone, Using
  <2>1. \A s \in Req : ~Using(s, c) \/ d # c
    BY <1>1, <1>2 DEF Alone
  <2>2. CASE d = c
    BY <1>1, <2>1, <2>2 DEF Alone
  <2>3. CASE d # c
    BY <1>1, <1>5, <1>6, <2>3 DEF Alone
  <2>. QED
    BY <2>2, <2>3
<1>10. HonestUncontended'
  <2> SUFFICES ASSUME NEW d \in Conn \ contended, row'[d].status = "active"
               PROVE  {row'[d].lock[j] : j \in {i \in Key : row'[d].lock[i] > now}} = {}
    BY <1>2 DEF HonestUncontended, Honest, RunningLocks, Running
  <2>1. d # c /\ row'[d] = row[d]
    BY <1>5
  <2>. QED
    BY <1>1, <2>1 DEF HonestUncontended, Honest, RunningLocks, Running
<1>. QED
  BY <1>7, <1>8, <1>9, <1>10 DEF LocksInv

LEMMA Ticking ==
    ASSUME LocksInv, Tick
    PROVE  LocksInv'
<1>1. TypeOK /\ Ready /\ Alone /\ HonestUncontended
  BY DEF LocksInv
<1>2. /\ now' = now + 1 /\ now \in Nat /\ UNCHANGED <<row, request, background>>
      /\ row' = row /\ pc' = pc /\ conn' = conn /\ seen' = seen /\ mark' = mark
      /\ reverify' = reverify /\ contended' = contended
  BY <1>1 DEF Tick, request, background, TypeOK
<1>3. TypeOK'
  BY <1>1, <1>2 DEF TypeOK, request
<1>4. Ready' /\ Alone'
  BY <1>1, <1>2 DEF Ready, Alone, Using
<1>5. HonestUncontended'
  <2> SUFFICES ASSUME NEW d \in Conn \ contended, row[d].status = "active"
               PROVE  \A i \in Key : ~(row[d].lock[i] > now + 1)
    BY <1>2 DEF HonestUncontended, Honest, RunningLocks, Running
  <2>1. \A i \in Key : ~(row[d].lock[i] > now) /\ row[d].lock[i] \in Int
    <3>1. row[d].lock \in [Key -> Int]
      BY <1>1 DEF TypeOK, Row
    <3>2. {row[d].lock[j] : j \in {i \in Key : row[d].lock[i] > now}} = {}
      BY <1>1 DEF HonestUncontended, Honest, RunningLocks, Running
    <3>. QED
      BY <3>1, <3>2
  <2>. QED
    BY <1>2, <2>1
<1>. QED
  BY <1>3, <1>4, <1>5 DEF LocksInv

LEMMA Stuttering ==
    ASSUME LocksInv, UNCHANGED vars
    PROVE  LocksInv'
<1>1. TypeOK' /\ Ready'
  BY DEF LocksInv, TypeOK, Ready, vars, request, background
<1>. QED
  BY <1>1, Quiet DEF vars, request, background, Using

LEMMA Inductive == LocksInv /\ [Next]_vars => LocksInv'
<1> SUFFICES ASSUME LocksInv, [Next]_vars PROVE LocksInv'
  OBVIOUS
<1>1. ASSUME NEW r \in Req, NEW k \in Key, Start(r, k) PROVE LocksInv'
  BY <1>1, Starting
<1>2. ASSUME NEW r \in Req, Advance(r) PROVE LocksInv'
  BY <1>2, Selecting, GivingUp, Succeeding, Rejecting, Reading, Marking DEF Advance
<1>3. ASSUME NEW c \in Conn, ReverifyRead(c) \/ ReverifyWrite(c) PROVE LocksInv'
  BY <1>3, ReverifyReading, ReverifyWriting
<1>4. CASE Tick
  BY <1>4, Ticking
<1>5. CASE UNCHANGED vars
  BY <1>5, Stuttering
<1>. QED
  BY <1>1, <1>2, <1>3, <1>4, <1>5 DEF Next

-----------------------------------------------------------------------------
THEOREM Invariance == Spec => []LocksInv
  BY Initially, Inductive, PTL DEF Spec

\* The variables of the locks keep their types; no level passes the highest
\* (markAccountUnavailable, clearAccountError).
THEOREM TypeCorrect == Spec => []TypeOK
<1>1. LocksInv => TypeOK
  BY DEF LocksInv
<1>. QED
  BY <1>1, Invariance, PTL

\* An account that was never contended for is healthy only without running locks
\* (clearAccountError).
THEOREM Honesty == Spec => []HonestUncontended
<1>1. LocksInv => HonestUncontended
  BY DEF LocksInv
<1>. QED
  BY <1>1, Invariance, PTL

\* A success unlocks no other model of such an account (clearAccountError).
THEOREM Unlocking == Spec => ClearOnlyExpired
<1>1. LocksInv /\ [Next]_vars => [ClearsOnlyExpired]_vars
  <2> SUFFICES ASSUME LocksInv, Next, NEW c \in Conn \ contended, NEW k \in Key,
                      Running(row[c].lock[k]), row'[c].lock[k] = Null
               PROVE  \E r \in Req : SucceedsFor(r, c) /\ k \in {model[r], All}
    BY DEF ClearsOnlyExpired
  <2>1. /\ TypeOK /\ Ready /\ Alone /\ row \in [Conn -> GoodRow] /\ now \in Nat
        /\ row[c].lock[k] \in Int
    BY RowsGood DEF LocksInv, TypeOK, Row
  <2>2. row' # row
    BY <2>1 DEF Running, Null
  <2>3. ASSUME NEW r \in Req, Succeed(r)
        PROVE  SucceedsFor(r, c) /\ k \in {model[r], All}
    <3>1. /\ pc[r] = "sent" /\ pc'[r] = "answered" /\ conn[r] \in Conn
          /\ row' = [row EXCEPT ![conn[r]] = Cleared(@, seen[r], model[r])]
          /\ model[r] \in Key
      BY <2>1, <2>2, <2>3 DEF Succeed, Goto, TypeOK, Ready
    <3>2. conn[r] = c
      BY <2>1, <3>1 DEF Running, Null
    <3>3. row'[c] = Cleared(row[c], row[c], model[r])
      BY <2>1, <3>1, <3>2 DEF Alone, Using
    <3>4. k \in {model[r], All}
      BY <2>1, <3>1, <3>3, Clearing
    <3>. QED
      BY <3>1, <3>2, <3>4 DEF SucceedsFor
  <2>4. ASSUME NEW d \in Conn, NEW j \in Key, NEW m \in MarkType, m.until # Null,
               row' = [row EXCEPT ![d] = Marked(@, j, m)]
        PROVE  FALSE
    <3>1. d = c /\ row'[c] = Marked(row[c], j, m)
      BY <2>1, <2>4 DEF Running, Null
    <3>2. Marked(row[c], j, m).lock[k] \in {m.until, row[c].lock[k]}
      BY <2>1, MarkedType
    <3>. QED
      BY <2>1, <2>4, <3>1, <3>2 DEF Running, Null
  <2>5. ASSUME NEW r \in Req, MarkWrite(r) PROVE FALSE
    BY <2>1, <2>4, <2>5 DEF MarkWrite, TypeOK, Ready
  <2>6. ASSUME NEW d \in Conn, ReverifyWrite(d) PROVE FALSE
    <3>1. All \in Key
      BY DEF Key
    <3>. QED
      BY <2>1, <2>4, <2>6, <3>1 DEF ReverifyWrite, TypeOK, Ready
  <2>. QED
    BY <2>2, <2>3, <2>5, <2>6
       DEF Next, Advance, Start, Select, GiveUp, Reject, MarkRead, ReverifyRead, Tick
<1>. QED
  BY <1>1, Invariance, PTL DEF Spec, ClearOnlyExpired

\* A client is told to retry when the first account is free again, or before
\* (getEarliestModelLockUntil).
THEOREM RetryTime == Spec => RetryNotTooLate
<1>1. LocksInv /\ [Next]_vars => [\A r \in Req : TellsWhen(r)]_vars
  <2> SUFFICES ASSUME TypeOK, Next, NEW r \in Req,
                      pc[r] = "selecting", pc'[r] = "answered"
               PROVE  TellsWhen(r)
    BY DEF LocksInv, TellsWhen
  <2> DEFINE locked == {c \in Conn : IsModelLockActive(row[c], model[r])}
             expiries == UNION {RunningLocks(row[c]) : c \in locked}
  <2>1. retryAfter'[r] = IF expiries = {} THEN Null ELSE Min(expiries)
    <3>1. ASSUME NEW s \in Req, NEW x, x # "answered", pc' = [pc EXCEPT ![s] = x]
          PROVE  FALSE
      BY <3>1 DEF TypeOK
    <3>2. ASSUME NEW s \in Req, pc[s] # "selecting", pc' = [pc EXCEPT ![s] = "answered"]
          PROVE  FALSE
      BY <3>2 DEF TypeOK
    <3>3. ASSUME NEW s \in Req, NEW k \in Key, Start(s, k) PROVE FALSE
      BY <3>1, <3>3 DEF Start, Goto
    <3>4. ASSUME NEW s \in Req, NEW c \in Conn, Select(s, c) PROVE FALSE
      BY <3>1, <3>4 DEF Select, Goto
    <3>5. ASSUME NEW s \in Req, Succeed(s) \/ Reject(s) PROVE FALSE
      BY <3>2, <3>5 DEF Succeed, Reject, Goto
    <3>6. ASSUME NEW s \in Req, NEW failure \in Failure, MarkRead(s, failure) PROVE FALSE
      BY <3>1, <3>6 DEF MarkRead, Goto
    <3>7. ASSUME NEW s \in Req, MarkWrite(s) PROVE FALSE
      BY <3>1, <3>7 DEF MarkWrite, Goto
    <3>8. ASSUME NEW s \in Req, GiveUp(s)
          PROVE  retryAfter'[r] = IF expiries = {} THEN Null ELSE Min(expiries)
      <4>1. s = r
        BY <3>8 DEF GiveUp, Goto, TypeOK
      <4>. QED
        BY <3>8, <4>1 DEF GiveUp, TypeOK
    <3>9. pc' # pc
      OBVIOUS
    <3>. QED
      BY <3>3, <3>4, <3>5, <3>6, <3>7, <3>8, <3>9
         DEF Next, Advance, ReverifyRead, ReverifyWrite, Tick, request
  <2>2. /\ now \in Nat /\ model[r] \in Key
        /\ expiries \in SUBSET Int /\ \A t \in expiries : t > now
    BY Expiries DEF TypeOK
  <2>3. ASSUME NEW c \in locked PROVE LockOf(row[c], model[r]) \in expiries
    <3>1. /\ LockOf(row[c], model[r]) \in {row[c].lock[model[r]], row[c].lock[All]}
          /\ Running(LockOf(row[c], model[r])) /\ All \in Key
      BY DEF IsModelLockActive, LockOf, Key
    <3>2. LockOf(row[c], model[r]) \in RunningLocks(row[c])
      BY <2>2, <3>1 DEF RunningLocks
    <3>. QED
      BY <3>2
  <2>4. CASE locked = {}
    BY <2>1, <2>4 DEF TellsWhen
  <2>5. CASE locked # {}
    <3>1. expiries # {}
      BY <2>3, <2>5
    <3>2. retryAfter'[r] \in expiries /\ \A t \in expiries : retryAfter'[r] <= t
      <4> HIDE DEF expiries
      <4>. QED
        BY <2>1, <2>2, <3>1, Earliest
    <3>3. Running(retryAfter'[r])
      BY <2>2, <3>2 DEF Running
    <3>. QED
      BY <2>3, <2>5, <3>2, <3>3 DEF TellsWhen
  <2>. QED
    BY <2>4, <2>5
<1>. QED
  BY <1>1, Invariance, PTL DEF Spec, RetryNotTooLate
=============================================================================
