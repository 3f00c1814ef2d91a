--------------------------- MODULE QuotaPoolProofs ---------------------------
(***************************************************************************)
(* What TLC checks of the quota pool on one source, proved for any sets of *)
(* sources and logical models, any durations and any number of restarts.   *)
(***************************************************************************)
EXTENDS QuotaPool, SequenceTheorems, TLAPS

LEMMA NoConnSource == \A s \in Source : HydratedId(s) \in Source
  BY DEF Source, HydratedId

\* Registering a source, in the new and in the existing branch, keeps the
\* variables it writes typed.
LEMMA EnrolTyped ==
  ASSUME TypeOK, NEW s \in Source, NEW l \in Logical,
         Enrol(s, l)
  PROVE  /\ registered' \subseteq Source
         /\ pool' \in [Source -> SourceState]
         /\ logicalIndex' \in [Logical -> SUBSET Source]
         /\ rowWrites' \in [Source -> Seq(Logical)]
  <1>1. registered' \subseteq Source
    BY DEF TypeOK, Enrol
  <1>2. Fresh(l) \in SourceState
    BY DEF Fresh, SourceState
  <1>3. [pool[s] EXCEPT !.logical = l, !.used = 0] \in SourceState
    BY DEF TypeOK, SourceState
  <1>4. pool' \in [Source -> SourceState]
    BY <1>2, <1>3 DEF TypeOK, Enrol, SourceState
  <1>5. logicalIndex' \in [Logical -> SUBSET Source]
    BY DEF TypeOK, Enrol
  <1>6. rowWrites' \in [Source -> Seq(Logical)]
    BY DEF TypeOK, Enrol
  <1> QED BY <1>1, <1>4, <1>5, <1>6

LEMMA ExpiryTyped ==
  ASSUME TypeOK, NEW d \in Seconds
  PROVE  Expiry(d) \in Nat
  BY PoolAssumption DEF PoolAssumption, TypeOK, Expiry, MinCooldown

LEMMA AbsentTyped == Absent \in SourceState
  BY DEF Absent, Fresh, SourceState

LEMMA InitTyped == Init => TypeOK
  <1> SUFFICES ASSUME Init PROVE TypeOK
    OBVIOUS
  <1>1. pool \in [Source -> SourceState]
    BY AbsentTyped DEF Init
  <1>2. rowWrites \in [Source -> Seq(Logical)]
    BY DEF Init
  <1>3. coolWrites \in [Source -> Seq(Nat)]
    BY DEF Init
  <1> QED BY <1>1, <1>2, <1>3, PoolAssumption
          DEF PoolAssumption, Init, TypeOK, Phase

LEMMA StepTyped == TypeOK /\ [Next]_vars => TypeOK'
  <1> SUFFICES ASSUME TypeOK, [Next]_vars PROVE TypeOK'
    OBVIOUS
  <1> USE PoolAssumption DEF PoolAssumption
  <1>1. CASE UNCHANGED vars
    BY <1>1 DEF TypeOK, vars, mem, db, writes, start, bounds
  <1>2. ASSUME NEW s \in Source, NEW l \in Logical, RegisterSource(s, l)
        PROVE  TypeOK'
    <2>1. Enrol(s, l)
      BY <1>2 DEF RegisterSource
    <2>2. /\ registered' \subseteq Source
          /\ pool' \in [Source -> SourceState]
          /\ logicalIndex' \in [Logical -> SUBSET Source]
          /\ rowWrites' \in [Source -> Seq(Logical)]
      BY <2>1, EnrolTyped
    <2>3. /\ UNCHANGED <<now, db, coolWrites, start, crashes>>
          /\ calls' = calls + 1
      BY <1>2 DEF RegisterSource, Call
    <2> QED BY <2>2, <2>3 DEF TypeOK, start, db
  <1>3. ASSUME NEW s \in Source, UnregisterSource(s) PROVE TypeOK'
    <2>1. pool' \in [Source -> SourceState]
      BY <1>3, AbsentTyped DEF TypeOK, UnregisterSource
    <2>2. logicalIndex' \in [Logical -> SUBSET Source]
      BY <1>3 DEF TypeOK, UnregisterSource
    <2> QED BY <1>3, <2>1, <2>2
            DEF TypeOK, UnregisterSource, Call, start, db, writes
  <1>4. CASE ClearAll
    BY <1>4, AbsentTyped DEF TypeOK, ClearAll, Call, start, db, writes
  <1>5. ASSUME NEW s \in Source, ConsumeQuota(s) PROVE TypeOK'
    <2>1. pool[s] \in SourceState
      BY DEF TypeOK
    <2>2. [pool[s] EXCEPT !.used = @ + 1] \in SourceState
      BY <2>1 DEF SourceState
    <2>3. pool' = [pool EXCEPT ![s] = [pool[s] EXCEPT !.used = @ + 1]]
      BY <1>5 DEF ConsumeQuota
    <2>4. pool' \in [Source -> SourceState]
      BY <2>2, <2>3 DEF TypeOK
    <2>5. /\ UNCHANGED <<now, registered, logicalIndex, db, writes, start, crashes>>
          /\ calls' = calls + 1
      BY <1>5 DEF ConsumeQuota, Call
    <2> QED BY <2>4, <2>5 DEF TypeOK, start, db, writes
  <1>6. ASSUME NEW s \in Source, NEW d \in Seconds, CoolDown(s, d)
        PROVE  TypeOK'
    <2>1. Expiry(d) \in Nat
      BY ExpiryTyped
    <2>2. pool' \in [Source -> SourceState]
      BY <1>6, <2>1 DEF TypeOK, CoolDown, SourceState
    <2>3. coolWrites' \in [Source -> Seq(Nat)]
      BY <1>6, <2>1 DEF TypeOK, CoolDown
    <2>4. /\ UNCHANGED <<now, registered, logicalIndex, db, rowWrites, start, crashes>>
          /\ calls' = calls + 1
      BY <1>6 DEF CoolDown, Call
    <2> QED BY <2>2, <2>3, <2>4 DEF TypeOK, start, db
  <1>7. ASSUME NEW s \in Source, ClearCooldown(s) PROVE TypeOK'
    <2>1. pool' \in [Source -> SourceState]
      BY <1>7 DEF TypeOK, ClearCooldown, SourceState
    <2>2. coolWrites' \in [Source -> Seq(Nat)]
      BY <1>7 DEF TypeOK, ClearCooldown
    <2>4. /\ UNCHANGED <<now, registered, logicalIndex, db, rowWrites, start, crashes>>
          /\ calls' = calls + 1
      BY <1>7 DEF ClearCooldown, Call
    <2> QED BY <2>1, <2>2, <2>4 DEF TypeOK, start, db
  <1>8. ASSUME NEW s \in Source, FlushRow(s) PROVE TypeOK'
    <2>1. Head(rowWrites[s]) \in Logical /\ Tail(rowWrites[s]) \in Seq(Logical)
      BY <1>8 DEF TypeOK, FlushRow
    <2>2. rowWrites' \in [Source -> Seq(Logical)]
      BY <1>8, <2>1 DEF TypeOK, FlushRow
    <2>3. rows' \in [Source -> Logical \cup {NoLogical}]
      BY <1>8, <2>1 DEF TypeOK, FlushRow
    <2>4. UNCHANGED <<now, mem, cooldowns, coolWrites, start, bounds>>
      BY <1>8 DEF FlushRow
    <2> QED BY <2>2, <2>3, <2>4 DEF TypeOK, mem, start, bounds
  <1>9. ASSUME NEW s \in Source, FlushCooldown(s) PROVE TypeOK'
    <2>1. Head(coolWrites[s]) \in Nat /\ Tail(coolWrites[s]) \in Seq(Nat)
      BY <1>9 DEF TypeOK, FlushCooldown
    <2>2. coolWrites' \in [Source -> Seq(Nat)]
      BY <1>9, <2>1 DEF TypeOK, FlushCooldown
    <2>3. cooldowns' \in [Source -> Nat]
      BY <1>9, <2>1 DEF TypeOK, FlushCooldown
    <2>4. UNCHANGED <<now, mem, rows, rowWrites, start, bounds>>
      BY <1>9 DEF FlushCooldown
    <2> QED BY <2>2, <2>3, <2>4 DEF TypeOK, mem, start, bounds
  <1>10. CASE Crash
    BY <1>10, AbsentTyped DEF TypeOK, Crash, Phase, db
  <1>11. CASE LoadAllSources
    BY <1>11 DEF TypeOK, LoadAllSources, Phase, mem, db, writes, bounds
  <1>12. ASSUME NEW s \in Source, HydrateSource(s) PROVE TypeOK'
    <2>1. readRows[s] \in Logical
      BY <1>12 DEF TypeOK, HydrateSource
    <2>2. Enrol(HydratedId(s), readRows[s])
      BY <1>12 DEF HydrateSource
    <2>3. toHydrate' \subseteq {t \in Source : readRows[t] # NoLogical}
      BY <1>12 DEF TypeOK, HydrateSource
    <2> QED BY <1>12, <2>1, <2>2, <2>3, NoConnSource, EnrolTyped
            DEF TypeOK, HydrateSource, db, bounds
  <1>13. CASE HydrateDone
    BY <1>13 DEF TypeOK, HydrateDone, Phase, mem, db, writes, bounds
  <1>14. CASE LoadCooldowns
    BY <1>14 DEF TypeOK, LoadCooldowns, Phase, mem, db, writes, bounds
  <1>15. CASE ApplyCooldowns
    <2>1. pool' \in [Source -> SourceState]
      BY <1>15 DEF TypeOK, ApplyCooldowns, Rehydrated, SourceState
    <2> QED BY <1>15, <2>1
            DEF TypeOK, ApplyCooldowns, Phase, db, writes, bounds
  <1>16. CASE Tick
    BY <1>16 DEF TypeOK, Tick, mem, db, writes, start, bounds
  <1> QED
    BY <1>1, <1>2, <1>3, <1>4, <1>5, <1>6, <1>7, <1>8, <1>9, <1>10, <1>11,
       <1>12, <1>13, <1>14, <1>15, <1>16
    DEF Next, Runtime, Removal, Flush, Boot

\* Type correctness of the pool, its tables and the start-up state.
THEOREM TypeCorrect == Spec => []TypeOK
  BY InitTyped, StepTyped, PTL DEF Spec

-----------------------------------------------------------------------------
(* The index *)

\* Actions that change one field of a record leave the logical id alone.
LEMMA LogicalKept ==
  ASSUME TypeOK, NEW t \in Source,
         \/ \E s \in Source : ConsumeQuota(s) \/ ClearCooldown(s)
         \/ \E s \in Source, d \in Seconds : CoolDown(s, d)
         \/ ApplyCooldowns
  PROVE  pool'[t].logical = pool[t].logical
  <1>1. pool[t] \in SourceState
    BY DEF TypeOK
  <1>2. ASSUME NEW s \in Source, ConsumeQuota(s)
        PROVE  pool'[t].logical = pool[t].logical
    BY <1>1, <1>2 DEF ConsumeQuota, TypeOK, SourceState
  <1>3. ASSUME NEW s \in Source, ClearCooldown(s)
        PROVE  pool'[t].logical = pool[t].logical
    BY <1>1, <1>3 DEF ClearCooldown, TypeOK, SourceState
  <1>4. ASSUME NEW s \in Source, NEW d \in Seconds, CoolDown(s, d)
        PROVE  pool'[t].logical = pool[t].logical
    BY <1>1, <1>4 DEF CoolDown, TypeOK, SourceState
  <1>5. CASE ApplyCooldowns
    BY <1>1, <1>5 DEF ApplyCooldowns, TypeOK, SourceState
  <1> QED BY <1>2, <1>3, <1>4, <1>5

LEMMA EnrolIndexed ==
  ASSUME TypeOK, IndexConsistent,
         NEW s \in Source, NEW l \in Logical, Enrol(s, l)
  PROVE  IndexConsistent'
  <1>1. pool[s] \in SourceState
    BY DEF TypeOK
  <1>2. pool'[s].logical = l
    BY <1>1 DEF Enrol, TypeOK, SourceState, Fresh
  <1>3. \A t \in Source \ {s} : pool'[t] = pool[t]
    BY DEF Enrol, TypeOK
  <1> SUFFICES ASSUME NEW m \in Logical, NEW t \in Source
               PROVE  t \in logicalIndex'[m]
                        <=> t \in registered' /\ pool'[t].logical = m
    BY DEF IndexConsistent
  <1>4. CASE t = s
    BY <1>2, <1>4 DEF Enrol, IndexConsistent, TypeOK
  <1>5. CASE t # s
    BY <1>3, <1>5 DEF Enrol, IndexConsistent, TypeOK
  <1> QED BY <1>4, <1>5

LEMMA StepIndexed ==
  TypeOK /\ IndexConsistent /\ [Next]_vars => IndexConsistent'
  <1> SUFFICES ASSUME TypeOK, IndexConsistent, [Next]_vars
               PROVE  IndexConsistent'
    OBVIOUS
  <1>1. ASSUME UNCHANGED mem PROVE IndexConsistent'
    BY <1>1 DEF mem, IndexConsistent
  <1>2. ASSUME UNCHANGED <<registered, logicalIndex>>,
               \A t \in Source : pool'[t].logical = pool[t].logical
        PROVE  IndexConsistent'
    BY <1>2 DEF IndexConsistent
  <1>3. ASSUME NEW s \in Source, NEW l \in Logical, RegisterSource(s, l)
        PROVE  IndexConsistent'
    BY <1>3, EnrolIndexed DEF RegisterSource
  <1>4. ASSUME NEW s \in Source, HydrateSource(s) PROVE IndexConsistent'
    <2>1. readRows[s] \in Logical
      BY <1>4 DEF TypeOK, HydrateSource
    <2> QED BY <1>4, <2>1, NoConnSource, EnrolIndexed
            DEF HydrateSource
  <1>5. ASSUME NEW s \in Source, UnregisterSource(s) PROVE IndexConsistent'
    BY <1>5 DEF UnregisterSource, IndexConsistent, TypeOK
  <1>6. CASE ClearAll \/ Crash
    BY <1>6 DEF ClearAll, Crash, IndexConsistent
  <1>7. ASSUME NEW s \in Source, ConsumeQuota(s) \/ ClearCooldown(s)
        PROVE  IndexConsistent'
    BY <1>2, <1>7, LogicalKept DEF ConsumeQuota, ClearCooldown
  <1>8. ASSUME NEW s \in Source, NEW d \in Seconds, CoolDown(s, d)
        PROVE  IndexConsistent'
    BY <1>2, <1>8, LogicalKept DEF CoolDown
  <1>9. CASE ApplyCooldowns
    BY <1>2, <1>9, LogicalKept DEF ApplyCooldowns
  <1>10. CASE Flush \/ LoadAllSources \/ HydrateDone \/ LoadCooldowns \/ Tick
    BY <1>1, <1>10
    DEF Flush, FlushRow, FlushCooldown, LoadAllSources, HydrateDone,
        LoadCooldowns, Tick
  <1>11. CASE UNCHANGED vars
    BY <1>1, <1>11 DEF vars
  <1> QED
    BY <1>3, <1>4, <1>5, <1>6, <1>7, <1>8, <1>9, <1>10, <1>11
    DEF Next, Runtime, Removal, Boot

\* Selection and accounting never disagree about which model a source serves.
THEOREM IndexCorrect == Spec => []IndexConsistent
  <1>1. Init => IndexConsistent
    BY DEF Init, IndexConsistent
  <1> QED BY <1>1, StepIndexed, TypeCorrect, PTL DEF Spec

-----------------------------------------------------------------------------
(* Cooldowns *)

\* The cooldowns in memory stay as they are, for the sources still registered.
LEMMA EnrolKeepsCooldown ==
  ASSUME TypeOK, NEW s \in Source, NEW l, Enrol(s, l)
  PROVE  \A t \in registered : t \in registered' /\ pool'[t].until = pool[t].until
  <1> SUFFICES ASSUME NEW t \in registered
               PROVE  t \in registered' /\ pool'[t].until = pool[t].until
    OBVIOUS
  <1>1. pool[t] \in SourceState /\ t \in Source
    BY DEF TypeOK
  <1> QED BY <1>1 DEF Enrol, TypeOK, SourceState

\* How each action that writes a cooldown of a registered source leaves it.
LEMMA CoolDownMoves ==
  ASSUME TypeOK, NEW s \in Source, NEW d \in Seconds, CoolDown(s, d),
         NEW t \in Source
  PROVE  IF t = s THEN pool'[t].until = Expiry(d) /\ Expiry(d) > pool[t].until
         ELSE pool'[t].until = pool[t].until
  <1>1. pool[t] \in SourceState
    BY DEF TypeOK
  <1> QED BY <1>1 DEF CoolDown, Extends, TypeOK, SourceState

LEMMA ClearMoves ==
  ASSUME TypeOK, NEW s \in Source, ClearCooldown(s), NEW t \in Source
  PROVE  pool'[t].until = IF t = s THEN 0 ELSE pool[t].until
  <1>1. pool[t] \in SourceState
    BY DEF TypeOK
  <1> QED BY <1>1 DEF ClearCooldown, TypeOK, SourceState

LEMMA ConsumeKeepsCooldown ==
  ASSUME TypeOK, NEW s \in Source, ConsumeQuota(s), NEW t \in Source
  PROVE  pool'[t].until = pool[t].until
  <1>1. pool[t] \in SourceState
    BY DEF TypeOK
  <1> QED BY <1>1 DEF ConsumeQuota, TypeOK, SourceState

LEMMA ApplyMoves ==
  ASSUME TypeOK, ApplyCooldowns, NEW t \in Source
  PROVE  /\ pool'[t].until = Rehydrated(t)
         /\ pool'[t].until >= pool[t].until
  <1>1. pool[t] \in SourceState /\ loaded[t] \in Nat
    BY DEF TypeOK
  <1>2. pool'[t].until = Rehydrated(t)
    BY <1>1 DEF ApplyCooldowns, TypeOK, SourceState
  <1> QED BY <1>1, <1>2 DEF Rehydrated, SourceState

\* Every step of the program but a crash keeps the registered sources and
\* shortens no cooldown.
LEMMA ProgramStep == TypeOK /\ [ProgramNext]_vars => OnlyMovesLater
  <1> SUFFICES ASSUME TypeOK, [ProgramNext]_vars, NEW t \in registered,
                      crashes' = crashes
               PROVE  t \in registered' /\ pool'[t].until >= pool[t].until
    BY DEF OnlyMovesLater
  <1> DEFINE Later == t \in registered' /\ pool'[t].until >= pool[t].until
  <1>1. t \in Source /\ pool[t] \in SourceState /\ pool[t].until \in Nat
    BY DEF TypeOK, SourceState
  <1>2. CASE UNCHANGED mem
    BY <1>1, <1>2 DEF mem
  <1>3. ASSUME NEW s \in Source, NEW l \in Logical, RegisterSource(s, l)
        PROVE  Later
    BY <1>1, <1>3, EnrolKeepsCooldown DEF RegisterSource
  <1>4. ASSUME NEW s \in Source, HydrateSource(s)
        PROVE  Later
    BY <1>1, <1>4, NoConnSource, EnrolKeepsCooldown DEF HydrateSource
  <1>5. ASSUME NEW s \in Source, NEW d \in Seconds, CoolDown(s, d)
        PROVE  Later
    <2>1. t \in registered'
      BY <1>5 DEF CoolDown
    <2>2. CASE t = s
      BY <1>1, <1>5, <2>1, <2>2, CoolDownMoves, ExpiryTyped
    <2>3. CASE t # s
      BY <1>1, <1>5, <2>1, <2>3, CoolDownMoves
    <2> QED BY <2>2, <2>3
  <1>6. ASSUME NEW s \in Source, ConsumeQuota(s)
        PROVE  Later
    BY <1>1, <1>6, ConsumeKeepsCooldown DEF ConsumeQuota
  <1>7. CASE ApplyCooldowns
    BY <1>1, <1>7, ApplyMoves DEF ApplyCooldowns
  <1>8. CASE Crash
    <2>1. crashes' = crashes + 1 /\ crashes \in Nat
      BY <1>8 DEF Crash, TypeOK
    <2> QED BY <2>1
  <1>9. CASE Flush \/ LoadAllSources \/ HydrateDone \/ LoadCooldowns \/ Tick
    BY <1>2, <1>9
    DEF Flush, FlushRow, FlushCooldown, LoadAllSources, HydrateDone,
        LoadCooldowns, Tick
  <1>10. CASE UNCHANGED vars
    BY <1>2, <1>10 DEF vars
  <1> QED
    BY <1>3, <1>4, <1>5, <1>6, <1>7, <1>8, <1>9, <1>10
    DEF ProgramNext, Runtime, Boot

LEMMA AnyStep == TypeOK /\ [Next]_vars => NeverShortened
  <1> SUFFICES ASSUME TypeOK, [Next]_vars, NEW t \in registered,
                      t \in registered'
               PROVE  pool'[t].until >= pool[t].until \/ pool'[t].until = 0
    BY DEF NeverShortened
  <1>1. t \in Source /\ pool[t] \in SourceState
    BY DEF TypeOK
  <1>2. CASE Crash \/ ClearAll
    BY <1>2 DEF Crash, ClearAll
  <1>3. ASSUME NEW s \in Source, UnregisterSource(s)
        PROVE  pool'[t].until >= pool[t].until
    BY <1>1, <1>3 DEF UnregisterSource, TypeOK, SourceState
  <1>4. ASSUME NEW s \in Source, ClearCooldown(s)
        PROVE  pool'[t].until >= pool[t].until \/ pool'[t].until = 0
    BY <1>1, <1>4, ClearMoves DEF SourceState
  <1>5. CASE ProgramNext /\ ~Crash
    <2>1. crashes' = crashes
      BY <1>5
      DEF ProgramNext, Runtime, Flush, Boot, RegisterSource, CoolDown,
          ConsumeQuota, FlushRow, FlushCooldown, LoadAllSources, HydrateSource,
          HydrateDone, LoadCooldowns, ApplyCooldowns, Tick, bounds
    <2> QED BY <1>5, <2>1, ProgramStep DEF OnlyMovesLater
  <1>6. CASE UNCHANGED vars
    BY <1>1, <1>6 DEF vars, mem, SourceState
  <1> QED
    BY <1>2, <1>3, <1>4, <1>5, <1>6 DEF Next, ProgramNext, Removal

\* No caller, no re-registration and no record read at start-up shortens the
\* cooldown of a source; only clearCooldown ends one early.
THEOREM CooldownExtends == Spec => CooldownOnlyExtends
  BY AnyStep, TypeCorrect, PTL DEF Spec, CooldownOnlyExtends

LEMMA ProgramTyped == ProgramSpec => []TypeOK
  <1>1. [ProgramNext]_vars => [Next]_vars
    BY DEF ProgramNext, Next
  <1> QED BY <1>1, InitTyped, StepTyped, PTL DEF ProgramSpec

\* In the program as it is, short of a restart, a cooldown only moves later and
\* its source stays registered.
THEOREM ProgramCooldown == ProgramSpec => ProgramKeepsCooldown
  BY ProgramStep, ProgramTyped, PTL DEF ProgramSpec, ProgramKeepsCooldown

-----------------------------------------------------------------------------
(* What the database will hold *)

\* A cooldown in memory is the last one queued or stored for its source, or,
\* once start-up has applied the records it read, the one it read.
Backed(s) ==
    \/ Eventual(s) = pool[s].until
    \/ boot = "up" /\ loaded[s] = pool[s].until

PersistInv == \A s \in registered : pool[s].until > 0 => Backed(s)

\* Landing the oldest write leaves the last one where it is: the head becomes
\* the record, and is the last one when the queue was a single write.
LEMMA LastWriteKept ==
  ASSUME NEW q \in Seq(Nat), q # <<>>
  PROVE  (IF Tail(q) = <<>> THEN Head(q) ELSE Tail(q)[Len(Tail(q))]) = q[Len(q)]
  <1>1. /\ Tail(q) \in Seq(Nat)
        /\ Len(Tail(q)) = Len(q) - 1
        /\ \A i \in 1 .. Len(Tail(q)) : Tail(q)[i] = q[i+1]
    BY HeadTailProperties
  <1>2. Len(q) \in Nat /\ Head(q) = q[1]
    OBVIOUS
  <1>3. CASE Tail(q) = <<>>
    <2>1. Len(Tail(q)) = 0
      BY <1>3, Len(<<>>) = 0
    <2> QED BY <1>1, <1>2, <1>3, <2>1
  <1>4. CASE Tail(q) # <<>>
    <2>1. Len(Tail(q)) \in Nat \ {0}
      BY <1>1, <1>4, EmptySeq
    <2> QED BY <1>1, <1>2, <1>4, <2>1
  <1> QED BY <1>3, <1>4

LEMMA FlushKeepsEventual ==
  ASSUME TypeOK, ~WriteMayFail, NEW s \in Source, FlushCooldown(s),
         NEW t \in Source
  PROVE  Eventual(t)' = Eventual(t)
  <1> DEFINE q == coolWrites[s]
  <1>1. q \in Seq(Nat) /\ q # <<>>
    BY DEF TypeOK, FlushCooldown
  <1>2. /\ cooldowns' = [cooldowns EXCEPT ![s] = Head(q)]
        /\ coolWrites' = [coolWrites EXCEPT ![s] = Tail(q)]
    BY DEF FlushCooldown
  <1>3. CASE t = s
    <2>1. cooldowns'[t] = Head(q) /\ coolWrites'[t] = Tail(q)
      BY <1>2, <1>3 DEF TypeOK
    <2>2. Eventual(t)' = IF Tail(q) = <<>> THEN Head(q)
                         ELSE Tail(q)[Len(Tail(q))]
      BY <2>1 DEF Eventual
    <2>3. Eventual(t) = q[Len(q)]
      BY <1>1, <1>3 DEF Eventual
    <2> HIDE DEF q
    <2> QED BY <1>1, <2>2, <2>3, LastWriteKept
  <1>4. CASE t # s
    BY <1>2, <1>4 DEF TypeOK, Eventual
  <1> QED BY <1>3, <1>4

LEMMA StepPersisted ==
  TypeOK /\ ~WriteMayFail /\ PersistInv /\ [Next]_vars => PersistInv'
  <1> SUFFICES ASSUME TypeOK, ~WriteMayFail, PersistInv, [Next]_vars,
                      NEW t \in registered', pool'[t].until > 0
               PROVE  Backed(t)'
    BY DEF PersistInv
  <1>1. TypeOK'
    BY StepTyped
  <1>2. t \in Source /\ pool[t] \in SourceState /\ pool[t].until \in Nat
    BY <1>1 DEF TypeOK, SourceState
  <1>3. ASSUME t \in registered, pool'[t].until = pool[t].until,
               Eventual(t)' = Eventual(t), UNCHANGED <<boot, loaded>>
        PROVE  Backed(t)'
    BY <1>3 DEF PersistInv, Backed
  <1>4. ASSUME UNCHANGED <<cooldowns, coolWrites>>
        PROVE  Eventual(t)' = Eventual(t)
    BY <1>4 DEF Eventual
  <1>5. ASSUME NEW s \in Source, NEW l, Enrol(s, l),
               UNCHANGED <<cooldowns, coolWrites, boot, loaded>>
        PROVE  Backed(t)'
    <2>1. CASE t \in registered
      BY <1>3, <1>4, <1>5, <2>1, EnrolKeepsCooldown
    <2>2. CASE t \notin registered
      <3>1. t = s /\ pool'[t].until = 0
        BY <1>2, <1>5, <2>2 DEF Enrol, Fresh, TypeOK
      <3> QED BY <3>1
    <2> QED BY <2>1, <2>2
  <1>6. ASSUME NEW s \in Source, NEW l \in Logical, RegisterSource(s, l)
        PROVE  Backed(t)'
    BY <1>5, <1>6 DEF RegisterSource, start, db
  <1>7. ASSUME NEW s \in Source, HydrateSource(s)
        PROVE  Backed(t)'
    BY <1>5, <1>7, NoConnSource DEF HydrateSource, db
  <1>8. ASSUME NEW s \in Source, UnregisterSource(s)
        PROVE  Backed(t)'
    <2>1. t \in registered /\ pool'[t].until = pool[t].until
      BY <1>2, <1>8 DEF UnregisterSource, TypeOK
    <2> QED BY <1>3, <1>4, <1>8, <2>1 DEF UnregisterSource, start, db, writes
  <1>9. ASSUME NEW s \in Source, ConsumeQuota(s)
        PROVE  Backed(t)'
    BY <1>2, <1>3, <1>4, <1>9, ConsumeKeepsCooldown
    DEF ConsumeQuota, start, db, writes
  <1>10. ASSUME NEW s \in Source, NEW d \in Seconds, CoolDown(s, d)
         PROVE  Backed(t)'
    <2>1. t \in registered /\ UNCHANGED <<boot, loaded, cooldowns>>
      BY <1>10 DEF CoolDown, start, db
    <2>2. /\ coolWrites[s] \in Seq(Nat) /\ Expiry(d) \in Nat
          /\ coolWrites' = [coolWrites EXCEPT ![s] = Append(@, Expiry(d))]
      BY <1>10, ExpiryTyped DEF CoolDown, TypeOK
    <2>3. CASE t = s
      <3>1. pool'[t].until = Expiry(d)
        BY <1>2, <1>10, <2>3, CoolDownMoves
      <3>2. coolWrites'[t] = Append(coolWrites[s], Expiry(d))
        BY <2>2, <2>3 DEF TypeOK
      <3>3. Eventual(t)' = Expiry(d)
        BY <2>2, <3>2 DEF Eventual
      <3> QED BY <3>1, <3>3 DEF Backed
    <2>4. CASE t # s
      <3>1. coolWrites'[t] = coolWrites[t]
        BY <1>2, <2>2, <2>4 DEF TypeOK
      <3>2. Eventual(t)' = Eventual(t)
        BY <2>1, <3>1 DEF Eventual
      <3> QED BY <1>2, <1>3, <1>10, <2>1, <2>4, <3>2, CoolDownMoves
    <2> QED BY <2>3, <2>4
  <1>11. ASSUME NEW s \in Source, ClearCooldown(s)
         PROVE  Backed(t)'
    <2>1. t # s /\ pool'[t].until = pool[t].until
      BY <1>2, <1>11, ClearMoves
    <2>2. coolWrites'[t] = coolWrites[t] /\ cooldowns' = cooldowns
      BY <1>2, <1>11, <2>1 DEF ClearCooldown, TypeOK, db
    <2>3. Eventual(t)' = Eventual(t)
      BY <2>2 DEF Eventual
    <2> QED BY <1>3, <1>11, <2>1, <2>3 DEF ClearCooldown, start
  <1>12. CASE ClearAll \/ Crash
    BY <1>12 DEF ClearAll, Crash
  <1>13. ASSUME NEW s \in Source, FlushRow(s)
         PROVE  Backed(t)'
    BY <1>3, <1>4, <1>13 DEF FlushRow, mem, start
  <1>14. ASSUME NEW s \in Source, FlushCooldown(s)
         PROVE  Backed(t)'
    BY <1>2, <1>3, <1>14, FlushKeepsEventual DEF FlushCooldown, mem, start
  <1>15. CASE LoadAllSources \/ HydrateDone \/ LoadCooldowns
    \* Before the records are applied nothing in memory came from them.
    <2>1. boot # "up" /\ UNCHANGED <<registered, pool, cooldowns, coolWrites>>
      BY <1>15
      DEF LoadAllSources, HydrateDone, LoadCooldowns, mem, db, writes
    <2> QED BY <1>4, <2>1 DEF PersistInv, Backed
  <1>16. CASE ApplyCooldowns
    <2>1. pool'[t].until = Rehydrated(t) /\ loaded[t] \in Nat
      BY <1>2, <1>16, ApplyMoves DEF TypeOK
    <2>2. /\ t \in registered /\ boot' = "up" /\ boot = "apply"
          /\ UNCHANGED <<loaded, cooldowns, coolWrites>>
      BY <1>16 DEF ApplyCooldowns, db, writes
    <2> QED BY <1>4, <2>1, <2>2 DEF PersistInv, Backed, Rehydrated
  <1>17. CASE Tick \/ UNCHANGED vars
    BY <1>3, <1>4, <1>17 DEF Tick, vars, mem, db, writes, start
  <1> QED
    BY <1>6, <1>7, <1>8, <1>9, <1>10, <1>11, <1>12, <1>13, <1>14, <1>15,
       <1>16, <1>17
    DEF Next, Runtime, Removal, Flush, Boot

\* When writes do not fail, the cooldown in memory and the record the database
\* ends up with are the same, short of the records start-up applied.
THEOREM MemoryPersisted == Spec => []PersistedMatchesMemory
  <1>1. Init => PersistInv
    BY DEF Init, PersistInv
  <1>2. CASE WriteMayFail
    <2>1. TypeOK => PersistedMatchesMemory
      BY <1>2 DEF PersistedMatchesMemory
    <2> QED BY <2>1, TypeCorrect, PTL
  <1>3. CASE ~WriteMayFail
    <2>1. TypeOK /\ PersistInv /\ [Next]_vars => PersistInv'
      BY <1>3, StepPersisted
    <2>2. PersistInv => PersistedMatchesMemory
      BY DEF PersistInv, Backed, PersistedMatchesMemory
    <2> QED BY <1>1, <2>1, <2>2, TypeCorrect, PTL DEF Spec
  <1> QED BY <1>2, <1>3

-----------------------------------------------------------------------------
(* What a restart brings back *)

\* Every row of this boot is registered again, without its suffix, or still
\* waits to be.
RowsHydrated ==
    \A r \in Source :
        readRows[r] # NoLogical /\ r \notin toHydrate
            => HydratedId(r) \in registered

\* The cooldown records are only read and applied when no row waits.
HydratedFirst == boot \in {"load", "apply", "up"} => toHydrate = {}

RestoreInv == RowsHydrated /\ HydratedFirst /\ UnsuffixedRestored

LEMMA StepRestored ==
  TypeOK /\ RestoreInv /\ [ProgramNext]_vars => RestoreInv'
  <1> SUFFICES ASSUME TypeOK, RestoreInv, [ProgramNext]_vars
               PROVE  RestoreInv'
    OBVIOUS
  <1>1. TypeOK' /\ OnlyMovesLater
    <2>1. [Next]_vars
      BY DEF ProgramNext, Next
    <2> QED BY <2>1, StepTyped, ProgramStep
  <1>2. ASSUME UNCHANGED start, crashes' = crashes, now' >= now
        PROVE  RestoreInv'
    <2>1. \A t \in registered : t \in registered'
                                  /\ pool'[t].until >= pool[t].until
      BY <1>1, <1>2 DEF OnlyMovesLater
    <2>2. UNCHANGED <<boot, readRows, toHydrate, loaded>>
      BY <1>2 DEF start
    <2>3. RowsHydrated' /\ HydratedFirst'
      BY <2>1, <2>2 DEF RestoreInv, RowsHydrated, HydratedFirst, HydratedId
    <2>4. UnsuffixedRestored'
      <3> SUFFICES ASSUME NEW b \in Base, Restorable(<<b, NoConn>>)'
                   PROVE  /\ <<b, NoConn>> \in registered'
                          /\ pool'[<<b, NoConn>>].until >= loaded'[<<b, NoConn>>]
        BY DEF UnsuffixedRestored
      <3> DEFINE s == <<b, NoConn>>
      <3>1. s \in Source
        BY DEF Source
      <3> HIDE DEF s
      <3>2. /\ loaded[s] \in Nat /\ pool[s].until \in Nat
            /\ pool'[s].until \in Nat /\ now \in Nat /\ now' \in Nat
        BY <1>1, <3>1, PoolAssumption
        DEF TypeOK, SourceState, PoolAssumption
      <3>3. Restorable(s)
        BY <1>2, <2>2, <3>2 DEF Restorable, s
      <3>4. s \in registered /\ pool[s].until >= loaded[s]
        BY <3>3 DEF RestoreInv, UnsuffixedRestored, s
      <3> QED BY <2>1, <2>2, <3>2, <3>4 DEF s
    <2> QED BY <2>3, <2>4 DEF RestoreInv
  <1>3. CASE Runtime \/ Flush \/ Tick \/ UNCHANGED vars
    <2>1. now \in Nat
      BY PoolAssumption DEF TypeOK, PoolAssumption
    <2>2. UNCHANGED start /\ crashes' = crashes /\ now' >= now
      BY <1>3, <2>1
      DEF Runtime, Flush, Tick, RegisterSource, CoolDown, ConsumeQuota,
          FlushRow, FlushCooldown, vars, start, bounds
    <2> QED BY <1>2, <2>2
  <1>4. CASE Crash
    BY <1>4
    DEF Crash, RestoreInv, RowsHydrated, HydratedFirst, UnsuffixedRestored,
        Restorable
  <1>5. CASE LoadAllSources
    BY <1>5
    DEF LoadAllSources, RestoreInv, RowsHydrated, HydratedFirst,
        UnsuffixedRestored, Restorable
  <1>6. ASSUME NEW s \in Source, HydrateSource(s) PROVE RestoreInv'
    <2>1. /\ boot = "register" /\ boot' = "register" /\ readRows' = readRows
          /\ toHydrate' = toHydrate \ {s}
          /\ registered' = registered \cup {HydratedId(s)}
      BY <1>6 DEF HydrateSource, Enrol
    <2>2. RowsHydrated'
      BY <2>1 DEF RestoreInv, RowsHydrated, HydratedId
    <2> QED BY <2>1, <2>2
            DEF RestoreInv, HydratedFirst, UnsuffixedRestored, Restorable
  <1>7. CASE HydrateDone \/ LoadCooldowns
    <2>1. /\ boot' \in {"load", "apply"} /\ toHydrate = {}
          /\ UNCHANGED <<registered, readRows, toHydrate>>
      BY <1>7 DEF HydrateDone, LoadCooldowns, RestoreInv, HydratedFirst, mem
    <2> QED BY <2>1
            DEF RestoreInv, RowsHydrated, HydratedFirst, HydratedId,
                UnsuffixedRestored, Restorable
  <1>8. CASE ApplyCooldowns
    <2>1. /\ toHydrate = {} /\ boot' = "up"
          /\ UNCHANGED <<now, registered, readRows, toHydrate, loaded>>
      BY <1>8 DEF ApplyCooldowns, RestoreInv, HydratedFirst
    <2>2. RowsHydrated' /\ HydratedFirst'
      BY <2>1 DEF RestoreInv, RowsHydrated, HydratedFirst, HydratedId
    <2>3. UnsuffixedRestored'
      <3> SUFFICES ASSUME NEW b \in Base, Restorable(<<b, NoConn>>)'
                   PROVE  /\ <<b, NoConn>> \in registered'
                          /\ pool'[<<b, NoConn>>].until >= loaded'[<<b, NoConn>>]
        BY DEF UnsuffixedRestored
      <3> DEFINE s == <<b, NoConn>>
      <3>1. s \in Source /\ HydratedId(s) = s
        BY DEF Source, HydratedId
      <3> HIDE DEF s
      <3>2. loaded[s] > now /\ readRows[s] # NoLogical
        BY <2>1 DEF Restorable, s
      <3>3. s \in registered
        BY <2>1, <3>1, <3>2 DEF RestoreInv, RowsHydrated
      <3>4. loaded[s] \in Nat /\ pool[s].until \in Nat
        BY <3>1 DEF TypeOK, SourceState
      <3>5. pool'[s].until >= loaded[s]
        BY <1>8, <3>1, <3>2, <3>3, <3>4, ApplyMoves DEF Rehydrated
      <3> QED BY <2>1, <3>3, <3>5 DEF s
    <2> QED BY <2>2, <2>3 DEF RestoreInv
  <1> QED
    BY <1>3, <1>4, <1>5, <1>6, <1>7, <1>8 DEF ProgramNext, Boot

\* After any restart, whatever ran while it was under way, a source without a
\* connection suffix whose row and unexpired record were read cools at least as
\* long as its record says.
THEOREM RestartRestores == ProgramSpec => []UnsuffixedRestored
  <1>1. Init => RestoreInv
    BY DEF Init, RestoreInv, RowsHydrated, HydratedFirst, UnsuffixedRestored,
           Restorable, Phase
  <1>2. RestoreInv => UnsuffixedRestored
    BY DEF RestoreInv
  <1> QED BY <1>1, <1>2, StepRestored, ProgramTyped, PTL DEF ProgramSpec
=============================================================================
