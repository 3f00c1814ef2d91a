---------------------------- MODULE ChatLoopProofs ----------------------------
(***************************************************************************)
(* What TLC checks of the chat loop on two accounts, proved for any number *)
(* of accounts and sources and any bounds.                                 *)
(***************************************************************************)
EXTENDS ChatLoop, TLAPS

USE LoopAssumption DEF LoopAssumption

\* A cooldown or lock set now ends within the bound of the clock.
LEMMA LongerTyped ==
  ASSUME TypeOK, NEW c \in Conn
  PROVE  /\ now + Cooldown \in 0..(MaxTime + Cooldown)
         /\ Longer(cooling[c]) \in 0..(MaxTime + Cooldown)
  BY DEF TypeOK, Longer

\* So does no cooldown and no lock at all.
LEMMA ZeroTyped ==
  /\ 0 \in 0..(MaxTime + Cooldown)
  /\ 0 \in 0..MaxTime
  /\ 0 \in 0..MaxFakes
  /\ 0 < MaxFakes
<1>1. MaxTime \in Nat /\ Cooldown \in Nat /\ MaxFakes \in Nat \ {0}
  OBVIOUS
<1> QED
  BY <1>1

\* The accounts the request was sent to are out of the running, but for the one
\* of this turn once it was sent there; an account is only taken from the others,
\* and the count of fake responses stays below the cap while the loop goes on.
Progressing ==
    /\ tried \ exclude \subseteq (IF pc \in {"sent", "answered"} THEN {conn} ELSE {})
    /\ pc \in {"checking", "sent"} => conn \in Conn \ exclude
    /\ pc # "answered" => fakes < MaxFakes

IInv == TypeOK /\ Progressing

LEMMA InitHolds == Init => IInv
<1> SUFFICES ASSUME Init PROVE IInv
  OBVIOUS
<1>1. /\ lock \in [Conn -> 0..(MaxTime + Cooldown)]
      /\ cooling \in [Conn -> 0..(MaxTime + Cooldown)]
      /\ now \in 0..MaxTime /\ fakes \in 0..MaxFakes /\ fakes < MaxFakes
  BY ZeroTyped DEF Init
<1>2. /\ exclude \subseteq Conn /\ skipped \subseteq Keyed /\ tried \subseteq Conn
      /\ preferred \in Conn \cup Elsewhere \cup {NoConn}
      /\ disabled \in BOOLEAN /\ conn \in Conn \cup {NoConn} /\ locked \in BOOLEAN
      /\ tried \ exclude = {}
  BY DEF Init
<1>3. pc = "top" /\ reply = "none"
  BY DEF Init
<1>4. TypeOK
  BY <1>1, <1>2, <1>3 DEF TypeOK
<1>5. Progressing
  BY <1>1, <1>2, <1>3 DEF Progressing
<1> QED
  BY <1>4, <1>5 DEF IInv

\* No step leaves the invariant: one case for every action.
LEMMA StepHolds == IInv /\ [Next]_vars => IInv'
<1> SUFFICES ASSUME IInv, [Next]_vars PROVE IInv'
  OBVIOUS
<1> USE DEF IInv, accounts, weights, pick
<1>1. CASE UNCHANGED vars
  BY <1>1 DEF vars, TypeOK, Progressing
<1>2. CASE Top
  BY <1>2 DEF Top, Answer, TypeOK, Progressing
<1>3. ASSUME NEW s \in Conn \cup Elsewhere \cup {NoConn}, Prefer(s) PROVE IInv'
  BY <1>3 DEF Prefer, TypeOK, Progressing
<1>4. CASE PreferThrows
  BY <1>4 DEF PreferThrows, TypeOK, Progressing
<1>5. CASE FailOpen
  BY <1>5 DEF FailOpen, TypeOK, Progressing
<1>6. CASE Refuse
  BY <1>6 DEF Refuse, Answer, TypeOK, Progressing
<1>7. ASSUME NEW c \in Conn, Skip(c) PROVE IInv'
  BY <1>7 DEF Skip, Unwanted, TypeOK, Progressing
<1>8. ASSUME NEW c \in Conn, Accept(c) PROVE IInv'
  BY <1>8 DEF Accept, Usable, Excluded, TypeOK, Progressing
<1>9. CASE SkipCooling
  BY <1>9 DEF SkipCooling, WithoutConn, TypeOK, Progressing
<1>10. CASE OverLimit
  <2>1. cooling' \in [Conn -> 0..(MaxTime + Cooldown)]
    BY <1>10, LongerTyped DEF OverLimit, Cool, TypeOK, Progressing
  <2> QED
    BY <1>10, <2>1 DEF OverLimit, WithoutConn, TypeOK, Progressing
<1>11. CASE Dispatch
  BY <1>11 DEF Dispatch, TypeOK, Progressing
<1>12. CASE Succeed
  BY <1>12 DEF Succeed, Unlocked, Answer, TypeOK, Progressing
<1>13. CASE Fake
  <2>1. cooling' \in [Conn -> 0..(MaxTime + Cooldown)]
    BY <1>13, LongerTyped DEF Fake, Cool, TypeOK, Progressing
  <2>2. lock' \in [Conn -> 0..(MaxTime + Cooldown)]
    BY <1>13, ZeroTyped DEF Fake, Unlocked, TypeOK
  <2>3. CASE fakes + 1 >= MaxFakes
    BY <1>13, <2>1, <2>2, <2>3 DEF Fake, Answer, TypeOK, Progressing
  <2>4. CASE ~(fakes + 1 >= MaxFakes)
    BY <1>13, <2>1, <2>2, <2>4 DEF Fake, WithoutConn, TypeOK, Progressing
  <2> QED
    BY <2>3, <2>4
<1>14. CASE Fail
  <2>1. lock' \in [Conn -> 0..(MaxTime + Cooldown)]
    BY <1>14, LongerTyped DEF Fail, TypeOK, Progressing
  <2> QED
    BY <1>14, <2>1 DEF Fail, WithoutConn, TypeOK, Progressing
<1>15. CASE Reject
  BY <1>15 DEF Reject, Answer, TypeOK, Progressing
<1>16. ASSUME NEW c \in Conn, Others(c) PROVE IInv'
  <2>1. /\ lock' \in [Conn -> 0..(MaxTime + Cooldown)]
        /\ cooling' \in [Conn -> 0..(MaxTime + Cooldown)]
    BY <1>16, LongerTyped DEF Others, Cool, TypeOK
  <2> QED
    BY <1>16, <2>1 DEF Others, TypeOK, Progressing
<1>17. CASE Tick
  BY <1>17 DEF Tick, TypeOK, Progressing
<1> QED
  BY <1>1, <1>2, <1>3, <1>4, <1>5, <1>6, <1>7, <1>8, <1>9, <1>10, <1>11, <1>12,
     <1>13, <1>14, <1>15, <1>16, <1>17 DEF Next, Turn

LEMMA Invariant == Spec => []IInv
  BY InitHolds, StepHolds, PTL DEF Spec

\* The values of every variable, the cap on fake responses among them.
THEOREM TypeCorrect == Spec => []TypeOK
  BY Invariant, PTL DEF IInv

\* A request is never sent twice to the same account.
THEOREM TriedOnce == Spec => NeverTriedTwice
<1>1. IInv => (Dispatch => conn \notin tried)
  BY DEF IInv, Dispatch, Progressing
<1> QED
  BY <1>1, Invariant, PTL DEF NeverTriedTwice, Spec

\* A request is refused only when no account is left that it did not give up for
\* a reason of the account's own and that is not locked.
THEOREM Refusal == Spec => RefusedForCause
<1> DEFINE Cause == reply' = "unavailable" /\ reply = "none"
                       => \A c \in Conn : c \in exclude \/ lock[c] > now
<1>1. ASSUME IInv, [Next]_vars PROVE Cause
  <2> SUFFICES ASSUME reply' = "unavailable", reply = "none"
               PROVE  \A c \in Conn : c \in exclude \/ lock[c] > now
    OBVIOUS
  <2>1. Refuse
    BY <1>1 DEF Next, Turn, vars, Top, Prefer, PreferThrows, FailOpen, Skip, Accept,
       SkipCooling, OverLimit, Dispatch, Succeed, Fake, Fail, Reject, Others, Tick,
       Answer, WithoutConn, accounts, weights, pick
  <2> QED
    BY <1>1, <2>1 DEF Refuse, Usable, Excluded, IInv, TypeOK
<1> QED
  BY <1>1, Invariant, PTL DEF RefusedForCause, Spec
=============================================================================
