------------------------------ MODULE ComboProofs ------------------------------
(***************************************************************************)
(* The two ways a combo asks its models (open-sse/services/combo.js), for  *)
(* any models, requests and settings.  One after the other: the rotation is *)
(* fair, no model is forgotten before a request is refused, and a           *)
(* conversation changes its model for a cause.  In a panel: the counters    *)
(* agree with the slots, no capacity is left idle, the panel ends for a     *)
(* cause, and the answers it took survive what comes after.                 *)
(***************************************************************************)
EXTENDS ComboFallback, FusionPanel, FiniteSetTheorems, WellFoundedInduction, TLAPS

-----------------------------------------------------------------------------
\* The least element of a set of numbers, and what follows from it.

LEMMA LeastNat ==
    ASSUME NEW S \in SUBSET Nat, S # {}
    PROVE  \E m \in S : \A j \in S : m <= j
<1>1. PICK m \in S : \A j \in S : ~(<<j, m>> \in OpToRel(<, Nat))
  BY NatLessThanWellFounded, WFMin
<1>2. ASSUME NEW j \in S PROVE m <= j
  <2>1. j \in Nat /\ m \in Nat
    OBVIOUS
  <2>2. ~(<<j, m>>[1] < <<j, m>>[2])
    BY <1>1, <2>1 DEF OpToRel
  <2>. QED
    BY <2>1, <2>2
<1>. QED
  BY <1>2

\* Induction, with the numbers a statement holds of as a set.
LEMMA Induction ==
    ASSUME NEW P \in SUBSET Nat, 0 \in P, \A k \in P : k + 1 \in P
    PROVE  P = Nat
<1> SUFFICES ASSUME Nat \ P # {} PROVE FALSE
  OBVIOUS
<1>1. PICK m \in Nat \ P : \A j \in Nat \ P : m <= j
  BY LeastNat
<1>2. m # 0 /\ m - 1 \in Nat
  BY <1>1
<1>3. m - 1 \in P
  BY <1>1, <1>2
<1>. QED
  BY <1>1, <1>2, <1>3

\* A recursion along an interval, step[k] being what it does at k, has a solution.
Steps(n, T) == [1..n -> [T -> T]]

Solves(f, T, a, n, step) ==
    f \in [0..n -> T] /\ f[0] = a /\ \A k \in 1..n : f[k] = step[k][f[k - 1]]

LEMMA Iteration ==
    ASSUME NEW T, NEW a \in T, NEW n \in Nat, NEW step \in Steps(n, T)
    PROVE  \E f : Solves(f, T, a, n, step)
<1> DEFINE P == {m \in Nat : m <= n => \E f : Solves(f, T, a, m, step)}
<1>1. 0 \in P
  <2>1. Solves([k \in 0..0 |-> a], T, a, 0, step)
    BY DEF Solves
  <2>. QED
    BY <2>1
<1>2. ASSUME NEW m \in P PROVE m + 1 \in P
  <2>1. m \in Nat
    OBVIOUS
  <2>. SUFFICES ASSUME m + 1 <= n PROVE \E f : Solves(f, T, a, m + 1, step)
    BY <2>1
  <2>2. PICK f : Solves(f, T, a, m, step)
    BY <1>2, <2>1
  <2> DEFINE g == [k \in 0..(m + 1) |-> IF k = m + 1 THEN step[m + 1][f[m]] ELSE f[k]]
  <2>3. step[m + 1][f[m]] \in T
    <3>1. f[m] \in T /\ m + 1 \in 1..n
      BY <2>1, <2>2 DEF Solves
    <3>. QED
      BY <3>1 DEF Steps
  <2>4. g \in [0..(m + 1) -> T] /\ g[0] = a
    BY <2>1, <2>2, <2>3 DEF Solves
  <2>5. ASSUME NEW k \in 1..(m + 1) PROVE g[k] = step[k][g[k - 1]]
    <3>1. CASE k = m + 1
      <4>1. k - 1 = m /\ m # m + 1 /\ m \in 0..(m + 1) /\ k \in 0..(m + 1)
        BY <3>1, <2>1
      <4>2. g[m] = f[m] /\ g[k] = step[m + 1][f[m]]
        BY <4>1, <3>1
      <4>. QED
        BY <4>1, <4>2, <3>1
    <3>2. CASE k # m + 1
      <4>1. /\ k \in 1..m /\ k - 1 \in 0..m /\ k - 1 # m + 1
            /\ k \in 0..(m + 1) /\ k - 1 \in 0..(m + 1)
        BY <3>2, <2>1
      <4>2. g[k] = f[k] /\ g[k - 1] = f[k - 1]
        BY <4>1, <3>2
      <4>. QED
        BY <4>1, <4>2, <2>2 DEF Solves
    <3>. QED
      BY <3>1, <3>2
  <2>6. Solves(g, T, a, m + 1, step)
    BY <2>4, <2>5 DEF Solves
  <2>. QED
    BY <2>6
<1> HIDE DEF P
<1>3. P = Nat
  <2>1. P \subseteq Nat
    BY DEF P
  <2>. QED
    BY <1>1, <1>2, <2>1, Induction
<1>4. n \in P /\ n <= n
  BY <1>3
<1>. QED
  BY <1>4 DEF P

-----------------------------------------------------------------------------
\* Sequences of models, and what Filter makes of them.

\* What Filter keeps of the elements up to each.
Keeps(kept, s, S, T) ==
    /\ kept \in [0..Len(s) -> Seq(T)]
    /\ kept[0] = <<>>
    /\ \A k \in 1..Len(s) :
          kept[k] = IF s[k] \in S THEN Append(kept[k - 1], s[k]) ELSE kept[k - 1]

LEMMA Filtered ==
    ASSUME NEW T, NEW s \in Seq(T), NEW S
    PROVE  \E kept : Keeps(kept, s, S, T) /\ Filter(s, S) = kept[Len(s)]
<1> DEFINE n == Len(s)
           step == [k \in 1..n |-> [q \in Seq(T) |->
                       IF s[k] \in S THEN Append(q, s[k]) ELSE q]]
           Rec(f) == [k \in 0..n |->
                         IF k = 0 THEN <<>>
                         ELSE IF s[k] \in S THEN Append(f[k - 1], s[k]) ELSE f[k - 1]]
<1>0. n \in Nat /\ <<>> \in Seq(T)
  OBVIOUS
<1>1. step \in Steps(n, Seq(T))
  BY DEF Steps
<1>2. PICK f : Solves(f, Seq(T), <<>>, n, step)
  <2> HIDE DEF step, n
  <2>. QED
    BY <1>0, <1>1, Iteration
<1>3. f = Rec(f)
  <2>1. ASSUME NEW k \in 0..n PROVE f[k] = Rec(f)[k]
    <3>1. CASE k = 0
      BY <3>1, <1>2 DEF Solves
    <3>2. CASE k # 0
      <4>1. k \in 1..n /\ k - 1 \in 0..n
        BY <3>2, <1>0
      <4>2. f[k] = step[k][f[k - 1]] /\ f[k - 1] \in Seq(T)
        BY <4>1, <1>2 DEF Solves
      <4>3. f[k] = IF s[k] \in S THEN Append(f[k - 1], s[k]) ELSE f[k - 1]
        BY <4>1, <4>2
      <4>. QED
        BY <4>1, <4>3, <3>2
    <3>. QED
      BY <3>1, <3>2
  <2>2. f = [k \in 0..n |-> f[k]] /\ Rec(f) = [k \in 0..n |-> Rec(f)[k]]
    BY <1>2 DEF Solves
  <2> HIDE DEF Rec
  <2>. QED
    BY <2>1, <2>2
<1> DEFINE K == CHOOSE g : g = Rec(g)
<1>4. K = Rec(K)
  <2> HIDE DEF Rec
  <2>. QED
    BY <1>3
<1>5. Filter(s, S) = K[n]
  BY DEF Filter
<1>6. ASSUME NEW g, g = Rec(g)
      PROVE  /\ g[0] = <<>> /\ g = [k \in 0..n |-> g[k]]
             /\ \A k \in 1..n :
                   g[k] = IF s[k] \in S THEN Append(g[k - 1], s[k]) ELSE g[k - 1]
  <2>1. 0 \in 0..n /\ \A k \in 1..n : k \in 0..n /\ k # 0
    BY <1>0
  <2>2. \A k \in 0..n : g[k] = Rec(g)[k]
    BY <1>6
  <2>. QED
    BY <1>6, <2>1, <2>2
<1> HIDE DEF K, Rec
<1>7. /\ K[0] = <<>> /\ K = [k \in 0..n |-> K[k]]
      /\ \A k \in 1..n : K[k] = IF s[k] \in S THEN Append(K[k - 1], s[k]) ELSE K[k - 1]
  BY <1>4, <1>6
<1> DEFINE P == {m \in Nat : m <= n => K[m] \in Seq(T)}
<1>8. P = Nat
  <2>1. 0 \in P
    BY <1>0, <1>7
  <2>2. ASSUME NEW m \in P PROVE m + 1 \in P
    <3>. SUFFICES ASSUME m + 1 <= n PROVE K[m + 1] \in Seq(T)
      OBVIOUS
    <3>1. m \in Nat /\ m + 1 \in 1..n /\ (m + 1) - 1 = m /\ K[m] \in Seq(T)
      BY <1>0
    <3>2. K[m + 1] = IF s[m + 1] \in S THEN Append(K[m], s[m + 1]) ELSE K[m]
      BY <1>7, <3>1
    <3>. QED
      BY <3>1, <3>2
  <2> HIDE DEF P
  <2>3. P \subseteq Nat
    BY DEF P
  <2>. QED
    BY <2>1, <2>2, <2>3, Induction
<1>9. \A k \in 0..n : K[k] \in Seq(T)
  BY <1>8, <1>0
<1>10. K \in [0..n -> Seq(T)]
  BY <1>7, <1>9
<1>11. Keeps(K, s, S, T)
  BY <1>7, <1>10 DEF Keeps
<1>. QED
  BY <1>5, <1>11

\* The elements of a sequence that is one longer.
LEMMA AppendRange ==
    ASSUME NEW T, NEW s \in Seq(T), NEW x \in T
    PROVE  /\ Append(s, x) \in Seq(T)
           /\ Range(Append(s, x)) = Range(s) \cup {x}
           /\ IsInjective(s) /\ x \notin Range(s) => IsInjective(Append(s, x))
<1>1. /\ Append(s, x) \in Seq(T) /\ Len(Append(s, x)) = Len(s) + 1 /\ Len(s) \in Nat
      /\ Append(s, x)[Len(s) + 1] = x
      /\ \A k \in 1..Len(s) : Append(s, x)[k] = s[k]
      /\ DOMAIN s = 1..Len(s) /\ DOMAIN Append(s, x) = 1..(Len(s) + 1)
  OBVIOUS
<1>2. 1..(Len(s) + 1) = (1..Len(s)) \cup {Len(s) + 1}
  BY <1>1
<1> DEFINE a == Append(s, x)
<1> HIDE DEF a
<1>3. Range(a) = Range(s) \cup {x}
  BY <1>1, <1>2 DEF Range, a
<1>4. ASSUME IsInjective(s), x \notin Range(s), NEW j \in DOMAIN a, NEW k \in DOMAIN a, a[j] = a[k]
      PROVE  j = k
  BY <1>1, <1>2, <1>4 DEF Range, IsInjective, a
<1>. QED
  BY <1>1, <1>3, <1>4 DEF IsInjective, a

\* The elements of two sequences in a row.
LEMMA ConcatRange ==
    ASSUME NEW T, NEW s \in Seq(T), NEW t \in Seq(T)
    PROVE  /\ s \o t \in Seq(T)
           /\ Range(s \o t) = Range(s) \cup Range(t)
           /\ IsInjective(s) /\ IsInjective(t) /\ Range(s) \cap Range(t) = {}
                 => IsInjective(s \o t)
<1> DEFINE m == Len(s)
           n == Len(t)
           c == s \o t
<1>1. /\ c \in Seq(T) /\ Len(c) = m + n /\ m \in Nat /\ n \in Nat
      /\ \A k \in 1..m : c[k] = s[k]
      /\ \A k \in (m + 1)..(m + n) : c[k] = t[k - m]
      /\ DOMAIN s = 1..m /\ DOMAIN t = 1..n /\ DOMAIN c = 1..(m + n)
  OBVIOUS
<1> HIDE DEF m, n, c
<1>2. \A k \in 1..(m + n) : IF k <= m THEN k \in 1..m ELSE k \in (m + 1)..(m + n) /\ k - m \in 1..n
  BY <1>1
<1>3. /\ 1..m \subseteq 1..(m + n)
      /\ \A k \in 1..n : m + k \in (m + 1)..(m + n) /\ (m + k) - m = k /\ m + k \in 1..(m + n)
  BY <1>1
<1>4. Range(c) \subseteq Range(s) \cup Range(t)
  BY <1>1, <1>2 DEF Range
<1>5. Range(s) \subseteq Range(c)
  BY <1>1, <1>3 DEF Range
<1>6. Range(t) \subseteq Range(c)
  <2>1. ASSUME NEW k \in 1..n PROVE t[k] = c[m + k] /\ m + k \in DOMAIN c
    BY <1>1, <1>3
  <2>. QED
    BY <1>1, <2>1 DEF Range
<1>7. ASSUME IsInjective(s), IsInjective(t), Range(s) \cap Range(t) = {},
             NEW j \in DOMAIN c, NEW k \in DOMAIN c, c[j] = c[k]
      PROVE  j = k
  <2>1. CASE j <= m /\ k <= m
    BY <2>1, <1>1, <1>2, <1>7 DEF IsInjective
  <2>2. CASE j > m /\ k > m
    <3>1. j - m \in 1..n /\ k - m \in 1..n /\ c[j] = t[j - m] /\ c[k] = t[k - m]
      BY <2>2, <1>1, <1>2
    <3>2. j - m = k - m
      BY <3>1, <1>1, <1>7 DEF IsInjective
    <3>. QED
      BY <3>2, <1>1
  <2>3. CASE j <= m /\ k > m
    <3>1. j \in DOMAIN s /\ k - m \in DOMAIN t /\ c[j] = s[j] /\ c[k] = t[k - m]
      BY <2>3, <1>1, <1>2
    <3>2. c[j] \in Range(s) /\ c[k] \in Range(t)
      BY <3>1 DEF Range
    <3>. QED
      BY <3>2, <1>7
  <2>4. CASE j > m /\ k <= m
    <3>1. j - m \in DOMAIN t /\ k \in DOMAIN s /\ c[j] = t[j - m] /\ c[k] = s[k]
      BY <2>4, <1>1, <1>2
    <3>2. c[j] \in Range(t) /\ c[k] \in Range(s)
      BY <3>1 DEF Range
    <3>. QED
      BY <3>2, <1>7
  <2>. QED
    BY <2>1, <2>2, <2>3, <2>4, <1>1
<1>. QED
  BY <1>1, <1>4, <1>5, <1>6, <1>7 DEF IsInjective, c

\* Of every element that lies in S the filter keeps what there was, and no other.
LEMMA FilterKeeps ==
    ASSUME NEW T, NEW s \in Seq(T), NEW S
    PROVE  /\ Filter(s, S) \in Seq(T)
           /\ Range(Filter(s, S)) = Range(s) \cap S
           /\ IsInjective(s) => IsInjective(Filter(s, S))
<1>1. PICK kept : Keeps(kept, s, S, T) /\ Filter(s, S) = kept[Len(s)]
  BY Filtered
<1> DEFINE Part(m) == {x \in S : \E k \in 1..m : s[k] = x}
           P == {m \in Nat : m <= Len(s) =>
                    /\ Range(kept[m]) = Part(m)
                    /\ IsInjective(s) => IsInjective(kept[m])}
<1>2. Len(s) \in Nat /\ DOMAIN s = 1..Len(s)
  OBVIOUS
<1>3. 0 \in P
  BY <1>1 DEF Keeps, Range, IsInjective
<1>4. ASSUME NEW m \in P PROVE m + 1 \in P
  <2>1. m \in Nat
    OBVIOUS
  <2> SUFFICES ASSUME m + 1 <= Len(s)
               PROVE  /\ Range(kept[m + 1]) = Part(m + 1)
                      /\ IsInjective(s) => IsInjective(kept[m + 1])
    BY <2>1
  <2>2. /\ m + 1 \in 1..Len(s) /\ (m + 1) - 1 = m
        /\ m \in 0..Len(s) /\ m <= Len(s)
    BY <2>1, <1>2
  <2>3. Range(kept[m]) = Part(m) /\ (IsInjective(s) => IsInjective(kept[m]))
    BY <2>2
  <2>4. kept[m] \in Seq(T) /\ s[m + 1] \in T
    <3>1. kept[m] \in Seq(T)
      BY <1>1, <2>2 DEF Keeps
    <3>2. s[m + 1] \in T
      BY <1>2, <2>2
    <3>. QED
      BY <3>1, <3>2
  <2>5. kept[m + 1] = IF s[m + 1] \in S THEN Append(kept[m], s[m + 1]) ELSE kept[m]
    BY <1>1, <2>2 DEF Keeps
  <2>6. Part(m + 1) = Part(m) \cup (IF s[m + 1] \in S THEN {s[m + 1]} ELSE {})
    BY <2>1
  <2> HIDE DEF Part
  <2>7. CASE s[m + 1] \in S
    <3>1. kept[m + 1] = Append(kept[m], s[m + 1])
      BY <2>5, <2>7
    <3>2. Range(kept[m + 1]) = Range(kept[m]) \cup {s[m + 1]}
      BY <3>1, <2>4, AppendRange
    <3>3. ASSUME IsInjective(s) PROVE IsInjective(kept[m + 1])
      <4>1. s[m + 1] \notin Part(m)
        BY <3>3, <2>1, <2>2, <1>2 DEF Part, IsInjective
      <4>. QED
        BY <4>1, <3>1, <3>3, <2>3, <2>4, AppendRange
    <3>. QED
      BY <3>2, <3>3, <2>3, <2>6, <2>7
  <2>8. CASE s[m + 1] \notin S
    BY <2>8, <2>5, <2>3, <2>6
  <2>. QED
    BY <2>7, <2>8
<1> HIDE DEF P
<1>5. P = Nat
  <2>1. P \subseteq Nat
    BY DEF P
  <2>. QED
    BY <1>3, <1>4, <2>1, Induction
<1>6. Len(s) \in P /\ Len(s) <= Len(s)
  BY <1>5, <1>2
<1>7. Range(kept[Len(s)]) = Part(Len(s)) /\ (IsInjective(s) => IsInjective(kept[Len(s)]))
  BY <1>6 DEF P
<1>8. Part(Len(s)) = Range(s) \cap S
  BY <1>2 DEF Range
<1>9. kept[Len(s)] \in Seq(T)
  BY <1>1, <1>2 DEF Keeps
<1>. QED
  BY <1>1, <1>7, <1>8, <1>9

\* The remainder of what is less than twice the divisor.
LEMMA ModOnce ==
    ASSUME NEW n \in Nat \ {0}, NEW x \in 0..(2 * n - 1)
    PROVE  x % n = IF x < n THEN x ELSE x - n
  OBVIOUS

\* A sequence with every model of the combo once.
Permutes(order) == order \in Seq(Model) /\ IsInjective(order) /\ Range(order) = Model

LEMMA RotatedPermutes ==
    ASSUME rotation.index \in Model
    PROVE  Permutes(Rotated)
<1> DEFINE d == rotation.index
<1>1. M \in Nat \ {0} /\ d \in 1..M
  BY ComboAssumption DEF Model
<1>2. ASSUME NEW k \in 1..M
      PROVE  ((d + k - 2) % M) + 1 = IF d + k - 2 < M THEN d + k - 1 ELSE d + k - 1 - M
  <2>1. d + k - 2 \in 0..(2 * M - 1)
    BY <1>1
  <2>. QED
    BY <1>1, <2>1, ModOnce
<1> HIDE DEF d
<1>3. Rotated = [k \in 1..M |-> IF d + k - 2 < M THEN d + k - 1 ELSE d + k - 1 - M]
  BY <1>2 DEF Rotated, Model, d
<1>4. Rotated \in [1..M -> Model]
  BY <1>1, <1>3 DEF Model
<1>5. Rotated \in Seq(Model) /\ DOMAIN Rotated = 1..M
  BY <1>1, <1>4
<1>6. IsInjective(Rotated)
  BY <1>1, <1>3, <1>5 DEF IsInjective
<1>7. ASSUME NEW m \in Model PROVE m \in Range(Rotated)
  <2> DEFINE k == IF m >= d THEN m - d + 1 ELSE m - d + 1 + M
  <2>1. k \in 1..M /\ (IF d + k - 2 < M THEN d + k - 1 ELSE d + k - 1 - M) = m
    BY <1>1 DEF Model
  <2> HIDE DEF k
  <2>2. Rotated[k] = m
    BY <2>1, <1>3
  <2>. QED
    BY <2>1, <2>2, <1>5 DEF Range
<1>8. Range(Rotated) \subseteq Model
  BY <1>4, <1>5 DEF Range
<1>. QED
  BY <1>5, <1>6, <1>7, <1>8 DEF Permutes

\* The order of a request has every model once, whatever it can use and whatever
\* the conversation is bound to, which comes first if the combo has it.
LEMMA OrderedPermutes ==
    ASSUME rotation.index \in Model, NEW capable, NEW sticky
    PROVE  /\ Permutes(Ordered(capable, sticky))
           /\ sticky \in Model => Ordered(capable, sticky)[1] = sticky
<1> DEFINE a == Filter(Rotated, capable)
           b == Filter(Rotated, Model \ capable)
           o == a \o b
           c == Filter(o, Model \ {sticky})
<1>1. Rotated \in Seq(Model) /\ IsInjective(Rotated) /\ Range(Rotated) = Model
  BY RotatedPermutes DEF Permutes
<1>2. a \in Seq(Model) /\ IsInjective(a) /\ Range(a) = Model \cap capable
  BY <1>1, FilterKeeps
<1>3. b \in Seq(Model) /\ IsInjective(b) /\ Range(b) = Model \cap (Model \ capable)
  BY <1>1, FilterKeeps
<1> HIDE DEF a, b
<1>4. o \in Seq(Model) /\ IsInjective(o) /\ Range(o) = Model
  <2>1. Range(a) \cap Range(b) = {} /\ Range(a) \cup Range(b) = Model
    BY <1>2, <1>3
  <2>. QED
    BY <1>2, <1>3, <2>1, ConcatRange
<1>5. Ordered(capable, sticky) = IF sticky \in Model THEN <<sticky>> \o c ELSE o
  BY DEF Ordered, InFront, a, b
<1>6. CASE sticky \notin Model
  BY <1>4, <1>5, <1>6 DEF Permutes
<1>7. CASE sticky \in Model
  <2> HIDE DEF o
  <2>1. c \in Seq(Model) /\ IsInjective(c) /\ Range(c) = Model \cap (Model \ {sticky})
    BY <1>4, FilterKeeps
  <2>2. sticky \in Model
    BY <1>7
  <2>3. <<sticky>> \in Seq(Model) /\ IsInjective(<<sticky>>) /\ Range(<<sticky>>) = {sticky}
    BY <2>2 DEF IsInjective, Range
  <2> HIDE DEF c
  <2>4. Range(<<sticky>>) \cap Range(c) = {} /\ Range(<<sticky>>) \cup Range(c) = Model
    BY <2>1, <2>2, <2>3
  <2>5. Permutes(<<sticky>> \o c)
    BY <2>1, <2>3, <2>4, ConcatRange DEF Permutes
  <2>6. (<<sticky>> \o c)[1] = sticky
    BY <2>1, <2>2
  <2>. QED
    BY <1>5, <1>7, <2>5, <2>6
<1>. QED
  BY <1>6, <1>7

\* A round may lose a model between the two filters, and doubles none.
LEMMA SortedKeeps ==
    ASSUME NEW order \in Seq(Model), IsInjective(order), NEW new \in Sorted(order),
           until \in [Model -> Nat], now \in Nat
    PROVE  new \in Seq(Model) /\ IsInjective(new)
<1>1. PICK t \in {now, now + 1} :
         new = Filter(order, {m \in Model : ~IsCooling(m, now)})
                  \o Filter(order, {m \in Model : IsCooling(m, t)})
  BY DEF Sorted
<1> DEFINE warm == {m \in Model : ~IsCooling(m, now)}
           cold == {m \in Model : IsCooling(m, t)}
           a == Filter(order, warm)
           b == Filter(order, cold)
<1>2. warm \cap cold = {}
  <2>. SUFFICES ASSUME NEW m \in Model, until[m] <= now, until[m] > t PROVE FALSE
    BY DEF IsCooling
  <2>1. until[m] \in Nat /\ t \in Nat /\ now <= t
    OBVIOUS
  <2>. QED
    BY <2>1
<1>3. new = a \o b
  BY <1>1
<1> HIDE DEF warm, cold
<1>4. a \in Seq(Model) /\ IsInjective(a) /\ Range(a) = Range(order) \cap warm
  BY FilterKeeps
<1>5. b \in Seq(Model) /\ IsInjective(b) /\ Range(b) = Range(order) \cap cold
  BY FilterKeeps
<1> HIDE DEF a, b
<1>6. Range(a) \cap Range(b) = {}
  BY <1>2, <1>4, <1>5
<1>. QED
  BY <1>3, <1>4, <1>5, <1>6, ConcatRange

\* No sequence of different models is longer than the combo.
LEMMA OrderFits ==
    ASSUME NEW order \in Seq(Model), IsInjective(order)
    PROVE  Len(order) <= M
<1>1. M \in Nat /\ Len(order) \in Nat
  BY ComboAssumption
<1>2. IsFiniteSet(Model) /\ Cardinality(Model) = M
  BY <1>1, FS_Interval DEF Model
<1>3. IsFiniteSet(1..Len(order)) /\ Cardinality(1..Len(order)) = Len(order)
  BY <1>1, FS_Interval
<1>4. order \in [1..Len(order) -> Model]
  OBVIOUS
<1>5. ~\E x, y \in 1..Len(order) : x # y /\ order[x] = order[y]
  BY <1>4 DEF IsInjective
<1>. QED
  BY <1>1, <1>2, <1>3, <1>4, <1>5, FS_PigeonHole
-----------------------------------------------------------------------------
\* How far the models before the one that is next are ahead, and this one is.
Turned(m) ==
    (IF m < rotation.index THEN StickyLimit
     ELSE IF m = rotation.index THEN rotation.used ELSE 0)
    - (IF rotation.index = M THEN rotation.used ELSE 0)

TurnsCounted == turns = [m \in Model |-> Turned(m)]

\* A request under way has every model behind or before it, all of them behind it
\* once it has waited; and a model of it that its conversation was bound to is the
\* first it asks.
UnderWay(q) ==
    q.pc \in {"trying", "asking", "sleeping"} =>
        /\ Model \subseteq q.seen \cup {q.order[k] : k \in q.i..Len(q.order)}
        /\ q.pc = "sleeping" => q.seen = Model
        /\ q.pc = "asking" => q.i <= Len(q.order)
        /\ q.found \in Model /\ q.found \notin q.seen =>
              q.i = 1 /\ q.order # <<>> /\ q.order[1] = q.found

ComboInv == TypeOK /\ TurnsCounted /\ \A r \in Req : UnderWay(req[r])

LEMMA FreshTyped == Fresh \in Request /\ Fresh.pc = "idle"
<1>1. (CHOOSE s \in Session : TRUE) \in Session
  BY ComboAssumption
<1>2. <<>> \in {q \in Seq(Model) : IsInjective(q)} /\ 1 \in 1..(M + 1) /\ 0 \in 0..MaxTime
      /\ 0 \in 0..MaxRounds
  BY ComboAssumption DEF IsInjective
<1>. QED
  BY <1>1, <1>2 DEF Fresh, Request, None

LEMMA ComboInit == Init => ComboInv
<1> SUFFICES ASSUME Init PROVE ComboInv
  OBVIOUS
<1>1. req \in [Req -> Request] /\ \A r \in Req : UnderWay(req[r])
  BY FreshTyped DEF Init, UnderWay
<1>2. now \in 1..MaxTime /\ 1 \in Model /\ M \in Nat /\ M >= 2 /\ StickyLimit \in Nat \ {0}
  BY ComboAssumption DEF Init, Model
<1>3. rotation \in [index : Model, used : 0..(StickyLimit - 1)]
  BY <1>2 DEF Init
<1>4. binding \in [Session -> [model : Model \cup {None, Elsewhere}, at : 0..MaxTime]]
  BY ComboAssumption DEF Init
<1>5. until \in [Model -> Nat] /\ turns \in [Model -> Nat]
  BY DEF Init
<1>6. TurnsCounted
  BY <1>2 DEF Init, TurnsCounted, Turned, Model
<1>. QED
  BY <1>1, <1>2, <1>3, <1>4, <1>5, <1>6 DEF ComboInv, TypeOK

\* The turn of a request: the rotation keeps its shape, its counts their form.
LEMMA TurnTaken ==
    ASSUME rotation \in [index : Model, used : 0..(StickyLimit - 1)], TurnsCounted, TakeTurn
    PROVE  /\ rotation' \in [index : Model, used : 0..(StickyLimit - 1)]
           /\ turns' \in [Model -> Nat] /\ TurnsCounted'
<1> DEFINE d == rotation.index
           u == rotation.used
           L == StickyLimit
           t == [turns EXCEPT ![d] = @ + 1]
           low == IF d = M THEN 1 ELSE 0
<1>1. M \in Nat /\ M >= 2 /\ L \in Nat \ {0} /\ d \in 1..M /\ u \in 0..(L - 1)
      /\ rotation = [index |-> d, used |-> u]
  BY ComboAssumption DEF Model
<1>2. turns = [m \in 1..M |-> Turned(m)]
  BY DEF TurnsCounted, Model
<1>3. \A m \in 1..M : Turned(m) = (IF m < d THEN L ELSE IF m = d THEN u ELSE 0)
                                      - (IF d = M THEN u ELSE 0)
  BY DEF Turned
<1>4. turns' = [m \in 1..M |-> t[m] - Min(Range(t))] /\ rotation' = Rotation
  BY DEF TakeTurn, Model
<1>5. Rotation = IF u + 1 >= L THEN [index |-> (d % M) + 1, used |-> 0]
                 ELSE [index |-> d, used |-> u + 1]
  BY <1>1 DEF Rotation
<1>6. (d % M) + 1 = IF d = M THEN 1 ELSE d + 1
  <2>1. d \in 0..(2 * M - 1) /\ M \in Nat \ {0}
    BY <1>1
  <2>2. d % M = IF d < M THEN d ELSE d - M
    BY <2>1, ModOnce
  <2>. QED
    BY <1>1, <2>2
<1>7. rotation' \in [index : Model, used : 0..(L - 1)]
  BY <1>1, <1>4, <1>5, <1>6 DEF Model
<1> HIDE DEF d, u, L
<1>8. t = [m \in 1..M |-> Turned(m) + (IF m = d THEN 1 ELSE 0)]
  BY <1>1, <1>2, <1>3
<1> HIDE DEF t
<1>9. \A m \in 1..M : t[m] = (IF m < d THEN L ELSE IF m = d THEN u + 1 ELSE 0)
                                 - (IF d = M THEN u ELSE 0)
  <2> TAKE m \in 1..M
  <2>1. /\ t[m] = Turned(m) + (IF m = d THEN 1 ELSE 0)
        /\ Turned(m) = (IF m < d THEN L ELSE IF m = d THEN u ELSE 0)
                           - (IF d = M THEN u ELSE 0)
    BY <1>3, <1>8
  <2>2. m \in Nat /\ d \in Nat /\ M \in Nat /\ L \in Nat /\ u \in Nat
    BY <1>1
  <2>. QED
    BY <2>1, <2>2
<1>10. Min(Range(t)) = low
  <2>1. DOMAIN t = 1..M
    BY <1>8
  <2>2. \A m \in 1..M : t[m] \in Nat /\ t[m] >= low
    BY <1>1, <1>9
  <2>3. M \in 1..M /\ t[M] = low
    BY <1>1, <1>9
  <2>4. low \in Range(t) /\ \A y \in Range(t) : y \in Nat /\ low <= y
    BY <2>1, <2>2, <2>3 DEF Range
  <2> DEFINE S == Range(t)
  <2> HIDE DEF S, low
  <2>5. low \in S /\ \A y \in S : y \in Nat /\ low <= y
    BY <2>4 DEF S
  <2>6. Min(S) \in S /\ \A y \in S : Min(S) <= y
    BY <2>5 DEF Min
  <2>7. Min(S) = low
    BY <2>5, <2>6
  <2>. QED
    BY <2>7 DEF S
<1>11. turns' = [m \in 1..M |-> t[m] - low]
  BY <1>4, <1>10
<1>12. ASSUME NEW m \in 1..M PROVE t[m] - low = Turned(m)' /\ t[m] - low \in Nat
  <2>1. CASE u + 1 >= L
    <3>1. rotation'.index = (IF d = M THEN 1 ELSE d + 1) /\ rotation'.used = 0
      BY <1>4, <1>5, <1>6, <2>1
    <3>2. u + 1 = L
      BY <1>1, <2>1
    <3>. QED
      BY <1>1, <1>9, <3>1, <3>2 DEF Turned, L
  <2>2. CASE ~(u + 1 >= L)
    <3>1. rotation'.index = d /\ rotation'.used = u + 1
      BY <1>4, <1>5, <2>2
    <3>. QED
      BY <1>1, <1>9, <2>2, <3>1 DEF Turned, L
  <2>. QED
    BY <2>1, <2>2
<1>13. turns' = [m \in Model |-> Turned(m)']
  BY <1>11, <1>12 DEF Model
<1>14. turns' \in [Model -> Nat]
  BY <1>11, <1>12 DEF Model
<1>. QED
  BY <1>7, <1>13, <1>14 DEF TurnsCounted, L

\* A change of one request keeps the typing and the shape of all.
LEMMA Updated ==
    ASSUME req \in [Req -> Request], \A r \in Req : UnderWay(req[r]),
           NEW r \in Req, NEW new, Update(r, new), new \in Request, UnderWay(new)
    PROVE  req' \in [Req -> Request] /\ \A q \in Req : UnderWay(req'[q])
  BY DEF Update

LEMMA StartKeeps ==
    ASSUME ComboInv, NEW r \in Req, NEW s \in Session, Start(r, s)
    PROVE  ComboInv'
<1>1. PICK capable \in {{m} : m \in Model} \cup {Model}, smart \in BOOLEAN, stream \in BOOLEAN :
         Update(r, [Fresh EXCEPT
             !.pc = "trying", !.session = s, !.stream = stream,
             !.found = IF smart THEN None ELSE Bound(s),
             !.order = Ordered(capable, IF smart THEN None ELSE Bound(s))])
  BY DEF Start
<1> DEFINE sticky == IF smart THEN None ELSE Bound(s)
           order == Ordered(capable, sticky)
           new == [Fresh EXCEPT !.pc = "trying", !.session = s, !.stream = stream,
                                !.found = sticky, !.order = order]
<1>2. sticky \in Model \cup {None, Elsewhere}
  BY DEF ComboInv, TypeOK, Bound
<1>3. rotation \in [index : Model, used : 0..(StickyLimit - 1)] /\ rotation.index \in Model
  BY DEF ComboInv, TypeOK
<1>4. Permutes(order) /\ (sticky \in Model => order[1] = sticky)
  <2> HIDE DEF sticky
  <2>. QED
    BY <1>2, <1>3, OrderedPermutes
<1>5. Update(r, new)
  BY <1>1
<1> HIDE DEF sticky, order
<1>6. new \in Request
  <2>1. order \in {q \in Seq(Model) : IsInjective(q)}
    BY <1>4 DEF Permutes
  <2>. QED
    BY <1>2, <2>1, FreshTyped DEF Request
<1>7. /\ new.pc = "trying" /\ new.i = 1 /\ new.order = order /\ new.found = sticky
      /\ new.seen = {}
  BY DEF Fresh
<1> HIDE DEF new
<1>8. order \in Seq(Model) /\ Range(order) = Model /\ DOMAIN order = 1..Len(order)
  BY <1>4 DEF Permutes
<1>9. Model \subseteq {order[k] : k \in 1..Len(order)} /\ order # <<>>
  <2>1. Model \subseteq {order[k] : k \in 1..Len(order)}
    BY <1>8 DEF Range
  <2>2. 1 \in Model
    BY ComboAssumption DEF Model
  <2>3. ASSUME order = <<>> PROVE FALSE
    BY <2>1, <2>2, <2>3
  <2>. QED
    BY <2>1, <2>3
<1>10. UnderWay(new)
  BY <1>4, <1>7, <1>9 DEF UnderWay
<1>11. req' \in [Req -> Request] /\ \A q \in Req : UnderWay(req'[q])
  BY <1>5, <1>6, <1>10, Updated DEF ComboInv, TypeOK
<1>12. TakeTurn /\ UNCHANGED <<now, binding, until>>
  BY DEF Start
<1>13. rotation' \in [index : Model, used : 0..(StickyLimit - 1)]
       /\ turns' \in [Model -> Nat] /\ TurnsCounted'
  BY <1>3, <1>12, TurnTaken DEF ComboInv
<1>. QED
  BY <1>11, <1>12, <1>13 DEF ComboInv, TypeOK

\* The models of a request under way, with the one it is at.
LEMMA AtModel ==
    ASSUME ComboInv, NEW r \in Req, req[r].i <= Len(req[r].order)
    PROVE  /\ req[r].order \in Seq(Model) /\ req[r].order[req[r].i] \in Model
           /\ req[r].i + 1 \in 1..(M + 1) /\ req[r].i \in 1..Len(req[r].order)
           /\ \A S : Model \subseteq S \cup {req[r].order[k] : k \in req[r].i..Len(req[r].order)}
                  => Model \subseteq (S \cup {req[r].order[req[r].i]})
                       \cup {req[r].order[k] : k \in (req[r].i + 1)..Len(req[r].order)}
<1> DEFINE order == req[r].order
           i == req[r].i
<1>1. order \in Seq(Model) /\ IsInjective(order) /\ i \in 1..(M + 1) /\ M \in Nat
  BY ComboAssumption DEF ComboInv, TypeOK, Request
<1>2. Len(order) <= M /\ Len(order) \in Nat /\ i <= Len(order)
  BY <1>1, OrderFits
<1> HIDE DEF order, i
<1>3. i \in 1..Len(order) /\ i + 1 \in 1..(M + 1)
  BY <1>1, <1>2
<1>4. order[i] \in Model
  BY <1>1, <1>3
<1>5. i..Len(order) = {i} \cup (i + 1)..Len(order)
  BY <1>3
<1>6. {order[k] : k \in i..Len(order)} = {order[i]} \cup {order[k] : k \in (i + 1)..Len(order)}
  BY <1>5
<1>. QED
  BY <1>1, <1>3, <1>4, <1>6 DEF order, i

\* To the next model, with the one before noted as seen.
LEMMA Advances ==
    ASSUME ComboInv, NEW r \in Req, req[r].pc \in {"trying", "asking"},
           req[r].i <= Len(req[r].order), NEW new \in Request,
           new.pc = "trying", new.i = req[r].i + 1, new.order = req[r].order,
           new.found = req[r].found, new.seen = req[r].seen \cup {req[r].order[req[r].i]}
    PROVE  UnderWay(new)
<1>1. UnderWay(req[r])
  BY DEF ComboInv
<1>2. Model \subseteq new.seen \cup {new.order[k] : k \in new.i..Len(new.order)}
  BY <1>1, AtModel DEF UnderWay
<1>3. ASSUME new.found \in Model, new.found \notin new.seen PROVE FALSE
  <2>1. req[r].found \in Model /\ req[r].found \notin req[r].seen
    BY <1>3
  <2>2. req[r].order[req[r].i] = req[r].found
    BY <1>1, <2>1 DEF UnderWay
  <2>. QED
    BY <1>3, <2>2
<1>. QED
  BY <1>2, <1>3 DEF UnderWay

LEMMA TryKeeps ==
    ASSUME ComboInv, NEW r \in Req, Try(r)
    PROVE  req' \in [Req -> Request] /\ \A q \in Req : UnderWay(req'[q])
<1> DEFINE q == req[r]
           m == q.order[q.i]
           skipped == [q EXCEPT !.i = @ + 1, !.seen = @ \cup {m}]
           asked == [q EXCEPT !.pc = "asking", !.allCooling = FALSE]
<1>1. q \in Request /\ UnderWay(q) /\ q.pc = "trying" /\ q.i <= Len(q.order)
  BY DEF ComboInv, TypeOK, Try
<1>2. m \in Model /\ q.i + 1 \in 1..(M + 1)
  BY <1>1, AtModel
<1>3. Update(r, skipped) \/ Update(r, asked)
  BY DEF Try
<1>4. skipped \in Request /\ asked \in Request
  BY <1>1, <1>2 DEF Request
<1>5. /\ skipped.pc = "trying" /\ skipped.i = q.i + 1 /\ skipped.order = q.order
      /\ skipped.found = q.found /\ skipped.seen = q.seen \cup {m}
  BY <1>1 DEF Request
<1>6. /\ asked.pc = "asking" /\ asked.i = q.i /\ asked.order = q.order
      /\ asked.found = q.found /\ asked.seen = q.seen
  BY <1>1 DEF Request
<1> HIDE DEF skipped, asked
<1>7. UnderWay(skipped)
  BY <1>1, <1>4, <1>5, Advances
<1>8. UnderWay(asked)
  BY <1>1, <1>6 DEF UnderWay
<1>. QED
  BY <1>3, <1>4, <1>7, <1>8, Updated DEF ComboInv, TypeOK

LEMMA CascadeKeeps ==
    ASSUME ComboInv, NEW r \in Req, req[r].pc = "asking",
           NEW status \in {"none", "ok", "timeout", "failed", "rejected", "unavailable"},
           NEW earliest \in Nat, Cascade(r, status, earliest)
    PROVE  req' \in [Req -> Request] /\ \A q \in Req : UnderWay(req'[q])
<1> DEFINE q == req[r]
           m == q.order[q.i]
           new == [q EXCEPT !.pc = "trying", !.i = @ + 1, !.seen = @ \cup {m},
                            !.status = status, !.earliest = earliest]
<1>1. q \in Request /\ UnderWay(q)
  BY DEF ComboInv, TypeOK
<1>2. q.i <= Len(q.order)
  BY <1>1 DEF UnderWay
<1>3. m \in Model /\ q.i + 1 \in 1..(M + 1)
  BY <1>2, AtModel
<1>4. Update(r, new)
  BY DEF Cascade
<1>5. new \in Request
  BY <1>1, <1>3 DEF Request
<1>6. /\ new.pc = "trying" /\ new.i = q.i + 1 /\ new.order = q.order
      /\ new.found = q.found /\ new.seen = q.seen \cup {m}
  BY <1>1 DEF Request
<1> HIDE DEF new
<1>7. UnderWay(new)
  BY <1>2, <1>5, <1>6, Advances
<1>. QED
  BY <1>4, <1>5, <1>7, Updated DEF ComboInv, TypeOK

LEMMA RespondKeeps ==
    ASSUME ComboInv, NEW r \in Req,
           NEW status \in {"none", "ok", "timeout", "failed", "rejected", "unavailable"},
           Respond(r, status)
    PROVE  req' \in [Req -> Request] /\ \A q \in Req : UnderWay(req'[q])
<1> DEFINE new == [Fresh EXCEPT !.pc = "answered", !.status = status]
<1>1. new \in Request /\ new.pc = "answered"
  BY FreshTyped DEF Request
<1>2. Update(r, new)
  BY DEF Respond
<1> HIDE DEF new
<1>3. UnderWay(new)
  BY <1>1 DEF UnderWay
<1>. QED
  BY <1>1, <1>2, <1>3, Updated DEF ComboInv, TypeOK

\* A request waits with every model behind it.
LEMMA EndRoundKeeps ==
    ASSUME ComboInv, NEW r \in Req, EndRound(r)
    PROVE  req' \in [Req -> Request] /\ \A q \in Req : UnderWay(req'[q])
<1> DEFINE q == req[r]
           wake == LeastOf(MaxTime, now + LeastOf(Wait(q) + Margin, MaxWait))
           new == [q EXCEPT !.pc = "sleeping", !.round = @ + 1, !.status = "none", !.i = 1,
                            !.earliest = 0, !.allCooling = TRUE, !.wake = wake]
           status == IF q.status = "none" THEN "unavailable" ELSE q.status
<1>1. q \in Request /\ UnderWay(q) /\ q.pc = "trying" /\ q.i > Len(q.order)
      /\ now \in 1..MaxTime
  BY DEF ComboInv, TypeOK, EndRound
<1>2. q.seen = Model
  <2>1. q.i \in Nat /\ Len(q.order) \in Nat
    BY <1>1, ComboAssumption DEF Request
  <2>2. {q.order[k] : k \in q.i..Len(q.order)} = {}
    BY <1>1, <2>1
  <2>3. Model \subseteq q.seen /\ q.seen \subseteq Model
    BY <1>1, <2>2 DEF UnderWay, Request
  <2>. QED
    BY <2>3
<1>3. CASE MayRetry(q)
  <2>1. Update(r, new)
    BY <1>3 DEF EndRound
  <2>2. wake \in 0..MaxTime
    <3>1. Wait(q) \in Nat
      BY <1>1, ComboAssumption DEF Wait, Request
    <3>. QED
      BY <1>1, <3>1, ComboAssumption DEF LeastOf
  <2>3. q.round + 1 \in 0..MaxRounds /\ 1 \in 1..(M + 1)
    <3>1. q.round \in 0..MaxRounds /\ q.round < MaxRounds
      BY <1>1, <1>3 DEF MayRetry, Request
    <3>. QED
      BY <3>1, ComboAssumption
  <2> HIDE DEF wake
  <2>4. new \in Request
    BY <1>1, <2>2, <2>3 DEF Request
  <2>5. new.pc = "sleeping" /\ new.seen = q.seen /\ new.found = q.found
    BY <1>1 DEF Request
  <2>6. q.found \in Model \cup {None, Elsewhere}
    BY <1>1 DEF Request
  <2> HIDE DEF new
  <2>7. UnderWay(new)
    BY <1>2, <2>5, <2>6 DEF UnderWay
  <2>. QED
    BY <2>1, <2>4, <2>7, Updated DEF ComboInv, TypeOK
<1>4. CASE ~MayRetry(q)
  <2>1. Respond(r, status)
    BY <1>4 DEF EndRound
  <2>2. status \in {"none", "ok", "timeout", "failed", "rejected", "unavailable"}
    BY <1>1 DEF Request
  <2> HIDE DEF status
  <2>. QED
    BY <2>1, <2>2, RespondKeeps
<1>. QED
  BY <1>3, <1>4

LEMMA WakeKeeps ==
    ASSUME ComboInv, NEW r \in Req, Wake(r)
    PROVE  req' \in [Req -> Request] /\ \A q \in Req : UnderWay(req'[q])
<1> DEFINE q == req[r]
<1>1. q \in Request /\ UnderWay(q) /\ q.pc = "sleeping" /\ now \in Nat
      /\ until \in [Model -> Nat]
  BY ComboAssumption DEF ComboInv, TypeOK, Wake
<1>2. PICK order \in Sorted(q.order) :
         Update(r, [q EXCEPT !.pc = "trying", !.order = order, !.wake = 0])
  BY DEF Wake
<1> DEFINE new == [q EXCEPT !.pc = "trying", !.order = order, !.wake = 0]
<1>3. order \in Seq(Model) /\ IsInjective(order)
  <2>1. q.order \in Seq(Model) /\ IsInjective(q.order)
    BY <1>1 DEF Request
  <2>. QED
    BY <1>1, <2>1, SortedKeeps
<1>4. new \in Request
  <2>1. order \in {s \in Seq(Model) : IsInjective(s)} /\ 0 \in 0..MaxTime
    BY <1>3, ComboAssumption
  <2>. QED
    BY <1>1, <2>1 DEF Request
<1>5. new.pc = "trying" /\ new.seen = q.seen /\ new.found = q.found
      /\ q.found \in Model \cup {None, Elsewhere} /\ q.seen = Model
  BY <1>1 DEF Request, UnderWay
<1>6. Update(r, new)
  BY <1>2
<1> HIDE DEF new
<1>7. UnderWay(new)
  BY <1>5 DEF UnderWay
<1>. QED
  BY <1>4, <1>6, <1>7, Updated DEF ComboInv, TypeOK

LEMMA BindTyped ==
    ASSUME ComboInv, NEW s \in Session, NEW m \in Model \cup {Elsewhere}, Bind(s, m)
    PROVE  binding' \in [Session -> [model : Model \cup {None, Elsewhere}, at : 0..MaxTime]]
<1>1. now \in 0..MaxTime
  BY ComboAssumption DEF ComboInv, TypeOK
<1>. QED
  BY <1>1 DEF Bind, ComboInv, TypeOK

LEMMA AnswerKeeps ==
    ASSUME ComboInv, NEW r \in Req, Answer(r)
    PROVE  /\ req' \in [Req -> Request] /\ \A q \in Req : UnderWay(req'[q])
           /\ binding' \in [Session -> [model : Model \cup {None, Elsewhere}, at : 0..MaxTime]]
<1>1. req[r] \in Request /\ UnderWay(req[r]) /\ req[r].pc = "asking"
  BY DEF ComboInv, TypeOK, Answer
<1>2. CASE Accept(r)
  <2>1. req[r].i <= Len(req[r].order)
    BY <1>1 DEF UnderWay
  <2>2. req[r].order[req[r].i] \in Model /\ req[r].session \in Session
    BY <1>1, <2>1, AtModel DEF Request
  <2>3. Respond(r, "ok") /\ Bind(req[r].session, req[r].order[req[r].i])
    BY <1>2 DEF Accept
  <2>. QED
    BY <2>2, <2>3, RespondKeeps, BindTyped
<1>3. CASE ~Accept(r)
  <2>1. Cascade(r, IF req[r].stream THEN "timeout" ELSE "ok", req[r].earliest)
        /\ UNCHANGED binding
    BY <1>3 DEF Answer
  <2>2. req[r].earliest \in Nat
    BY <1>1 DEF Request
  <2>3. binding' \in [Session -> [model : Model \cup {None, Elsewhere}, at : 0..MaxTime]]
    BY <2>1 DEF ComboInv, TypeOK
  <2> DEFINE status == IF req[r].stream THEN "timeout" ELSE "ok"
  <2>4. status \in {"none", "ok", "timeout", "failed", "rejected", "unavailable"}
    OBVIOUS
  <2>5. Cascade(r, status, req[r].earliest)
    BY <2>1
  <2> HIDE DEF status
  <2>. QED
    BY <1>1, <2>2, <2>3, <2>4, <2>5, CascadeKeeps
<1>. QED
  BY <1>2, <1>3

LEMMA FailKeeps ==
    ASSUME ComboInv, NEW r \in Req, Fail(r)
    PROVE  req' \in [Req -> Request] /\ \A q \in Req : UnderWay(req'[q])
<1>1. req[r] \in Request /\ req[r].pc = "asking" /\ now \in Nat
  BY ComboAssumption DEF ComboInv, TypeOK, Fail
<1>2. FirstStatus(r) \in {"none", "ok", "timeout", "failed", "rejected", "unavailable"}
  BY <1>1 DEF FirstStatus, Request
<1>3. PICK earliest \in Nat : Cascade(r, FirstStatus(r), earliest)
  <2>1. CASE Cascade(r, FirstStatus(r), req[r].earliest)
    BY <1>1, <2>1 DEF Request
  <2>2. CASE ~Cascade(r, FirstStatus(r), req[r].earliest)
    <3>1. PICK t \in (now + 1)..(now + MaxWait + 1) :
             Cascade(r, FirstStatus(r), Sooner(t, req[r].earliest))
      BY <2>2 DEF Fail
    <3>2. Sooner(t, req[r].earliest) \in Nat
      BY <1>1, ComboAssumption DEF Sooner, Request
    <3>. QED
      BY <3>1, <3>2
  <2>. QED
    BY <2>1, <2>2
<1>. QED
  BY <1>1, <1>2, <1>3, CascadeKeeps

LEMMA ComboStep == ComboInv /\ [Next]_vars => ComboInv'
<1> SUFFICES ASSUME ComboInv, [Next]_vars PROVE ComboInv'
  OBVIOUS
<1>. USE ComboAssumption
<1>1. ASSUME NEW r \in Req, Try(r) PROVE ComboInv'
  BY <1>1, TryKeeps DEF Try, ComboInv, TypeOK, TurnsCounted, Turned
<1>2. ASSUME NEW r \in Req, Answer(r) PROVE ComboInv'
  BY <1>2, AnswerKeeps DEF Answer, ComboInv, TypeOK, TurnsCounted, Turned
<1>3. ASSUME NEW r \in Req, Fail(r) PROVE ComboInv'
  BY <1>3, FailKeeps DEF Fail, ComboInv, TypeOK, TurnsCounted, Turned
<1>4. ASSUME NEW r \in Req, Reject(r) PROVE ComboInv'
  BY <1>4, RespondKeeps DEF Reject, ComboInv, TypeOK, TurnsCounted, Turned
<1>5. ASSUME NEW r \in Req, EndRound(r) PROVE ComboInv'
  BY <1>5, EndRoundKeeps DEF EndRound, ComboInv, TypeOK, TurnsCounted, Turned
<1>6. ASSUME NEW r \in Req, Wake(r) PROVE ComboInv'
  BY <1>6, WakeKeeps DEF Wake, ComboInv, TypeOK, TurnsCounted, Turned
<1>7. ASSUME NEW m \in Model, CoolDown(m) PROVE ComboInv'
  <2>1. until' \in [Model -> Nat]
    BY <1>7 DEF CoolDown, ComboInv, TypeOK
  <2>. QED
    BY <1>7, <2>1 DEF CoolDown, ComboInv, TypeOK, TurnsCounted, Turned, UnderWay
<1>8. ASSUME NEW s \in Session, NEW m \in Model \cup {Elsewhere}, OtherAnswered(s, m) PROVE ComboInv'
  BY <1>8, BindTyped DEF OtherAnswered, ComboInv, TypeOK, TurnsCounted, Turned, UnderWay
<1>9. CASE OtherStarts
  BY <1>9, TurnTaken DEF OtherStarts, ComboInv, TypeOK, UnderWay
<1>10. CASE ResetComboRotation
  <2>1. rotation' \in [index : Model, used : 0..(StickyLimit - 1)]
    BY <1>10 DEF ResetComboRotation, Model
  <2>2. turns' \in [Model -> Nat]
    BY <1>10 DEF ResetComboRotation
  <2>3. TurnsCounted'
    BY <1>10 DEF ResetComboRotation, TurnsCounted, Turned, Model
  <2>. QED
    BY <1>10, <2>1, <2>2, <2>3 DEF ResetComboRotation, ComboInv, TypeOK, UnderWay
<1>11. CASE Tick
  BY <1>11 DEF Tick, ComboInv, TypeOK, TurnsCounted, Turned, UnderWay
<1>12. CASE UNCHANGED vars
  BY <1>12 DEF vars, ComboInv, TypeOK, TurnsCounted, Turned, UnderWay
<1>. QED
  BY <1>1, <1>2, <1>3, <1>4, <1>5, <1>6, <1>7, <1>8, <1>9, <1>10, <1>11, <1>12, StartKeeps
     DEF Next, Progress

LEMMA ComboInvariant == Spec => []ComboInv
  BY ComboInit, ComboStep, PTL DEF Spec

\* The variables of a combo and of its requests keep their types: an order holds no
\* model twice and a request never runs past it, whatever the settings.
THEOREM ComboTyped == Spec => []TypeOK
  BY ComboInvariant, PTL DEF ComboInv

\* Whatever requests overlap, no model of a combo comes first more than StickyLimit
\* requests ahead of another (getRotatedModels).
THEOREM RoundRobin == Spec => []RotationFair
<1>1. ComboInv => RotationFair
  <2> SUFFICES ASSUME ComboInv, NEW m \in Model, NEW n \in Model
               PROVE  turns[m] - turns[n] <= StickyLimit
    BY DEF RotationFair
  <2>1. turns[m] = Turned(m) /\ turns[n] = Turned(n)
    BY DEF ComboInv, TurnsCounted
  <2>2. /\ rotation.index \in 1..M /\ rotation.used \in 0..(StickyLimit - 1)
        /\ m \in 1..M /\ n \in 1..M /\ M \in Nat /\ StickyLimit \in Nat \ {0}
    BY ComboAssumption DEF ComboInv, TypeOK, Model
  <2>. QED
    BY <2>1, <2>2 DEF Turned
<1>. QED
  BY <1>1, ComboInvariant, PTL

\* Only its own steps change the local variables of a request.
LEMMA OwnStep ==
    ASSUME ComboInv, [Next]_vars, NEW r \in Req, req'[r] # req[r]
    PROVE  Progress(r) \/ \E s \in Session : Start(r, s)
<1>1. req \in [Req -> Request]
  BY DEF ComboInv, TypeOK
<1>2. ASSUME NEW q \in Req, NEW new, Update(q, new) PROVE q = r
  BY <1>1, <1>2 DEF Update
<1>3. ASSUME NEW q \in Req, Progress(q) PROVE q = r
  <2>1. \E new : Update(q, new)
    BY <1>3 DEF Progress, Try, Answer, Accept, Respond, Cascade, Fail, Reject, EndRound, Wake
  <2>. QED
    BY <1>2, <2>1
<1>4. ASSUME NEW q \in Req, NEW s \in Session, Start(q, s) PROVE q = r
  <2>1. \E new : Update(q, new)
    BY <1>4 DEF Start
  <2>. QED
    BY <1>2, <2>1
<1>5. ~UNCHANGED req
  OBVIOUS
<1>. QED
  BY <1>3, <1>4, <1>5 DEF Next, vars, CoolDown, OtherAnswered, OtherStarts, Tick,
     ResetComboRotation

\* The steps that answer a request.
LEMMA Answering ==
    ASSUME ComboInv, [Next]_vars, NEW r \in Req,
           req[r].pc # "answered", req'[r].pc = "answered"
    PROVE  \/ req[r].pc = "asking" /\ (Accept(r) \/ Reject(r))
           \/ EndRound(r)
<1>1. req \in [Req -> Request] /\ req[r] \in Request
  BY DEF ComboInv, TypeOK
<1>2. ASSUME NEW new, Update(r, new) PROVE new.pc = "answered"
  BY <1>1, <1>2 DEF Update
<1>3. ASSUME NEW status, NEW earliest, Cascade(r, status, earliest) PROVE FALSE
  <2> DEFINE new == [req[r] EXCEPT !.pc = "trying", !.i = @ + 1,
                            !.seen = @ \cup {req[r].order[req[r].i]},
                            !.status = status, !.earliest = earliest]
  <2>1. Update(r, new) /\ new.pc = "trying"
    BY <1>1, <1>3 DEF Cascade, Request
  <2> HIDE DEF new
  <2>. QED
    BY <1>2, <2>1
<1>4. CASE Try(r)
  <2> DEFINE skipped == [req[r] EXCEPT !.i = @ + 1,
                                 !.seen = @ \cup {req[r].order[req[r].i]}]
             asked == [req[r] EXCEPT !.pc = "asking", !.allCooling = FALSE]
  <2>1. skipped.pc = "trying" /\ asked.pc = "asking"
    BY <1>1, <1>4 DEF Try, Request
  <2>2. Update(r, skipped) \/ Update(r, asked)
    BY <1>4 DEF Try
  <2> HIDE DEF skipped, asked
  <2>. QED
    BY <1>2, <2>1, <2>2
<1>5. CASE Wake(r)
  <2>1. PICK order : Update(r, [req[r] EXCEPT !.pc = "trying", !.order = order, !.wake = 0])
    BY <1>5 DEF Wake
  <2> DEFINE new == [req[r] EXCEPT !.pc = "trying", !.order = order, !.wake = 0]
  <2>2. Update(r, new) /\ new.pc = "trying"
    BY <1>1, <2>1 DEF Request
  <2> HIDE DEF new
  <2>. QED
    BY <1>2, <2>2
<1>6. ASSUME NEW s \in Session, Start(r, s) PROVE FALSE
  <2>1. PICK stream, found, order :
           Update(r, [Fresh EXCEPT !.pc = "trying", !.session = s, !.stream = stream,
                                   !.found = found, !.order = order])
    BY <1>6 DEF Start
  <2> DEFINE new == [Fresh EXCEPT !.pc = "trying", !.session = s, !.stream = stream,
                                  !.found = found, !.order = order]
  <2>2. Update(r, new) /\ new.pc = "trying"
    BY <2>1 DEF Fresh
  <2> HIDE DEF new
  <2>. QED
    BY <1>2, <2>2
<1>7. CASE Answer(r)
  BY <1>3, <1>7 DEF Answer
<1>8. CASE Fail(r)
  BY <1>3, <1>8 DEF Fail
<1>9. CASE Reject(r)
  BY <1>9 DEF Reject
<1>10. Progress(r) \/ \E s \in Session : Start(r, s)
  BY OwnStep
<1>. QED
  BY <1>4, <1>5, <1>6, <1>7, <1>8, <1>9, <1>10 DEF Progress

\* A request is refused only after every model of the combo was asked or was found
\* cooling down, though a round may drop a model from its order (handleComboChat).
THEOREM NothingForgotten == Spec => NoModelForgotten
<1> DEFINE Seen == \A r \in Req : Refuses(r) => req[r].seen = Model
<1>1. ASSUME ComboInv, [Next]_vars PROVE Seen
  <2> SUFFICES ASSUME NEW r \in Req, Refuses(r) PROVE req[r].seen = Model
    OBVIOUS
  <2>1. req \in [Req -> Request] /\ UnderWay(req[r]) /\ req[r] \in Request
    BY <1>1 DEF ComboInv, TypeOK
  <2>2. EndRound(r)
    <3>1. req[r].pc # "answered" /\ req'[r].pc = "answered"
      BY DEF Refuses
    <3>2. ASSUME req[r].pc = "asking", Accept(r) PROVE FALSE
      BY <2>1, <3>2 DEF Refuses, Accept, Respond, Update, Fresh
    <3>3. ASSUME req[r].pc = "asking", Reject(r) PROVE FALSE
      BY <2>1, <3>3 DEF Refuses, Reject, Respond, Update, Fresh
    <3>. QED
      BY <1>1, <3>1, <3>2, <3>3, Answering
  <2>3. req[r].pc = "trying" /\ req[r].i > Len(req[r].order)
    BY <2>2 DEF EndRound
  <2>4. {req[r].order[k] : k \in req[r].i..Len(req[r].order)} = {}
    <3>1. req[r].i \in Nat /\ Len(req[r].order) \in Nat
      BY <2>1, ComboAssumption DEF Request
    <3>. QED
      BY <2>3, <3>1
  <2>5. Model \subseteq req[r].seen /\ req[r].seen \subseteq Model
    BY <2>1, <2>3, <2>4 DEF UnderWay, Request
  <2>. QED
    BY <2>5
<1>. QED
  BY <1>1, ComboInvariant, PTL DEF NoModelForgotten, Spec

\* A conversation is taken from the model a request found it bound to only after that
\* model failed the request or cooled down (the bindings of handleComboChat).
THEOREM MovedForCause == Spec => SessionMovesForCause
<1> DEFINE Caused == \A r \in Req : Moves(r) => req[r].found \in req[r].seen
<1>1. ASSUME ComboInv, [Next]_vars PROVE Caused
  <2> SUFFICES ASSUME NEW r \in Req, Moves(r) PROVE req[r].found \in req[r].seen
    OBVIOUS
  <2>1. req \in [Req -> Request] /\ UnderWay(req[r]) /\ req[r] \in Request
        /\ binding \in [Session -> [model : Model \cup {None, Elsewhere}, at : 0..MaxTime]]
    BY <1>1 DEF ComboInv, TypeOK
  <2>2. req[r].pc = "asking" /\ req'[r].pc = "answered" /\ req'[r].status = "ok"
        /\ req[r].found \in Model /\ binding'[req[r].session].model # req[r].found
    BY DEF Moves
  <2>3. ASSUME Reject(r) PROVE FALSE
    BY <2>1, <2>2, <2>3 DEF Reject, Respond, Update, Fresh
  <2>4. Accept(r)
    BY <1>1, <2>2, <2>3, Answering DEF EndRound
  <2>5. binding'[req[r].session].model = req[r].order[req[r].i]
    <3>1. req[r].session \in Session
      BY <2>1 DEF Request
    <3>. QED
      BY <2>1, <2>4, <3>1 DEF Accept, Bind
  <2>. QED
    BY <2>1, <2>2, <2>5 DEF UnderWay
<1>. QED
  BY <1>1, ComboInvariant, PTL DEF SessionMovesForCause, Spec

-----------------------------------------------------------------------------
\* Sets of slots: the first and the last of one, and the ranks in it.

LEMMA SlotsFinite ==
    ASSUME NEW S \in SUBSET Slot
    PROVE  IsFiniteSet(S) /\ Cardinality(S) \in 0..N
<1>1. IsFiniteSet(Slot) /\ Cardinality(Slot) = N
  BY FusionAssumption, FS_Interval DEF Slot
<1>2. IsFiniteSet(S) /\ Cardinality(S) <= N
  BY <1>1, FS_Subset
<1>. QED
  BY <1>2, FusionAssumption, FS_CardinalityType

LEMMA Least ==
    ASSUME NEW S \in SUBSET Slot, S # {}
    PROVE  \E m \in S : \A j \in S : m <= j
<1>1. S \subseteq Nat
  BY FusionAssumption DEF Slot
<1>. QED
  BY <1>1, LeastNat

LEMMA Greatest ==
    ASSUME NEW S \in SUBSET Slot, S # {}
    PROVE  \E m \in S : \A j \in S : j <= m
<1> DEFINE T == {k \in Nat : N - k \in S}
<1>1. N \in Nat /\ \A j \in S : j \in Nat /\ j <= N
  BY FusionAssumption DEF Slot
<1>2. ASSUME NEW j \in S PROVE N - j \in T
  <2>1. N - j \in Nat /\ N - (N - j) = j
    BY <1>1, <1>2
  <2>. QED
    BY <2>1
<1>3. PICK k \in T : \A l \in T : k <= l
  BY <1>2, LeastNat
<1>4. ASSUME NEW j \in S PROVE j <= N - k
  BY <1>1, <1>2, <1>3
<1>. QED
  BY <1>3, <1>4

\* The queue: the slot that comes next, if any.
LEMMA NextOne ==
    ASSUME NEW S \in SUBSET Slot
    PROVE  /\ S = {} => {j \in S : Rank(j, S) = 1} = {}
           /\ S # {} => \E m \in S : {j \in S : Rank(j, S) = 1} = {m}
<1>1. ASSUME S # {} PROVE \E m \in S : {j \in S : Rank(j, S) = 1} = {m}
  <2>1. PICK m \in S : \A j \in S : m <= j
    BY <1>1, Least
  <2>2. {j \in S : j <= m} = {m}
    <3>1. ASSUME NEW j \in S PROVE j <= m <=> j = m
      <4>1. j \in Int /\ m \in Int /\ m <= j
        BY <2>1, FusionAssumption DEF Slot
      <4>. QED
        BY <4>1
    <3>. QED
      BY <3>1
  <2>3. Rank(m, S) = 1
    BY <2>2, FS_Singleton DEF Rank
  <2>4. ASSUME NEW i \in S, Rank(i, S) = 1 PROVE i = m
    <3> DEFINE U == {j \in S : j <= i}
    <3>1. m \in U /\ i \in U
      BY <2>1, FusionAssumption DEF Slot
    <3>2. IsFiniteSet(U) /\ Cardinality(U) = 1
      BY <2>4, SlotsFinite DEF Rank
    <3>3. \E x : U = {x}
      BY <3>2, FS_Singleton
    <3>. QED
      BY <3>1, <3>3
  <2>. QED
    BY <2>3, <2>4
<1>. QED
  BY <1>1

\* The slots that are started at once: the cap, or all of them if they are fewer.
LEMMA FirstOnes ==
    ASSUME NEW S \in SUBSET Slot, NEW n \in Nat
    PROVE  LET first == {i \in S : Rank(i, S) <= n}
           IN  /\ Cardinality(first) <= n
               /\ first # S => Cardinality(first) = n
<1> DEFINE first == {i \in S : Rank(i, S) <= n}
           Below(i) == {j \in S : j <= i}
<1>1. \A i \in S : i \in Nat
  BY FusionAssumption DEF Slot
<1>2. ASSUME NEW i \in S
      PROVE  IsFiniteSet(Below(i)) /\ Cardinality(Below(i)) \in Nat
             /\ Rank(i, S) = Cardinality(Below(i))
  BY SlotsFinite, FusionAssumption DEF Rank
<1>3. ASSUME NEW i \in first, NEW j \in S, j <= i PROVE j \in first
  <2>1. Below(j) \subseteq Below(i)
    BY <1>1, <1>3
  <2>2. Cardinality(Below(j)) <= Cardinality(Below(i))
    BY <1>2, <2>1, FS_Subset
  <2>3. Rank(i, S) <= n /\ i \in S
    BY <1>3
  <2>4. Rank(j, S) <= n
    <3>1. /\ Rank(i, S) = Cardinality(Below(i)) /\ Cardinality(Below(i)) \in Nat
          /\ Rank(j, S) = Cardinality(Below(j)) /\ Cardinality(Below(j)) \in Nat
      BY <1>2, <2>3
    <3>. HIDE DEF Below
    <3>. QED
      BY <2>2, <2>3, <3>1
  <2>. QED
    BY <2>4
<1>4. Cardinality(first) <= n
  <2>1. CASE first = {}
    BY <2>1, FS_EmptySet
  <2>2. CASE first # {}
    <3>1. PICK m \in first : \A j \in first : j <= m
      BY <2>2, Greatest
    <3>2. first = Below(m)
      BY <1>3, <3>1
    <3>. QED
      BY <1>2, <3>1, <3>2
  <2>. QED
    BY <2>1, <2>2
<1>5. ASSUME first # S PROVE Cardinality(first) = n
  <2>1. PICK m \in S \ first : \A j \in S \ first : m <= j
    BY <1>5, Least
  <2>2. Below(m) = first \cup {m}
    BY <1>1, <1>3, <2>1
  <2>3. IsFiniteSet(first) /\ Cardinality(first) \in Nat
    BY SlotsFinite, FusionAssumption
  <2>4. Cardinality(Below(m)) = Cardinality(first) + 1
    <3>1. m \notin first
      BY <2>1
    <3>. HIDE DEF first, Below
    <3>. QED
      BY <2>2, <2>3, <3>1, FS_AddElement
  <2>5. ~(Cardinality(Below(m)) <= n)
    BY <1>2, <2>1
  <2>. QED
    BY <1>4, <2>3, <2>4, <2>5
<1>. QED
  BY <1>4, <1>5

-----------------------------------------------------------------------------
\* The inductive invariant.

\* A slot that has not settled has no outcome.
OutcomeOnce == \A i \in Slot : stage[i] # "settled" => out[i] = "none"

\* Before the start no slot is known; the grace timer is armed by a quorum.
Armed ==
    /\ phase = "start" => \A i \in Slot : stage[i] = "skipped"
    /\ grace => ok >= Quorum

\* A panel that is reported as failed has no answers, and has replied.
Reported ==
    /\ phase # "replied" => reply = "none"
    /\ reply = "unavailable" => Given = {}

FusionInv ==
    /\ PanelTypeOK /\ CountersAgree /\ NoIdleCapacity /\ EndsForCause
    /\ OutcomeOnce /\ Armed /\ Reported

Queued == {i \in Slot : stage[i] = "queued"}
Running == {i \in Slot : Runs(i)}
Settled == {i \in Slot : stage[i] = "settled"}
Started == {i \in Active : stage[i] # "queued"}
Good == {i \in Slot : Answered(i)}

LEMMA CapType == Cap \in 0..N /\ Quorum \in Nat
  BY FusionAssumption DEF Cap, Quorum

LEMMA Launching ==
    ASSUME FusionInv, NEW i \in Slot, Runs(i), Launch(i)
    PROVE  /\ stage' \in [Slot -> {"skipped", "queued", "primary", "backup", "settled"}]
           /\ stage'[i] = "settled"
           /\ \A j \in Slot \ {i} : \/ stage'[j] = stage[j]
                                    \/ stage[j] = "queued" /\ stage'[j] = "primary"
           /\ active' = Cardinality(Running') /\ active' <= Cap /\ active' \in 0..N
           /\ cursor' = Cardinality(Started') /\ cursor' \in 0..N
           /\ Cardinality(Settled') = Cardinality(Settled) + 1
           /\ Queued' # {} => active' = Cap
<1> DEFINE next == {j \in Queued : Rank(j, Queued) = 1}
<1>1. /\ stage' = [j \in Slot |-> IF j = i THEN "settled"
                                  ELSE IF j \in next THEN "primary" ELSE stage[j]]
      /\ active' = active - 1 + Cardinality(next)
      /\ cursor' = cursor + Cardinality(next)
  BY DEF Launch, Queued
<1>2. /\ active = Cardinality(Running) /\ active <= Cap /\ active \in 0..N
      /\ phase # "start" /\ cursor = Cardinality(Started) /\ cursor \in 0..N
      /\ Queued # {} => active = Cap
      /\ stage \in [Slot -> {"skipped", "queued", "primary", "backup", "settled"}]
  BY DEF FusionInv, PanelTypeOK, CountersAgree, NoIdleCapacity, Armed, Running, Started, Queued,
     Runs
<1>3. /\ IsFiniteSet(Running) /\ IsFiniteSet(Started) /\ IsFiniteSet(Settled)
      /\ IsFiniteSet(Queued) /\ Queued \in SUBSET Slot /\ next \subseteq Queued
      /\ Started \subseteq Slot
  BY SlotsFinite DEF Running, Started, Settled, Queued, Active
<1>4. i \in Running /\ i \in Started /\ i \notin Queued /\ i \notin Settled
  BY <1>2 DEF Running, Started, Settled, Queued, Active, Skipped, Runs
<1>. HIDE DEF next
<1>5. /\ Running' = (Running \ {i}) \cup next
      /\ Started' = Started \cup next
      /\ Settled' = Settled \cup {i}
      /\ Queued' = Queued \ next
  BY <1>1, <1>2, <1>3, <1>4
     DEF Running, Started, Settled, Queued, Active, Skipped, Runs
<1>6. /\ stage' \in [Slot -> {"skipped", "queued", "primary", "backup", "settled"}]
      /\ stage'[i] = "settled"
      /\ \A j \in Slot \ {i} : \/ stage'[j] = stage[j]
                               \/ stage[j] = "queued" /\ stage'[j] = "primary"
  BY <1>1, <1>2, <1>3 DEF Queued
<1>7. Cardinality(Settled') = Cardinality(Settled) + 1
  BY <1>3, <1>4, <1>5, FS_AddElement
<1>8. IsFiniteSet(Running \ {i}) /\ Cardinality(Running \ {i}) = active - 1
  BY <1>2, <1>3, <1>4, FS_RemoveElement
<1>9. CASE Queued = {}
  <2>1. next = {} /\ Cardinality(next) = 0
    BY <1>3, <1>9, FS_EmptySet
  <2>2. active' = active - 1 /\ cursor' = cursor
    BY <1>1, <1>2, <2>1
  <2>3. active' = Cardinality(Running') /\ cursor' = Cardinality(Started')
    BY <1>2, <1>5, <1>8, <2>1, <2>2
  <2>4. active > 0
    BY <1>2, <1>3, <1>4, FS_EmptySet
  <2>5. active' <= Cap /\ active' \in 0..N /\ cursor' \in 0..N
    BY <1>2, <2>2, <2>4, CapType, FusionAssumption
  <2>6. Queued' = {}
    BY <1>5, <1>9
  <2>. QED
    BY <1>6, <1>7, <2>3, <2>5, <2>6
<1>10. CASE Queued # {}
  <2>1. PICK m \in Queued : next = {m}
    BY <1>3, <1>10, NextOne DEF next
  <2>2. Cardinality(next) = 1
    BY <2>1, FS_Singleton
  <2>3. active' = active /\ cursor' = cursor + 1
    BY <1>1, <1>2, <2>2
  <2>4. m \notin Running /\ m \notin Started
    BY <2>1 DEF Queued, Running, Started, Runs
  <2>5. active' = Cardinality(Running')
    <3>1. m \notin Running \ {i} /\ Running' = (Running \ {i}) \cup {m}
      BY <1>5, <2>1, <2>4
    <3>2. Cardinality(Running') = Cardinality(Running \ {i}) + 1
      BY <1>8, <3>1, FS_AddElement
    <3>. QED
      BY <1>2, <1>8, <2>3, <3>2
  <2>6. cursor' = Cardinality(Started')
    BY <1>2, <1>3, <1>5, <2>1, <2>3, <2>4, FS_AddElement
  <2>7. cursor' \in 0..N
    <3>1. Started' \in SUBSET Slot
      BY <1>3, <1>5
    <3>. QED
      BY <2>6, <3>1, SlotsFinite
  <2>. QED
    BY <1>2, <1>6, <1>7, <1>10, <2>3, <2>5, <2>6, <2>7
<1>. QED
  BY <1>9, <1>10

\* A slot that settles keeps everything the counters say.
LEMMA Settling ==
    ASSUME FusionInv, NEW i \in Slot, NEW result \in {"good", "low", "failed"},
           Runs(i), Settle(i, result), cooling' \subseteq PanelModel
    PROVE  FusionInv'
<1>1. /\ stage' \in [Slot -> {"skipped", "queued", "primary", "backup", "settled"}]
      /\ stage'[i] = "settled"
      /\ \A j \in Slot \ {i} : \/ stage'[j] = stage[j]
                               \/ stage[j] = "queued" /\ stage'[j] = "primary"
      /\ active' = Cardinality(Running') /\ active' <= Cap /\ active' \in 0..N
      /\ cursor' = Cardinality(Started') /\ cursor' \in 0..N
      /\ Cardinality(Settled') = Cardinality(Settled) + 1
      /\ Queued' # {} => active' = Cap
  BY Launching DEF Settle
<1>2. /\ PanelTypeOK /\ phase # "start" /\ stage[i] # "settled" /\ stage[i] # "skipped"
      /\ out[i] = "none"
  BY DEF FusionInv, Armed, OutcomeOnce, Runs
<1>3. Skipped' = Skipped /\ Active' = Active /\ i \in Active
  BY <1>1, <1>2 DEF Skipped, Active
<1>4. settled = Cardinality(Settled) /\ ok = Cardinality(Good)
  BY DEF FusionInv, CountersAgree, Settled, Good
<1>5. /\ out' = [out EXCEPT ![i] = result]
      /\ settled' = settled + 1
      /\ ok' = ok + (IF result \in {"good", "low"} THEN 1 ELSE 0)
      /\ UNCHANGED <<timedOut, pending, reply>>
  BY DEF Settle
<1>6. settled' = Cardinality(Settled') /\ settled' \in 0..N
  <2>1. Settled' \in SUBSET Slot
    BY DEF Settled
  <2>. QED
    BY <1>1, <1>4, <1>5, <2>1, SlotsFinite
<1>7. ok' = Cardinality(Good') /\ ok' \in 0..N
  <2>1. Good' \in SUBSET Slot /\ IsFiniteSet(Good) /\ i \notin Good
    BY <1>2, SlotsFinite DEF Good, Answered
  <2>2. ok' = Cardinality(Good')
    <3>1. CASE result \in {"good", "low"}
      <4>1. Good' = Good \cup {i}
        BY <1>2, <1>5, <3>1 DEF Good, Answered, PanelTypeOK
      <4>. QED
        BY <1>4, <1>5, <2>1, <3>1, <4>1, FS_AddElement
    <3>2. CASE result \notin {"good", "low"}
      <4>1. Good' = Good
        BY <1>2, <1>5, <3>2 DEF Good, Answered, PanelTypeOK
      <4>. QED
        BY <1>2, <1>4, <1>5, <3>2, <4>1 DEF PanelTypeOK
    <3>. QED
      BY <3>1, <3>2
  <2>. QED
    BY <2>1, <2>2, SlotsFinite
<1>8. ok' >= ok /\ Quorum' = Quorum /\ Cap' = Cap
  BY <1>2, <1>5 DEF PanelTypeOK, Quorum, Cap
<1>9. \/ /\ phase' = "recovering" /\ phase = "collecting"
         /\ answers' = [j \in Slot |-> IF out'[j] \in {"good", "low"} THEN out'[j] ELSE "none"]
         /\ settled' = Cardinality(Active)
         /\ grace' = grace
      \/ /\ phase' = phase /\ answers' = answers
         /\ grace' = (grace \/ ok' >= Quorum) \/ grace' = grace
  BY <1>2 DEF Settle, Conclude, Finish, GraceDue
<1>10. PanelTypeOK'
  <2>1. out' \in [Slot -> {"none", "good", "low", "failed"}]
    BY <1>2, <1>5 DEF PanelTypeOK
  <2>2. phase' \in Phase /\ answers' \in [Slot -> {"none", "good", "low", "poor"}]
    BY <1>2, <1>9, <2>1 DEF PanelTypeOK, Phase
  <2>3. grace' \in BOOLEAN
    BY <1>2, <1>9 DEF PanelTypeOK
  <2>. QED
    BY <1>1, <1>2, <1>5, <1>6, <1>7, <2>1, <2>2, <2>3 DEF PanelTypeOK
<1>11. CountersAgree'
  BY <1>1, <1>6, <1>7, <1>8 DEF CountersAgree, Running, Started, Settled, Good
<1>12. NoIdleCapacity'
  BY <1>1, <1>8 DEF NoIdleCapacity, Queued
<1>13. EndsForCause'
  <2>1. CASE phase' = phase
    BY <1>2, <1>1, <1>3, <1>5, <1>8, <2>1, CapType DEF FusionInv, EndsForCause, PanelTypeOK
  <2>2. CASE settled' = Cardinality(Active)
    <3>1. Settled' \subseteq Active
      BY <1>1, <1>2, <1>3 DEF Settled, Active, Skipped, PanelTypeOK
    <3>2. IsFiniteSet(Active)
      BY SlotsFinite DEF Active
    <3>3. Settled' = Active
      BY <1>6, <2>2, <3>1, <3>2, FS_Subset
    <3>. QED
      BY <1>3, <3>3 DEF EndsForCause, Settled
  <2>. QED
    BY <1>9, <2>1, <2>2
<1>14. OutcomeOnce'
  BY <1>1, <1>2, <1>5 DEF FusionInv, OutcomeOnce, PanelTypeOK
<1>15. Armed'
  <2>1. phase' # "start"
    BY <1>2, <1>9
  <2>2. grace' => ok' >= Quorum'
    <3>1. grace' => grace \/ ok' >= Quorum
      BY <1>9
    <3>2. grace => ok >= Quorum
      BY DEF FusionInv, Armed
    <3>3. ok \in Int /\ ok' \in Int /\ Quorum \in Int
      BY <1>2, <1>7, CapType DEF PanelTypeOK
    <3>4. ok >= Quorum => ok' >= Quorum
      BY <1>8, <3>3
    <3>. QED
      BY <1>8, <3>1, <3>2, <3>4
  <2>. QED
    BY <2>1, <2>2 DEF Armed
<1>16. Reported'
  BY <1>5, <1>9 DEF FusionInv, Reported, Given
<1>. QED
  BY <1>10, <1>11, <1>12, <1>13, <1>14, <1>15, <1>16 DEF FusionInv

LEMMA Initially == PanelInit => FusionInv
<1> SUFFICES ASSUME PanelInit PROVE FusionInv
  OBVIOUS
<1>1. {i \in Slot : Runs(i)} = {} /\ {i \in Slot : stage[i] = "settled"} = {}
      /\ {i \in Slot : Answered(i)} = {}
  BY DEF PanelInit, Runs, Answered
<1>2. CountersAgree
  BY <1>1, FS_EmptySet, CapType DEF PanelInit, CountersAgree
<1>3. PanelTypeOK
  <2>1. 0 \in 0..N
    BY FusionAssumption
  <2>2. /\ stage \in [Slot -> {"skipped", "queued", "primary", "backup", "settled"}]
        /\ out \in [Slot -> {"none", "good", "low", "failed"}]
        /\ answers \in [Slot -> {"none", "good", "low", "poor"}]
    BY DEF PanelInit
  <2>. QED
    BY <2>1, <2>2 DEF PanelInit, PanelTypeOK, Phase
<1>. QED
  BY <1>2, <1>3 DEF PanelInit, FusionInv, NoIdleCapacity, EndsForCause, OutcomeOnce, Armed,
     Reported

\* The start fills the cap, or starts everybody.
LEMMA Starting ==
    ASSUME FusionInv, StartPanel
    PROVE  FusionInv'
<1> DEFINE warm == {i \in Slot : ~Cools(i)}
           S == IF warm = {} THEN Slot ELSE warm
           first == {i \in S : Rank(i, S) <= Cap}
<1>1. /\ phase = "start" /\ phase' = "collecting"
      /\ stage' = [i \in Slot |-> IF i \in first THEN "primary"
                                  ELSE IF i \in S THEN "queued" ELSE "skipped"]
      /\ active' = Cardinality(first) /\ cursor' = Cardinality(first)
      /\ UNCHANGED <<panel, answers, pending, cooling, reply>>
  BY DEF StartPanel
<1>2. S \in SUBSET Slot /\ first \subseteq S
  OBVIOUS
<1>3. Cardinality(first) <= Cap /\ (first # S => Cardinality(first) = Cap)
  <2>1. Cap \in Nat
    BY CapType, FusionAssumption
  <2>. HIDE DEF S
  <2>. QED
    BY <1>2, <2>1, FirstOnes
<1>. HIDE DEF first, S
<1>4. Cardinality(first) \in 0..N
  BY <1>2, SlotsFinite
<1>5. {i \in Slot : Runs(i)}' = first /\ {i \in Active : stage[i] # "queued"}' = first
      /\ {i \in Slot : stage[i] = "settled"}' = {}
  BY <1>1, <1>2 DEF Runs, Active, Skipped
<1>6. \A i \in Slot : stage[i] = "skipped" /\ out[i] = "none"
  BY <1>1 DEF FusionInv, Armed, OutcomeOnce
<1>7. settled = 0
  <2>1. {i \in Slot : stage[i] = "settled"} = {}
    BY <1>6
  <2>. QED
    BY <2>1, FS_EmptySet DEF FusionInv, CountersAgree
<1>8. PanelTypeOK'
  BY <1>1, <1>4 DEF FusionInv, PanelTypeOK, Phase, panel
<1>9. CountersAgree'
  <2>1. settled' = Cardinality({i \in Slot : stage[i] = "settled"}')
    BY <1>1, <1>5, <1>7, FS_EmptySet DEF panel
  <2>2. ok' = Cardinality({i \in Slot : Answered(i)}')
    BY <1>1 DEF FusionInv, CountersAgree, Answered, panel
  <2>3. Cap' = Cap
    BY DEF Cap
  <2>. QED
    BY <1>1, <1>3, <1>5, <2>1, <2>2, <2>3 DEF CountersAgree
<1>10. NoIdleCapacity'
  BY <1>1, <1>2, <1>3 DEF NoIdleCapacity, Cap
<1>11. EndsForCause' /\ OutcomeOnce'
  BY <1>1, <1>6 DEF EndsForCause, OutcomeOnce, panel
<1>12. Armed' /\ Reported'
  BY <1>1 DEF FusionInv, Armed, Reported, Given, Quorum, panel
<1>. QED
  BY <1>8, <1>9, <1>10, <1>11, <1>12 DEF FusionInv

\* A timer ends the panel with a quorum or at the limit.
LEMMA Timing ==
    ASSUME FusionInv, GraceTimer \/ HardTimer
    PROVE  FusionInv'
<1>1. /\ phase = "collecting" /\ phase' = "recovering"
      /\ timedOut' \/ ok >= Quorum
      /\ timedOut' \in BOOLEAN
      /\ answers' \in [Slot -> {"none", "good", "low", "poor"}]
      /\ UNCHANGED <<pool, out, settled, ok, grace, pending, reply>>
  <2>1. out \in [Slot -> {"none", "good", "low", "failed"}] /\ timedOut \in BOOLEAN
        /\ (grace => ok >= Quorum)
    BY DEF FusionInv, PanelTypeOK, Armed
  <2>2. CASE GraceTimer
    BY <2>1, <2>2 DEF GraceTimer, Finish, panel
  <2>3. CASE HardTimer
    BY <2>1, <2>3 DEF HardTimer, Finish
  <2>. QED
    BY <2>2, <2>3
<1>2. PanelTypeOK' /\ NoIdleCapacity' /\ OutcomeOnce' /\ Armed' /\ Reported'
  BY <1>1 DEF FusionInv, PanelTypeOK, Phase, NoIdleCapacity, OutcomeOnce, Armed, Reported,
     Given, Quorum, Cap, pool
<1>3. CountersAgree'
  BY <1>1 DEF FusionInv, CountersAgree, Runs, Answered, Active, Skipped, Cap, pool
<1>4. EndsForCause'
  BY <1>1 DEF EndsForCause, Quorum
<1>. QED
  BY <1>2, <1>3, <1>4 DEF FusionInv

\* What is done with the answers leaves the panel alone.
LEMMA Afterwards ==
    ASSUME FusionInv, UNCHANGED <<stage, cursor, active, panel>>, PanelTypeOK',
           phase \notin {"start", "collecting"}, phase' \notin {"start", "collecting"},
           Reported'
    PROVE  FusionInv'
<1>1. NoIdleCapacity' /\ OutcomeOnce' /\ Armed' /\ EndsForCause'
  BY DEF FusionInv, NoIdleCapacity, OutcomeOnce, Armed, EndsForCause, Active, Skipped,
     Quorum, Cap, panel
<1>2. CountersAgree'
  BY DEF FusionInv, CountersAgree, Runs, Answered, Active, Skipped, Cap, panel
<1>. QED
  BY <1>1, <1>2 DEF FusionInv

\* The backup takes over: the slot runs on.
LEMMA FailingOver ==
    ASSUME FusionInv, NEW i \in Slot, stage[i] = "primary", cooling' \subseteq PanelModel,
           stage' = [stage EXCEPT ![i] = "backup"],
           UNCHANGED <<phase, cursor, active, panel, answers, pending, reply>>
    PROVE  FusionInv'
<1>1. PanelTypeOK'
  BY DEF FusionInv, PanelTypeOK, panel
<1>2. /\ {j \in Slot : Runs(j)}' = {j \in Slot : Runs(j)}
      /\ {j \in Slot : stage[j] = "settled"}' = {j \in Slot : stage[j] = "settled"}
      /\ {j \in Slot : Answered(j)}' = {j \in Slot : Answered(j)}
      /\ {j \in Active : stage[j] # "queued"}' = {j \in Active : stage[j] # "queued"}
      /\ Active' = Active
  BY DEF FusionInv, PanelTypeOK, Runs, Answered, Active, Skipped, panel
<1>3. CountersAgree'
  BY <1>2 DEF FusionInv, CountersAgree, Cap, panel
<1>4. NoIdleCapacity' /\ EndsForCause' /\ OutcomeOnce' /\ Armed' /\ Reported'
  BY <1>2 DEF FusionInv, PanelTypeOK, NoIdleCapacity, EndsForCause, OutcomeOnce, Armed, Reported,
     Given, Quorum, Cap, panel
<1>. QED
  BY <1>1, <1>3, <1>4 DEF FusionInv

\* Poor answers are only removed when there are better ones.
LEMMA Keeping ==
    ASSUME PanelTypeOK
    PROVE  /\ Kept \subseteq Given
           /\ Given # {} => Kept # {}
           /\ Cardinality(Kept) = 0 <=> Kept = {}
<1>1. Kept \subseteq Given /\ (Given # {} => Kept # {})
  BY DEF Kept, Given
<1>2. IsFiniteSet(Kept)
  BY <1>1, SlotsFinite DEF Given
<1>. QED
  BY <1>1, <1>2, FS_EmptySet

LEMMA Deciding ==
    ASSUME FusionInv, Decide
    PROVE  /\ phase = "recovering" /\ phase' \in {"replied", "direct", "refining", "judging"}
           /\ UNCHANGED <<pool, panel>>
           /\ answers' = [i \in Slot |-> IF i \in Kept THEN answers[i] ELSE "none"]
           /\ Given' = Kept
           /\ reply' = (IF Kept = {} THEN "unavailable" ELSE "none")
           /\ Kept = {} => phase' = "replied"
           /\ pending' \subseteq Slot
<1>1. PanelTypeOK
  BY DEF FusionInv
<1>2. answers' = [i \in Slot |-> IF i \in Kept THEN answers[i] ELSE "none"]
  BY DEF Decide
<1>3. Kept \subseteq Given /\ (Cardinality(Kept) = 0 <=> Kept = {})
  BY <1>1, Keeping
<1>4. Given' = Kept
  BY <1>2, <1>3 DEF Given
<1>5. Kept \subseteq Slot
  BY <1>3 DEF Given
<1>. HIDE DEF Kept
<1>6. /\ phase = "recovering" /\ UNCHANGED <<pool, panel>>
      /\ reply' = (IF Kept = {} THEN "unavailable" ELSE "none")
      /\ pending' \subseteq Slot
  BY <1>3, <1>5 DEF Decide
<1>7. /\ phase' \in {"replied", "direct", "refining", "judging"}
      /\ Kept = {} => phase' = "replied"
  BY <1>3 DEF Decide
<1>. QED
  BY <1>2, <1>4, <1>6, <1>7

LEMMA Step == FusionInv /\ [PanelNext]_panelVars => FusionInv'
<1> SUFFICES ASSUME FusionInv, [PanelNext]_panelVars PROVE FusionInv'
  OBVIOUS
<1>1. PanelTypeOK
  BY DEF FusionInv
<1>2. CASE StartPanel
  BY <1>2, Starting
<1>3. CASE GraceTimer \/ HardTimer
  BY <1>3, Timing
<1>4. ASSUME NEW i \in Slot, SlotAnswers(i) PROVE FusionInv'
  BY <1>1, <1>4, Settling DEF SlotAnswers, PanelTypeOK
<1>5. ASSUME NEW i \in Slot, PrimaryFails(i) PROVE FusionInv'
  <2>1. stage[i] = "primary" /\ cooling' \subseteq PanelModel
    BY <1>1, <1>5 DEF PrimaryFails, PanelTypeOK, PanelModel
  <2>2. CASE /\ stage' = [stage EXCEPT ![i] = "backup"]
             /\ UNCHANGED <<phase, cursor, active, panel, answers, pending, reply>>
    BY <2>1, <2>2, FailingOver
  <2>3. CASE Settle(i, "failed")
    BY <2>1, <2>3, Settling DEF Runs
  <2>. QED
    BY <1>5, <2>2, <2>3 DEF PrimaryFails
<1>6. ASSUME NEW i \in Slot, BackupFails(i) PROVE FusionInv'
  BY <1>1, <1>6, Settling DEF BackupFails, Runs, PanelTypeOK
<1>7. ASSUME NEW i \in Slot, Recover(i) PROVE FusionInv'
  <2>1. PanelTypeOK'
    BY <1>1, <1>7 DEF Recover, PanelTypeOK, panel
  <2>2. Given' = Given
    BY <1>1, <1>7 DEF Recover, PanelTypeOK, Given
  <2>. QED
    BY <1>7, <2>1, <2>2, Afterwards DEF Recover, FusionInv, Reported
<1>8. CASE Decide
  <2>1. PanelTypeOK'
    BY <1>1, <1>8, Deciding DEF PanelTypeOK, Phase, pool, panel
  <2>2. Reported'
    BY <1>8, Deciding DEF Reported
  <2>. QED
    BY <1>8, <2>1, <2>2, Deciding, Afterwards DEF pool
<1>9. ASSUME NEW i \in Slot, Refined(i) PROVE FusionInv'
  <2>1. PanelTypeOK' /\ Reported'
    BY <1>1, <1>9 DEF Refined, FusionInv, PanelTypeOK, Phase, Reported, Given, pool, panel
  <2>. QED
    BY <1>9, <2>1, Afterwards DEF Refined, pool
<1>10. CASE Reply
  <2>1. PanelTypeOK' /\ Reported'
    BY <1>1, <1>10 DEF Reply, FusionInv, PanelTypeOK, Phase, Reported, Given, pool, panel
  <2>. QED
    BY <1>10, <2>1, Afterwards DEF Reply, pool
<1>11. CASE UNCHANGED panelVars
  BY <1>11 DEF panelVars, pool, panel, FusionInv, PanelTypeOK, CountersAgree, NoIdleCapacity,
     EndsForCause, OutcomeOnce, Armed, Reported, Given, Runs, Answered, Active, Skipped,
     Quorum, Cap
<1>. QED
  BY <1>2, <1>3, <1>4, <1>5, <1>6, <1>7, <1>8, <1>9, <1>10, <1>11
     DEF PanelNext, Clock, Timeout

-----------------------------------------------------------------------------
THEOREM Invariance == PanelSpec => []FusionInv
  BY Initially, Step, PTL DEF PanelSpec

\* The variables of the panel keep their types (handleFusionChat).
THEOREM TypeCorrect == PanelSpec => []PanelTypeOK
<1>1. FusionInv => PanelTypeOK
  BY DEF FusionInv
<1>. QED
  BY <1>1, Invariance, PTL

\* A slot starts once and settles once, and no more than the cap run, late ones
\* included (collectPanel, runWithConcurrency).
THEOREM Counters == PanelSpec => []CountersAgree
<1>1. FusionInv => CountersAgree
  BY DEF FusionInv
<1>. QED
  BY <1>1, Invariance, PTL

\* A slot waits in the queue only while the cap is used up (runWithConcurrency).
THEOREM Capacity == PanelSpec => []NoIdleCapacity
<1>1. FusionInv => NoIdleCapacity
  BY DEF FusionInv
<1>. QED
  BY <1>1, Invariance, PTL

\* The panel ends with everyone settled, a quorum or the limit (collectPanel).
THEOREM Cause == PanelSpec => []EndsForCause
<1>1. FusionInv => EndsForCause
  BY DEF FusionInv
<1>. QED
  BY <1>1, Invariance, PTL

\* What arrives after the panel ended changes none of its answers (collectPanel).
THEOREM Late == PanelSpec => LateAnswersIgnored
<1>1. FusionInv /\ [PanelNext]_panelVars => [Frozen]_panelVars
  <2> SUFFICES ASSUME FusionInv, PanelNext, phase \notin {"start", "collecting"},
                      NEW i \in Slot, answers[i] = "none"
               PROVE  answers'[i] = "none"
    BY DEF Frozen
  <2>1. answers \in [Slot -> {"none", "good", "low", "poor"}]
    BY DEF FusionInv, PanelTypeOK
  <2>2. CASE Decide
    BY <2>2, Deciding
  <2>3. ASSUME NEW j \in Slot, NEW result, Settle(j, result) PROVE answers' = answers
    BY <2>3 DEF Settle, Conclude
  <2>4. ASSUME NEW j \in Slot, SlotAnswers(j) \/ Timeout(j) PROVE answers' = answers
    BY <2>3, <2>4 DEF SlotAnswers, Timeout, PrimaryFails, BackupFails
  <2>5. ASSUME NEW j \in Slot, Recover(j) PROVE answers'[i] = "none"
    BY <2>1, <2>5 DEF Recover
  <2>. QED
    BY <2>2, <2>4, <2>5
       DEF PanelNext, Clock, StartPanel, GraceTimer, HardTimer, Refined, Reply
<1>. QED
  BY <1>1, Invariance, PTL DEF PanelSpec, LateAnswersIgnored

\* A panel that was answered is never reported as failed (handleFusionChat).
THEOREM Answers == PanelSpec => AnswersNeverAllLost
<1>1. FusionInv /\ [PanelNext]_panelVars => [~Lost]_panelVars
  <2> SUFFICES ASSUME FusionInv, PanelNext, phase \notin {"start", "collecting"}, Given # {}
               PROVE  Given' # {} /\ reply' # "unavailable"
    BY DEF Lost
  <2>1. /\ answers \in [Slot -> {"none", "good", "low", "poor"}]
        /\ reply # "unavailable" /\ PanelTypeOK
    BY DEF FusionInv, PanelTypeOK, Reported
  <2>2. CASE Decide
    BY <2>1, <2>2, Deciding, Keeping
  <2>3. ASSUME NEW j \in Slot, NEW result, Settle(j, result)
        PROVE  answers' = answers /\ reply' = reply
    BY <2>3 DEF Settle, Conclude
  <2>4. ASSUME NEW j \in Slot, SlotAnswers(j) \/ Timeout(j)
        PROVE  answers' = answers /\ reply' = reply
    BY <2>3, <2>4 DEF SlotAnswers, Timeout, PrimaryFails, BackupFails
  <2>5. ASSUME NEW j \in Slot, Recover(j) PROVE Given' = Given /\ reply' = reply
    BY <2>1, <2>5 DEF Recover, Given
  <2>6. ASSUME answers' = answers PROVE Given' = Given
    BY <2>6 DEF Given
  <2>7. CASE Reply
    BY <2>6, <2>7 DEF Reply
  <2>8. ASSUME NEW j \in Slot, Refined(j) PROVE answers' = answers /\ reply' = reply
    BY <2>8 DEF Refined
  <2>. QED
    BY <2>1, <2>2, <2>4, <2>5, <2>6, <2>7, <2>8
       DEF PanelNext, Clock, StartPanel, GraceTimer, HardTimer
<1>. QED
  BY <1>1, Invariance, PTL DEF PanelSpec, AnswersNeverAllLost
=============================================================================
