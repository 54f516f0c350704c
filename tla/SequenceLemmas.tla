--------------------------- MODULE SequenceLemmas ---------------------------
(***************************************************************************)
(* Facts the proofs about scripts and lists of steps rest on: induction    *)
(* over the naturals for sets, which the provers can instantiate, and what *)
(* follows from it about flattened and sorted sequences.                   *)
(***************************************************************************)
EXTENDS Integers, Sequences, SequencesExt, FiniteSets, WellFoundedInduction, SequenceTheorems, TLAPS

-----------------------------------------------------------------------------
(* Induction *)

Below == OpToRel(<, Nat)

\* The order of the naturals is well founded.
LEMMA BelowWellFounded == IsWellFoundedOn(Below, Nat)
BY NatLessThanWellFounded DEF Below

\* On the naturals the relation is the order itself.
LEMMA BelowIsLess == ASSUME NEW m \in Nat, NEW n \in Nat PROVE <<m, n>> \in Below <=> m < n
BY DEF Below, OpToRel

\* A set of naturals that is not empty has a least element.
LEMMA LeastExists ==
  ASSUME NEW S, S \subseteq Nat, S # {}
  PROVE  \E m \in S : \A n \in S : m <= n
<1>1. PICK m \in S : \A n \in S : ~(<<n, m>> \in Below)
  BY BelowWellFounded, WFMin
<1>2. \A n \in S : m \in Nat /\ n \in Nat /\ ~(n < m)
  BY <1>1, BelowIsLess
<1>3. \A n \in S : m <= n
  BY <1>2
<1> QED
  BY <1>3

\* So a bounded set of naturals has a greatest one.
LEMMA GreatestExists ==
  ASSUME NEW n \in Nat, NEW S, S \subseteq 1..n, S # {}
  PROVE  Max(S) \in S /\ \A m \in S : m <= Max(S)
<1> DEFINE Rest == {k \in Nat : n - k \in S}
<1>1. Rest \subseteq Nat /\ Rest # {}
  <2>1. PICK m \in S : TRUE
    OBVIOUS
  <2>2. n - m \in Nat /\ n - (n - m) = m
    OBVIOUS
  <2>3. n - m \in Rest
    BY <2>2
  <2> QED
    BY <2>3
<1>2. PICK k \in Rest : \A j \in Rest : k <= j
  <2> HIDE DEF Rest
  <2> QED
    BY <1>1, LeastExists
<1>3. n - k \in S /\ k \in Nat
  OBVIOUS
<1>4. \A m \in S : m <= n - k
  <2> SUFFICES ASSUME NEW m \in S PROVE m <= n - k
    OBVIOUS
  <2>1. n - m \in Nat /\ n - (n - m) = m /\ m \in Nat
    OBVIOUS
  <2>2. n - m \in Rest
    BY <2>1
  <2>3. k <= n - m
    BY <1>2, <2>2
  <2> QED
    BY <1>3, <2>1, <2>3
<1>5. \E x \in S : \A y \in S : x >= y
  <2> WITNESS n - k \in S
  <2> QED
    BY <1>3, <1>4
<1>6. Max(S) \in S /\ \A y \in S : Max(S) >= y
  BY <1>5 DEF Max
<1>7. \A x \in S : x \in Nat
  OBVIOUS
<1> QED
  BY <1>6, <1>7

\* Induction, for a set instead of a predicate.
LEMMA NaturalInduction ==
  ASSUME NEW S, 0 \in S, \A n \in Nat : n \in S => n + 1 \in S
  PROVE  \A n \in Nat : n \in S
<1> SUFFICES ASSUME Nat \ S # {} PROVE FALSE
  OBVIOUS
<1>1. PICK m \in Nat \ S : \A n \in Nat \ S : m <= n
  BY LeastExists
<1>2. m # 0
  BY <1>1
<1>3. m - 1 \in Nat /\ m - 1 < m
  BY <1>1, <1>2
<1>4. m - 1 \in S
  BY <1>1, <1>3
<1> QED
  BY <1>1, <1>3, <1>4

-----------------------------------------------------------------------------
(* Flattening *)

\* What FlattenSeq builds up: the elements from the first to the n-th, joined.
Joins(g, ss, n) == g = [i \in 1..n |-> IF i = 1 THEN ss[i] ELSE g[i - 1] \o ss[i]]

\* The first n elements of any sequence of sequences can be joined.
LEMMA JoinsExist == ASSUME NEW ss PROVE \A n \in Nat : \E g : Joins(g, ss, n)
<1> DEFINE S == {n \in Nat : \E g : Joins(g, ss, n)}
<1>1. 0 \in S
  <2>1. Joins([i \in 1..0 |-> 0], ss, 0)
    BY DEF Joins
  <2> QED
    BY <2>1
<1>2. ASSUME NEW n \in Nat, n \in S PROVE n + 1 \in S
  <2>1. PICK g : Joins(g, ss, n)
    BY <1>2
  <2> DEFINE last == IF n = 0 THEN ss[1] ELSE g[n] \o ss[n + 1]
             h == [i \in 1..n + 1 |-> IF i = n + 1 THEN last ELSE g[i]]
  <2>2. ASSUME NEW i \in 1..n + 1
        PROVE  h[i] = IF i = 1 THEN ss[i] ELSE h[i - 1] \o ss[i]
    <3>1. CASE i = n + 1
      BY <3>1
    <3>2. CASE i # n + 1
      <4>1. i \in 1..n /\ (i # 1 => i - 1 \in 1..n)
        BY <3>2
      <4>2. g[i] = IF i = 1 THEN ss[i] ELSE g[i - 1] \o ss[i]
        BY <2>1, <4>1 DEF Joins
      <4> QED
        BY <4>1, <4>2
    <3> QED
      BY <3>1, <3>2
  <2>3. Joins(h, ss, n + 1)
    <3> HIDE DEF last
    <3>1. h = [i \in 1..n + 1 |-> h[i]]
      OBVIOUS
    <3> QED
      BY <2>2, <3>1 DEF Joins
  <2> QED
    BY <2>3
<1>3. \A n \in Nat : n \in S
  <2> HIDE DEF S
  <2> QED
    BY <1>1, <1>2, NaturalInduction
<1> QED
  BY <1>3

\* The last of the joins is what FlattenSeq returns.
LEMMA FlattenIsJoin ==
  ASSUME NEW ss, NEW n \in Nat, n # 0, Len(ss) = n
  PROVE  \E g : Joins(g, ss, n) /\ FlattenSeq(ss) = g[n]
<1> DEFINE g == CHOOSE f : Joins(f, ss, n)
<1>1. Joins(g, ss, n)
  BY JoinsExist
<1>2. FlattenSeq(ss) = g[n]
  BY DEF FlattenSeq, Joins
<1> QED
  BY <1>1, <1>2

\* What holds of the empty sequence and is passed on from the first i - 1
\* elements joined to the first i holds of the whole.
LEMMA FlattenInduction ==
  ASSUME NEW n \in Nat, NEW ss, Len(ss) = n, NEW P,
         << >> \in P[0], n = 0 => ss = << >>,
         n # 0 => ss[1] \in P[1],
         \A i \in 2..n : \A s \in P[i - 1] : s \o ss[i] \in P[i]
  PROVE  FlattenSeq(ss) \in P[n]
<1>1. CASE n = 0
  BY <1>1 DEF FlattenSeq
<1>2. CASE n # 0
  <2>1. PICK g : Joins(g, ss, n) /\ FlattenSeq(ss) = g[n]
    BY <1>2, FlattenIsJoin
  <2> DEFINE S == {i \in Nat : i \in 1..n => g[i] \in P[i]}
  <2>2. 0 \in S
    OBVIOUS
  <2>3. ASSUME NEW i \in Nat, i \in S PROVE i + 1 \in S
    <3> SUFFICES ASSUME i + 1 \in 1..n PROVE g[i + 1] \in P[i + 1]
      OBVIOUS
    <3>1. g[i + 1] = IF i + 1 = 1 THEN ss[i + 1] ELSE g[(i + 1) - 1] \o ss[i + 1]
      BY <2>1 DEF Joins
    <3>2. CASE i = 0
      BY <3>1, <3>2
    <3>3. CASE i # 0
      <4>1. i \in 1..n /\ i + 1 \in 2..n /\ (i + 1) - 1 = i
        BY <3>3
      <4>2. g[i] \in P[i]
        BY <2>3, <4>1
      <4> QED
        BY <3>1, <3>3, <4>1, <4>2
    <3> QED
      BY <3>2, <3>3
  <2>4. \A i \in Nat : i \in S
    <3> HIDE DEF S
    <3> QED
      BY <2>2, <2>3, NaturalInduction
  <2> QED
    BY <1>2, <2>1, <2>4
<1> QED
  BY <1>1, <1>2

\* A set of sequences that is closed under concatenation holds the flattening
\* of sequences of its members.
LEMMA FlattenClosed ==
  ASSUME NEW P, << >> \in P, \A s, t \in P : s \o t \in P,
         NEW n \in Nat, NEW ss, Len(ss) = n, ss = [i \in 1..n |-> ss[i]],
         \A i \in 1..n : ss[i] \in P
  PROVE  FlattenSeq(ss) \in P
<1> DEFINE Q == [i \in 0..n |-> P]
<1>1. << >> \in Q[0] /\ (n = 0 => ss = << >>) /\ (n # 0 => ss[1] \in Q[1])
  OBVIOUS
<1>2. \A i \in 2..n : \A s \in Q[i - 1] : s \o ss[i] \in Q[i]
  <2> SUFFICES ASSUME NEW i \in 2..n, NEW s \in Q[i - 1] PROVE s \o ss[i] \in Q[i]
    OBVIOUS
  <2>1. i \in 0..n /\ i - 1 \in 0..n /\ i \in 1..n
    OBVIOUS
  <2>2. s \in P
    BY <2>1
  <2> QED
    BY <2>1, <2>2
<1>3. FlattenSeq(ss) \in Q[n]
  <2> HIDE DEF Q
  <2> QED
    BY <1>1, <1>2, FlattenInduction
<1> QED
  BY <1>3

-----------------------------------------------------------------------------
(* Positions *)

\* The sums of the first lengths, in the order of the sequence.
LEMMA SumsExist ==
  ASSUME NEW n \in Nat, NEW v \in [1..n -> Nat]
  PROVE  \E o \in [0..n -> Nat] :
            /\ o[0] = 0 /\ \A k \in 1..n : o[k] = o[k - 1] + v[k]
            /\ \A k \in 0..n : o[k] <= o[n]
<1> DEFINE Sums(o, m) ==
              /\ o \in [0..m -> Nat] /\ o[0] = 0
              /\ \A k \in 1..m : o[k] = o[k - 1] + v[k]
              /\ \A k \in 0..m : o[k] <= o[m]
           S == {m \in Nat : m <= n => \E o : Sums(o, m)}
<1>1. 0 \in S
  <2>1. Sums([k \in 0..0 |-> 0], 0)
    OBVIOUS
  <2> QED
    BY <2>1
<1>2. ASSUME NEW m \in Nat, m \in S PROVE m + 1 \in S
  <2> SUFFICES ASSUME m + 1 <= n PROVE \E o : Sums(o, m + 1)
    OBVIOUS
  <2>1. PICK o : Sums(o, m)
    BY <1>2
  <2> DEFINE h == [k \in 0..m + 1 |-> IF k = m + 1 THEN o[m] + v[m + 1] ELSE o[k]]
  <2>2. v[m + 1] \in Nat /\ o[m] \in Nat
    BY <2>1
  <2>3. h \in [0..m + 1 -> Nat] /\ h[0] = 0 /\ h[m + 1] = o[m] + v[m + 1]
    BY <2>1, <2>2
  <2>4. \A k \in 0..m : h[k] = o[k] /\ o[k] \in Nat /\ o[k] <= o[m]
    BY <2>1
  <2>5. \A k \in 1..m + 1 : h[k] = h[k - 1] + v[k]
    <3> SUFFICES ASSUME NEW k \in 1..m + 1 PROVE h[k] = h[k - 1] + v[k]
      OBVIOUS
    <3>1. CASE k = m + 1
      <4>1. k - 1 = m /\ m \in 0..m
        BY <3>1
      <4> HIDE DEF h
      <4> QED
        BY <2>3, <2>4, <3>1, <4>1
    <3>2. CASE k # m + 1
      <4>1. k \in 1..m /\ k \in 0..m /\ k - 1 \in 0..m
        BY <3>2
      <4>2. o[k] = o[k - 1] + v[k]
        BY <2>1, <4>1
      <4> HIDE DEF h
      <4> QED
        BY <2>4, <4>1, <4>2
    <3> QED
      BY <3>1, <3>2
  <2>6. \A k \in 0..m + 1 : h[k] <= h[m + 1]
    <3> HIDE DEF h
    <3>1. h[m + 1] <= h[m + 1]
      BY <2>2, <2>3
    <3>2. ASSUME NEW k \in 0..m PROVE h[k] <= h[m + 1]
      <4>1. h[k] = o[k] /\ o[k] \in Nat /\ o[k] <= o[m] /\ h[m + 1] = o[m] + v[m + 1]
        BY <2>3, <2>4
      <4> QED
        BY <2>2, <4>1
    <3>3. \A k \in 0..m + 1 : k = m + 1 \/ k \in 0..m
      OBVIOUS
    <3> QED
      BY <3>1, <3>2, <3>3
  <2>7. Sums(h, m + 1)
    <3> HIDE DEF h
    <3> QED
      BY <2>3, <2>5, <2>6
  <2> QED
    BY <2>7
<1>3. n \in S
  <2> HIDE DEF S
  <2> QED
    BY <1>1, <1>2, NaturalInduction
<1>4. PICK o : Sums(o, n)
  BY <1>3
<1> QED
  BY <1>4

\* The elements of two sequences, joined, are where their lengths put them.
LEMMA JoinPositions ==
  ASSUME NEW T, NEW s \in Seq(T), NEW t \in Seq(T)
  PROVE  /\ s \o t \in Seq(T) /\ Len(s \o t) = Len(s) + Len(t)
         /\ \A i \in 1..Len(s) : (s \o t)[i] = s[i]
         /\ \A i \in 1..Len(t) : Len(s) + i <= Len(s) + Len(t) /\ (s \o t)[Len(s) + i] = t[i]
<1>1. Len(s) \in Nat /\ Len(t) \in Nat
  BY LenProperties
<1>2. /\ s \o t \in Seq(T) /\ Len(s \o t) = Len(s) + Len(t)
      /\ \A i \in 1..Len(s) + Len(t) : (s \o t)[i] = IF i <= Len(s) THEN s[i] ELSE t[i - Len(s)]
  BY ConcatProperties
<1>3. ASSUME NEW i \in 1..Len(t) PROVE (s \o t)[Len(s) + i] = t[i]
  <2>1. Len(s) + i \in 1..Len(s) + Len(t) /\ ~(Len(s) + i <= Len(s)) /\ (Len(s) + i) - Len(s) = i
    BY <1>1
  <2> QED
    BY <1>2, <2>1
<1> QED
  BY <1>1, <1>2, <1>3

\* What lies within a part lies within the whole.
LEMMA PartIsWithin ==
  ASSUME NEW a \in Nat, NEW b \in Nat, NEW n \in Nat, NEW i \in Nat \ {0}, a + i <= b
  PROVE  a + i \in 1..b /\ a + i <= b + n
OBVIOUS

\* s holds the elements of the first m sequences at the positions o.
Placed(T, ss, o, m, s) ==
  /\ s \in Seq(T) /\ Len(s) = o[m]
  /\ \A k \in 1..m : \A i \in 1..Len(ss[k]) : o[k - 1] + i <= o[m] /\ s[o[k - 1] + i] = ss[k][i]

\* The next sequence, joined to it.
LEMMA PlacedStep ==
  ASSUME NEW T, NEW m \in Nat \ {0}, NEW ss, NEW o, NEW s, Placed(T, ss, o, m - 1, s),
         \A k \in 1..m : ss[k] \in Seq(T), \A k \in 0..m : o[k] \in Nat,
         \A k \in 1..m : o[k] = o[k - 1] + Len(ss[k])
  PROVE  Placed(T, ss, o, m, s \o ss[m])
<1> DEFINE last == ss[m]
<1>1. last \in Seq(T) /\ o[m] = o[m - 1] + Len(last) /\ o[m] \in Nat /\ o[m - 1] \in Nat
  OBVIOUS
<1>2. s \in Seq(T) /\ Len(s) = o[m - 1]
  BY DEF Placed
<1> HIDE DEF last
<1>3. Len(last) \in Nat
  BY <1>1, LenProperties
<1>4. /\ s \o last \in Seq(T) /\ Len(s \o last) = o[m]
      /\ \A i \in 1..o[m - 1] : (s \o last)[i] = s[i]
      /\ \A i \in 1..Len(last) : o[m - 1] + i <= o[m] /\ (s \o last)[o[m - 1] + i] = last[i]
  <2>1. /\ s \o last \in Seq(T) /\ Len(s \o last) = Len(s) + Len(last)
        /\ \A i \in 1..Len(s) : (s \o last)[i] = s[i]
        /\ \A i \in 1..Len(last) : Len(s) + i <= Len(s) + Len(last) /\ (s \o last)[Len(s) + i] = last[i]
    <3>1. s \in Seq(T) /\ last \in Seq(T)
      BY <1>1, <1>2
    <3> QED
      BY <3>1, JoinPositions
  <2> QED
    BY <1>1, <1>2, <2>1
<1>5. ASSUME NEW k \in 1..m, NEW i \in 1..Len(ss[k])
      PROVE  o[k - 1] + i <= o[m] /\ (s \o last)[o[k - 1] + i] = ss[k][i]
  <2>1. CASE k = m
    BY <1>4, <2>1 DEF last
  <2>2. CASE k # m
    <3>1. k \in 1..m - 1 /\ k - 1 \in 0..m
      BY <2>2
    <3>2. o[k - 1] + i <= o[m - 1] /\ s[o[k - 1] + i] = ss[k][i]
      BY <3>1 DEF Placed
    <3>3. o[k - 1] \in Nat /\ ss[k] \in Seq(T)
      BY <3>1
    <3>4. i \in Nat \ {0}
      BY <3>3, LenProperties
    <3>5. o[k - 1] + i \in 1..o[m - 1] /\ o[k - 1] + i <= o[m - 1] + Len(last)
      BY <1>1, <1>3, <3>2, <3>3, <3>4, PartIsWithin
    <3> QED
      BY <1>1, <1>4, <3>2, <3>5
  <2> QED
    BY <2>1, <2>2
<1> QED
  BY <1>4, <1>5 DEF Placed, last

\* Where the elements of a flattened sequence are.
LEMMA FlattenPositions ==
  ASSUME NEW T, NEW n \in Nat, NEW ss, Len(ss) = n, n = 0 => ss = << >>,
         \A k \in 1..n : ss[k] \in Seq(T),
         NEW o \in [0..n -> Nat], o[0] = 0, \A k \in 1..n : o[k] = o[k - 1] + Len(ss[k])
  PROVE  Placed(T, ss, o, n, FlattenSeq(ss))
<1> DEFINE P == [m \in 0..n |-> {s \in Seq(T) : Placed(T, ss, o, m, s)}]
<1>1. << >> \in P[0]
  BY DEF Placed
<1>2. ASSUME NEW m \in 1..n, NEW s, Placed(T, ss, o, m - 1, s) PROVE s \o ss[m] \in P[m]
  <2>1. m \in Nat \ {0} /\ m \in 0..n /\ \A k \in 1..m : k \in 1..n
    OBVIOUS
  <2>2. (\A k \in 1..m : ss[k] \in Seq(T) /\ o[k] = o[k - 1] + Len(ss[k]))
        /\ \A k \in 0..m : o[k] \in Nat
    BY <2>1
  <2>3. Placed(T, ss, o, m, s \o ss[m])
    BY <1>2, <2>1, <2>2, PlacedStep
  <2> QED
    BY <2>1, <2>3 DEF Placed
<1>3. n # 0 => ss[1] \in P[1]
  <2> SUFFICES ASSUME n # 0 PROVE ss[1] \in P[1]
    OBVIOUS
  <2>1. 1 \in 1..n /\ 1 - 1 = 0 /\ ss[1] \in Seq(T) /\ Placed(T, ss, o, 0, << >>)
    BY <1>1
  <2>2. << >> \o ss[1] \in P[1]
    <3> HIDE DEF P
    <3> QED
      BY <1>2, <2>1
  <2>3. << >> \o ss[1] = ss[1]
    BY <2>1, ConcatEmptySeq
  <2> QED
    BY <2>2, <2>3
<1>4. \A m \in 2..n : \A s \in P[m - 1] : s \o ss[m] \in P[m]
  <2> SUFFICES ASSUME NEW m \in 2..n, NEW s \in P[m - 1] PROVE s \o ss[m] \in P[m]
    OBVIOUS
  <2>1. m \in 1..n /\ m - 1 \in 0..n
    OBVIOUS
  <2>2. Placed(T, ss, o, m - 1, s)
    BY <2>1
  <2> HIDE DEF P
  <2> QED
    BY <1>2, <2>1, <2>2
<1>5. FlattenSeq(ss) \in P[n]
  <2> HIDE DEF P
  <2> QED
    BY <1>1, <1>3, <1>4, FlattenInduction
<1> QED
  BY <1>5

\* A position within a loop, from the position in all loops.
LEMMA Modulus ==
  ASSUME NEW n \in Nat \ {0}, NEW x \in 0..n - 1, NEW l \in Nat
  PROVE  (l * n + x) % n = x
OBVIOUS

-----------------------------------------------------------------------------
(* What a sequence has, in whatever order                                  *)

\* A sequence is one of its own elements.
LEMMA OwnElements ==
  ASSUME NEW T, NEW s \in Seq(T)
  PROVE  s \in Seq(ToSet(s)) /\ ToSet(s) \subseteq T
<1>1. Len(s) \in Nat /\ DOMAIN s = 1..Len(s) /\ s \in [1..Len(s) -> T]
  BY LenProperties
<1>2. s \in [1..Len(s) -> ToSet(s)]
  BY <1>1 DEF ToSet
<1>3. s \in Seq(ToSet(s))
  BY <1>1, <1>2, SeqDef
<1>4. ToSet(s) \subseteq T
  BY <1>1 DEF ToSet
<1> QED
  BY <1>3, <1>4

\* It is one of any set that has them.
LEMMA WiderElements ==
  ASSUME NEW T, NEW s, s \in Seq(ToSet(s)), ToSet(s) \subseteq T
  PROVE  s \in Seq(T)
<1>1. Len(s) \in Nat /\ s \in [1..Len(s) -> ToSet(s)]
  BY LenProperties
<1>2. s \in [1..Len(s) -> T]
  BY <1>1
<1> QED
  BY <1>1, <1>2, SeqDef

\* Two sequences joined have the elements of both.
LEMMA JoinElements ==
  ASSUME NEW s, s \in Seq(ToSet(s)), NEW t, t \in Seq(ToSet(t))
  PROVE  s \o t \in Seq(ToSet(s \o t)) /\ ToSet(s \o t) = ToSet(s) \cup ToSet(t)
<1> DEFINE T == ToSet(s) \cup ToSet(t)
<1>1. s \in Seq(T) /\ t \in Seq(T)
  BY WiderElements
<1>2. Len(s) \in Nat /\ Len(t) \in Nat /\ DOMAIN s = 1..Len(s) /\ DOMAIN t = 1..Len(t)
  BY <1>1, LenProperties
<1>3. /\ s \o t \in Seq(T) /\ Len(s \o t) = Len(s) + Len(t)
      /\ \A i \in 1..Len(s) : (s \o t)[i] = s[i]
      /\ \A i \in 1..Len(t) : (s \o t)[Len(s) + i] = t[i]
  BY <1>1, JoinPositions
<1>4. DOMAIN (s \o t) = 1..Len(s) + Len(t)
  BY <1>3, LenProperties
<1>5. ASSUME NEW i \in 1..Len(s) PROVE s[i] \in ToSet(s \o t)
  <2>1. i \in DOMAIN (s \o t) /\ (s \o t)[i] = s[i]
    BY <1>2, <1>3, <1>4
  <2> QED
    BY <2>1 DEF ToSet
<1>6. ASSUME NEW i \in 1..Len(t) PROVE t[i] \in ToSet(s \o t)
  <2>1. Len(s) + i \in DOMAIN (s \o t) /\ (s \o t)[Len(s) + i] = t[i]
    BY <1>2, <1>3, <1>4
  <2> QED
    BY <2>1 DEF ToSet
<1>7. ToSet(s) \subseteq ToSet(s \o t) /\ ToSet(t) \subseteq ToSet(s \o t)
  BY <1>2, <1>5, <1>6 DEF ToSet
<1> QED
  BY <1>3, <1>7, OwnElements

\* A sequence of sequences flattened has the elements of each of them.
LEMMA FlattenElements ==
  ASSUME NEW n \in Nat, NEW ss, Len(ss) = n, ss = [i \in 1..n |-> ss[i]],
         \A i \in 1..n : ss[i] \in Seq(ToSet(ss[i]))
  PROVE  /\ FlattenSeq(ss) \in Seq(ToSet(FlattenSeq(ss)))
         /\ ToSet(FlattenSeq(ss)) = UNION {ToSet(ss[i]) : i \in 1..n}
<1> DEFINE U == UNION {ToSet(ss[i]) : i \in 1..n}
           P == [k \in 0..n |-> {s \in Seq(U) : ToSet(s) = UNION {ToSet(ss[i]) : i \in 1..k}}]
<1>1. \A i \in 1..n : ss[i] \in Seq(U)
  BY WiderElements
<1>2. << >> \in P[0]
  BY DEF ToSet
<1>3. n = 0 => ss = << >>
  OBVIOUS
<1>4. n # 0 => ss[1] \in P[1]
  <2>1. UNION {ToSet(ss[i]) : i \in 1..1} = ToSet(ss[1])
    <3>1. 1..1 = {1}
      OBVIOUS
    <3> QED
      BY <3>1
  <2>2. n # 0 => 1 \in 0..n /\ 1 \in 1..n
    OBVIOUS
  <2>3. n # 0 => P[1] = {s \in Seq(U) : ToSet(s) = ToSet(ss[1])}
    BY <2>1, <2>2
  <2> HIDE DEF P
  <2> QED
    BY <1>1, <2>2, <2>3
<1>5. ASSUME NEW i \in 2..n, NEW s \in P[i - 1] PROVE s \o ss[i] \in P[i]
  <2>1. i \in 1..n /\ i - 1 \in 0..n /\ i \in 0..n /\ 1..i = (1..i - 1) \cup {i}
    OBVIOUS
  <2>2. s \in Seq(U) /\ ToSet(s) = UNION {ToSet(ss[j]) : j \in 1..i - 1}
    BY <2>1
  <2>3. s \in Seq(ToSet(s)) /\ ss[i] \in Seq(ToSet(ss[i]))
    BY <2>1, <2>2, OwnElements
  <2>4. s \o ss[i] \in Seq(U)
    BY <1>1, <2>1, <2>2, ConcatProperties
  <2>5. ToSet(s \o ss[i]) = ToSet(s) \cup ToSet(ss[i])
    BY <2>3, JoinElements
  <2>6. ToSet(s \o ss[i]) = UNION {ToSet(ss[j]) : j \in 1..i}
    <3>1. UNION {ToSet(ss[j]) : j \in 1..i} = (UNION {ToSet(ss[j]) : j \in 1..i - 1}) \cup ToSet(ss[i])
      <4> DEFINE E(j) == ToSet(ss[j])
      <4> HIDE DEF E
      <4>1. UNION {E(j) : j \in (1..i - 1) \cup {i}} = (UNION {E(j) : j \in 1..i - 1}) \cup E(i)
        OBVIOUS
      <4> QED
        BY <2>1, <4>1 DEF E
    <3> QED
      BY <2>2, <2>5, <3>1
  <2> QED
    BY <2>1, <2>4, <2>6
<1>6. FlattenSeq(ss) \in P[n]
  <2> HIDE DEF P
  <2> QED
    BY <1>2, <1>3, <1>4, <1>5, FlattenInduction
<1>7. FlattenSeq(ss) \in Seq(U) /\ ToSet(FlattenSeq(ss)) = U
  <2>1. n \in 0..n
    OBVIOUS
  <2> QED
    BY <1>6, <2>1
<1> QED
  BY <1>7, OwnElements
=============================================================================
