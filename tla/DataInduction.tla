--------------------------- MODULE DataInduction ---------------------------
(***************************************************************************)
(* Induction over numbers for the proofs of this project.  The theorems of *)
(* the library take a predicate as a parameter; here it is a set, those    *)
(* numbers of which the predicate holds.  And what follows by it for the   *)
(* sequence operators the model uses.                                      *)
(***************************************************************************)
EXTENDS Integers, SequencesExt, SequenceTheorems, WellFoundedInduction, TLAPS

\* A set with 0 and with the successors of its members has all the numbers.
LEMMA SetInduction ==
  ASSUME NEW T, 0 \in T, \A n \in Nat : n \in T => n + 1 \in T
  PROVE  Nat \subseteq T
<1> DEFINE M == Nat \ T
           R == OpToRel(<, Nat)
<1>1. IsWellFoundedOn(R, Nat)
  BY NatLessThanWellFounded, Zenon
<1>2. SUFFICES ASSUME M # {} PROVE FALSE
  OBVIOUS
<1>3. M \subseteq Nat
  OBVIOUS
<1> HIDE DEF M, R
<1>4. PICK x \in M : \A y \in M : ~ (<<y, x>> \in R)
  BY <1>1, <1>2, <1>3, WFMin
<1>5. \A y \in M : ~ (y < x)
  BY <1>3, <1>4 DEF R, OpToRel
<1> QED
  BY <1>4, <1>5 DEF M

\* The same up to a number.
LEMMA InductionUpTo ==
  ASSUME NEW k \in Nat, NEW T, 0 \in T, \A n \in 0..(k - 1) : n \in T => n + 1 \in T
  PROVE  \A n \in 0..k : n \in T
<1> DEFINE U == {n \in Nat : n <= k => n \in T}
<1>1. 0 \in U /\ \A n \in Nat : n \in U => n + 1 \in U
  OBVIOUS
<1> HIDE DEF U
<1>2. Nat \subseteq U
  BY <1>1, SetInduction
<1> QED
  BY <1>2 DEF U

(***************************************************************************)
(* Recursive functions over 0..k: such a function exists, and it has the   *)
(* type of its steps.                                                      *)
(***************************************************************************)
Recursion(g, x, F, k) == g = [n \in 0..k |-> IF n = 0 THEN x ELSE F[n][g[n - 1]]]

LEMMA RecursionType ==
  ASSUME NEW k \in Nat, NEW S, NEW x \in S, NEW F \in [1..k -> [S -> S]],
         NEW g, Recursion(g, x, F, k)
  PROVE  g \in [0..k -> S]
<1> DEFINE T == {n \in 0..k : g[n] \in S}
<1>1. 0 \in T
  BY DEF Recursion
<1>2. ASSUME NEW n \in 0..(k - 1), n \in T PROVE n + 1 \in T
  <2>1. n + 1 \in 1..k /\ (n + 1) - 1 = n
    OBVIOUS
  <2>2. g[n + 1] = F[n + 1][g[n]]
    BY <2>1 DEF Recursion
  <2>3. g[n + 1] \in S
    BY <1>2, <2>1, <2>2
  <2> QED
    BY <2>1, <2>3
<1> HIDE DEF T
<1>3. \A n \in 0..k : n \in T
  BY <1>1, <1>2, InductionUpTo
<1> QED
  BY <1>3 DEF T, Recursion

LEMMA RecursionExists ==
  ASSUME NEW k \in Nat, NEW S, NEW x \in S, NEW F \in [1..k -> [S -> S]]
  PROVE  \E g : Recursion(g, x, F, k)
<1> DEFINE T == {n \in 0..k : \E g \in [0..n -> S] : Recursion(g, x, F, n)}
<1>1. 0 \in T
  <2>1. ASSUME NEW z \in 0..k, z = 0 PROVE z \in T
    <3> DEFINE g == [n \in 0..z |-> x]
    <3>1. g \in [0..z -> S] /\ Recursion(g, x, F, z)
      BY <2>1 DEF Recursion
    <3> HIDE DEF g
    <3> QED
      BY <3>1
  <2> HIDE DEF T
  <2> QED
    BY <2>1
<1>2. ASSUME NEW n \in 0..(k - 1), n \in T PROVE n + 1 \in T
  <2>1. PICK g \in [0..n -> S] : Recursion(g, x, F, n)
    BY <1>2
  <2> DEFINE h == [m \in 0..(n + 1) |-> IF m = n + 1 THEN F[n + 1][g[n]] ELSE g[m]]
  <2>2. n + 1 \in 1..k /\ F[n + 1][g[n]] \in S
    OBVIOUS
  <2>3. ASSUME NEW m \in 0..(n + 1)
        PROVE  h[m] = IF m = 0 THEN x ELSE F[m][h[m - 1]]
    <3>1. CASE m = n + 1
      <4>1. h[m - 1] = g[n] /\ m # 0
        BY <3>1
      <4> QED
        BY <3>1, <4>1
    <3>2. CASE m # n + 1
      <4>1. m \in 0..n /\ h[m] = g[m] /\ (m # 0 => h[m - 1] = g[m - 1])
        BY <3>2
      <4>2. g[m] = IF m = 0 THEN x ELSE F[m][g[m - 1]]
        BY <2>1, <4>1 DEF Recursion
      <4> QED
        BY <4>1, <4>2
    <3> QED
      BY <3>1, <3>2
  <2>4. h \in [0..(n + 1) -> S]
    BY <2>2
  <2>5. h = [m \in 0..(n + 1) |-> h[m]]
    OBVIOUS
  <2> HIDE DEF h
  <2>6. Recursion(h, x, F, n + 1)
    BY <2>3, <2>5 DEF Recursion
  <2> QED
    BY <2>2, <2>4, <2>6
<1> HIDE DEF T
<1>3. \A n \in 0..k : n \in T
  BY <1>1, <1>2, InductionUpTo
<1> QED
  BY <1>3 DEF T

(***************************************************************************)
(* FlattenSeq: sequences of sequences over a set give a sequence over it.  *)
(***************************************************************************)
\* g[i] is the flattening of the first i sequences, for i up to n.
Flattening(ss, g, n) ==
  \A i \in 1..n : g[i] = IF i = 1 THEN ss[i] ELSE g[i - 1] \o ss[i]

LEMMA FlatteningExists ==
  ASSUME NEW S, NEW ss \in Seq(Seq(S))
  PROVE  \E g \in [1..Len(ss) -> Seq(S)] : Flattening(ss, g, Len(ss))
<1> DEFINE N == Len(ss)
           T == {n \in 0..N : \E g \in [1..n -> Seq(S)] : Flattening(ss, g, n)}
<1>1. N \in Nat /\ \A i \in 1..N : ss[i] \in Seq(S)
  OBVIOUS
<1> HIDE DEF N
<1>2. 0 \in T
  <2>1. ASSUME NEW z \in 0..N, z = 0 PROVE z \in T
    <3> DEFINE g == [i \in 1..z |-> <<>>]
    <3>1. g \in [1..z -> Seq(S)] /\ Flattening(ss, g, z)
      BY <2>1 DEF Flattening
    <3> HIDE DEF g
    <3> QED
      BY <3>1
  <2> HIDE DEF T
  <2> QED
    BY <1>1, <2>1
<1>3. ASSUME NEW n \in 0..(N - 1), n \in T PROVE n + 1 \in T
  <2>1. PICK g \in [1..n -> Seq(S)] : Flattening(ss, g, n)
    BY <1>3
  <2> DEFINE last == IF n = 0 THEN ss[1] ELSE g[n] \o ss[n + 1]
             h == [i \in 1..(n + 1) |-> IF i = n + 1 THEN last ELSE g[i]]
  <2>2. last \in Seq(S)
    <3>1. n # 0 => g[n] \in Seq(S)
      OBVIOUS
    <3>2. ss[n + 1] \in Seq(S)
      BY <1>1
    <3> QED
      BY <3>1, <3>2, <1>1, ConcatProperties
  <2>3. ASSUME NEW i \in 1..(n + 1)
        PROVE  h[i] = IF i = 1 THEN ss[i] ELSE h[i - 1] \o ss[i]
    <3>1. CASE i = n + 1
      <4>1. i # 1 => h[i - 1] = g[n]
        BY <3>1
      <4> QED
        BY <3>1, <4>1
    <3>2. CASE i # n + 1
      <4>1. i \in 1..n /\ h[i] = g[i] /\ (i # 1 => h[i - 1] = g[i - 1])
        BY <3>2
      <4> QED
        BY <2>1, <4>1 DEF Flattening
    <3> QED
      BY <3>1, <3>2
  <2> HIDE DEF last
  <2>4. h \in [1..(n + 1) -> Seq(S)]
    BY <2>2
  <2>5. Flattening(ss, h, n + 1)
    BY <2>3 DEF Flattening
  <2> HIDE DEF h
  <2>6. n + 1 \in 0..N
    BY <1>1
  <2> QED
    BY <2>4, <2>5, <2>6
<1> HIDE DEF T
<1>4. \A n \in 0..N : n \in T
  BY <1>1, <1>2, <1>3, InductionUpTo
<1> QED
  BY <1>1, <1>4 DEF T, N

LEMMA FlattenType ==
  ASSUME NEW S, NEW ss \in Seq(Seq(S))
  PROVE  FlattenSeq(ss) \in Seq(S)
<1> DEFINE N == Len(ss)
           Body(g) == [i \in 1..N |-> IF i = 1 THEN ss[i] ELSE g[i - 1] \o ss[i]]
           flatten == CHOOSE f : f = Body(f)
<1>1. N \in Nat /\ \A i \in 1..N : ss[i] \in Seq(S)
  OBVIOUS
<1>2. PICK g \in [1..N -> Seq(S)] : Flattening(ss, g, N)
  BY FlatteningExists
<1>3. g = Body(g)
  BY <1>2 DEF Flattening
<1>4. flatten = Body(flatten)
  BY <1>3
<1>5. N # 0 => FlattenSeq(ss) = flatten[N]
  BY DEF FlattenSeq
<1>6. N = 0 => FlattenSeq(ss) \in Seq(S)
  BY DEF FlattenSeq
<1> HIDE DEF flatten, N
<1> DEFINE T == {n \in 0..N : n # 0 => flatten[n] \in Seq(S)}
<1>7. 0 \in T
  BY <1>1
<1>8. ASSUME NEW n \in 0..(N - 1), n \in T PROVE n + 1 \in T
  <2>1. flatten[n + 1] = IF n + 1 = 1 THEN ss[n + 1] ELSE flatten[n] \o ss[n + 1]
    <3>1. n + 1 \in 1..N /\ (n + 1) - 1 = n
      BY <1>1
    <3> QED
      BY <1>4, <3>1
  <2>2. ss[n + 1] \in Seq(S)
    BY <1>1
  <2>3. n # 0 => flatten[n] \in Seq(S)
    BY <1>8
  <2>4. flatten[n + 1] \in Seq(S)
    BY <2>1, <2>2, <2>3, ConcatProperties
  <2> QED
    BY <1>1, <2>4
<1> HIDE DEF T
<1>9. \A n \in 0..N : n \in T
  BY <1>1, <1>7, <1>8, InductionUpTo
<1>10. N # 0 => flatten[N] \in Seq(S)
  BY <1>1, <1>9 DEF T
<1> QED
  BY <1>5, <1>6, <1>10

\* The members of a sequence are its head and those of its tail.
LEMMA HeadAndTail ==
  ASSUME NEW S, NEW s \in Seq(S), s # <<>>
  PROVE  ToSet(s) = {Head(s)} \union ToSet(Tail(s))
<1> DEFINE t == Tail(s)
<1>1. t \in Seq(S) /\ Len(t) = Len(s) - 1 /\ \A i \in 1..Len(t) : t[i] = s[i + 1]
  OBVIOUS
<1>2. Len(s) \in Nat \ {0} /\ DOMAIN s = 1..Len(s) /\ DOMAIN t = 1..Len(t) /\ Head(s) = s[1]
  OBVIOUS
<1> HIDE DEF t
<1>3. ASSUME NEW i \in 1..Len(s) PROVE s[i] \in {Head(s)} \union ToSet(t)
  <2>1. CASE i = 1
    BY <1>2, <2>1
  <2>2. CASE i # 1
    <3>1. i - 1 \in 1..Len(t) /\ (i - 1) + 1 = i
      BY <1>1, <1>2, <2>2
    <3>2. t[i - 1] = s[i]
      BY <1>1, <3>1
    <3> QED
      BY <1>2, <3>1, <3>2 DEF ToSet
  <2> QED
    BY <2>1, <2>2
<1>4. ASSUME NEW i \in 1..Len(t) PROVE t[i] \in ToSet(s)
  <2>1. i + 1 \in 1..Len(s)
    BY <1>1, <1>2
  <2> QED
    BY <1>1, <1>2, <2>1 DEF ToSet
<1>5. Head(s) \in ToSet(s)
  BY <1>2 DEF ToSet
<1> QED
  BY <1>2, <1>3, <1>4, <1>5 DEF ToSet, t
=============================================================================
