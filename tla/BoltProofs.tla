----------------------------- MODULE BoltProofs -----------------------------
(***************************************************************************)
(* Proofs about the bucket: that it implements the block database, for     *)
(* every base and every width of the numbers and all keys of the bounds    *)
(* that are not as long as a number.                                       *)
(***************************************************************************)
EXTENDS BoltDB, DataInduction

(***************************************************************************)
(* Division.                                                               *)
(***************************************************************************)
LEMMA ProductGrows ==
  ASSUME NEW b \in Nat, NEW x \in Nat, NEW y \in Nat, x <= y
  PROVE  b * x <= b * y
<1>1. b * y = b * x + b * (y - x)
  OBVIOUS
<1>2. b * (y - x) >= 0
  OBVIOUS
<1>3. b * x \in Nat /\ b * (y - x) \in Int
  OBVIOUS
<1> QED
  BY <1>1, <1>2, <1>3

LEMMA QuotientAndRemainder ==
  ASSUME NEW a \in Nat, NEW b \in Nat \ {0}
  PROVE  a \div b \in Nat /\ a % b \in 0..(b - 1) /\ a = b * (a \div b) + (a % b)
<1>1. a \div b \in Nat /\ a % b \in 0..(b - 1)
  OBVIOUS
<1>2. a = b * (a \div b) + (a % b)
  OBVIOUS
<1> QED
  BY <1>1, <1>2

\* A quotient is known by its remainder.
LEMMA QuotientUnique ==
  ASSUME NEW a \in Nat, NEW b \in Nat \ {0}, NEW q \in Nat, NEW r \in 0..(b - 1), a = b * q + r
  PROVE  a \div b = q
<1> DEFINE p == a \div b
           s == a % b
<1>1. p \in Nat /\ s \in 0..(b - 1) /\ a = b * p + s
  OBVIOUS
<1> HIDE DEF p, s
<1>2. b * q \in Nat /\ b * p \in Nat
  BY <1>1
<1>3. CASE p < q
  <2>1. b * (p + 1) <= b * q
    BY <1>1, <1>3, ProductGrows
  <2>2. b * (p + 1) = b * p + b
    BY <1>1
  <2> QED
    BY <1>1, <1>2, <2>1, <2>2
<1>4. CASE q < p
  <2>1. b * (q + 1) <= b * p
    BY <1>1, <1>4, ProductGrows
  <2>2. b * (q + 1) = b * q + b
    OBVIOUS
  <2> QED
    BY <1>1, <1>2, <2>1, <2>2
<1> QED
  BY <1>1, <1>3, <1>4 DEF p

LEMMA QuotientOfQuotient ==
  ASSUME NEW a \in Nat, NEW b \in Nat \ {0}, NEW c \in Nat \ {0}
  PROVE  a \div (b * c) = (a \div c) \div b
<1> DEFINE q == a \div c
           r == a % c
           s == q \div b
           t == q % b
<1>1. q \in Nat /\ r \in 0..(c - 1) /\ a = c * q + r
  OBVIOUS
<1>2. s \in Nat /\ t \in 0..(b - 1) /\ q = b * s + t
  BY <1>1
<1> HIDE DEF q, r, s, t
<1>3. a = (b * c) * s + (c * t + r)
  BY <1>1, <1>2
<1>4. c * t <= c * (b - 1)
  BY <1>2, ProductGrows
<1>5. c * (b - 1) = b * c - c /\ b * c \in Nat \ {0} /\ c * t \in Nat
  BY <1>2
<1>6. c * t + r \in 0..(b * c - 1)
  BY <1>1, <1>4, <1>5
<1>7. a \div (b * c) = s
  BY <1>2, <1>3, <1>5, <1>6, QuotientUnique
<1> QED
  BY <1>7 DEF q, s

LEMMA QuotientGrows ==
  ASSUME NEW x \in Nat, NEW y \in Nat, NEW b \in Nat \ {0}, x <= y
  PROVE  x \div b <= y \div b
<1> DEFINE p == x \div b
           q == y \div b
<1>1. p \in Nat /\ q \in Nat /\ b * p <= x /\ y < b * q + b
  OBVIOUS
<1> HIDE DEF p, q
<1>2. CASE q < p
  <2>1. b * (q + 1) <= b * p
    BY <1>1, <1>2, ProductGrows
  <2>2. b * (q + 1) = b * q + b /\ b * p \in Nat /\ b * q \in Nat
    BY <1>1
  <2> QED
    BY <1>1, <2>1, <2>2
<1> QED
  BY <1>1, <1>2 DEF p, q

(***************************************************************************)
(* Numbers and their bytes.                                                *)
(***************************************************************************)
LEMMA WeightIs ==
  /\ Weight \in [0..Width -> Nat \ {0}]
  /\ \A n \in 0..Width : Weight[n] = IF n = 0 THEN 1 ELSE Base * Weight[n - 1]
<1> USE BoltAssumption
<1> DEFINE S == Nat \ {0}
           F == [n \in 1..Width |-> [x \in S |-> Base * x]]
           Body(g) == [n \in 0..Width |-> IF n = 0 THEN 1 ELSE Base * g[n - 1]]
<1>1. Base \in Nat \ {0} /\ Width \in Nat
  OBVIOUS
<1>2. F \in [1..Width -> [S -> S]]
  <2>1. \A x \in S : Base * x \in S
    BY <1>1
  <2> QED
    BY <2>1
<1>11. \A n \in 1..Width : \A x \in S : F[n][x] = Base * x
  OBVIOUS
<1> HIDE DEF F
<1>3. PICK g : Recursion(g, 1, F, Width)
  <2>1. \A x \in S : \E g : Recursion(g, x, F, Width)
    BY <1>1, <1>2, RecursionExists
  <2> QED
    BY <2>1
<1>4. g \in [0..Width -> S]
  <2>1. \A x \in S : Recursion(g, x, F, Width) => g \in [0..Width -> S]
    BY <1>1, <1>2, RecursionType
  <2> QED
    BY <1>3, <2>1
<1>5. g = Body(g)
  <2>1. \A n \in 0..Width : n # 0 => n \in 1..Width /\ g[n - 1] \in S
    BY <1>1, <1>4
  <2>2. \A n \in 0..Width : n # 0 => F[n][g[n - 1]] = Base * g[n - 1]
    BY <2>1, <1>11
  <2>3. g = [n \in 0..Width |-> IF n = 0 THEN 1 ELSE F[n][g[n - 1]]]
    BY <1>3 DEF Recursion
  <2> QED
    BY <2>2, <2>3
<1>6. Weight = Body(Weight)
  <2>1. Weight = CHOOSE w : w = Body(w)
    BY DEF Weight
  <2> QED
    BY <1>5, <2>1
<1>7. \A n \in 0..Width : Weight[n] = IF n = 0 THEN 1 ELSE Base * Weight[n - 1]
  BY <1>6
<1> DEFINE T == {n \in 0..Width : Weight[n] \in S}
<1>8. 0 \in T
  BY <1>1, <1>7
<1>9. ASSUME NEW n \in 0..(Width - 1), n \in T PROVE n + 1 \in T
  <2>1. n + 1 \in 0..Width /\ n + 1 # 0 /\ (n + 1) - 1 = n
    BY <1>1
  <2>2. Weight[n + 1] = Base * Weight[n]
    BY <1>7, <2>1
  <2>3. Weight[n] \in S
    BY <1>9
  <2>4. Base * Weight[n] \in S
    BY <1>1, <2>3
  <2> QED
    BY <2>1, <2>2, <2>4
<1> HIDE DEF T
<1>10. \A n \in 0..Width : n \in T
  BY <1>1, <1>8, <1>9, InductionUpTo
<1> QED
  BY <1>6, <1>7, <1>10 DEF T

\* The number that the first i bytes of v's key are.
Leading(v, i) == v \div Weight[Width - i]

LEMMA LeadingIs ==
  ASSUME NEW v \in Number
  PROVE  /\ \A i \in 0..Width : Leading(v, i) \in Nat
         /\ Leading(v, 0) = 0 /\ Leading(v, Width) = v
         /\ \A i \in 1..Width :
              /\ marshalUint64(v)[i] = Leading(v, i) % Base
              /\ Leading(v, i) = Base * Leading(v, i - 1) + marshalUint64(v)[i]
<1>1. Width \in Nat \ {0} /\ Base \in Nat \ {0, 1}
  BY BoltAssumption
<1>2. \A i \in 0..Width : Weight[Width - i] \in Nat \ {0}
  BY <1>1, WeightIs
<1>3. v \in Nat /\ v < Weight[Width] /\ Weight[Width] \in Nat \ {0}
  BY <1>1, WeightIs DEF Number
<1>4. \A i \in 0..Width : Leading(v, i) \in Nat
  BY <1>2, <1>3 DEF Leading
<1>5. Leading(v, 0) = 0
  <2>1. Weight[Width - 0] = Weight[Width]
    BY <1>1
  <2>2. v = Weight[Width] * 0 + v
    BY <1>3
  <2>3. v \div Weight[Width] = 0
    BY <1>3, <2>2, QuotientUnique
  <2> QED
    BY <2>1, <2>3 DEF Leading
<1>6. Leading(v, Width) = v
  <2>1. Weight[Width - Width] = 1
    BY <1>1, WeightIs
  <2> QED
    BY <1>3, <2>1 DEF Leading
<1>7. ASSUME NEW i \in 1..Width
      PROVE  /\ marshalUint64(v)[i] = Leading(v, i) % Base
             /\ Leading(v, i) = Base * Leading(v, i - 1) + marshalUint64(v)[i]
  <2> DEFINE w == Weight[Width - i]
             u == Weight[Width - (i - 1)]
  <2>1. marshalUint64(v)[i] = Leading(v, i) % Base
    BY DEF marshalUint64, Leading
  <2>2. w \in Nat \ {0} /\ u = Base * w
    <3>1. Width - (i - 1) \in 0..Width /\ Width - (i - 1) # 0 /\ Width - (i - 1) - 1 = Width - i
      BY <1>1
    <3> QED
      BY <1>2, <3>1, WeightIs
  <2> HIDE DEF u, w
  <2>3. v \div (Base * w) = (v \div w) \div Base
    BY <1>1, <1>3, <2>2, QuotientOfQuotient
  <2>4. Leading(v, i - 1) = Leading(v, i) \div Base
    BY <2>2, <2>3 DEF Leading, u, w
  <2>5. Leading(v, i) \in Nat
    BY <1>4
  <2>6. Leading(v, i) = Base * (Leading(v, i) \div Base) + (Leading(v, i) % Base)
    BY <1>1, <2>5, QuotientAndRemainder
  <2>7. Leading(v, i) = Base * Leading(v, i - 1) + marshalUint64(v)[i]
    BY <2>1, <2>4, <2>6
  <2> QED
    BY <2>1, <2>7
<1> QED
  BY <1>4, <1>5, <1>6, <1>7

LEMMA MarshalType ==
  ASSUME NEW v \in Number
  PROVE  marshalUint64(v) \in Seq(Byte) /\ Len(marshalUint64(v)) = Width
<1> DEFINE b == marshalUint64(v)
<1>1. b = [i \in 1..Width |-> b[i]]
  BY DEF marshalUint64
<1>2. \A i \in 1..Width : b[i] \in Byte
  <2> SUFFICES ASSUME NEW i \in 1..Width PROVE b[i] \in Byte
    OBVIOUS
  <2>1. i \in 0..Width /\ Base \in Nat \ {0}
    BY BoltAssumption
  <2>3. Leading(v, i) \in Nat
    BY <2>1, LeadingIs
  <2>4. b[i] = Leading(v, i) % Base
    BY LeadingIs
  <2>2. Leading(v, i) % Base \in 0..(Base - 1)
    BY <2>1, <2>3, QuotientAndRemainder
  <2> QED
    BY <2>2, <2>4 DEF Byte
<1> HIDE DEF b
<1> QED
  BY <1>1, <1>2, BoltAssumption DEF b

\* What is read back is what was written.
LEMMA UnmarshalMarshal ==
  ASSUME NEW v \in Number
  PROVE  unmarshalUint64(marshalUint64(v)) = v
<1> DEFINE b == marshalUint64(v)
           Body(g) == [i \in 0..Len(b) |-> IF i = 0 THEN 0 ELSE Base * g[i - 1] + b[i]]
           value == CHOOSE g : g = Body(g)
           leading == [i \in 0..Len(b) |-> Leading(v, i)]
<1>1. Len(b) = Width /\ Width \in Nat
  BY MarshalType, BoltAssumption
<1>2. unmarshalUint64(b) = value[Len(b)]
  BY DEF unmarshalUint64
<1> HIDE DEF b
<1>3. \A i \in 0..Width : Leading(v, i) = IF i = 0 THEN 0 ELSE Base * Leading(v, i - 1) + b[i]
  <2> SUFFICES ASSUME NEW i \in 0..Width
               PROVE  Leading(v, i) = IF i = 0 THEN 0 ELSE Base * Leading(v, i - 1) + b[i]
    OBVIOUS
  <2>1. CASE i = 0
    BY <2>1, LeadingIs
  <2>2. CASE i # 0
    <3>1. i \in 1..Width
      BY <1>1, <2>2
    <3>2. Leading(v, i) = Base * Leading(v, i - 1) + b[i]
      BY <3>1, LeadingIs DEF b
    <3> QED
      BY <2>2, <3>2
  <2> QED
    BY <2>1, <2>2
<1>4. leading = Body(leading)
  <2>1. \A i \in 0..Width : leading[i] = Leading(v, i)
    BY <1>1
  <2>2. \A i \in 0..Width : i # 0 => leading[i - 1] = Leading(v, i - 1)
    BY <1>1
  <2>3. \A i \in 0..Width : leading[i] = IF i = 0 THEN 0 ELSE Base * leading[i - 1] + b[i]
    BY <1>3, <2>1, <2>2
  <2>4. leading = [i \in 0..Len(b) |-> leading[i]]
    OBVIOUS
  <2> HIDE DEF leading
  <2> QED
    BY <1>1, <2>3, <2>4
<1>5. value = Body(value)
  BY <1>4
<1> HIDE DEF value
<1>6. \A i \in 0..Width : value[i] = IF i = 0 THEN 0 ELSE Base * value[i - 1] + b[i]
  BY <1>1, <1>5
<1> DEFINE T == {i \in 0..Width : value[i] = Leading(v, i)}
<1>7. 0 \in T
  BY <1>1, <1>3, <1>6
<1>8. ASSUME NEW n \in 0..(Width - 1), n \in T PROVE n + 1 \in T
  <2>1. n + 1 \in 0..Width /\ n + 1 # 0 /\ (n + 1) - 1 = n
    BY <1>1
  <2>2. value[n + 1] = Base * value[n] + b[n + 1]
    BY <1>6, <2>1
  <2>3. Leading(v, n + 1) = Base * Leading(v, n) + b[n + 1]
    BY <1>3, <2>1
  <2>4. value[n] = Leading(v, n)
    BY <1>8
  <2> QED
    BY <2>1, <2>2, <2>3, <2>4
<1> HIDE DEF T
<1>9. \A i \in 0..Width : i \in T
  BY <1>1, <1>7, <1>8, InductionUpTo
<1> QED
  BY <1>1, <1>2, <1>9, LeadingIs DEF T, b

(***************************************************************************)
(* The order of the keys is the order of the numbers.                      *)
(***************************************************************************)
\* Keys that agree in their first n bytes agree in what these bytes count.
LEMMA SameLeading ==
  ASSUME NEW v \in Number, NEW w \in Number, NEW n \in 0..Width,
         \A i \in 1..n : marshalUint64(v)[i] = marshalUint64(w)[i]
  PROVE  Leading(v, n) = Leading(w, n)
<1>1. Width \in Nat
  BY BoltAssumption
<1> DEFINE T == {i \in 0..n : Leading(v, i) = Leading(w, i)}
<1>2. 0 \in T
  BY <1>1, LeadingIs
<1>3. ASSUME NEW i \in 0..(n - 1), i \in T PROVE i + 1 \in T
  <2>1. i + 1 \in 1..Width /\ i + 1 \in 1..n /\ (i + 1) - 1 = i
    BY <1>1
  <2>2. Leading(v, i + 1) = Base * Leading(v, i) + marshalUint64(v)[i + 1]
    BY <2>1, LeadingIs
  <2>3. Leading(w, i + 1) = Base * Leading(w, i) + marshalUint64(w)[i + 1]
    BY <2>1, LeadingIs
  <2>4. Leading(v, i) = Leading(w, i)
    BY <1>3
  <2> QED
    BY <2>1, <2>2, <2>3, <2>4
<1> HIDE DEF T
<1>4. \A i \in 0..n : i \in T
  BY <1>1, <1>2, <1>3, InductionUpTo
<1> QED
  BY <1>4 DEF T

\* What differs does so at a first byte.
LEMMA FirstDifference ==
  ASSUME NEW v \in Number, NEW w \in Number, v # w
  PROVE  \E i \in 1..Width : /\ Leading(v, i) # Leading(w, i)
                             /\ \A h \in 0..(i - 1) : Leading(v, h) = Leading(w, h)
<1>1. Width \in Nat \ {0}
  BY BoltAssumption
<1> DEFINE T == {n \in 0..Width : \A h \in 0..n : Leading(v, h) = Leading(w, h)}
<1>2. 0 \in T
  BY <1>1, LeadingIs
<1>3. Width \notin T
  BY <1>1, LeadingIs
<1>4. PICK n \in 0..(Width - 1) : n \in T /\ n + 1 \notin T
  <2> HIDE DEF T
  <2> QED
    BY <1>1, <1>2, <1>3, InductionUpTo
<1>5. n + 1 \in 1..Width /\ (n + 1) - 1 = n
  BY <1>1
<1>6. \A h \in 0..n : Leading(v, h) = Leading(w, h)
  BY <1>4
<1>7. Leading(v, n + 1) # Leading(w, n + 1)
  BY <1>4, <1>5, <1>6
<1> QED
  BY <1>5, <1>6, <1>7

LEMMA KeyOrder ==
  ASSUME NEW v \in Number, NEW w \in Number
  PROVE  NotAfter(marshalUint64(v), marshalUint64(w)) <=> v <= w
<1>1. Width \in Nat \ {0} /\ v \in Nat /\ w \in Nat
  BY BoltAssumption, WeightIs DEF Number
<1> DEFINE j == marshalUint64(v)
           k == marshalUint64(w)
<1>2. /\ j \in Seq(Byte) /\ Len(j) = Width
      /\ k \in Seq(Byte) /\ Len(k) = Width
  BY MarshalType
<1>3. \A i \in 1..Width : j[i] \in Nat /\ k[i] \in Nat
  <2> HIDE DEF j, k
  <2>1. \A i \in 1..Width : j[i] \in Byte /\ k[i] \in Byte
    BY <1>2
  <2>2. Base \in Nat
    BY BoltAssumption
  <2> QED
    BY <2>1, <2>2 DEF Byte
<1>4. ASSUME IsPrefix(j, k) PROVE v = w
  <2> HIDE DEF j, k
  <2>1. j = k
    BY <1>1, <1>2, <1>4 DEF IsPrefix
  <2> QED
    BY <2>1, UnmarshalMarshal DEF j, k
<1>5. ASSUME NEW i \in 1..Width, j[i] < k[i], \A h \in 1..(i - 1) : j[h] = k[h]
      PROVE  v < w
  <2>1. Leading(v, i - 1) = Leading(w, i - 1)
    BY <1>1, <1>5, SameLeading
  <2>2. /\ Leading(v, i) = Base * Leading(v, i - 1) + j[i]
        /\ Leading(w, i) = Base * Leading(w, i - 1) + k[i]
    BY LeadingIs
  <2>3. Base * Leading(v, i - 1) \in Nat
    <3>1. i - 1 \in 0..Width /\ Base \in Nat
      BY <1>1, BoltAssumption
    <3>2. Leading(v, i - 1) \in Nat
      BY <3>1, LeadingIs
    <3> QED
      BY <3>1, <3>2
  <2> HIDE DEF j, k
  <2>4. Leading(v, i) < Leading(w, i)
    BY <1>3, <1>5, <2>1, <2>2, <2>3
  <2>5. ASSUME w <= v PROVE FALSE
    <3>1. Weight[Width - i] \in Nat \ {0}
      BY <1>1, WeightIs
    <3>2. Leading(w, i) <= Leading(v, i)
      BY <1>1, <2>5, <3>1, QuotientGrows DEF Leading
    <3> QED
      BY <1>1, <2>4, <3>2, LeadingIs
  <2> QED
    BY <1>1, <2>5
<1>6. ASSUME v < w PROVE NotAfter(j, k)
  <2>1. PICK i \in 1..Width : /\ Leading(v, i) # Leading(w, i)
                              /\ \A h \in 0..(i - 1) : Leading(v, h) = Leading(w, h)
    BY <1>1, <1>6, FirstDifference
  <2>2. Leading(v, i) <= Leading(w, i)
    <3>1. Weight[Width - i] \in Nat \ {0}
      BY <1>1, WeightIs
    <3> QED
      BY <1>1, <1>6, <3>1, QuotientGrows DEF Leading
  <2>3. j[i] < k[i]
    <3>1. Leading(v, i - 1) = Leading(w, i - 1) /\ i - 1 \in 0..Width
      BY <1>1, <2>1
    <3>2. /\ Leading(v, i) = Base * Leading(v, i - 1) + j[i]
          /\ Leading(w, i) = Base * Leading(w, i - 1) + k[i]
      BY LeadingIs
    <3>3. Leading(v, i - 1) \in Nat /\ Leading(v, i) \in Nat /\ Leading(w, i) \in Nat
      BY <1>1, <3>1, LeadingIs
    <3>4. Base * Leading(v, i - 1) \in Nat
      <4>1. Base \in Nat
        BY BoltAssumption
      <4> QED
        BY <3>3, <4>1
    <3> HIDE DEF j, k
    <3> QED
      BY <1>3, <2>1, <2>2, <3>1, <3>2, <3>3, <3>4
  <2>4. \A h \in 1..(i - 1) : j[h] = k[h]
    <3> SUFFICES ASSUME NEW h \in 1..(i - 1) PROVE j[h] = k[h]
      OBVIOUS
    <3>1. h \in 1..Width /\ Leading(v, h) = Leading(w, h)
      BY <1>1, <2>1
    <3> QED
      BY <3>1, LeadingIs
  <2> HIDE DEF j, k
  <2> QED
    BY <1>1, <1>2, <2>3, <2>4 DEF NotAfter
<1>7. ASSUME v = w PROVE NotAfter(j, k)
  <2>1. j = k
    BY <1>7
  <2> HIDE DEF j, k
  <2> QED
    BY <1>2, <2>1 DEF NotAfter, IsPrefix
<1>8. NotAfter(j, k) => v <= w
  <2> HIDE DEF j, k
  <2> QED
    BY <1>1, <1>2, <1>4, <1>5 DEF NotAfter
<1> QED
  BY <1>1, <1>6, <1>7, <1>8

(***************************************************************************)
(* The bucket.                                                             *)
(***************************************************************************)
BoundKey == {lowerBoundKey, upperBoundKey}
NumberKey == {marshalUint64(v) : v \in Number}

\* The bucket holds numbers as keys, and numbers as the values of the bounds.
BoltInv ==
  /\ isOpen \in BOOLEAN
  /\ Keys \subseteq BoundKey \union NumberKey
  /\ \A k \in BoundKey \cap Keys : bucket[k] \in NumberKey

LEMMA KeysApart ==
  /\ \A k \in NumberKey : Len(k) = Width
  /\ \A k \in BoundKey : Len(k) # Width
  /\ BoundKey \cap NumberKey = {}
<1>1. \A k \in NumberKey : Len(k) = Width
  BY MarshalType DEF NumberKey
<1>2. \A k \in BoundKey : Len(k) # Width
  BY BoltAssumption DEF BoundKey
<1> QED
  BY <1>1, <1>2

LEMMA BlockKeysAre ==
  ASSUME BoltInv
  PROVE  BlockKeys = Keys \cap NumberKey
  BY KeysApart DEF BoltInv, BlockKeys

LEMMA BoltInit == ASSUME Init PROVE BoltInv
<1>1. Keys = {} /\ isOpen = FALSE
  BY DEF Init, Keys
<1> QED
  BY <1>1 DEF BoltInv

\* A key is written.
LEMMA PutIs ==
  ASSUME NEW k, NEW v, Put(k, v)
  PROVE  /\ isOpen' = isOpen
         /\ ~isOpen => bucket' = bucket
         /\ isOpen => /\ Keys' = Keys \union {k} /\ bucket'[k] = v
                      /\ \A j \in Keys \ {k} : bucket'[j] = bucket[j]
  BY DEF Put, Keys

LEMMA CleanupIs ==
  ASSUME Cleanup
  PROVE  /\ isOpen' = isOpen /\ GetLowerBound # 0
         /\ Keys' = {k \in Keys : ~(k \in BlockKeys
                                    /\ NotAfter(k, marshalUint64(GetLowerBound - 1)))}
         /\ \A k \in Keys' : bucket'[k] = bucket[k]
<1> DEFINE kept == {k \in Keys : ~(k \in BlockKeys
                                   /\ NotAfter(k, marshalUint64(GetLowerBound - 1)))}
<1>1. bucket' = [k \in kept |-> bucket[k]] /\ isOpen' = isOpen /\ GetLowerBound # 0
  BY DEF Cleanup, Restrict
<1> HIDE DEF kept
<1>2. Keys' = kept /\ \A k \in kept : bucket'[k] = bucket[k]
  BY <1>1 DEF Keys
<1> QED
  BY <1>1, <1>2 DEF kept

LEMMA BoltNext == ASSUME BoltInv, [Next]_vars PROVE BoltInv'
<1>1. ASSUME NEW v \in Number, SetLowerBound(v) \/ SetUpperBound(v)
      PROVE  BoltInv'
  <2>1. PICK k \in BoundKey : Put(k, marshalUint64(v))
    BY <1>1 DEF SetLowerBound, SetUpperBound, setUint64, BoundKey
  <2>2. marshalUint64(v) \in NumberKey
    BY DEF NumberKey
  <2> DEFINE m == marshalUint64(v)
  <2> HIDE DEF m
  <2>3. /\ isOpen' = isOpen
        /\ ~isOpen => bucket' = bucket
        /\ isOpen => /\ Keys' = Keys \union {k} /\ bucket'[k] = m
                     /\ \A j \in Keys \ {k} : bucket'[j] = bucket[j]
    BY <2>1, PutIs DEF m
  <2>4. m \in NumberKey
    BY <2>2 DEF m
  <2>5. CASE isOpen
    BY <2>3, <2>4, <2>5 DEF BoltInv
  <2>6. CASE ~isOpen
    BY <2>3, <2>6 DEF BoltInv, Keys
  <2> QED
    BY <2>5, <2>6
<1>2. ASSUME NEW v \in Number, SetValue(v)
      PROVE  BoltInv'
  <2>1. Put(marshalUint64(v), <<>>)
    BY <1>2 DEF SetValue, setUint64AsKey
  <2> DEFINE k == marshalUint64(v)
  <2>2. k \in NumberKey
    BY DEF NumberKey
  <2> HIDE DEF k
  <2>3. /\ isOpen' = isOpen
        /\ ~isOpen => bucket' = bucket
        /\ isOpen => /\ Keys' = Keys \union {k}
                     /\ \A j \in Keys \ {k} : bucket'[j] = bucket[j]
    BY <2>1, PutIs DEF k
  <2>4. CASE isOpen
    BY <2>2, <2>3, <2>4, KeysApart DEF BoltInv
  <2>5. CASE ~isOpen
    BY <2>3, <2>5 DEF BoltInv, Keys
  <2> QED
    BY <2>4, <2>5
<1>3. CASE Cleanup
  BY <1>3, CleanupIs DEF BoltInv
<1>4. CASE Open \/ Close
  BY <1>4 DEF Open, Close, BoltInv, Keys
<1>5. CASE UNCHANGED vars
  BY <1>5 DEF vars, BoltInv, Keys
<1> QED
  BY <1>1, <1>2, <1>3, <1>4, <1>5 DEF Next

(***************************************************************************)
(* What the bucket stands for: the bounds and the marks.                   *)
(***************************************************************************)
Marks(keys) == {unmarshalUint64(k) : k \in {j \in keys : Len(j) = Width}}

LEMMA MarksAre ==
  ASSUME NEW keys, keys \subseteq BoundKey \union NumberKey
  PROVE  Marks(keys) = {v \in Number : marshalUint64(v) \in keys}
<1>1. ASSUME NEW k \in keys, Len(k) = Width
      PROVE  unmarshalUint64(k) \in {v \in Number : marshalUint64(v) \in keys}
  <2>1. k \in NumberKey
    BY <1>1, KeysApart
  <2>2. PICK v \in Number : k = marshalUint64(v)
    BY <2>1 DEF NumberKey
  <2>3. unmarshalUint64(k) = v
    BY <2>2, UnmarshalMarshal
  <2> QED
    BY <2>2, <2>3
<1>2. ASSUME NEW v \in Number, marshalUint64(v) \in keys
      PROVE  v \in Marks(keys)
  <2> DEFINE k == marshalUint64(v)
  <2>1. Len(k) = Width /\ unmarshalUint64(k) = v
    BY MarshalType, UnmarshalMarshal
  <2> HIDE DEF k
  <2> QED
    BY <1>2, <2>1 DEF Marks, k
<1> QED
  BY <1>1, <1>2 DEF Marks

LEMMA NumbersAreNat ==
  /\ Number \subseteq Nat /\ 0 \in Number
  /\ \A v \in Number : v # 0 => v - 1 \in Number
<1>1. Weight[Width] \in Nat \ {0}
  BY WeightIs, BoltAssumption
<1> QED
  BY <1>1 DEF Number

LEMMA BoundsAreNumbers ==
  ASSUME BoltInv
  PROVE  /\ \A k \in BoundKey \cap Keys : unmarshalUint64(bucket[k]) \in Number
         /\ GetLowerBound \in Number
         /\ upperBoundKey \in Keys => GetUpperBound \in Number
<1>1. \A k \in BoundKey \cap Keys : unmarshalUint64(bucket[k]) \in Number
  <2> SUFFICES ASSUME NEW k \in BoundKey \cap Keys
               PROVE  unmarshalUint64(bucket[k]) \in Number
    OBVIOUS
  <2>1. PICK v \in Number : bucket[k] = marshalUint64(v)
    BY DEF BoltInv, NumberKey
  <2> QED
    BY <2>1, UnmarshalMarshal
<1> QED
  BY <1>1, NumbersAreNat DEF GetLowerBound, GetUpperBound, BoundKey

\* The cursor passes over the keys of the bounds, and over no block between.
LEMMA CursorFinds ==
  ASSUME BoltInv, NEW lo \in Number, NEW hi \in Number
  PROVE  GetMissingValuesBitSet(lo, hi) = (lo..hi) \ Marks(Keys)
<1> DEFINE met == {j \in BlockKeys : NotAfter(marshalUint64(lo), j) /\ NotAfter(j, marshalUint64(hi))}
           found == {unmarshalUint64(k) : k \in met}
<1>1. GetMissingValuesBitSet(lo, hi) = (lo..hi) \ found
  BY DEF GetMissingValuesBitSet
<1>2. found \subseteq Marks(Keys)
  BY DEF Marks, BlockKeys
<1>3. ASSUME NEW v \in lo..hi, v \in Marks(Keys)
      PROVE  v \in found
  <2>1. v \in Number /\ marshalUint64(v) \in Keys
    BY <1>3, MarksAre DEF BoltInv
  <2>2. marshalUint64(v) \in BlockKeys
    BY <2>1, MarshalType DEF BlockKeys
  <2>3. lo <= v /\ v <= hi
    BY NumbersAreNat
  <2>4. marshalUint64(v) \in met
    BY <2>1, <2>2, <2>3, KeyOrder
  <2>5. unmarshalUint64(marshalUint64(v)) = v
    BY <2>1, UnmarshalMarshal
  <2> HIDE DEF met
  <2> QED
    BY <2>4, <2>5
<1> HIDE DEF found
<1> QED
  BY <1>1, <1>2, <1>3

\* The lower bound of the bucket is the one of the block database.
LEMMA LowerBoundIs == ASSUME BoltInv PROVE DB!GetLowerBound = GetLowerBound
<1>1. CASE lowerBoundKey \in Keys
  <2>1. BoundAt(lowerBoundKey) = GetLowerBound /\ GetLowerBound # -1
    BY <1>1, BoundsAreNumbers, NumbersAreNat DEF BoundAt, GetLowerBound
  <2> QED
    BY <2>1 DEF DB!GetLowerBound, DB!None
<1>2. CASE lowerBoundKey \notin Keys
  BY <1>2 DEF BoundAt, GetLowerBound, DB!GetLowerBound, DB!None
<1> QED
  BY <1>1, <1>2

\* For the bounds in force the cursor finds the blocks that have no mark.
THEOREM CursorAgrees == Spec => []MissingAgrees
<1>1. BoltInv => MissingAgrees
  <2> SUFFICES ASSUME BoltInv, upperBoundKey \in Keys
               PROVE  GetMissingValuesBitSet(GetLowerBound, GetUpperBound)
                        = DB!Missing(DB!GetLowerBound, DB!GetUpperBound)
    BY DEF MissingAgrees
  <2>1. GetLowerBound \in Number /\ GetUpperBound \in Number
    BY BoundsAreNumbers
  <2>2. GetMissingValuesBitSet(GetLowerBound, GetUpperBound)
          = (GetLowerBound..GetUpperBound) \ Marks(Keys)
    BY <2>1, CursorFinds
  <2>3. DB!GetLowerBound = GetLowerBound
    BY LowerBoundIs
  <2>4. DB!GetUpperBound = GetUpperBound
    BY DEF BoundAt, GetUpperBound, DB!GetUpperBound
  <2> QED
    BY <2>2, <2>3, <2>4 DEF DB!Missing, Marks, BlockKeys
<1>2. Spec => []BoltInv
  BY BoltInit, BoltNext, PTL DEF Spec
<1> QED
  BY <1>1, <1>2, PTL

(***************************************************************************)
(* The bucket implements the block database, step by step.                 *)
(***************************************************************************)
LEMMA StoreInit == ASSUME Init PROVE DB!DBInit
<1>1. Keys = {} /\ isOpen = FALSE
  BY DEF Init, Keys
<1>2. BlockKeys = {}
  BY <1>1 DEF BlockKeys
<1> QED
  BY <1>1, <1>2 DEF DB!DBInit, DB!None, BoundAt

\* Writing the key of a bound changes that bound and nothing else.
LEMMA BoundPut ==
  ASSUME BoltInv, isOpen, NEW k \in BoundKey, NEW v \in Number, Put(k, marshalUint64(v))
  PROVE  /\ Marks(Keys') = Marks(Keys)
         /\ BoundAt(k)' = v
         /\ \A j \in BoundKey \ {k} : BoundAt(j)' = BoundAt(j)
<1> DEFINE m == marshalUint64(v)
<1>1. unmarshalUint64(m) = v
  BY UnmarshalMarshal
<1> HIDE DEF m
<1>2. Keys' = Keys \union {k} /\ bucket'[k] = m /\ \A j \in Keys \ {k} : bucket'[j] = bucket[j]
  BY PutIs DEF m
<1>3. Marks(Keys') = Marks(Keys)
  <2>1. {j \in Keys' : Len(j) = Width} = {j \in Keys : Len(j) = Width}
    BY <1>2, KeysApart
  <2> QED
    BY <2>1 DEF Marks
<1>4. BoundAt(k)' = v
  BY <1>1, <1>2 DEF BoundAt
<1>5. ASSUME NEW j \in BoundKey \ {k} PROVE BoundAt(j)' = BoundAt(j)
  BY <1>2 DEF BoundAt
<1> QED
  BY <1>3, <1>4, <1>5

\* Writing the key of a block marks it and changes nothing else.
LEMMA BlockPut ==
  ASSUME BoltInv, isOpen, NEW v \in Number, SetValue(v)
  PROVE  /\ Marks(Keys') = Marks(Keys) \union {v}
         /\ \A j \in BoundKey : BoundAt(j)' = BoundAt(j)
<1> DEFINE k == marshalUint64(v)
<1>1. k \in NumberKey
  BY DEF NumberKey
<1>2. k \notin BoundKey
  BY <1>1, KeysApart
<1>3. \A u \in Number : marshalUint64(u) = k => u = v
  BY UnmarshalMarshal
<1>4. Keys' = Keys \union {k} /\ \A j \in Keys \ {k} : bucket'[j] = bucket[j]
  BY PutIs DEF SetValue, setUint64AsKey
<1> HIDE DEF k
<1>5. Marks(Keys') = Marks(Keys) \union {v}
  <2>1. Keys' \subseteq BoundKey \union NumberKey /\ Keys \subseteq BoundKey \union NumberKey
    BY <1>1, <1>4 DEF BoltInv
  <2>2. /\ Marks(Keys') = {u \in Number : marshalUint64(u) \in Keys'}
        /\ Marks(Keys) = {u \in Number : marshalUint64(u) \in Keys}
    BY <2>1, MarksAre
  <2>3. \A u \in Number : marshalUint64(u) \in Keys' <=> marshalUint64(u) \in Keys \/ u = v
    BY <1>3, <1>4 DEF k
  <2> QED
    BY <2>2, <2>3
<1>6. ASSUME NEW j \in BoundKey PROVE BoundAt(j)' = BoundAt(j)
  BY <1>2, <1>4 DEF BoundAt
<1> QED
  BY <1>5, <1>6

\* A cleanup takes the marks below the lower bound and leaves the bounds.
LEMMA CleanupDrops ==
  ASSUME BoltInv, Cleanup
  PROVE  /\ Marks(Keys') = {v \in Marks(Keys) : v > GetLowerBound - 1}
         /\ \A j \in BoundKey : BoundAt(j)' = BoundAt(j)
<1> DEFINE last == GetLowerBound - 1
<1>1. last \in Number
  BY CleanupIs, BoundsAreNumbers, NumbersAreNat
<1> HIDE DEF last
<1>2. /\ Keys' = {k \in Keys : ~(k \in BlockKeys /\ NotAfter(k, marshalUint64(last)))}
      /\ \A k \in Keys' : bucket'[k] = bucket[k]
  BY CleanupIs DEF last
<1>3. Marks(Keys') = {v \in Marks(Keys) : v > last}
  <2>1. Keys' \subseteq BoundKey \union NumberKey /\ Keys \subseteq BoundKey \union NumberKey
    BY <1>2 DEF BoltInv
  <2>2. /\ Marks(Keys') = {u \in Number : marshalUint64(u) \in Keys'}
        /\ Marks(Keys) = {u \in Number : marshalUint64(u) \in Keys}
    BY <2>1, MarksAre
  <2>3. ASSUME NEW u \in Number
        PROVE  marshalUint64(u) \in Keys' <=> marshalUint64(u) \in Keys /\ u > last
    <3> DEFINE k == marshalUint64(u)
    <3>1. NotAfter(k, marshalUint64(last)) <=> u <= last
      BY <1>1, KeyOrder
    <3>2. Len(k) = Width
      BY MarshalType
    <3>3. u > last <=> ~(u <= last)
      BY <1>1, NumbersAreNat
    <3> HIDE DEF k
    <3>4. k \in Keys' <=> k \in Keys /\ u > last
      BY <1>2, <3>1, <3>2, <3>3 DEF BlockKeys
    <3> QED
      BY <3>4 DEF k
  <2> QED
    BY <2>2, <2>3
<1>4. ASSUME NEW j \in BoundKey PROVE BoundAt(j)' = BoundAt(j)
  <2>1. j \in Keys' <=> j \in Keys
    BY <1>2, KeysApart DEF BlockKeys
  <2> QED
    BY <1>2, <2>1 DEF BoundAt
<1> QED
  BY <1>3, <1>4 DEF last

LEMMA StoreStep ==
  ASSUME BoltInv, [Next]_vars
  PROVE  [DB!StoreNext(Number)]_(DB!dbVars)
<1> DEFINE marked == Marks(Keys)
<1>1. {unmarshalUint64(k) : k \in BlockKeys} = marked
  BY DEF Marks, BlockKeys
<1>2. {unmarshalUint64(k) : k \in BlockKeys}' = Marks(Keys')
  BY DEF Marks, BlockKeys
<1>3. lowerBoundKey \in BoundKey /\ upperBoundKey \in BoundKey /\ lowerBoundKey # upperBoundKey
  BY BoltAssumption DEF BoundKey
<1>4. ASSUME UNCHANGED bucket
      PROVE  UNCHANGED <<BoundAt(lowerBoundKey), BoundAt(upperBoundKey)>> /\ Marks(Keys') = marked
  BY <1>4 DEF BoundAt, Keys, Marks
<1> HIDE DEF marked
<1>5. CASE UNCHANGED vars
  BY <1>1, <1>2, <1>4, <1>5 DEF vars, DB!dbVars
<1>6. CASE UNCHANGED bucket
  BY <1>1, <1>2, <1>4, <1>6 DEF DB!StoreNext
<1>7. CASE Open \/ Close
  BY <1>6, <1>7 DEF Open, Close
<1>8. ASSUME NEW v \in Number, isOpen, SetLowerBound(v)
      PROVE  DB!StoreNext(Number)
  <2>1. Put(lowerBoundKey, marshalUint64(v))
    BY <1>8 DEF SetLowerBound, setUint64
  <2>2. /\ Marks(Keys') = marked /\ BoundAt(lowerBoundKey)' = v
        /\ BoundAt(upperBoundKey)' = BoundAt(upperBoundKey)
    BY <1>3, <1>8, <2>1, BoundPut DEF marked
  <2>3. isOpen' = isOpen
    BY <2>1 DEF Put
  <2> QED
    BY <1>1, <1>2, <1>8, <2>2, <2>3 DEF DB!StoreNext, DB!SetLowerBound
<1>9. ASSUME NEW v \in Number, isOpen, SetUpperBound(v)
      PROVE  DB!StoreNext(Number)
  <2>1. Put(upperBoundKey, marshalUint64(v))
    BY <1>9 DEF SetUpperBound, setUint64
  <2>2. /\ Marks(Keys') = marked /\ BoundAt(upperBoundKey)' = v
        /\ BoundAt(lowerBoundKey)' = BoundAt(lowerBoundKey)
    BY <1>3, <1>9, <2>1, BoundPut DEF marked
  <2>3. isOpen' = isOpen
    BY <2>1 DEF Put
  <2> QED
    BY <1>1, <1>2, <1>9, <2>2, <2>3 DEF DB!StoreNext, DB!SetUpperBound
<1>10. ASSUME NEW v \in Number, isOpen, SetValue(v)
       PROVE  DB!StoreNext(Number)
  <2>1. /\ Marks(Keys') = marked \union {v}
        /\ UNCHANGED <<BoundAt(lowerBoundKey), BoundAt(upperBoundKey)>>
    BY <1>3, <1>10, BlockPut DEF marked
  <2>2. isOpen' = isOpen
    BY <1>10 DEF SetValue, setUint64AsKey, Put
  <2> QED
    BY <1>1, <1>2, <1>10, <2>1, <2>2 DEF DB!StoreNext, DB!SetValue
<1>11. ASSUME NEW v \in Number, ~isOpen, SetLowerBound(v) \/ SetUpperBound(v) \/ SetValue(v)
       PROVE  UNCHANGED bucket
  BY <1>11 DEF SetLowerBound, SetUpperBound, SetValue, setUint64, setUint64AsKey, Put
<1>12. CASE Cleanup
  <2>1. /\ Marks(Keys') = {v \in marked : v > GetLowerBound - 1}
        /\ UNCHANGED <<BoundAt(lowerBoundKey), BoundAt(upperBoundKey), isOpen>>
        /\ GetLowerBound # 0
    BY <1>3, <1>12, CleanupDrops, CleanupIs DEF marked
  <2>2. DB!GetLowerBound = GetLowerBound
    BY LowerBoundIs
  <2> QED
    BY <1>1, <1>2, <2>1, <2>2 DEF DB!StoreNext, DB!Cleanup
<1> QED
  BY <1>5, <1>6, <1>7, <1>8, <1>9, <1>10, <1>11, <1>12 DEF Next

\* The bucket implements the block database.
THEOREM BucketIsStore == Spec => StoreSpec
<1>1. BoltInv /\ [Next]_vars => [DB!StoreNext(Number)]_(DB!dbVars)
  BY StoreStep
<1>2. Init => DB!DBInit
  BY StoreInit
<1>3. Spec => []BoltInv
  BY BoltInit, BoltNext, PTL DEF Spec
<1> QED
  BY <1>1, <1>2, <1>3, PTL DEF Spec, StoreSpec
=============================================================================
