------------------------------- MODULE BoltDB -------------------------------
(***************************************************************************)
(* src/db/bolt.go below the level of module BlockDB: one bbolt bucket,     *)
(* ordered by its keys.  A processed block is a key of Width bytes, its    *)
(* number with the most significant byte first; the two bounds are keys of *)
(* other lengths in the same bucket, somewhere in that order.  bbolt is    *)
(* external: a transaction is one step, and a cursor visits the keys in    *)
(* the order of bytes.Compare.  Readers and one writer at a time is what   *)
(* it grants, so that the operations below are never interleaved.          *)
(***************************************************************************)
EXTENDS Integers, SequencesExt

CONSTANTS Base,         \* values of a byte: 256 in the code
          Width,        \* bytes of a number: 8 in the code
          lowerBoundKey,
          upperBoundKey

Byte == 0..(Base - 1)

\* What a byte counts that n bytes follow.
Weight[n \in 0..Width] == IF n = 0 THEN 1 ELSE Base * Weight[n - 1]

Number == 0..(Weight[Width] - 1)

ASSUME BoltAssumption ==
  /\ Base \in Nat \ {0, 1} /\ Width \in Nat \ {0}
  /\ {lowerBoundKey, upperBoundKey} \subseteq Seq(Byte)
  /\ lowerBoundKey # upperBoundKey
  /\ Len(lowerBoundKey) # Width /\ Len(upperBoundKey) # Width

VARIABLES bucket,   \* the bucket: from the keys it holds to their values
          isOpen    \* the file is open

vars == <<bucket, isOpen>>

(***************************************************************************)
(* Numbers and keys.                                                       *)
(***************************************************************************)
\* sortableOrder.PutUint64.  The number wraps around as an unsigned one does.
marshalUint64(v) == [i \in 1..Width |-> (v \div Weight[Width - i]) % Base]

unmarshalUint64(b) ==
  LET value[i \in 0..Len(b)] == IF i = 0 THEN 0 ELSE Base * value[i - 1] + b[i]
  IN  value[Len(b)]

\* bytes.Compare(j, k) <= 0
NotAfter(j, k) ==
  \/ IsPrefix(j, k)
  \/ \E i \in 1..Len(j) : /\ i <= Len(k) /\ j[i] < k[i]
                          /\ \A h \in 1..(i - 1) : j[h] = k[h]

Keys == DOMAIN bucket

\* Only the keys of blocks have this length.
BlockKeys == {k \in Keys : Len(k) = Width}

(***************************************************************************)
(* The operations.                                                         *)
(***************************************************************************)
Init == bucket = << >> /\ isOpen = FALSE

\* db.Update: an error, and no change, on a closed file.
Put(k, v) ==
  /\ bucket' = IF isOpen THEN [j \in Keys \union {k} |-> IF j = k THEN v ELSE bucket[j]]
               ELSE bucket
  /\ UNCHANGED isOpen

setUint64(k, v)    == Put(k, marshalUint64(v))
setUint64AsKey(v)  == Put(marshalUint64(v), <<>>)

SetLowerBound(v) == setUint64(lowerBoundKey, v)
SetUpperBound(v) == setUint64(upperBoundKey, v)
SetValue(v)      == setUint64AsKey(v)

GetLowerBound == IF lowerBoundKey \in Keys THEN unmarshalUint64(bucket[lowerBoundKey]) ELSE 0

\* A missing key makes unmarshalUint64 panic; callers come after SetUpperBound.
GetUpperBound == unmarshalUint64(bucket[upperBoundKey])

\* A slip: the keys of the bounds are taken for blocks.
MissingOfAnyKey(lo, hi) ==
  (lo..hi) \ {unmarshalUint64(k) :
                k \in {j \in Keys : NotAfter(marshalUint64(lo), j) /\ NotAfter(j, marshalUint64(hi))}}

\* The bits left set: a cursor runs from the lower key to the upper one.
GetMissingValuesBitSet(lo, hi) ==
  (lo..hi) \ {unmarshalUint64(k) :
                k \in {j \in BlockKeys : NotAfter(marshalUint64(lo), j) /\ NotAfter(j, marshalUint64(hi))}}

\* A slip: a lower bound of 0 is not treated apart.
CleanupUnguarded ==
  /\ isOpen
  /\ bucket' = Restrict(bucket, {k \in Keys : ~(k \in BlockKeys
                                               /\ NotAfter(k, marshalUint64(GetLowerBound - 1)))})
  /\ UNCHANGED isOpen

\* Block keys up to the one before the lower bound are deleted.
Cleanup ==
  /\ isOpen
  /\ GetLowerBound # 0
  /\ bucket' = Restrict(bucket, {k \in Keys : ~(k \in BlockKeys
                                               /\ NotAfter(k, marshalUint64(GetLowerBound - 1)))})
  /\ UNCHANGED isOpen

Open  == ~isOpen /\ isOpen' = TRUE /\ UNCHANGED bucket
Close == isOpen /\ isOpen' = FALSE /\ UNCHANGED bucket

Next == \/ Open \/ Close \/ Cleanup
        \/ \E v \in Number : SetLowerBound(v) \/ SetUpperBound(v) \/ SetValue(v)

Spec == Init /\ [][Next]_vars

(***************************************************************************)
(* What it implements.                                                     *)
(***************************************************************************)
BoundAt(k) == IF k \in Keys THEN unmarshalUint64(bucket[k]) ELSE -1

DB == INSTANCE BlockDB
        WITH lower  <- BoundAt(lowerBoundKey), upper <- BoundAt(upperBoundKey),
             marked <- {unmarshalUint64(k) : k \in BlockKeys}, dbOpen <- isOpen

\* Every step of the bucket is an operation of BlockDB on the bounds and the
\* marks: no operation disturbs a key that is not its own, whatever the byte
\* order and the place of the bounds among the blocks, and a cleanup drops the
\* marks below the lower bound and nothing else.
StoreSpec == DB!DBInit /\ [][DB!StoreNext(Number)]_(DB!dbVars)

\* For the bounds in force, which may be any two numbers, the cursor finds
\* exactly the blocks of the range that BlockDB has marked: the order of the
\* keys is the order of the numbers, and the bounds' own keys, which the
\* cursor passes over, count for nothing.
MissingAgrees ==
  upperBoundKey \in Keys =>
    GetMissingValuesBitSet(GetLowerBound, GetUpperBound)
      = DB!Missing(DB!GetLowerBound, DB!GetUpperBound)
=============================================================================
