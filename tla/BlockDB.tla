------------------------------ MODULE BlockDB ------------------------------
(***************************************************************************)
(* src/db: the persistent store of block state.  Each operation is one     *)
(* bbolt transaction, hence one step; what it wrote survives a crash.      *)
(* The two bounds are keys of their own ("lower", "upper"); a processed    *)
(* block is an 8-byte key without a value.                                 *)
(***************************************************************************)
EXTENDS Integers, FiniteSets

VARIABLES lower,    \* value of the lower bound key, None when it is absent
          upper,    \* value of the upper bound key, None when it is absent
          marked,   \* the block numbers that have a key: processed blocks
          dbOpen    \* the process holds the database open

dbVars == <<lower, upper, marked, dbOpen>>

None == -1          \* no value

DBInit == lower = None /\ upper = None /\ marked = {} /\ dbOpen = FALSE

\* An absent lower bound reads as 0.
GetLowerBound == IF lower = None THEN 0 ELSE lower
GetUpperBound == upper

\* Writes to a closed database return an error and change nothing.
SetLowerBound(v) == lower' = IF dbOpen THEN v ELSE lower
SetUpperBound(v) == upper' = IF dbOpen THEN v ELSE upper
SetValue(b)      == marked' = IF dbOpen THEN marked \union {b} ELSE marked

\* GetMissingValuesBitSet: the bits left set between two bounds.
Missing(lo, hi) == (lo..hi) \ marked

\* The k lowest members of S: what NextSetMany returns for a buffer of k.
LowestOf(S, k) == {b \in S : Cardinality({c \in S : c < b}) < k}

\* Slip: the lower bound itself is dropped as well.
CleanupThroughLower ==
  /\ marked' = IF GetLowerBound = 0 THEN marked ELSE {b \in marked : b > GetLowerBound}
  /\ UNCHANGED <<lower, upper, dbOpen>>

\* Drop the keys up to lower-1; a lower bound of 0 leaves nothing to drop.
Cleanup == /\ marked' = IF GetLowerBound = 0 THEN marked
                        ELSE {b \in marked : b > GetLowerBound - 1}
           /\ UNCHANGED <<lower, upper, dbOpen>>

\* The store by itself: any of its operations, in any order.
StoreNext(numbers) ==
  \/ \E v \in numbers : \/ SetLowerBound(v) /\ UNCHANGED <<upper, marked, dbOpen>>
                        \/ SetUpperBound(v) /\ UNCHANGED <<lower, marked, dbOpen>>
                        \/ SetValue(v) /\ UNCHANGED <<lower, upper, dbOpen>>
  \/ Cleanup
  \/ UNCHANGED <<lower, upper, marked>>
=============================================================================
