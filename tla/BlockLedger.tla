---------------------------- MODULE BlockLedger ----------------------------
(***************************************************************************)
(* What the tracker promises, without how: a ledger of delivered events    *)
(* and processed blocks.  Events are only ever added.  A block is entered  *)
(* as processed once all events of one of its versions were delivered, and *)
(* is struck out only below the floor, which is fixed once.                *)
(***************************************************************************)
EXTENDS Integers

CONSTANTS Block, Version, EventCount

VARIABLES delivered,    \* events handed to the stream
          processed,    \* blocks that need no further attempt
          floor         \* the lowest tracked block, 0 while it is not fixed

ledger == <<delivered, processed, floor>>

Complete(b) ==
  \E v \in Version : \A i \in 1..EventCount : <<b, v, i>> \in delivered

Init == delivered = {} /\ processed = {} /\ floor = 0

Deliver == /\ \E e \in Block \X Version \X (1..EventCount) :
                delivered' = delivered \union {e}
           /\ UNCHANGED <<processed, floor>>

Process == /\ \E b \in Block : Complete(b) /\ processed' = processed \union {b}
           /\ UNCHANGED <<delivered, floor>>

Forget == /\ \E S \in SUBSET {b \in processed : b < floor} :
               processed' = processed \ S
          /\ UNCHANGED <<delivered, floor>>

FixFloor == /\ floor = 0
            /\ floor' \in Block
            /\ UNCHANGED <<delivered, processed>>

Next == Deliver \/ Process \/ Forget \/ FixFloor

Spec == Init /\ [][Next]_ledger
=============================================================================
