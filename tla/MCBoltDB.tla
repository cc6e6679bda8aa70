------------------------------ MODULE MCBoltDB ------------------------------
(***************************************************************************)
(* A bucket with numbers of three bits.  As "lower" and "upper" are in the *)
(* code, the keys of the bounds are shorter than a number and have their   *)
(* place in the middle of the numbers' keys: 011 < 1 < 100 < 101 < 11 < 110. *)
(***************************************************************************)
EXTENDS BoltDB

ShortKey  == <<1>>
LongerKey == <<1, 1>>
=============================================================================
