----------------------------- MODULE MCTracker -----------------------------
(***************************************************************************)
(* Finite instances of the tracker for TLC.                                *)
(***************************************************************************)
EXTENDS TrackerProperties, TLC

\* Workers run the same code on the same queue.
WorkerSymmetry == Permutations(Worker)

\* No decoding error, or one in the named blocks.
NoBlock      == {}
SecondBlock  == {1}
=============================================================================
