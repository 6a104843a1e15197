---------------------------- MODULE MCMergeLists ----------------------------
(***************************************************************************)
(* MergeListRun for TLC.  A topic array lists its topics in the order they *)
(* were given the value, so any order is possible; for the lists only who  *)
(* is with whom matters, and the arrays here are in ascending order, of    *)
(* two or three topics.                                                    *)
(***************************************************************************)
EXTENDS MergeListRun

MCArrays == {q \in SeqOf(Topic, 3) : Len(q) > 1 /\ IsSorted(q, <)}

=============================================================================
