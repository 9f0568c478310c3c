---------------------------- MODULE MCThreadSched ----------------------------
(* ThreadSched for TLC.  The threads other than the main one are alike.     *)
EXTENDS ThreadSched, TLC

Symmetry == Permutations(Threads \ {Main})
=============================================================================
