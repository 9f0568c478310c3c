----------------------------- MODULE MCStorage ------------------------------
(***************************************************************************)
(* The collector (Collector), Array (RubyArray) and PStore (PStore) for TLC. *)
(* They share no state, so a behaviour exercises one of them, chosen at the *)
(* start; the variables of the others are what they are at first, as long  *)
(* as nothing is done.                                                     *)
(***************************************************************************)
EXTENDS PStore, RubyArray, Collector, TLC

VARIABLE object

MCLiterals == {<<1>>, <<1, 2>>}

storeVars == vars

MCInit == /\ object \in {"Collector", "RubyArray", "PStore"}
          /\ HeapInit /\ ArrayInit /\ Init

MCNext ==
  \/ object = "Collector" /\ HeapNext /\ UNCHANGED <<object, arrayVars, storeVars>>
  \/ object = "RubyArray" /\ ArrayNext /\ UNCHANGED <<object, heapVars, storeVars>>
  \/ object = "PStore" /\ Next /\ UNCHANGED <<object, heapVars, arrayVars>>

MCSpec == MCInit /\ [][MCNext]_<<object, heapVars, arrayVars, storeVars>>

Symmetry == Permutations(Arrays) \cup Permutations(Procs)
=============================================================================
