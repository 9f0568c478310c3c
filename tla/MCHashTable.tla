----------------------------- MODULE MCHashTable -----------------------------
(* HashTable for TLC.  With one bin all keys collide, with three "a" and "b" *)
(* do; the table grows in between.                                           *)
EXTENDS HashTable, TLC

MCHashOf == [k \in Keys |-> CASE k = "a" -> 2 [] k = "b" -> 5 [] k = "c" -> 3]
MCSizes == <<1, 3>>

Symmetry == Permutations(Iterators)
=============================================================================
