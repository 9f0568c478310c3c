------------------------------- MODULE HashMap -------------------------------
(***************************************************************************)
(* What a Hash promises: a map from keys to values.  HashTable implements  *)
(* it.                                                                     *)
(***************************************************************************)
CONSTANTS Keys, Vals, Nil

VARIABLE map   \* the value of each key, or Nil

Init == map = [k \in Keys |-> Nil]

Store(k, v) == map' = [map EXCEPT ![k] = v]

Delete(k) == map[k] # Nil /\ map' = [map EXCEPT ![k] = Nil]

Clear == map' = [k \in Keys |-> Nil]

Next == \/ \E k \in Keys, v \in Vals : Store(k, v)
        \/ \E k \in Keys : Delete(k)
        \/ Clear

Spec == Init /\ [][Next]_map
=============================================================================
