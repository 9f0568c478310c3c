------------------------------- MODULE TxStore -------------------------------
(***************************************************************************)
(* What a persistent store with transactions promises: a transaction sees  *)
(* the table as it is at one moment, and one that changes the table does   *)
(* so in one step, from the table that it has seen.                        *)
(***************************************************************************)
CONSTANTS Procs, Entries, NoTable

VARIABLES table,   \* the entries of the store
          view     \* what a process in a transaction has read

Init == table = {} /\ view = [p \in Procs |-> NoTable]

Begin(p) ==
  /\ view[p] = NoTable
  /\ view' = [view EXCEPT ![p] = table]
  /\ UNCHANGED table

Commit(p) ==
  /\ view[p] = table
  /\ \E e \in Entries \ table : table' = table \cup {e}
  /\ view' = [view EXCEPT ![p] = NoTable]

End(p) ==
  /\ view[p] # NoTable
  /\ view' = [view EXCEPT ![p] = NoTable]
  /\ UNCHANGED table

Next == \E p \in Procs : Begin(p) \/ Commit(p) \/ End(p)

Spec == Init /\ [][Next]_<<table, view>>
=============================================================================
