----------------------------- MODULE MCProgress -----------------------------
(***************************************************************************)
(* Algorithms that must come to an end, for TLC: marking (GcMark), sorting *)
(* (QuickSort) and require (Loading).  They share no state, so a behaviour *)
(* exercises one of them, chosen at the start; the variables of the others *)
(* are Unused, those of GcMark as they are before marking and those of     *)
(* QuickSort as ruby_qsort leaves them for an empty array.                 *)
(***************************************************************************)
EXTENDS GcMark, QuickSort

CONSTANTS Loaders, Files, None, MaxCalls, Unused

VARIABLES object, provided, loading, finished, failed, executed, autoload_tbl,
          load_stack, load_at, want, refers, relies, missed, load_calls

\* "a" requires "b" and "c", "b" requires "c".
Requires == [f \in Files |-> IF f = "a" THEN <<"b", "c">>
                             ELSE IF f = "b" THEN <<"c">> ELSE <<>>]

Load == INSTANCE Loading WITH stack <- load_stack, at <- load_at, calls <- load_calls

loadVars == <<provided, loading, finished, failed, executed, autoload_tbl,
              load_stack, load_at, want, refers, relies, missed, load_calls>>

(* The variables that the component of a behaviour does not have.          *)

gcMarkRest == <<object, sortVars, loadVars>>
quickSortRest == <<object, vars, loadVars>>
loadingRest == <<object, vars, sortVars>>

(* Their initial values.                                                   *)

NotMarking ==
  /\ refs = Unused /\ roots = Unused /\ ahead = Unused /\ room = Unused
  /\ marked = {} /\ calls = <<>> /\ mark_stack = <<>> /\ overflow = FALSE
  /\ rest = <<>> /\ scan = 0 /\ sweeping = FALSE

NothingToSort ==
  /\ input = <<>> /\ ordered = TRUE /\ a = <<>>
  /\ L = 1 /\ R = 0 /\ l = 1 /\ r = 1 /\ m = 1
  /\ eq_l = TRUE /\ eq_r = TRUE
  /\ stack = <<>> /\ chklim = CHKLIM /\ at = "done"

NotLoading ==
  /\ provided = Unused /\ loading = Unused /\ finished = Unused /\ failed = Unused
  /\ executed = Unused /\ autoload_tbl = Unused
  /\ load_stack = Unused /\ load_at = Unused /\ want = Unused /\ refers = Unused
  /\ relies = Unused /\ missed = Unused /\ load_calls = Unused

MCInit ==
  \/ object = "GcMark" /\ Init /\ NothingToSort /\ NotLoading
  \/ object = "QuickSort" /\ SortInit /\ NotMarking /\ NotLoading
  \/ object = "Loading" /\ Load!Init /\ NotMarking /\ NothingToSort

MCNext ==
  \/ object = "GcMark" /\ Next /\ UNCHANGED gcMarkRest
  \/ object = "QuickSort" /\ SortNext /\ UNCHANGED quickSortRest
  \/ object = "Loading" /\ Load!Next /\ UNCHANGED loadingRest

mcVars == <<object, vars, sortVars, loadVars>>

MCSpec == MCInit /\ [][MCNext]_mcVars

\* The fairness of each component: marking and sorting are sequential code, and
\* a thread that is loading is scheduled again and again.
MCFairSpec ==
  /\ MCSpec
  /\ WF_mcVars(object = "GcMark" /\ MCNext)
  /\ WF_mcVars(object = "QuickSort" /\ MCNext)
  /\ \A t \in Loaders :
       WF_mcVars(object = "Loading" /\ Load!Progress(t) /\ UNCHANGED loadingRest)

\* Graphs in which an object refers to at most two others.
MCGraphs == {f \in [Objs -> {s \in SUBSET Objs : Cardinality(s) <= 2}] :
               \A o \in Objs : o \notin f[o]}
MCRootSets == {{1}, {1, NumObjs}}

\* Arrays to sort, and arrays of which the comparison says anything.
MCInputs == UNION {[1..n -> 1..3] : n \in 0..6} \cup [1..9 -> 1..2]
MCUnordered == {[i \in 1..n |-> 1] : n \in {2, 3, 4, 5, 11}}

-----------------------------------------------------------------------------
(* The properties, where the modules state and explain them; the invariants *)
(* and SortEnds are checked as they stand.                                  *)

\* Marking ends, however often the mark stack overflows (GcMark).
MarkingEnded == object = "GcMark" ~> object = "GcMark" /\ sweeping

\* A thread that waits for a file goes on (Loading).
RequireReturns ==
  \A t \in Loaders : object = "Loading" /\ load_at[t] = "wait" ~>
                     object = "Loading" /\ load_at[t] # "wait"
=============================================================================
