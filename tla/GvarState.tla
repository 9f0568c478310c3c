------------------------------ MODULE GvarState ------------------------------
(* What ruby/variable.c promises of global variables and of the traces that   *)
(* are called when they are set.                                              *)
EXTENDS FiniteSets, Integers

CONSTANT NoEntry    \* no entry in the table, no trace

VARIABLES
  entry,        \* the variable of a name
  counter,      \* number of the entries of a variable
  trace,        \* the traces of a variable
  block_trace,
  removed,      \* a member of a trace
  running,      \* the trace that trace_ev is in, for each variable
  freed         \* the variables and traces freed

\* The trace being called, whose next member trace_ev reads when it returns,
\* and its variable, which trace_en writes to, have not been freed.
TracerAlive == \A v \in DOMAIN running : running[v] # NoEntry =>
  running[v] \in trace[v] /\ {v, running[v]} \cap freed = {}

\* A trace removed while the traces of its variable were called is gone when
\* that is over: the next assignment does not call it.
RemovedGone == \A v \in DOMAIN block_trace : ~block_trace[v] =>
  \A t \in trace[v] : ~removed[t]

\* The count of a variable is the number of its names; it is freed with the
\* last of them and not before.
GvarCounted == \A v \in DOMAIN counter :
  /\ counter[v] = Cardinality({n \in DOMAIN entry : entry[n] = v})
  /\ v \in freed => counter[v] = 0

\* Tracing, removing and aliasing inside a tracer leave the lists and the counts
\* as they should be.
GvarSound == TracerAlive /\ RemovedGone /\ GvarCounted
=============================================================================
