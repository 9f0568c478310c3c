------------------------------ MODULE GlobalVars ------------------------------
(***************************************************************************)
(* Global variables of ruby/variable.c: entries of rb_global_tbl that may  *)
(* share a variable (alias), and the list of traces of a variable          *)
(* (trace_var, untrace_var) that rb_gvar_set calls.                        *)
(*                                                                         *)
(* A trace is Ruby code: while trace_ev is between two traces of a         *)
(* variable, the trace itself or another thread may set, alias, trace and  *)
(* untrace any variable, this one included.                                *)
(*                                                                         *)
(* A list has its latest trace first, and traces are numbered as they are  *)
(* allocated: a list is the set of its members, in decreasing order.       *)
(***************************************************************************)
EXTENDS GvarState

CONSTANTS Names,     \* identifiers of global variables
          Cmds,      \* procs given to trace_var
          Variables, \* the structs global_variable, allocated in this order
          Traces     \* the structs trace_var, likewise

VARIABLE data  \* a member of a trace

gvars == <<entry, counter>>
lists == <<trace, data, removed>>
vars == <<gvars, lists, block_trace, running, freed>>

Allocated == {entry[n] : n \in Names} \ {NoEntry}
Least(S) == {x \in S : \A y \in S : x <= y}
FreshVars == Least({v \in Variables : v \notin Allocated \cup freed})
FreshTraces == Least({t \in Traces \ freed : \A v \in Variables : t \notin trace[v]})

\* The first of the traces in S, as lists have them.
First(S) == {t \in S : \A u \in S : u <= t}

Init ==
  /\ entry = [n \in Names |-> NoEntry]
  /\ counter = [v \in Variables |-> 0]
  /\ trace = [v \in Variables |-> {}]
  /\ block_trace = [v \in Variables |-> FALSE]
  /\ data = [t \in Traces |-> NoEntry]
  /\ removed = [t \in Traces |-> FALSE]
  /\ running = [v \in Variables |-> NoEntry]
  /\ freed = {}

-----------------------------------------------------------------------------
\* The table when rb_global_entry(n) has returned: a name without an entry gets
\* one with a variable of its own.
WithEntry(n) ==
  IF entry[n] # NoEntry THEN {[entry |-> entry, counter |-> counter]}
  ELSE {[entry |-> [entry EXCEPT ![n] = v], counter |-> [counter EXCEPT ![v] = 1]] :
          v \in FreshVars}

\* The compiler meets a name.
rb_global_entry(n) ==
  /\ entry[n] = NoEntry
  /\ \E g \in WithEntry(n) : entry' = g.entry /\ counter' = g.counter
  /\ UNCHANGED <<lists, block_trace, running, freed>>

rb_f_trace_var(n, cmd) ==
  /\ \E g \in WithEntry(n), t \in FreshTraces :
       /\ entry' = g.entry /\ counter' = g.counter
       /\ trace' = [trace EXCEPT ![g.entry[n]] = {t} \cup @]
       /\ data' = [data EXCEPT ![t] = cmd]
       /\ removed' = [removed EXCEPT ![t] = FALSE]
  /\ UNCHANGED <<block_trace, running, freed>>

\* remove_trace: the list without the traces marked, which are freed.
remove_trace(v, marks) ==
  /\ trace' = [trace EXCEPT ![v] = {t \in @ : ~marks[t]}]
  /\ freed' = freed \cup {t \in trace[v] : marks[t]}

\* Mutant: the traces are freed while they are called, too.
UntraceFrees(v, gone) ==
  /\ removed' = [t \in Traces |-> removed[t] \/ t \in gone]
  /\ remove_trace(v, removed')
  /\ UNCHANGED <<gvars, data, block_trace, running>>

\* rb_f_untrace_var marks the traces in gone.
Untrace(v, gone) ==
  /\ removed' = [t \in Traces |-> removed[t] \/ t \in gone]
  /\ IF block_trace[v] THEN UNCHANGED <<trace, freed>> ELSE remove_trace(v, removed')
  /\ UNCHANGED <<gvars, data, block_trace, running>>

\* untrace_var without and with a command, of which the first is removed.
rb_f_untrace_var(n) ==
  /\ entry[n] # NoEntry /\ trace[entry[n]] # {}
  /\ LET v == entry[n] IN
     \/ Untrace(v, trace[v])
     \/ \E cmd \in Cmds : \E t \in First({u \in trace[v] : data[u] = cmd}) :
          Untrace(v, {t})

\* rb_gvar_set, after the setter: trace_ev calls the first trace.
rb_gvar_set(n) ==
  LET v == entry[n] IN
  /\ v # NoEntry
  /\ trace[v] # {} /\ ~block_trace[v]
  /\ block_trace' = [block_trace EXCEPT ![v] = TRUE]
  /\ \E t \in First(trace[v]) : running' = [running EXCEPT ![v] = t]
  /\ UNCHANGED <<gvars, lists, freed>>

\* trace = trace->next in trace_ev.
trace_ev(v) ==
  /\ running[v] # NoEntry
  /\ \E t \in First({u \in trace[v] : u < running[v]}) :
       running' = [running EXCEPT ![v] = t]
  /\ UNCHANGED <<gvars, lists, block_trace, freed>>

\* trace_en, after the last trace or when a trace raises.
trace_en(v) ==
  /\ running[v] # NoEntry
  /\ running' = [running EXCEPT ![v] = NoEntry]
  /\ block_trace' = [block_trace EXCEPT ![v] = FALSE]
  /\ remove_trace(v, removed)
  /\ UNCHANGED <<gvars, data, removed>>

\* "can't alias in tracer" is not raised.
Aliasable(v) == ~block_trace[v]

\* var->counter-- and entry2->var->counter++.
Recount(count, v1, v2) ==
  [v \in Variables |-> count[v] + (IF v = v2 THEN 1 ELSE 0) - IF v = v1 THEN 1 ELSE 0]

\* rb_alias_variable: name1 gets the variable of name2; the last entry of a
\* variable takes the variable and its traces with it.
rb_alias_variable(name1, name2) ==
  \E g \in WithEntry(name2) :
    LET v1 == g.entry[name1]
        v2 == g.entry[name2]
        last == v1 # NoEntry /\ g.counter[v1] = 1
    IN
    /\ v1 # v2
    /\ v1 # NoEntry => Aliasable(v1)
    /\ entry' = [g.entry EXCEPT ![name1] = v2]
    /\ counter' = Recount(g.counter, v1, v2)
    /\ IF last
       THEN /\ freed' = freed \cup {v1} \cup trace[v1]
            /\ trace' = [trace EXCEPT ![v1] = {}]
       ELSE UNCHANGED <<freed, trace>>
    /\ UNCHANGED <<data, removed, block_trace, running>>

Next ==
  \/ \E n \in Names : rb_global_entry(n) \/ rb_f_untrace_var(n) \/ rb_gvar_set(n)
  \/ \E n \in Names, cmd \in Cmds : rb_f_trace_var(n, cmd)
  \/ \E n, m \in Names : rb_alias_variable(n, m)
  \/ \E v \in Variables : trace_ev(v) \/ trace_en(v)

Spec == Init /\ [][Next]_vars
=============================================================================
