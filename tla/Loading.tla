------------------------------- MODULE Loading -------------------------------
(***************************************************************************)
(* require, autoload and the table of files being loaded (rb_f_require and *)
(* rb_feature_p of ruby/eval.c, rb_autoload_load of ruby/variable.c).      *)
(*                                                                         *)
(* Threads load files at the same time.  A file requires the files of      *)
(* Requires in this order and then defines the constant that autoload      *)
(* knows it by; an exception may end it at any point.  A thread that finds *)
(* a file in $" which another thread is still loading waits in a loop of   *)
(* rb_thread_schedule.                                                     *)
(***************************************************************************)
EXTENDS LoadState

loadVars == <<provided, loading, finished, failed, executed>>
threadVars == <<stack, at, want, refers, relies, missed, calls>>
vars == <<loadVars, autoload_tbl, threadVars>>

Init ==
  /\ provided = {}
  /\ loading = [f \in Files |-> None]
  /\ finished = {}
  /\ failed = {}
  /\ executed = [f \in Files |-> 0]
  /\ autoload_tbl = Files
  /\ stack = [t \in Loaders |-> <<>>]
  /\ at = [t \in Loaders |-> "run"]
  /\ want = [t \in Loaders |-> None]
  /\ refers = [t \in Loaders |-> None]
  /\ relies = [t \in Loaders |-> {}]
  /\ missed = [t \in Loaders |-> {}]
  /\ calls = [t \in Loaders |-> 0]

-----------------------------------------------------------------------------
\* Mutant: the table of files being loaded is not looked at.
LoadedByOtherNever(t, f) == FALSE

\* rb_feature_p goes on waiting.
LoadedByOther(t, f) == loading[f] \notin {None, t}

\* The stack of t when its innermost file has called one more require.
Advanced(t) == IF stack[t] = <<>> THEN <<>>
               ELSE <<[Head(stack[t]) EXCEPT !.done = @ + 1]>> \o Tail(stack[t])

\* f is put into $" and loading_tbl, and its execution begins.
Load(t, f) ==
  /\ provided' = provided \cup {f}
  /\ loading' = [loading EXCEPT ![f] = t]
  /\ executed' = [executed EXCEPT ![f] = @ + 1]
  /\ stack' = [stack EXCEPT ![t] = <<[file |-> f, done |-> 0]>> \o Advanced(t)]
  /\ UNCHANGED <<at, want, relies>>

\* t calls require of f.
Require(t, f) ==
  /\ \/ /\ f \notin provided
        /\ Load(t, f)
     \/ /\ f \in provided /\ ~LoadedByOther(t, f)
        /\ relies' = [relies EXCEPT ![t] = @ \cup {f}]
        /\ stack' = [stack EXCEPT ![t] = Advanced(t)]
        /\ UNCHANGED <<provided, loading, executed, at, want>>
     \/ /\ f \in provided /\ LoadedByOther(t, f)
        /\ at' = [at EXCEPT ![t] = "wait"]
        /\ want' = [want EXCEPT ![t] = f]
        /\ stack' = [stack EXCEPT ![t] = Advanced(t)]
        /\ UNCHANGED <<provided, loading, executed, relies>>
  /\ UNCHANGED <<finished, failed, missed>>

\* The thread's own program makes its next call.
Idle(t) == at[t] = "run" /\ stack[t] = <<>> /\ refers[t] = None

Calls(t) == /\ Idle(t)
            /\ calls[t] < MaxCalls
            /\ calls' = [calls EXCEPT ![t] = @ + 1]

rb_f_require(t, f) ==
  /\ Calls(t)
  /\ Require(t, f)
  /\ UNCHANGED <<autoload_tbl, refers>>

\* A constant that is not defined but in autoload_tbl: the entry is deleted
\* first, then the file is required, or waited for, as rb_provided does.
rb_autoload_load(t, f) ==
  /\ Calls(t)
  /\ f \notin finished
  /\ f \in autoload_tbl
  /\ autoload_tbl' = autoload_tbl \ {f}
  /\ refers' = [refers EXCEPT ![t] = f]
  /\ Require(t, f)

\* rb_const_get looks the constant up again.
rb_const_get(t) ==
  /\ at[t] = "run" /\ stack[t] = <<>> /\ refers[t] # None
  /\ missed' = [missed EXCEPT ![t] = IF refers[t] \in finished THEN @
                                     ELSE @ \cup {refers[t]}]
  /\ refers' = [refers EXCEPT ![t] = None]
  /\ UNCHANGED <<loadVars, autoload_tbl, stack, at, want, relies, calls>>

\* The innermost file of t requires its next file.
FileRequires(t) ==
  /\ at[t] = "run" /\ stack[t] # <<>>
  /\ LET top == Head(stack[t]) IN
     /\ top.done < Len(Requires[top.file])
     /\ Require(t, Requires[top.file][top.done + 1])
  /\ UNCHANGED <<autoload_tbl, refers, calls>>

\* The loop of rb_feature_p ends.
rb_feature_p(t) ==
  /\ at[t] = "wait"
  /\ ~LoadedByOther(t, want[t])
  /\ at' = [at EXCEPT ![t] = "run"]
  /\ relies' = [relies EXCEPT ![t] = @ \cup {want[t]}]
  /\ UNCHANGED <<loadVars, autoload_tbl, stack, want, refers, missed, calls>>

\* The innermost file of t has been executed: loading is done.
rb_load(t) ==
  /\ at[t] = "run" /\ stack[t] # <<>>
  /\ LET top == Head(stack[t]) IN
     /\ top.done = Len(Requires[top.file])
     /\ finished' = finished \cup {top.file}
     /\ loading' = [loading EXCEPT ![top.file] = None]
     /\ relies' = [relies EXCEPT ![t] = @ \cup {top.file}]
  /\ stack' = [stack EXCEPT ![t] = Tail(@)]
  /\ UNCHANGED <<provided, failed, executed, autoload_tbl, at, want, refers,
                 missed, calls>>

\* An exception is raised in t, or t is killed, while it executes or waits.
Raise(t) ==
  /\ at[t] = "wait" \/ (at[t] = "run" /\ stack[t] # <<>>)
  /\ at' = [at EXCEPT ![t] = "raise"]
  /\ UNCHANGED <<loadVars, autoload_tbl, stack, want, refers, relies, missed, calls>>

\* Mutant: the entry of loading_tbl is left behind.
UnloadKept(f) == loading

Unload(f) == [loading EXCEPT ![f] = None]

\* rb_f_require ends the loading of the innermost file and passes the
\* exception on; the feature stays in $".  Outside the files it is rescued.
Unwind(t) ==
  /\ at[t] = "raise"
  /\ \/ /\ stack[t] # <<>>
        /\ loading' = Unload(Head(stack[t]).file)
        /\ failed' = failed \cup {Head(stack[t]).file}
        /\ stack' = [stack EXCEPT ![t] = Tail(@)]
        /\ UNCHANGED <<at, refers>>
     \/ /\ stack[t] = <<>>
        /\ at' = [at EXCEPT ![t] = "run"]
        /\ refers' = [refers EXCEPT ![t] = None]
        /\ UNCHANGED <<loading, failed, stack>>
  /\ UNCHANGED <<provided, finished, executed, autoload_tbl, want, relies,
                 missed, calls>>

\* The file that required the failed one rescues the exception.
Rescue(t) ==
  /\ at[t] = "raise" /\ stack[t] # <<>>
  /\ at' = [at EXCEPT ![t] = "run"]
  /\ UNCHANGED <<loadVars, autoload_tbl, stack, want, refers, relies, missed, calls>>

Progress(t) == FileRequires(t) \/ rb_feature_p(t) \/ rb_load(t) \/ rb_const_get(t)
               \/ Unwind(t)

Next == \E t \in Loaders :
          \/ Progress(t) \/ Raise(t) \/ Rescue(t)
          \/ \E f \in Files : rb_f_require(t, f) \/ rb_autoload_load(t, f)

Spec == Init /\ [][Next]_vars

\* The scheduler gives every runnable thread the processor, and a file's code
\* does not loop for ever.
Fairness == \A t \in Loaders : WF_vars(Progress(t))

-----------------------------------------------------------------------------
(* Properties.                                                             *)

\* A thread that waits for a file goes on, if files do not require each other
\* in a circle: no set of threads waits for files that the others are loading.
RequireReturns == \A t \in Loaders : at[t] = "wait" ~> at[t] # "wait"
=============================================================================
