------------------------------ MODULE LoadState ------------------------------
(* What require and autoload of ruby/eval.c and variable.c promise to the     *)
(* threads that load files.                                                   *)
EXTENDS Naturals, Sequences

CONSTANTS Loaders,     \* threads
          Files,       \* features with extension .rb
          Requires,    \* the files that a file requires, in order
          None,        \* no thread, no file
          MaxCalls     \* bound on the calls of a thread's own program

ASSUME LoadAssumption == /\ None \notin Loaders \cup Files
                         /\ Requires \in [Files -> Seq(Files)]

VARIABLES
  provided,      \* rb_features
  loading,       \* loading_tbl: the thread that loads a file
  finished,      \* files executed to their end; their constants are defined
  failed,        \* files whose execution an exception has ended
  executed,      \* how often the execution of a file has begun
  autoload_tbl,  \* files that are still to be loaded for their constant
  stack,         \* the files a thread is executing, innermost first, each with
                 \* the number of its requires that have been called
  at,            \* "run", "wait" (in rb_feature_p) or "raise" (unwinding)
  want,          \* the file waited for
  refers,        \* the constant whose autoload the thread is in
  relies,        \* the files a require of the thread has returned for
  missed,        \* constants the thread did not get although it loaded them
  calls          \* number of calls of the thread's own program

Executing(t) == {stack[t][i].file : i \in 1..Len(stack[t])}

\* However threads, nested requires, autoload and exceptions interleave, no
\* file is executed twice ("loading ruby library should be serialized").
LoadedOnce == \A f \in Files : executed[f] <= 1

\* When require returns, the file has been executed, or an exception has ended
\* it, or the thread is itself in the middle of it (a circular require): no
\* thread goes on with a file that another thread has only begun.
RequireReturnsLoaded ==
  \A t \in Loaders : relies[t] \subseteq finished \cup failed \cup Executing(t)

\* A thread that looks a constant up after its autoload finds it, unless the
\* file failed: also when another thread had begun to load the file.
AutoloadDefines == \A t \in Loaders : missed[t] \subseteq failed

\* What a thread may rely on after require and autoload.
RequireSound == LoadedOnce /\ RequireReturnsLoaded /\ AutoloadDefines
=============================================================================
