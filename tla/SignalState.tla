----------------------------- MODULE SignalState -----------------------------
(* What ruby/signal.c and rubysig.h promise of signals that have arrived and  *)
(* of the moments at which traps are executed.                                *)
EXTENDS Naturals, Sequences

CONSTANTS NSIG,        \* signal numbers are less than NSIG
          Interrupts,  \* those that signal_exec raises without a command
          Main, Other, \* the threads
          MaxSignals,  \* bound on the signals sent
          MaxDepth     \* bound on the frames under a frame that the program pushes

ASSUME SignalAssumption == NSIG \in Nat \ {0}

Sigs == 1..(NSIG - 1)   \* all with sighandler

VARIABLES
  trap_list,       \* signals that have a command
  ignored,         \* signals whose disposition is SIG_IGN
  pending_list,    \* trap_pending_list
  trap_pending,    \* rb_trap_pending
  immediate,       \* rb_trap_immediate
  mask,            \* signals the process blocks
  last_mask,       \* trap_last_mask
  arrived,         \* blocked signals that the kernel keeps
  curr,            \* curr_thread
  sig_stack,       \* of each thread, innermost frame first
  saved,           \* rb_trap_immediate in the saved context of a thread
  behind,          \* signals noted at an index that a loop has passed
  crossed,         \* a context saved with rb_trap_immediate was resumed for a trap
  sent             \* number of signals sent

\* The innermost frame of a thread.
Top(t) == IF sig_stack[t] = <<>> THEN "ruby" ELSE Head(sig_stack[t]).kind

\* A noted signal keeps rb_trap_pending set, so that the next CHECK_INTS
\* executes it, however handlers, loops of both threads and exceptions nest.
\* The one exception is a signal that arrives at an index which a loop has
\* already passed: rb_trap_exec clears rb_trap_pending after its loop.
NotedSignalSeen ==
  \A s \in Sigs : pending_list[s] > 0 /\ trap_pending = 0 => s \in behind

\* Traps are executed at once only in a system call and never in the middle of
\* the interpreter, unless the main thread was resumed for a trap out of a
\* system call, which turns rb_trap_immediate on under the command.
ImmediateInSystemCall == immediate = 1 /\ Top(curr) # "block" => crossed
=============================================================================
