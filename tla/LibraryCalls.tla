---------------------------- MODULE LibraryCalls -----------------------------
(* The threads that use an object of ruby/lib/thread.rb or mutex_m.rb, and   *)
(* what the object knows of them.                                            *)
EXTENDS Naturals, Functions

CONSTANTS Threads,
          Killable,   \* the threads that may be killed
          MaxWaiting  \* bound on the length of a list of waiting threads

ASSUME ThreadsAssumption == Killable \subseteq Threads
ASSUME MaxWaitingAssumption == MaxWaiting \in Nat

VARIABLES
  waiting,   \* @waiting, @mu_waiting of a mutex; of a queue: the threads in pop
  pc,        \* where each thread is in its call
  sleeping,  \* the threads inside Thread.stop
  todo       \* what a thread is about to run after its critical section
=============================================================================
