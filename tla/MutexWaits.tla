----------------------------- MODULE MutexWaits ------------------------------
(* What Mutex and ConditionVariable of ruby/lib/thread.rb, and Mutex_m of    *)
(* mutex_m.rb, promise to the threads that sleep in them: no wake-up is lost. *)
EXTENDS LibraryCalls

VARIABLES
  locked,    \* @locked
  waiters,   \* @waiters of the condition variable
  dying,     \* the killed threads that execute an ensure clause
  misfired   \* has a wake-up gone to a thread not asleep in lock

\* In the loop of lock.
Locking == {"lock", "relock"}

\* Nobody has been killed.
Unharmed == dying = {} /\ \A t \in DOMAIN pc : pc[t] # "dead"

\* A thread asleep in lock is still in @waiting, so that some later unlock
\* wakes it: no wake-up removes an entry without waking its thread.
LockersListed ==
  \A t \in sleeping : pc[t] \in Locking => t \in Range(waiting)

\* While a thread sleeps in lock and the mutex is free, another thread has been
\* woken to take it, unless unlock's wake-up went to an entry that was stale or
\* a thread has been killed.
HandOff ==
  ~locked /\ ~misfired /\ Unharmed /\ (\E t \in sleeping : pc[t] \in Locking) =>
    \E u \in DOMAIN pc \ sleeping : pc[u] \in Locking \cup {"cvwait"}

\* A thread asleep in ConditionVariable#wait is in @waiters, or a thread that
\* took it from there is about to run it, unless that thread has been killed.
WaiterListed ==
  Unharmed => \A t \in sleeping : pc[t] = "cvwait" =>
                t \in Range(waiters) \/ \E u \in DOMAIN pc : t \in Range(todo[u])

\* While threads sleep in mu_lock and the object is free, one of them has been
\* woken or a thread in mu_unlock is still waking them, unless a thread has been
\* killed.  Stale entries do no harm here, as every unlock wakes the whole list.
MuHandOff ==
  ~locked /\ (\E t \in sleeping : pc[t] = "mu_lock") /\ (\A t \in DOMAIN pc : pc[t] # "dead") =>
    \E u \in DOMAIN pc \ sleeping : pc[u] = "mu_lock" \/ (pc[u] = "run" /\ todo[u] # <<>>)

\* No thread sleeps for ever by a lost wake-up: sleepers are listed or about to
\* be run, and a free mutex has a thread on its way.
MutexWakes == LockersListed /\ HandOff /\ WaiterListed /\ MuHandOff
=============================================================================
