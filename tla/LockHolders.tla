----------------------------- MODULE LockHolders ------------------------------
(* What Mutex of ruby/lib/thread.rb and Mutex_m of mutex_m.rb both promise.  *)

VARIABLE holds   \* the threads whose call of lock or try_lock succeeded

\* No two threads hold the lock, whatever late or spurious wake-ups the run
\* after the critical section of unlock causes, and whoever is killed, so long
\* as the killed thread is neither in ConditionVariable#wait nor waiting in
\* mu_synchronize: its ensure clause would unlock what it does not hold.
Exclusion == \A t, u \in holds : t = u
=============================================================================
