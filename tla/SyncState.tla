------------------------------ MODULE SyncState ------------------------------
(* What Sync_m of ruby/lib/sync.rb promises to the threads that use one       *)
(* synchronizer.                                                              *)
EXTENDS Naturals, Sequences

VARIABLES
  sync_mode, sync_ex_locker, sync_ex_count,
  sync_sh_locker,  \* count of each thread, 0 for one without an entry
  sync_pc,      \* "idle", or "SH" and "EX" in the loop of sync_lock
  sync_asleep,  \* the threads inside Thread.stop
  sync_runs,    \* the threads a thread has still to run in sync_unlock
  held          \* the modes asked for by the sync_synchronize a thread is in

Modes(t) == {held[t][i] : i \in DOMAIN held[t]}
Sharers == {t \in DOMAIN sync_sh_locker : sync_sh_locker[t] > 0}

\* A thread that is in a sync_synchronize and not waiting for another one has
\* the lock in the mode it asked for: its exclusive lock is nobody else's, its
\* shared lock not taken exclusively, and its sync_unlock does not raise
\* UnknownLocker, which would leave Thread.critical set.
SyncHeld == \A t \in DOMAIN sync_pc : sync_pc[t] = "idle" /\ held[t] # <<>> =>
  IF "EX" \in Modes(t)
  THEN sync_mode = "EX" /\ sync_ex_locker = t
  ELSE sync_mode = "SH" /\ t \in Sharers

\* When threads sleep for the lock somebody holds it, is about to run them, or
\* is awake and in sync_lock itself.
SyncHandedOver == sync_asleep # {} =>
  \E t \in DOMAIN sync_pc \ sync_asleep :
    held[t] # <<>> \/ sync_runs[t] # <<>> \/ sync_pc[t] # "idle"

\* Upgrades, shared locks given up and taken back, and late wake-ups neither
\* take the lock from a thread in sync_synchronize nor forget one that sleeps.
SyncSound == SyncHeld /\ SyncHandedOver
=============================================================================
