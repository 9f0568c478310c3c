----------------------------- MODULE MCThreadLib -----------------------------
(***************************************************************************)
(* The classes of the thread library for TLC.  They share no state, so a   *)
(* behaviour exercises one object, chosen at the start; the variables of   *)
(* the other classes are Unused, or have the values in which the           *)
(* properties of those classes say nothing of them.                        *)
(* KilledQueue, the queue of the module itself, is a SizedQueue whose      *)
(* threads are killed and whose program calls clear; @max of a plain Queue *)
(* is the bound on its length.                                             *)
(***************************************************************************)
EXTENDS ThreadQueue, LockHolders, MutexWaits, MonitorState, SyncState,
        TLC

CONSTANTS CVUsers, Victims,    \* of the mutex: who waits, who may be killed
          NoThread, KillPoints, MaxDepth, MaxNest,
          Unused

VARIABLES object, timer, saved, sync_waiting, sync_upgrade_waiting

Queue == INSTANCE ThreadQueue WITH Sized <- FALSE, Killable <- {}, Clears <- FALSE,
                                   Maxes <- {MaxLength}
SizedQueue == INSTANCE ThreadQueue WITH Killable <- {}, Clears <- FALSE
Mutex == INSTANCE ThreadMutex WITH Threads <- CVUsers \cup Victims, Killable <- Victims
Mutex_m == INSTANCE MutexM WITH Threads <- CVUsers \cup Victims, Killable <- Victims,
                                Syncs <- CVUsers
Mon == INSTANCE Monitor
Synchronizer == INSTANCE Sync

(* The variables that only one class has, and their values in a behaviour of *)
(* another one.                                                              *)

queueOnly == <<length, max, queueWait, growth, crit, lost>>
mutexOnly == <<misfired, waiters>>
lockOnly == <<locked, holds>>
callOnly == <<waiting, sleeping, todo, pc>>
monitorOnly == <<mon_owner, mon_count, mon_entering_queue, mon_waiting_queue,
                 cv_waiters, mon_pc, asleep, depth, timer, saved>>
syncOnly == <<sync_mode, sync_waiting, sync_upgrade_waiting, sync_ex_locker,
              sync_ex_count, sync_sh_locker, sync_pc, sync_asleep, sync_runs, held>>

NoQueue == length = 0 /\ max = MaxLength /\ queueWait = Unused /\ growth = Unused
           /\ crit = Unused /\ lost = FALSE
NoLock == locked = FALSE /\ holds = {}
NoCall == waiting = <<>> /\ sleeping = {} /\ todo = Unused /\ pc = <<>>
NoMonitor ==
  /\ mon_owner = Unused /\ mon_count = Unused
  /\ mon_entering_queue = <<>> /\ mon_waiting_queue = <<>> /\ cv_waiters = <<>>
  /\ mon_pc = <<>> /\ asleep = {} /\ depth = Unused /\ timer = Unused
  /\ saved = Unused
NoSync ==
  /\ sync_mode = Unused /\ sync_waiting = Unused /\ sync_upgrade_waiting = Unused
  /\ sync_ex_locker = Unused /\ sync_ex_count = Unused /\ sync_sh_locker = Unused
  /\ sync_pc = <<>> /\ sync_asleep = {} /\ sync_runs = Unused /\ held = Unused

InitQueue == /\ NoLock /\ NoMonitor /\ NoSync /\ dying = Unused
             /\ waiters = Unused /\ misfired = FALSE
             /\ \/ object = "Queue" /\ Queue!Init
                \/ object = "SizedQueue" /\ SizedQueue!Init
                \/ object = "KilledQueue" /\ Init

MCInit ==
  \/ InitQueue
  \/ object = "Mutex" /\ Mutex!Init /\ NoQueue /\ NoMonitor /\ NoSync
  \/ /\ object = "Mutex_m" /\ Mutex_m!Init /\ NoQueue /\ NoMonitor /\ NoSync
     /\ waiters = Unused /\ misfired = FALSE
  \/ /\ object = "Monitor" /\ Mon!Init /\ NoQueue /\ NoCall /\ NoLock /\ NoSync
     /\ waiters = Unused /\ misfired = FALSE
  \/ /\ object = "Sync" /\ Synchronizer!Init /\ NoQueue /\ NoCall /\ NoLock
     /\ NoMonitor /\ waiters = Unused /\ dying = Unused /\ misfired = FALSE

MCNext ==
  /\ UNCHANGED object
  /\ \/ /\ \/ object = "Queue" /\ Queue!Next
           \/ object = "SizedQueue" /\ SizedQueue!Next
           \/ object = "KilledQueue" /\ Next
        /\ UNCHANGED <<mutexOnly, lockOnly, monitorOnly, syncOnly, dying>>
     \/ /\ object = "Mutex" /\ Mutex!Next
        /\ UNCHANGED <<queueOnly, monitorOnly, syncOnly>>
     \/ /\ object = "Mutex_m" /\ Mutex_m!Next
        /\ UNCHANGED <<queueOnly, mutexOnly, monitorOnly, syncOnly>>
     \/ /\ object = "Monitor" /\ Mon!Next
        /\ UNCHANGED <<queueOnly, mutexOnly, lockOnly, callOnly, syncOnly>>
     \/ /\ object = "Sync" /\ Synchronizer!Next
        /\ UNCHANGED <<queueOnly, mutexOnly, lockOnly, callOnly, monitorOnly, dying>>

mcVars == <<object, queueOnly, mutexOnly, lockOnly, callOnly, dying, monitorOnly,
            syncOnly>>

MCSpec == MCInit /\ [][MCNext]_mcVars

Symmetry == Permutations(Threads) \cup Permutations(CVUsers)

-----------------------------------------------------------------------------
(* The properties of the objects are explained where the modules state them. *)
(* Exclusion (LockHolders) and MutexWakes (MutexWaits) of Mutex and Mutex_m, *)
(* QueueWakes and BoundKept (ThreadQueue) of the queues, MonitorOwned and    *)
(* MonitorWakes (MonitorState), and SyncSound (SyncState) are checked as     *)
(* they stand.                                                               *)
=============================================================================
