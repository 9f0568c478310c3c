--------------------------------- MODULE Sync ---------------------------------
(***************************************************************************)
(* The shared and exclusive lock of ruby/lib/sync.rb (Sync_m).             *)
(*                                                                         *)
(* Threads nest sync_synchronize, asking for SH or EX at each level; a     *)
(* thread that holds SH and asks for EX gives its shared lock up while it  *)
(* waits for the upgrade.  Sections between Thread.critical = true and the *)
(* Thread.critical = false or Thread.stop that ends them are one step; the *)
(* loop of w.run after the section of sync_unlock is not part of it.  No   *)
(* thread is killed.                                                       *)
(***************************************************************************)
EXTENDS SyncState

CONSTANTS Threads,
          NoThread,  \* nil
          MaxNest    \* bound on nested sync_synchronize

VARIABLES sync_waiting, sync_upgrade_waiting

lockVars == <<sync_mode, sync_sh_locker, sync_ex_locker, sync_ex_count>>
queues == <<sync_waiting, sync_upgrade_waiting>>
vars == <<lockVars, queues, sync_pc, sync_asleep, sync_runs, held>>

Init ==
  /\ sync_mode = "UN"
  /\ sync_waiting = <<>> /\ sync_upgrade_waiting = <<>>
  /\ sync_sh_locker = [t \in Threads |-> 0]
  /\ sync_ex_locker = NoThread /\ sync_ex_count = 0
  /\ sync_pc = [t \in Threads |-> "idle"]
  /\ sync_asleep = {}
  /\ sync_runs = [t \in Threads |-> <<>>]
  /\ held = [t \in Threads |-> <<>>]

-----------------------------------------------------------------------------
\* t executes Ruby code of its own, or is in a call and not asleep.
Idle(t) == sync_pc[t] = "idle" /\ sync_runs[t] = <<>>
Awake(t) == t \notin sync_asleep

\* Mutant: the number of sharers is not looked at.
UpgradableShared(t) == t \in Sharers

\* The condition of an upgrade in sync_try_lock_sub(EX).
Upgradable(t) == Sharers = {t}

\* sync_try_lock_sub(m) gives TRUE, and what it changes.
Granted(t, m) ==
  \/ m = "SH" /\ sync_mode \in {"UN", "SH"}
  \/ m = "EX" /\ (sync_mode = "UN" \/ (sync_mode = "SH" /\ Upgradable(t)))
  \/ sync_mode = "EX" /\ sync_ex_locker = t

Take(t, m) ==
  /\ IF sync_mode = "EX"
     THEN /\ sync_ex_count' = sync_ex_count + 1
          /\ UNCHANGED <<sync_mode, sync_sh_locker, sync_ex_locker>>
     ELSE /\ sync_mode' = m
          /\ IF m = "EX"
             THEN /\ sync_ex_locker' = t
                  /\ sync_ex_count' = 1
                  /\ UNCHANGED sync_sh_locker
             ELSE /\ sync_sh_locker' = [sync_sh_locker EXCEPT ![t] =
                                          IF sync_mode = "UN" THEN 1 ELSE @ + 1]
                  /\ UNCHANGED <<sync_ex_locker, sync_ex_count>>
  /\ held' = [held EXCEPT ![t] = Append(@, m)]
  /\ sync_pc' = [sync_pc EXCEPT ![t] = "idle"]
  /\ UNCHANGED <<queues, sync_asleep, sync_runs>>

\* One iteration of the loop in sync_lock, the last one included.
sync_lock(t, m) ==
  /\ Awake(t) /\ sync_runs[t] = <<>>
  /\ sync_pc[t] \in {"idle", m} /\ Len(held[t]) < MaxNest
  /\ \/ Granted(t, m) /\ Take(t, m)
     \/ /\ ~Granted(t, m)
        /\ IF t \in Sharers
           THEN /\ sync_upgrade_waiting' =
                     Append(sync_upgrade_waiting, [thread |-> t, count |-> sync_sh_locker[t]])
                /\ sync_sh_locker' = [sync_sh_locker EXCEPT ![t] = 0]
                /\ UNCHANGED sync_waiting
           ELSE /\ sync_waiting' = Append(sync_waiting, t)
                /\ UNCHANGED <<sync_upgrade_waiting, sync_sh_locker>>
        /\ sync_pc' = [sync_pc EXCEPT ![t] = m]
        /\ sync_asleep' = sync_asleep \cup {t}
        /\ UNCHANGED <<sync_mode, sync_ex_locker, sync_ex_count, sync_runs, held>>

\* sync_try_lock asks for the mode that the lock is in, whatever its argument
\* says; on a free lock it calls unlock, which raises and changes nothing.
sync_try_lock(t) ==
  /\ Awake(t) /\ Idle(t) /\ Len(held[t]) < MaxNest
  /\ sync_mode # "UN" /\ Granted(t, sync_mode)
  /\ Take(t, sync_mode)

\* The case EX of sync_unlock, and the case SH, which the argument EX stands
\* for as well when the lock is shared.
UnlockEX(t) ==
  /\ sync_mode = "EX" /\ sync_ex_locker = t
  /\ sync_ex_count' = sync_ex_count - 1
  /\ sync_ex_locker' = IF sync_ex_count = 1 THEN NoThread ELSE t
  /\ sync_mode' = IF sync_ex_count > 1 THEN "EX"
                  ELSE IF t \in Sharers THEN "SH" ELSE "UN"
UnlockSH(t) ==
  /\ sync_mode = "SH" /\ t \in Sharers
  /\ sync_mode' = IF sync_sh_locker[t] = 1 /\ Sharers = {t} /\ sync_ex_count = 0
                  THEN "UN" ELSE "SH"
  /\ UNCHANGED <<sync_ex_locker, sync_ex_count>>

\* The lock has become runnable.
Runnable(t) == IF sync_mode = "EX" THEN sync_ex_count = 1 ELSE sync_mode' = "UN"

\* sync_sh_locker after the decrement of the case SH.
Shared(t) == IF sync_mode = "SH" THEN [sync_sh_locker EXCEPT ![t] = @ - 1]
             ELSE sync_sh_locker

\* The shared locks of the threads that wait for an upgrade are put back.
Restore(shared) ==
  [k \in Threads |->
     LET entries == {i \in DOMAIN sync_upgrade_waiting : sync_upgrade_waiting[i].thread = k}
     IN IF entries = {} THEN shared[k]
        ELSE sync_upgrade_waiting[CHOOSE i \in entries : \A j \in entries : j <= i].count]

\* sync_unlock, the end of a sync_synchronize, up to its loop of w.run.
sync_unlock(t) ==
  /\ Awake(t) /\ Idle(t) /\ held[t] # <<>>
  /\ UnlockEX(t) \/ UnlockSH(t)
  /\ IF ~Runnable(t)
     THEN sync_sh_locker' = Shared(t) /\ UNCHANGED <<queues, sync_runs>>
     ELSE IF sync_upgrade_waiting # <<>>
     THEN /\ sync_sh_locker' = Restore(Shared(t))
          /\ sync_runs' = [sync_runs EXCEPT ![t] = [i \in DOMAIN sync_upgrade_waiting |->
                                            sync_upgrade_waiting[i].thread]]
          /\ sync_upgrade_waiting' = <<>>
          /\ UNCHANGED sync_waiting
     ELSE /\ sync_sh_locker' = Shared(t)
          /\ sync_runs' = [sync_runs EXCEPT ![t] = sync_waiting]
          /\ sync_waiting' = <<>>
          /\ UNCHANGED sync_upgrade_waiting
  /\ held' = [held EXCEPT ![t] = SubSeq(@, 1, Len(@) - 1)]
  /\ UNCHANGED <<sync_pc, sync_asleep>>

\* w.run for the next thread.
run(t) ==
  /\ Awake(t) /\ sync_runs[t] # <<>>
  /\ sync_asleep' = sync_asleep \ {Head(sync_runs[t])}
  /\ sync_runs' = [sync_runs EXCEPT ![t] = Tail(@)]
  /\ UNCHANGED <<lockVars, queues, sync_pc, held>>

Next == \E t \in Threads :
  \/ \E m \in {"SH", "EX"} : sync_lock(t, m)
  \/ sync_try_lock(t) \/ sync_unlock(t) \/ run(t)

Spec == Init /\ [][Next]_vars

-----------------------------------------------------------------------------
TypeOK ==
  /\ sync_mode \in {"UN", "SH", "EX"}
  /\ sync_sh_locker \in [Threads -> 0..MaxNest]
  /\ sync_ex_locker \in Threads \cup {NoThread}
  /\ sync_ex_count \in 0..MaxNest
  /\ sync_waiting \in Seq(Threads)
=============================================================================
