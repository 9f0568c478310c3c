------------------------------- MODULE Monitor -------------------------------
(***************************************************************************)
(* Monitors of ruby/lib/monitor.rb: one object with MonitorMixin, one      *)
(* condition variable of it, and the threads that use them.                *)
(*                                                                         *)
(* Scheduling is as in ThreadMutex: a section between Thread.critical =    *)
(* true and the Thread.critical = false or Thread.stop that ends it is one *)
(* step.  The client enters by mon_synchronize, so that a killed thread    *)
(* leaves the monitor by the ensure clauses; a thread is killed only at    *)
(* the points of KillPoints.                                               *)
(***************************************************************************)
EXTENDS MonitorState

CONSTANTS Threads,
          NoThread,   \* nil
          KillPoints, \* values of mon_pc at which a thread may be killed
          MaxDepth    \* bound on nested mon_synchronize

VARIABLES
  dying,     \* the killed threads that execute ensure clauses
  timer,     \* the threads whose timeout_thread is alive
  saved      \* count in ConditionVariable#wait

queues == <<mon_entering_queue, mon_waiting_queue, cv_waiters>>
vars == <<mon_owner, mon_count, queues, mon_pc, asleep, dying, timer, saved, depth>>

At(t, ps) == mon_pc[t] \in ps /\ t \notin asleep
Goto(t, p) == mon_pc' = [mon_pc EXCEPT ![t] = p]

Init ==
  /\ mon_owner = NoThread /\ mon_count = 0
  /\ mon_entering_queue = <<>> /\ mon_waiting_queue = <<>> /\ cv_waiters = <<>>
  /\ mon_pc = [t \in Threads |-> "out"]
  /\ asleep = {} /\ dying = {} /\ timer = {}
  /\ saved = [t \in Threads |-> 0]
  /\ depth = [t \in Threads |-> 0]

-----------------------------------------------------------------------------
BlockedBy(t) == mon_owner \notin {NoThread, t}

Entered(t) ==
  /\ mon_owner' = t
  /\ mon_count' = mon_count + 1
  /\ depth' = [depth EXCEPT ![t] = @ + 1]
  /\ Goto(t, "in")
  /\ UNCHANGED <<queues, asleep, dying, timer, saved>>

\* try_mon_enter; where it returns false nothing has changed.
try_mon_enter(t) ==
  /\ At(t, {"out", "in"}) /\ t \notin dying
  /\ depth[t] < MaxDepth
  /\ ~BlockedBy(t)
  /\ Entered(t)

\* One iteration of the loop in mon_enter, the last one included.
mon_enter(t) ==
  /\ At(t, {"out", "in", "enter"}) /\ t \notin dying
  /\ depth[t] < MaxDepth
  /\ IF BlockedBy(t)
     THEN /\ mon_entering_queue' = Append(mon_entering_queue, t)
          /\ asleep' = asleep \cup {t}
          /\ Goto(t, "enter")
          /\ UNCHANGED <<mon_owner, mon_count, mon_waiting_queue, cv_waiters, dying,
                         timer, saved, depth>>
     ELSE Entered(t)

\* The owner gives the monitor up: the first thread of mon_waiting_queue, or
\* else of mon_entering_queue, is woken.
HandOver ==
  LET fromWaiting == mon_waiting_queue # <<>>
      queue == IF fromWaiting THEN mon_waiting_queue ELSE mon_entering_queue
      rest == IF queue = <<>> THEN <<>> ELSE Tail(queue)
  IN [woken    |-> IF queue = <<>> THEN {} ELSE {Head(queue)},
      waiting  |-> IF fromWaiting THEN rest ELSE mon_waiting_queue,
      entering |-> IF fromWaiting THEN mon_entering_queue ELSE rest]

Passed ==
  /\ mon_owner' = NoThread
  /\ mon_waiting_queue' = HandOver.waiting
  /\ mon_entering_queue' = HandOver.entering

\* mon_exit; the end of a mon_synchronize.
mon_exit(t) ==
  /\ At(t, {"in"})
  /\ mon_owner = t
  /\ mon_count' = mon_count - 1
  /\ depth' = [depth EXCEPT ![t] = @ - 1]
  /\ IF mon_count = 1
     THEN Passed /\ asleep' = asleep \ HandOver.woken
     ELSE UNCHANGED <<mon_owner, mon_waiting_queue, mon_entering_queue, asleep>>
  /\ Goto(t, IF mon_count > 1 THEN "in" ELSE IF t \in dying THEN "dead" ELSE "out")
  /\ UNCHANGED <<cv_waiters, dying, timer, saved>>

-----------------------------------------------------------------------------
(* ConditionVariable.                                                      *)

\* wait up to its first Thread.stop, with and without a timeout.
wait(t) ==
  /\ At(t, {"in"}) /\ t \notin dying
  /\ mon_owner = t
  /\ timer' \in {timer, timer \cup {t}}
  /\ saved' = [saved EXCEPT ![t] = mon_count]
  /\ mon_count' = 0
  /\ Passed
  /\ cv_waiters' = Append(cv_waiters, t)
  /\ asleep' = (asleep \ HandOver.woken) \cup {t}
  /\ Goto(t, "wait")
  /\ UNCHANGED <<dying, depth>>

\* Mutant: a thread that is woken by its timeout stays in @waiters.
InterruptedKept(t) == cv_waiters

\* s without the thread t, which is in it once at most (QueuesMatch).
Without(s, t) ==
  LET i == CHOOSE i \in DOMAIN s : s[i] = t
  IN SubSeq(s, 1, i - 1) \o SubSeq(s, i + 1, Len(s))

\* @waiters without a thread that has not been signalled.
Interrupted(t) == IF t \in Elements(cv_waiters) THEN Without(cv_waiters, t)
                  ELSE cv_waiters

\* Mutant: the count of the owner is 1 after wait.
CountLost(t) == 1
CountRestored(t) == saved[t]

\* The ensure clause of wait: its begin and one iteration of its loop.
rewait(t) ==
  /\ At(t, {"wait", "rewait"})
  /\ timer' = timer \ {t}
  /\ cv_waiters' = IF mon_pc[t] = "wait" THEN Interrupted(t) ELSE cv_waiters
  /\ IF BlockedBy(t)
     THEN /\ mon_waiting_queue' = Append(mon_waiting_queue, t)
          /\ asleep' = asleep \cup {t}
          /\ Goto(t, "rewait")
          /\ UNCHANGED <<mon_owner, mon_count>>
     ELSE /\ mon_owner' = t
          /\ mon_count' = CountRestored(t)
          /\ Goto(t, "in")
          /\ UNCHANGED <<mon_waiting_queue, asleep>>
  /\ UNCHANGED <<mon_entering_queue, dying, saved, depth>>

\* The timeout_thread raises Timeout, which wait rescues.
TimeoutFires(t) ==
  /\ t \in timer
  /\ timer' = timer \ {t}
  /\ asleep' = asleep \ {t}
  /\ UNCHANGED <<mon_owner, mon_count, queues, mon_pc, dying, saved, depth>>

Wake(t, ws, rest) ==
  /\ At(t, {"in"}) /\ t \notin dying
  /\ mon_owner = t
  /\ asleep' = asleep \ ws
  /\ cv_waiters' = rest
  /\ UNCHANGED <<mon_owner, mon_count, mon_entering_queue, mon_waiting_queue, mon_pc,
                 dying, timer, saved, depth>>

signal(t) == cv_waiters # <<>> /\ Wake(t, {Head(cv_waiters)}, Tail(cv_waiters))
broadcast(t) == cv_waiters # <<>> /\ Wake(t, Elements(cv_waiters), <<>>)

\* Thread.kill: the thread unwinds from where it is.
Kill(t) ==
  /\ mon_pc[t] \in KillPoints /\ t \notin dying
  /\ dying' = dying \cup {t}
  /\ asleep' = asleep \ {t}
  /\ Goto(t, IF mon_pc[t] \in {"in", "wait", "rewait"} THEN mon_pc[t] ELSE "dead")
  /\ UNCHANGED <<mon_owner, mon_count, queues, timer, saved, depth>>

Next == \E t \in Threads :
  \/ try_mon_enter(t) \/ mon_enter(t) \/ mon_exit(t) \/ wait(t) \/ rewait(t)
  \/ TimeoutFires(t) \/ signal(t) \/ broadcast(t) \/ Kill(t)

Spec == Init /\ [][Next]_vars

-----------------------------------------------------------------------------
TypeOK ==
  /\ mon_owner \in Threads \cup {NoThread}
  /\ mon_count \in 0..MaxDepth
  /\ \A q \in {mon_entering_queue, mon_waiting_queue, cv_waiters} : q \in Seq(Threads)
  /\ mon_pc \in [Threads -> {"out", "enter", "in", "wait", "rewait", "dead"}]
=============================================================================
