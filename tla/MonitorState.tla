---------------------------- MODULE MonitorState -----------------------------
(* What the monitors of ruby/lib/monitor.rb promise to the threads that use   *)
(* one of them.                                                               *)
EXTENDS Naturals, Sequences

VARIABLES
  mon_owner, mon_count, mon_entering_queue, mon_waiting_queue,
  cv_waiters,  \* @waiters of the condition variable
  mon_pc,      \* "out", "enter", "in", "wait", "rewait" or "dead"
  asleep,      \* the threads inside Thread.stop
  depth        \* how many mon_synchronize a thread is in

Elements(s) == {s[i] : i \in DOMAIN s}
NoDuplicates(s) == \A i, j \in DOMAIN s : s[i] = s[j] => i = j

\* A thread in the monitor is its owner, with the count of its nested entries,
\* also after a wait ended by a signal, by a timeout or by Thread.kill.
MonitorOwned == \A t \in DOMAIN mon_pc : mon_pc[t] = "in" =>
  mon_owner = t /\ mon_count = depth[t]

\* The queues list the threads that sleep for them, once: nobody sleeps that
\* no wakeup will find, and no wakeup or signal is spent on a thread that no
\* longer waits for it, or raises for a thread that is dead.
QueuesMatch ==
  /\ Elements(mon_entering_queue) = {t \in asleep : mon_pc[t] = "enter"}
  /\ Elements(mon_waiting_queue) = {t \in asleep : mon_pc[t] = "rewait"}
  /\ {t \in asleep : mon_pc[t] = "wait"} \subseteq Elements(cv_waiters)
  /\ \A t \in Elements(cv_waiters) : mon_pc[t] = "wait"
  /\ \A q \in {mon_entering_queue, mon_waiting_queue, cv_waiters} : NoDuplicates(q)

\* A free monitor that threads sleep for has been handed to one of them, who
\* is awake and will take it, or pass it on when another takes it first.
HandedOver ==
  (\E t \in asleep : mon_pc[t] \in {"enter", "rewait"}) /\ mon_owner \notin DOMAIN mon_pc
    => \E t \in DOMAIN mon_pc \ asleep : mon_pc[t] \in {"enter", "wait", "rewait"}

\* No thread sleeps for ever in a monitor by a lost wake-up.
MonitorWakes == QueuesMatch /\ HandedOver
=============================================================================
