----------------------------- MODULE ThreadMutex -----------------------------
(***************************************************************************)
(* Mutex and ConditionVariable of ruby/lib/thread.rb: one mutex, one       *)
(* condition variable and the threads that use them.                       *)
(*                                                                         *)
(* Scheduling is that of ThreadSched seen from Ruby code: any thread that  *)
(* is not asleep may be given the processor between two steps, but not     *)
(* between Thread.critical = true and the Thread.critical = false or       *)
(* Thread.stop that ends the section, which is one step here.              *)
(*                                                                         *)
(* The client is the most general one that unlocks, and waits, only with   *)
(* the mutex held.  A thread of Killable may be killed between any two     *)
(* steps; inside the block of synchronize an ensure clause then unlocks,   *)
(* between lock and unlock nothing does.                                   *)
(***************************************************************************)
EXTENDS LockHolders, MutexWaits, Sequences

CONSTANT CVUsers   \* the threads that call ConditionVariable#wait

\* todo is t in unlock and signal, waiters0 in broadcast.
vars == <<locked, waiting, waiters, pc, sleeping, dying, todo, holds, misfired>>

First(s) == IF s = <<>> THEN <<>> ELSE <<Head(s)>>
Dead == {t \in Threads : pc[t] = "dead"}

\* t executes: it is at one of the points in ps and not asleep.
At(t, ps) == pc[t] \in ps /\ t \notin sleeping

Goto(t, p) == pc' = [pc EXCEPT ![t] = p]

\* The point a call of t returns to.
Back(t) == IF t \in dying THEN "dead" ELSE IF t \in holds THEN "in" ELSE "out"

\* The first entry whose wakeup does not raise ThreadError, and what follows:
\* begin t = @waiting.shift; t.wakeup if t; rescue ThreadError; retry end.
DropDead(s) ==
  LET live == {i \in DOMAIN s : s[i] \notin Dead}
  IN IF live = {} THEN <<>>
     ELSE SubSeq(s, CHOOSE i \in live : \A j \in live : i <= j, Len(s))

Init == /\ locked = FALSE
        /\ waiting = <<>> /\ waiters = <<>>
        /\ pc = [t \in Threads |-> "out"]
        /\ sleeping = {} /\ dying = {}
        /\ todo = [t \in Threads |-> <<>>]
        /\ holds = {}
        /\ misfired = FALSE

-----------------------------------------------------------------------------
(* Mutex.                                                                  *)

Taken(t) == /\ locked' = TRUE
            /\ holds' = holds \cup {t}
            /\ Goto(t, "in")
            /\ UNCHANGED <<waiting, waiters, sleeping, dying, todo, misfired>>

try_lock(t) == At(t, {"out"}) /\ ~locked /\ Taken(t)

\* Mutant: @locked is tested once only.
BusyOnce(t) == locked /\ pc[t] = "out"

\* The condition of the loop in lock, and its @waiting.push.
Busy(t) == locked
Enqueue(t) == Append(waiting, t)

\* One iteration of the loop in lock, the last one included; also the lock at
\* the end of ConditionVariable#wait.
lock(t) ==
  /\ At(t, {"out", "lock", "cvwait", "relock"})
  /\ \/ /\ ~Busy(t)
        /\ Taken(t)
     \/ /\ Busy(t)
        /\ Len(waiting) < MaxWaiting
        /\ waiting' = Enqueue(t)
        /\ sleeping' = sleeping \cup {t}
        /\ Goto(t, IF pc[t] \in {"cvwait", "relock"} THEN "relock" ELSE "lock")
        /\ UNCHANGED <<locked, waiters, dying, todo, holds, misfired>>

\* return unless @locked, outside the critical section.
unlock_test(t) ==
  /\ At(t, {"in"})
  /\ Goto(t, IF locked THEN "unlock" ELSE IF t \in dying THEN "dead" ELSE "out")
  /\ holds' = IF locked THEN holds ELSE holds \ {t}
  /\ UNCHANGED <<locked, waiting, waiters, sleeping, dying, todo, misfired>>

\* Mutant: nobody is woken.
HandOverNone(t) == <<>>

\* @waiting when the mutex is handed over, the woken thread first.
HandOver(t) == DropDead(waiting)

\* The critical section of unlock and exclusive_unlock.
Release(t) ==
  LET queue == HandOver(t) IN
  /\ locked' = FALSE
  /\ holds' = holds \ {t}
  /\ waiting' = IF queue = <<>> THEN <<>> ELSE Tail(queue)
  /\ misfired' = (misfired \/ (queue # <<>> /\ ~(Head(queue) \in sleeping
                                                 /\ pc[Head(queue)] \in Locking)))

unlock(t) ==
  /\ At(t, {"unlock"})
  /\ Release(t)
  /\ sleeping' = IF HandOver(t) = <<>> THEN sleeping ELSE sleeping \ {Head(HandOver(t))}
  /\ todo' = [todo EXCEPT ![t] = First(HandOver(t))]
  /\ Goto(t, "run")
  /\ UNCHANGED <<waiters, dying>>

\* t.run if t, after the critical section, for one thread or, in broadcast,
\* for each; it wakes the thread whatever that is asleep in by now.
run(t) ==
  /\ At(t, {"run"})
  /\ IF todo[t] = <<>>
     THEN Goto(t, Back(t)) /\ UNCHANGED <<sleeping, todo>>
     ELSE /\ sleeping' = sleeping \ {Head(todo[t])}
          /\ todo' = [todo EXCEPT ![t] = Tail(@)]
          /\ UNCHANGED pc
  /\ UNCHANGED <<locked, waiting, waiters, dying, holds, misfired>>

-----------------------------------------------------------------------------
(* ConditionVariable.                                                      *)

\* wait: the test of exclusive_unlock, outside the critical section ...
wait_test(t) ==
  /\ At(t, {"in"}) /\ t \in CVUsers \ dying
  /\ Goto(t, IF locked THEN "wait" ELSE "relock")
  /\ holds' = IF locked THEN holds ELSE holds \ {t}
  /\ UNCHANGED <<locked, waiting, waiters, sleeping, dying, todo, misfired>>

\* ... and the section, up to the Thread.stop of the block.
wait(t) ==
  /\ At(t, {"wait"})
  /\ Len(waiters) < MaxWaiting
  /\ Release(t)
  /\ waiters' = Append(waiters, t)
  /\ sleeping' = {t} \cup (IF HandOver(t) = <<>> THEN sleeping
                           ELSE sleeping \ {Head(HandOver(t))})
  /\ Goto(t, "cvwait")
  /\ UNCHANGED <<dying, todo>>

\* signal: t = @waiters.shift, not in a critical section ...
signal_shift(t) ==
  /\ At(t, {"in", "out", "resignal"}) /\ t \notin dying
  /\ IF waiters = <<>>
     THEN Goto(t, Back(t)) /\ UNCHANGED <<waiters, todo>>
     ELSE /\ todo' = [todo EXCEPT ![t] = <<Head(waiters)>>]
          /\ waiters' = Tail(waiters)
          /\ Goto(t, "signal")
  /\ UNCHANGED <<locked, waiting, sleeping, dying, holds, misfired>>

\* ... then t.run, with a retry when it raises ThreadError.
signal_run(t) ==
  /\ At(t, {"signal"})
  /\ sleeping' = sleeping \ {Head(todo[t])}
  /\ todo' = [todo EXCEPT ![t] = <<>>]
  /\ Goto(t, IF Head(todo[t]) \in Dead THEN "resignal" ELSE Back(t))
  /\ UNCHANGED <<locked, waiting, waiters, dying, holds, misfired>>

\* broadcast takes the whole list at once and runs it afterwards.
broadcast(t) ==
  /\ At(t, {"in", "out"}) /\ t \notin dying
  /\ todo' = [todo EXCEPT ![t] = waiters]
  /\ waiters' = <<>>
  /\ Goto(t, "run")
  /\ UNCHANGED <<locked, waiting, sleeping, dying, holds, misfired>>

-----------------------------------------------------------------------------
(* Thread#kill of t, between two of its steps.                             *)

\* t is between lock and unlock; the wait of a condition variable is.
InBlock(t) == pc[t] \in {"cvwait", "relock"} \/ (t \in holds /\ pc[t] # "unlock")

\* The ensure clause of synchronize is executed if t is in its block, and it is
\* the end of t otherwise; TAG_FATAL is raised once only.
Kill(t) ==
  /\ t \in Killable \ dying /\ t \notin Dead
  /\ sleeping' = sleeping \ {t}
  /\ todo' = [todo EXCEPT ![t] = <<>>]
  /\ \/ /\ InBlock(t)
        /\ Goto(t, "in")
        /\ dying' = dying \cup {t}
     \/ /\ Goto(t, "dead")
        /\ UNCHANGED dying
  /\ UNCHANGED <<locked, waiting, waiters, holds, misfired>>

Step(t) == \/ try_lock(t) \/ lock(t)
           \/ unlock_test(t) \/ unlock(t) \/ run(t)
           \/ wait_test(t) \/ wait(t)
           \/ signal_shift(t) \/ signal_run(t) \/ broadcast(t)
           \/ Kill(t)

Next == \E t \in Threads : Step(t)

Spec == Init /\ [][Next]_vars
=============================================================================
