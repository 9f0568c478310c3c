------------------------------- MODULE MutexM --------------------------------
(***************************************************************************)
(* Module Mutex_m of ruby/lib/mutex_m.rb: one object that includes it and  *)
(* the threads that lock it, scheduled as in ThreadMutex.  The threads in  *)
(* Syncs use mu_synchronize, the others mu_lock and mu_unlock, unlocking   *)
(* only what they hold.                                                    *)
(***************************************************************************)
EXTENDS LibraryCalls, LockHolders, Sequences

CONSTANT Syncs   \* the threads that call mu_synchronize

VARIABLES
  locked,    \* @mu_locked
  dying      \* the killed threads that execute the ensure clause

\* todo is wait in mu_unlock: the threads still to be run.
vars == <<locked, waiting, pc, sleeping, dying, todo, holds>>

Dead == {t \in Threads : pc[t] = "dead"}

At(t, ps) == pc[t] \in ps /\ t \notin sleeping

Goto(t, p) == pc' = [pc EXCEPT ![t] = p]

\* Where t goes when it leaves mu_unlock.
Back(t) == IF t \in dying THEN "dead" ELSE "out"

Init == /\ locked = FALSE
        /\ waiting = <<>>
        /\ pc = [t \in Threads |-> "out"]
        /\ sleeping = {} /\ dying = {}
        /\ todo = [t \in Threads |-> <<>>]
        /\ holds = {}

Taken(t) == /\ locked' = TRUE
            /\ holds' = holds \cup {t}
            /\ Goto(t, "in")
            /\ UNCHANGED <<waiting, sleeping, dying, todo>>

mu_try_lock(t) == At(t, {"out"}) /\ t \notin Syncs /\ ~locked /\ Taken(t)

\* Mutant: @mu_locked is tested once only.
BusyOnce(t) == locked /\ pc[t] = "out"

\* The condition of the loop in mu_lock.
Busy(t) == locked

mu_lock(t) ==
  /\ At(t, {"out", "mu_lock"})
  /\ \/ ~Busy(t) /\ Taken(t)
     \/ /\ Busy(t)
        /\ Len(waiting) < MaxWaiting
        /\ waiting' = Append(waiting, t)
        /\ sleeping' = sleeping \cup {t}
        /\ Goto(t, "mu_lock")
        /\ UNCHANGED <<locked, dying, todo, holds>>

\* return unless @mu_locked, outside the critical section.
mu_unlock_test(t) ==
  /\ At(t, {"in"})
  /\ Goto(t, IF locked THEN "unlock" ELSE Back(t))
  /\ holds' = IF locked THEN holds ELSE holds \ {t}
  /\ UNCHANGED <<locked, waiting, sleeping, dying, todo>>

\* wait = @mu_waiting
Wait(t) == waiting

mu_unlock(t) ==
  /\ At(t, {"unlock"})
  /\ todo' = [todo EXCEPT ![t] = Wait(t)]
  /\ waiting' = <<>>
  /\ locked' = FALSE
  /\ holds' = holds \ {t}
  /\ Goto(t, "run")
  /\ UNCHANGED <<sleeping, dying>>

\* w.run for each; the ThreadError of a dead thread ends the loop.
mu_run(t) ==
  /\ At(t, {"run"})
  /\ IF todo[t] = <<>> \/ Head(todo[t]) \in Dead
     THEN /\ Goto(t, Back(t))
          /\ todo' = [todo EXCEPT ![t] = <<>>]
          /\ UNCHANGED sleeping
     ELSE /\ sleeping' = sleeping \ {Head(todo[t])}
          /\ todo' = [todo EXCEPT ![t] = Tail(@)]
          /\ UNCHANGED pc
  /\ UNCHANGED <<locked, waiting, dying, holds>>

\* Thread#kill of t between two of its steps.  mu_lock is inside the begin of
\* mu_synchronize, so its ensure clause is executed for a waiting thread too.
Kill(t) ==
  /\ t \in Killable \ dying /\ t \notin Dead
  /\ sleeping' = sleeping \ {t}
  /\ todo' = [todo EXCEPT ![t] = <<>>]
  /\ IF t \in Syncs /\ pc[t] \in {"mu_lock", "in"}
     THEN Goto(t, "in") /\ dying' = dying \cup {t}
     ELSE Goto(t, "dead") /\ UNCHANGED dying
  /\ UNCHANGED <<locked, waiting, holds>>

Step(t) == \/ mu_try_lock(t) \/ mu_lock(t)
           \/ mu_unlock_test(t) \/ mu_unlock(t) \/ mu_run(t)
           \/ Kill(t)

Next == \E t \in Threads : Step(t)

Spec == Init /\ [][Next]_vars
=============================================================================
