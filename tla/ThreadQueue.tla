----------------------------- MODULE ThreadQueue -----------------------------
(***************************************************************************)
(* Queue and SizedQueue of ruby/lib/thread.rb: one queue and the threads   *)
(* that use it, scheduled as in ThreadMutex.  A critical section is one    *)
(* step; crit names the thread that left one with Thread.critical still    *)
(* true, which then is the only one to run until it ends another section.  *)
(* Of the queued objects only the number matters here.                     *)
(***************************************************************************)
EXTENDS LibraryCalls, Integers, Sequences, FiniteSets

CONSTANTS Sized,      \* is it a SizedQueue
          Clears,     \* does the program call clear
          Maxes,      \* the values SizedQueue.new and max= are given
          MaxLength,  \* bound on the length of a plain Queue
          None        \* no thread

ASSUME NoneAssumption == None \notin Threads
ASSUME SizeAssumption == /\ Sized \in BOOLEAN /\ Clears \in BOOLEAN
                         /\ Maxes # {} /\ Maxes \subseteq Nat \ {0}
                         /\ MaxLength \in Nat

VARIABLES
  length,     \* @que.length
  max,        \* @max
  queueWait,  \* @queue_wait: the threads in SizedQueue#push
  growth,     \* iterations of diff.times left in max=
  crit,       \* the thread that left Thread.critical true, or None
  lost        \* has a wake-up been lost: has it gone to a thread that is not
              \* asleep in the call whose list it stood in, or been owed by a
              \* thread that was killed, or has clear made room for sleepers

\* waiting lists the threads in pop; todo is one thread, or None.
vars == <<length, max, waiting, queueWait, pc, sleeping, todo, growth, crit,
          lost>>

Dead == {t \in Threads : pc[t] = "dead"}

At(t, ps) == pc[t] \in ps /\ t \notin sleeping /\ crit \in {None, t}

Goto(t, p) == pc' = [pc EXCEPT ![t] = p]

\* t is asleep at point p.
Idle(t, p) == t \in sleeping /\ pc[t] = p

\* shift, again while the wakeup raises ThreadError: the list from its first
\* live entry on.
DropDead(s) ==
  LET live == {i \in DOMAIN s : s[i] \notin Dead}
  IN IF live = {} THEN <<>>
     ELSE SubSeq(s, CHOOSE i \in live : \A j \in live : i <= j, Len(s))

Init == /\ length = 0
        /\ max \in Maxes
        /\ waiting = <<>> /\ queueWait = <<>>
        /\ pc = [t \in Threads |-> "idle"]
        /\ sleeping = {}
        /\ todo = [t \in Threads |-> None]
        /\ growth = [t \in Threads |-> 0]
        /\ crit = None
        /\ lost = FALSE

\* The end of a critical section that wakes the first live thread of list s,
\* which is asleep at point p; t goes on to run it once more.
WakeFirst(t, s, p) ==
  /\ Goto(t, "run")
  /\ crit' = None
  /\ IF s = <<>>
     THEN /\ todo' = [todo EXCEPT ![t] = None]
          /\ UNCHANGED <<sleeping, lost>>
     ELSE /\ todo' = [todo EXCEPT ![t] = Head(s)]
          /\ sleeping' = sleeping \ {Head(s)}
          /\ lost' = (lost \/ ~Idle(Head(s), p))

Rest(s) == IF s = <<>> THEN <<>> ELSE Tail(s)

\* Thread.stop at the end of a section, at point p.
Stop(t, p) ==
  /\ Goto(t, p)
  /\ crit' = None
  /\ sleeping' = sleeping \cup {t}
  /\ UNCHANGED <<length, max, todo, growth, lost>>

-----------------------------------------------------------------------------
(* push and pop.                                                           *)

\* Mutant: the length is tested once only.
FullOnce(t) == Sized /\ pc[t] = "idle" /\ length >= max

\* The condition of the loop in SizedQueue#push.
Full(t) == Sized /\ length >= max

\* Mutant: push wakes nobody.
ServedNone(t) == <<>>

\* @waiting when an object has been pushed, the woken thread first.
Served(t) == DropDead(waiting)

\* Queue#push, preceded in a SizedQueue by an iteration of its loop.
push(t) ==
  /\ At(t, {"idle", "push"})
  /\ \/ /\ Full(t)
        /\ Len(queueWait) < MaxWaiting
        /\ queueWait' = Append(queueWait, t)
        /\ Stop(t, "push")
        /\ UNCHANGED waiting
     \/ /\ ~Full(t)
        /\ Sized \/ length < MaxLength
        /\ length' = length + 1
        /\ waiting' = Rest(Served(t))
        /\ WakeFirst(t, Served(t), "pop")
        /\ UNCHANGED <<max, queueWait, growth>>

\* t.run if t; a ThreadError is rescued.
run(t) ==
  /\ At(t, {"run"})
  /\ sleeping' = sleeping \ {todo[t]}
  /\ todo' = [todo EXCEPT ![t] = None]
  /\ Goto(t, "idle")
  /\ UNCHANGED <<length, max, waiting, queueWait, growth, crit, lost>>

\* Queue#pop; a SizedQueue goes on to wake a thread in push.
pop(t) ==
  /\ At(t, {"idle", "pop"})
  /\ \/ /\ length = 0
        /\ Len(waiting) < MaxWaiting
        /\ waiting' = Append(waiting, t)
        /\ Stop(t, "pop")
        /\ UNCHANGED queueWait
     \/ /\ length > 0
        /\ length' = length - 1
        /\ Goto(t, IF Sized THEN "popped" ELSE "idle")
        /\ crit' = None
        /\ UNCHANGED <<max, waiting, queueWait, sleeping, todo, growth, lost>>

\* pop(true) raises ThreadError on an empty queue; either way the section is
\* ended by the ensure clause.
pop_non_block(t) ==
  /\ At(t, {"idle"})
  /\ length = 0
  /\ crit' = None
  /\ UNCHANGED <<length, max, waiting, queueWait, pc, sleeping, todo, growth,
                 lost>>

\* @queue_wait after the thread in front has been taken.
Popped(t) == Rest(DropDead(queueWait))

Room(t) == length < max

\* The rest of SizedQueue#pop.  Thread.critical stays true when the queue has
\* been filled again, or @max lowered, in the meantime.
pop_wake(t) ==
  /\ At(t, {"popped"})
  /\ \/ /\ Room(t)
        /\ queueWait' = Popped(t)
        /\ WakeFirst(t, DropDead(queueWait), "push")
     \/ /\ ~Room(t)
        /\ crit' = t
        /\ Goto(t, "idle")
        /\ UNCHANGED <<queueWait, sleeping, todo, lost>>
  /\ UNCHANGED <<length, max, waiting, growth>>

-----------------------------------------------------------------------------
(* max= and the end of threads.                                            *)

max_set(t, m) ==
  /\ At(t, {"idle"})
  /\ Sized
  /\ max' = m
  /\ crit' = None
  /\ IF m <= max THEN UNCHANGED <<pc, growth>>
     ELSE Goto(t, "grow") /\ growth' = [growth EXCEPT ![t] = m - max]
  /\ UNCHANGED <<length, waiting, queueWait, sleeping, todo, lost>>

\* An iteration of diff.times: the shift, outside any critical section ...
max_shift(t) ==
  /\ At(t, {"grow"})
  /\ IF queueWait = <<>> \/ growth[t] = 0
     THEN /\ Goto(t, IF growth[t] = 0 THEN "idle" ELSE "grow")
          /\ growth' = [growth EXCEPT ![t] = IF @ = 0 THEN 0 ELSE @ - 1]
          /\ UNCHANGED <<queueWait, todo>>
     ELSE /\ todo' = [todo EXCEPT ![t] = Head(queueWait)]
          /\ queueWait' = Tail(queueWait)
          /\ Goto(t, "growing")
          /\ UNCHANGED growth
  /\ UNCHANGED <<length, max, waiting, sleeping, crit, lost>>

\* ... and the run, with a retry of the iteration when it raises ThreadError.
max_run(t) ==
  /\ At(t, {"growing"})
  /\ sleeping' = sleeping \ {todo[t]}
  /\ todo' = [todo EXCEPT ![t] = None]
  /\ growth' = [growth EXCEPT ![t] = IF todo[t] \in Dead THEN @ ELSE @ - 1]
  /\ lost' = (lost \/ (todo[t] \notin Dead /\ ~Idle(todo[t], "push")))
  /\ Goto(t, "grow")
  /\ UNCHANGED <<length, max, waiting, queueWait, crit>>

\* Queue#clear, which a SizedQueue inherits: nobody is woken.
clear(t) ==
  /\ At(t, {"idle"})
  /\ Clears
  /\ length' = 0
  /\ lost' = (lost \/ \E u \in Threads : Idle(u, "push"))
  /\ UNCHANGED <<max, waiting, queueWait, pc, sleeping, todo, growth, crit>>

\* t ends, or is killed between two of its steps; pop's ensure clause resets
\* Thread.critical, which else stays true for the thread that runs next.  The
\* wake-up that t had got, or was to make, is lost with it: of a thread that
\* max= had taken from the list, todo keeps the name.
End(t) ==
  /\ crit \in {None, t}
  /\ pc[t] = "idle" \/ (t \in Killable /\ pc[t] # "dead")
  /\ Goto(t, "dead")
  /\ sleeping' = sleeping \ {t}
  /\ todo' = [todo EXCEPT ![t] = IF pc[t] = "growing" THEN @ ELSE None]
  /\ growth' = [growth EXCEPT ![t] = 0]
  /\ lost' = (lost \/ (t \notin sleeping /\ pc[t] \notin {"idle", "run"}))
  /\ \/ crit = None /\ UNCHANGED crit
     \/ crit = t /\ crit' \in Threads \ (sleeping \cup Dead \cup {t})
     \/ crit = t /\ Threads = sleeping \cup Dead \cup {t} /\ UNCHANGED crit
  /\ UNCHANGED <<length, max, waiting, queueWait>>

Step(t) == \/ push(t) \/ run(t) \/ pop(t) \/ pop_non_block(t) \/ pop_wake(t)
           \/ \E m \in Maxes : max_set(t, m)
           \/ max_shift(t) \/ max_run(t) \/ clear(t) \/ End(t)

Next == \E t \in Threads : Step(t)

Spec == Init /\ [][Next]_vars

-----------------------------------------------------------------------------
(* Properties.                                                             *)

\* push never makes a SizedQueue longer than @max, also when it was woken in
\* its loop and other threads pushed, or lowered @max, before it ran.
BoundKept == [][Sized /\ length' > length => length' <= max]_vars

\* A thread asleep in pop or push is still in its list of waiting threads, or
\* max= has taken it from there to run it, and goes on to unless it was killed.
SleeperListed ==
  \A t \in sleeping :
    /\ pc[t] = "pop" => t \in Range(waiting)
    /\ pc[t] = "push" =>
         \/ t \in Range(queueWait)
         \/ \E u \in Threads : todo[u] = t /\ pc[u] \in {"growing", "dead"}

\* While a thread sleeps in pop, as many threads as the queue has objects have
\* been woken to take them (ChangeLog 2274: get rid of race condition; 7427:
\* fix Queue#pop ... to avoid deadlock), unless a wake-up has been lost.
ConsumerServed ==
  ~lost /\ (\E t \in Threads : Idle(t, "pop")) =>
    length <= Cardinality({u \in Threads \ sleeping : pc[u] = "pop"})

\* While there is room, a thread that sleeps in push has another one before it
\* that is awake, or in the part of pop or max= that is going to wake one,
\* unless a wake-up has been lost.
ProducerServed ==
  ~lost /\ length < max /\ (\E t \in Threads : Idle(t, "push")) =>
    \E u \in Threads \ sleeping : pc[u] \in {"push", "popped", "grow", "growing"}

\* Every call ends with Thread.critical false (ChangeLog 7427: fix Queue#pop
\* and SizedQueue#max= to avoid deadlock).
CriticalReleased == crit = None

\* No thread sleeps for ever in pop while there are objects or in push while
\* there is room, but where the code loses a wake-up: to a stale entry, with a
\* thread that is killed, or by clear.
QueueWakes == SleeperListed /\ ConsumerServed /\ ProducerServed
=============================================================================
