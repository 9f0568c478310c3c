-------------------------- MODULE ThreadMutexProofs --------------------------
(* Mutual exclusion of Mutex, and that no wake-up of it or of its condition  *)
(* variable is lost, for any number of threads.                              *)
EXTENDS ThreadMutex, WellFoundedInduction, TLAPS

Points == {"out", "lock", "in", "unlock", "run", "wait", "cvwait", "relock",
           "signal", "resignal", "dead"}

Types == /\ locked \in BOOLEAN
         /\ holds \subseteq Threads
         /\ pc \in [Threads -> Points]

\* The mutex is locked for its holder, a thread gets to the code that unlocks
\* only as the holder, and no thread that may be killed waits for the condition
\* variable: else its ensure clause would bring it there without the mutex.
Held == holds # {} => locked
Holders == \A t \in Threads : pc[t] \in {"in", "unlock", "wait"} => t \in holds
Unkilled == \A t \in Killable : pc[t] \notin {"wait", "cvwait", "relock"}

Inv == Types /\ Exclusion /\ Held /\ Holders /\ Unkilled

\* Between lock and unlock a thread that may be killed holds the mutex.
LEMMA KillInBlock ==
  ASSUME Inv, NEW t \in Killable, InBlock(t)
  PROVE  t \in holds
BY DEF Inv, Unkilled, InBlock

\* What a step does to the state the invariant is about.
LEMMA StepPreserves ==
  ASSUME Killable \cap CVUsers = {}, Inv, NEW t \in Threads, Step(t)
  PROVE  Inv'
<1> USE ThreadsAssumption DEF Inv, Types, Exclusion, Held, Holders,
                              Unkilled, Points, At, Goto
<1>1. CASE try_lock(t)
  BY <1>1 DEF try_lock, Taken
<1>2. CASE lock(t)
  <2>1. CASE Taken(t) /\ ~locked
    BY <2>1 DEF Taken
  <2>2. CASE /\ Goto(t, IF pc[t] \in {"cvwait", "relock"} THEN "relock" ELSE "lock")
             /\ UNCHANGED <<locked, holds>>
    BY <2>2
  <2>3. QED
    BY <1>2, <2>1, <2>2 DEF lock, Busy
<1>3. CASE unlock_test(t)
  BY <1>3 DEF unlock_test
<1>4. CASE unlock(t)
  BY <1>4 DEF unlock, Release
<1>5. CASE run(t)
  BY <1>5 DEF run, Back
<1>6. CASE wait_test(t)
  BY <1>6 DEF wait_test
<1>7. CASE wait(t)
  BY <1>7 DEF wait, Release
<1>8. CASE signal_shift(t)
  BY <1>8 DEF signal_shift, Back
<1>9. CASE signal_run(t)
  BY <1>9 DEF signal_run, Back
<1>10. CASE broadcast(t)
  BY <1>10 DEF broadcast
<1>11. CASE Kill(t)
  BY <1>11, KillInBlock DEF Kill
<1>12. QED
  BY <1>1, <1>2, <1>3, <1>4, <1>5, <1>6, <1>7, <1>8, <1>9, <1>10, <1>11
     DEF Step

\* Mutex#lock, try_lock, unlock and ConditionVariable#wait keep the mutex to one
\* thread at a time, for every number of threads and every choice of the
\* threads that are killed, as long as these do not wait for the condition
\* variable.
THEOREM MutexExcludes ==
  ASSUME Killable \cap CVUsers = {}
  PROVE  Spec => []Exclusion
<1>1. Init => Inv
  BY ThreadsAssumption
     DEF Init, Inv, Types, Exclusion, Held, Holders, Unkilled, Points
<1>2. Inv /\ [Next]_vars => Inv'
  <2>1. CASE Next
    BY <2>1, StepPreserves DEF Next
  <2>2. CASE UNCHANGED vars
    BY <2>2 DEF vars, Inv, Types, Exclusion, Held, Holders, Unkilled
  <2>3. QED
    BY <2>1, <2>2
<1>3. Inv => Exclusion
  BY DEF Inv
<1>4. QED
  BY <1>1, <1>2, <1>3, PTL DEF Spec

-----------------------------------------------------------------------------
(* No wake-up is lost.                                                      *)

WaitTypes == /\ sleeping \subseteq Threads
             /\ pc \in [Threads -> Points]
             /\ waiting \in Seq(Threads) /\ waiters \in Seq(Threads)
             /\ todo \in [Threads -> Seq(Threads)]

\* Threads sleep in lock or in wait, and a thread has something left to run
\* only where it runs it: one thread in signal.
Asleep == \A t \in sleeping : pc[t] \in Locking \cup {"cvwait"}
Running == \A t \in Threads :
             /\ todo[t] # <<>> => pc[t] \in {"run", "signal"}
             /\ pc[t] = "signal" => Len(todo[t]) = 1

WaitInv == WaitTypes /\ Asleep /\ Running /\ MutexWakes

\* A set of numbers that is not empty has a least one.
LEMMA LeastIndex ==
  ASSUME NEW S, S \subseteq Nat, S # {}
  PROVE  \E n \in S : \A m \in S : n <= m
<1>1. PICK n \in S : \A m \in S : ~(<<m, n>> \in OpToRel(<, Nat))
  BY WFMin, NatLessThanWellFounded
<1>2. \A m \in S : ~(m < n)
  BY <1>1 DEF OpToRel
<1>3. QED
  BY <1>2

\* What follows the first element of a list and the element itself are all of it.
LEMMA HeadOrTail ==
  ASSUME NEW s \in Seq(Threads), s # <<>>
  PROVE  /\ Head(s) \in Threads /\ Tail(s) \in Seq(Threads)
         /\ Head(s) \in Range(s)
         /\ \A t \in Range(s) : t = Head(s) \/ t \in Range(Tail(s))
<1>1. Len(s) \in Nat \ {0} /\ Head(s) = s[1] /\ Tail(s) \in Seq(Threads)
  OBVIOUS
<1>2. Len(Tail(s)) = Len(s) - 1 /\ \A i \in 1..Len(s)-1 : Tail(s)[i] = s[i+1]
  BY <1>1
<1>3. ASSUME NEW i \in DOMAIN s
      PROVE  s[i] = Head(s) \/ s[i] \in Range(Tail(s))
  <2>1. CASE i = 1
    BY <1>1, <2>1
  <2>2. CASE i # 1
    <3>1. i - 1 \in 1..Len(s)-1 /\ i \in 1..Len(s)
      BY <1>1, <2>2
    <3>2. Tail(s)[i-1] = s[i] /\ i - 1 \in DOMAIN Tail(s)
      BY <1>1, <1>2, <3>1
    <3>3. QED
      BY <3>2 DEF Range
  <2>3. QED
    BY <2>1, <2>2
<1>4. QED
  BY <1>1, <1>3 DEF Range

\* The retry of unlock skips dead threads only.
LEMMA DropDeadKeeps ==
  ASSUME NEW s \in Seq(Threads)
  PROVE  /\ DropDead(s) \in Seq(Threads)
         /\ \A t \in Range(s) \ Dead : t \in Range(DropDead(s))
<1> DEFINE live == {i \in DOMAIN s : s[i] \notin Dead}
<1>1. DOMAIN s = 1..Len(s) /\ Len(s) \in Nat
  OBVIOUS
<1>2. CASE live = {}
  BY <1>2 DEF DropDead, Range
<1>3. CASE live # {}
  <2> DEFINE k == CHOOSE i \in live : \A j \in live : i <= j
  <2>0. \E i \in live : \A j \in live : i <= j
    <3>1. live \subseteq Nat
      BY <1>1
    <3> HIDE DEF live
    <3>2. QED
      BY <1>3, <3>1, LeastIndex
  <2>1. k \in live /\ \A j \in live : k <= j
    BY <2>0
  <2>2. DropDead(s) = SubSeq(s, k, Len(s))
    BY <1>3 DEF DropDead
  <2> HIDE DEF k
  <2>3. /\ k \in 1..Len(s)
        /\ SubSeq(s, k, Len(s)) \in Seq(Threads)
        /\ Len(SubSeq(s, k, Len(s))) = Len(s) - k + 1
        /\ \A i \in 1..Len(s)-k+1 : SubSeq(s, k, Len(s))[i] = s[k+i-1]
    BY <1>1, <2>1
  <2>4. ASSUME NEW i \in DOMAIN s, s[i] \notin Dead
        PROVE  s[i] \in Range(DropDead(s))
    <3>1. k <= i /\ i \in 1..Len(s)
      BY <1>1, <2>1, <2>4
    <3>2. i - k + 1 \in 1..Len(s)-k+1 /\ k + (i - k + 1) - 1 = i
      BY <1>1, <2>3, <3>1
    <3>3. SubSeq(s, k, Len(s))[i-k+1] = s[i] /\ i-k+1 \in DOMAIN SubSeq(s, k, Len(s))
      BY <2>3, <3>2
    <3>4. QED
      BY <2>2, <3>3 DEF Range
  <2>5. QED
    BY <2>2, <2>3, <2>4 DEF Range
<1>4. QED
  BY <1>2, <1>3

\* A killed thread stays killed: what is Unharmed after a step was so before.
LEMMA HarmStays ==
  ASSUME WaitTypes, NEW t \in Threads, Step(t), Unharmed'
  PROVE  Unharmed /\ ~Kill(t)
<1> USE DEF Unharmed, WaitTypes, At, Goto
<1>1. ~Kill(t)
  BY DEF Kill
<1>2. pc[t] # "dead"
  BY <1>1 DEF Step, try_lock, lock, unlock_test, unlock, run, wait_test, wait,
              signal_shift, signal_run, broadcast
<1>3. /\ dying' = dying
      /\ \E p \in Points : pc' = [pc EXCEPT ![t] = p]
  <2> USE DEF Points, Back, Taken
  <2>1. CASE try_lock(t)
    BY <2>1 DEF try_lock
  <2>2. CASE lock(t)
    BY <2>2 DEF lock
  <2>3. CASE unlock_test(t)
    BY <2>3 DEF unlock_test
  <2>4. CASE unlock(t)
    BY <2>4 DEF unlock
  <2>5. CASE run(t)
    BY <2>5 DEF run
  <2>6. CASE wait_test(t)
    BY <2>6 DEF wait_test
  <2>7. CASE wait(t)
    BY <2>7 DEF wait
  <2>8. CASE signal_shift(t)
    BY <2>8 DEF signal_shift
  <2>9. CASE signal_run(t)
    BY <2>9 DEF signal_run
  <2>10. CASE broadcast(t)
    BY <2>10 DEF broadcast
  <2>11. QED
    BY <1>1, <2>1, <2>2, <2>3, <2>4, <2>5, <2>6, <2>7, <2>8, <2>9, <2>10 DEF Step
<1>4. \A u \in Threads \ {t} : pc'[u] = pc[u]
  BY <1>3
<1>5. QED
  BY <1>1, <1>2, <1>3, <1>4

\* The critical section of unlock and of wait: a live entry of @waiting stays
\* there or is the one that is woken.
LEMMA ReleaseKeeps ==
  ASSUME WaitTypes, Asleep, LockersListed, NEW t \in Threads, Release(t)
  PROVE  /\ waiting' \in Seq(Threads)
         /\ HandOver(t) \in Seq(Threads)
         /\ HandOver(t) # <<>> => Head(HandOver(t)) \in Threads
         /\ \A u \in sleeping : pc[u] \in Locking =>
              /\ HandOver(t) # <<>>
              /\ u = Head(HandOver(t)) \/ u \in Range(waiting')
<1>1. HandOver(t) = DropDead(waiting) /\ waiting \in Seq(Threads)
  BY DEF HandOver, WaitTypes
<1>2. /\ HandOver(t) \in Seq(Threads)
      /\ \A u \in Range(waiting) \ Dead : u \in Range(HandOver(t))
  BY <1>1, DropDeadKeeps
<1>3. waiting' = IF HandOver(t) = <<>> THEN <<>> ELSE Tail(HandOver(t))
  BY DEF Release
<1>4. \A u \in sleeping : u \notin Dead
  BY DEF Asleep, Dead, Locking
<1>5. ASSUME NEW u \in sleeping, pc[u] \in Locking
      PROVE  u \in Range(HandOver(t)) /\ HandOver(t) # <<>>
  <2>1. u \in Range(HandOver(t))
    BY <1>2, <1>4, <1>5 DEF LockersListed
  <2>2. QED
    BY <2>1 DEF Range
<1> HIDE DEF HandOver
<1>6. QED
  BY <1>2, <1>3, <1>5, HeadOrTail

LEMMA WaitTypesStep ==
  ASSUME WaitInv, NEW t \in Threads, Step(t)
  PROVE  WaitTypes' /\ Asleep' /\ Running'
<1> USE ThreadsAssumption DEF WaitTypes, Asleep, Running, Points, At, Goto, Locking, Back
<1>0. WaitTypes /\ Asleep /\ Running /\ LockersListed
  BY DEF WaitInv, MutexWakes
<1>1. CASE try_lock(t)
  BY <1>0, <1>1 DEF try_lock, Taken
<1>2. CASE lock(t)
  <2>1. CASE Taken(t)
    BY <1>0, <1>2, <2>1 DEF lock, Taken
  <2>2. CASE ~Taken(t)
    <3>1. /\ waiting' = Append(waiting, t) /\ sleeping' = sleeping \cup {t}
          /\ \E p \in Locking : pc' = [pc EXCEPT ![t] = p]
          /\ UNCHANGED <<waiters, todo>>
          /\ todo[t] = <<>>
      BY <1>0, <1>2, <2>2 DEF lock, Enqueue
    <3>2. QED
      BY <1>0, <3>1
  <2>3. QED
    BY <2>1, <2>2
<1>3. CASE unlock_test(t)
  BY <1>0, <1>3 DEF unlock_test
<1>4. CASE unlock(t)
  <2>1. HandOver(t) \in Seq(Threads) /\ waiting' \in Seq(Threads)
    BY <1>0, <1>4, ReleaseKeeps DEF unlock
  <2>2. First(HandOver(t)) \in Seq(Threads)
    BY <2>1, HeadOrTail DEF First
  <2>3. /\ sleeping' \subseteq sleeping
        /\ todo' = [todo EXCEPT ![t] = First(HandOver(t))]
        /\ pc' = [pc EXCEPT ![t] = "run"] /\ waiters' = waiters
        /\ t \notin sleeping
    BY <1>4 DEF unlock
  <2> HIDE DEF HandOver, First
  <2>4. QED
    BY <1>0, <2>1, <2>2, <2>3
<1>5. CASE run(t)
  <2>1. CASE todo[t] = <<>>
    BY <1>0, <1>5, <2>1 DEF run
  <2>2. CASE todo[t] # <<>>
    <3>1. /\ sleeping' \subseteq sleeping
          /\ todo' = [todo EXCEPT ![t] = Tail(todo[t])]
          /\ UNCHANGED <<pc, waiting, waiters>>
          /\ pc[t] = "run" /\ Tail(todo[t]) \in Seq(Threads)
      BY <1>0, <1>5, <2>2, HeadOrTail DEF run
    <3>2. QED
      BY <1>0, <3>1
  <2>3. QED
    BY <2>1, <2>2
<1>6. CASE wait_test(t)
  BY <1>0, <1>6 DEF wait_test
<1>7. CASE wait(t)
  <2>1. waiting' \in Seq(Threads)
    BY <1>0, <1>7, ReleaseKeeps DEF wait
  <2>2. /\ sleeping' \subseteq sleeping \cup {t}
        /\ waiters' = Append(waiters, t)
        /\ pc' = [pc EXCEPT ![t] = "cvwait"] /\ todo' = todo
        /\ todo[t] = <<>>
    BY <1>0, <1>7 DEF wait
  <2>3. QED
    BY <1>0, <2>1, <2>2
<1>8. CASE signal_shift(t)
  <2>1. CASE waiters = <<>>
    BY <1>0, <1>8, <2>1 DEF signal_shift
  <2>2. CASE waiters # <<>>
    <3>1. /\ todo' = [todo EXCEPT ![t] = <<Head(waiters)>>]
          /\ waiters' = Tail(waiters)
          /\ pc' = [pc EXCEPT ![t] = "signal"]
          /\ UNCHANGED <<waiting, sleeping>> /\ t \notin sleeping
      BY <1>8, <2>2 DEF signal_shift
    <3>2. Head(waiters) \in Threads /\ Tail(waiters) \in Seq(Threads)
      BY <1>0, <2>2, HeadOrTail
    <3>3. QED
      BY <1>0, <3>1, <3>2
  <2>3. QED
    BY <2>1, <2>2
<1>9. CASE signal_run(t)
  <2> DEFINE p == IF Head(todo[t]) \in Dead THEN "resignal" ELSE Back(t)
  <2>1. /\ sleeping' \subseteq sleeping
        /\ todo' = [todo EXCEPT ![t] = <<>>]
        /\ pc' = [pc EXCEPT ![t] = p]
        /\ UNCHANGED <<waiting, waiters>> /\ t \notin sleeping
    BY <1>9 DEF signal_run
  <2>2. p \in Points \ {"signal"}
    OBVIOUS
  <2> HIDE DEF p
  <2>3. QED
    BY <1>0, <2>1, <2>2
<1>10. CASE broadcast(t)
  BY <1>0, <1>10 DEF broadcast
<1>11. CASE Kill(t)
  BY <1>0, <1>11 DEF Kill
<1>12. QED
  BY <1>1, <1>2, <1>3, <1>4, <1>5, <1>6, <1>7, <1>8, <1>9, <1>10, <1>11
     DEF Step

\* A sleeper of lock stays in @waiting until the wake-up that takes it out.
LEMMA LockersStep ==
  ASSUME WaitInv, NEW t \in Threads, Step(t)
  PROVE  LockersListed'
<1> USE DEF WaitTypes, Points, At, Goto, Locking
<1>0. WaitTypes /\ Asleep /\ Running /\ LockersListed
  BY DEF WaitInv, MutexWakes
<1>1. CASE lock(t) /\ ~Taken(t)
  <2>1. /\ waiting' = Append(waiting, t) /\ sleeping' = sleeping \cup {t}
        /\ \A u \in Threads \ {t} : pc'[u] = pc[u]
    BY <1>0, <1>1 DEF lock, Enqueue
  <2>2. t \in Range(waiting') /\ Range(waiting) \subseteq Range(waiting')
    <3>1. /\ DOMAIN waiting = 1..Len(waiting)
          /\ DOMAIN waiting' = 1..Len(waiting)+1
          /\ waiting'[Len(waiting)+1] = t
          /\ \A i \in 1..Len(waiting) : waiting'[i] = waiting[i]
          /\ Len(waiting) \in Nat
      BY <1>0, <2>1
    <3>2. QED
      BY <3>1 DEF Range
  <2>3. QED
    BY <1>0, <2>1, <2>2 DEF LockersListed
<1>2. CASE unlock(t) \/ wait(t)
  <2>1. /\ Release(t)
        /\ sleeping' \subseteq sleeping \cup {t}
        /\ HandOver(t) # <<>> => Head(HandOver(t)) \notin sleeping' \/ Head(HandOver(t)) = t
        /\ pc'[t] \notin Locking /\ \A u \in Threads \ {t} : pc'[u] = pc[u]
    BY <1>0, <1>2 DEF unlock, wait
  <2>2. \A u \in sleeping : pc[u] \in Locking =>
          /\ HandOver(t) # <<>>
          /\ u = Head(HandOver(t)) \/ u \in Range(waiting')
    BY <1>0, <2>1, ReleaseKeeps
  <2> HIDE DEF HandOver, Locking
  <2>3. QED
    BY <1>0, <2>1, <2>2 DEF LockersListed
<1>3. CASE ~(lock(t) /\ ~Taken(t)) /\ ~(unlock(t) \/ wait(t))
  <2>1. /\ waiting' = waiting /\ sleeping' \subseteq sleeping
        /\ \A u \in Threads \ {t} : pc'[u] = pc[u]
        /\ pc'[t] = pc[t] \/ t \notin sleeping'
    <3>1. CASE try_lock(t) \/ (lock(t) /\ Taken(t))
      BY <1>0, <3>1 DEF try_lock, lock, Taken
    <3>2. CASE unlock_test(t) \/ wait_test(t)
      BY <1>0, <3>2 DEF unlock_test, wait_test
    <3>3. CASE run(t)
      BY <1>0, <3>3 DEF run
    <3>4. CASE signal_shift(t) \/ signal_run(t) \/ broadcast(t)
      BY <1>0, <3>4 DEF signal_shift, signal_run, broadcast
    <3>5. CASE Kill(t)
      BY <1>0, <3>5 DEF Kill
    <3>6. QED
      BY <1>3, <3>1, <3>2, <3>3, <3>4, <3>5 DEF Step
  <2>2. QED
    BY <1>0, <2>1 DEF LockersListed
<1>4. QED
  BY <1>1, <1>2, <1>3

\* A thread that frees the mutex wakes a thread that is asleep in lock, if there
\* is one; a woken thread is on its way until the mutex is taken.
LEMMA HandOffStep ==
  ASSUME WaitInv, NEW t \in Threads, Step(t)
  PROVE  HandOff'
<1> USE DEF WaitTypes, Points, At, Goto, Locking
<1> SUFFICES ASSUME ~locked', ~misfired', Unharmed',
                    NEW v \in sleeping', pc'[v] \in Locking
             PROVE  \E u \in Threads \ sleeping' : pc'[u] \in Locking \cup {"cvwait"}
  <2>1. WaitTypes'
    BY WaitTypesStep
  <2>2. QED
    BY <2>1 DEF HandOff
<1>0. WaitTypes /\ Asleep /\ Running /\ LockersListed /\ HandOff
  BY DEF WaitInv, MutexWakes
<1>1. Unharmed /\ ~Kill(t)
  BY <1>0, HarmStays
<1>2. CASE unlock(t) \/ wait(t)
  <2>1. /\ Release(t) /\ t \notin sleeping
        /\ sleeping' \subseteq sleeping \cup {t}
        /\ HandOver(t) # <<>> => Head(HandOver(t)) \notin sleeping' \/ Head(HandOver(t)) = t
        /\ pc'[t] \notin Locking /\ \A u \in Threads \ {t} : pc'[u] = pc[u]
    BY <1>0, <1>2 DEF unlock, wait
  <2>2. HandOver(t) # <<>>
    BY <1>0, <2>1, ReleaseKeeps
  <2>3. Head(HandOver(t)) \in sleeping /\ pc[Head(HandOver(t))] \in Locking
    BY <2>1, <2>2 DEF Release
  <2> HIDE DEF HandOver, Locking
  <2>4. QED
    BY <1>0, <2>1, <2>2, <2>3
<1>3. CASE ~(unlock(t) \/ wait(t))
  <2>1. /\ ~locked
        /\ ~misfired /\ sleeping' \subseteq sleeping
        /\ \A u \in Threads \ {t} : pc'[u] = pc[u]
        /\ t \notin sleeping
        /\ pc'[t] = pc[t] \/ pc[t] \notin Locking \cup {"cvwait"}
    <3>1. ~Taken(t)
      BY DEF Taken
    <3>2. CASE unlock_test(t) \/ wait_test(t)
      BY <1>0, <3>2 DEF unlock_test, wait_test
    <3>3. CASE run(t)
      BY <1>0, <3>3 DEF run
    <3>4. CASE signal_shift(t) \/ signal_run(t) \/ broadcast(t)
      BY <1>0, <3>4 DEF signal_shift, signal_run, broadcast
    <3>5. ~lock(t) /\ ~try_lock(t)
      BY <3>1 DEF lock, try_lock, Busy
    <3>6. QED
      BY <1>1, <1>3, <3>2, <3>3, <3>4, <3>5 DEF Step
  <2>2. PICK u \in Threads \ sleeping : pc[u] \in Locking \cup {"cvwait"}
    BY <1>0, <1>1, <2>1 DEF HandOff
  <2>3. QED
    BY <1>0, <2>1, <2>2
<1>4. QED
  BY <1>2, <1>3

\* A sleeper of wait is handed from @waiters to a thread that will run it.
LEMMA WaitersStep ==
  ASSUME WaitInv, NEW t \in Threads, Step(t)
  PROVE  WaiterListed'
<1> USE DEF WaitTypes, Points, At, Goto
<1> SUFFICES ASSUME Unharmed', NEW v \in sleeping', pc'[v] = "cvwait"
             PROVE  v \in Range(waiters') \/ \E u \in Threads : v \in Range(todo'[u])
  <2>1. WaitTypes'
    BY WaitTypesStep
  <2>2. QED
    BY <2>1 DEF WaiterListed
<1>0. WaitTypes /\ Asleep /\ Running /\ LockersListed /\ WaiterListed
  BY DEF WaitInv, MutexWakes
<1>1. Unharmed /\ ~Kill(t)
  BY <1>0, HarmStays
<1>2. CASE wait(t)
  <2>1. /\ waiters' = Append(waiters, t) /\ todo' = todo
        /\ sleeping' \subseteq sleeping \cup {t}
        /\ \A u \in Threads \ {t} : pc'[u] = pc[u]
    BY <1>0, <1>2 DEF wait
  <2>2. t \in Range(waiters') /\ Range(waiters) \subseteq Range(waiters')
    <3>1. /\ DOMAIN waiters = 1..Len(waiters)
          /\ DOMAIN waiters' = 1..Len(waiters)+1
          /\ waiters'[Len(waiters)+1] = t
          /\ \A i \in 1..Len(waiters) : waiters'[i] = waiters[i]
          /\ Len(waiters) \in Nat
      BY <1>0, <2>1
    <3>2. QED
      BY <3>1 DEF Range
  <2>3. QED
    BY <1>0, <1>1, <2>1, <2>2 DEF WaiterListed
<1>3. CASE ~wait(t)
  <2>1. v \in sleeping /\ pc[v] = "cvwait"
    <3>1. CASE try_lock(t)
      BY <1>0, <3>1 DEF try_lock, Taken
    <3>2. CASE lock(t)
      BY <1>0, <3>2 DEF lock, Taken
    <3>3. CASE unlock_test(t) \/ wait_test(t)
      BY <1>0, <3>3 DEF unlock_test, wait_test
    <3>4. CASE unlock(t)
      BY <1>0, <3>4 DEF unlock
    <3>5. CASE run(t)
      BY <1>0, <3>5 DEF run, Back
    <3>6. CASE signal_shift(t) \/ signal_run(t) \/ broadcast(t)
      BY <1>0, <3>6 DEF signal_shift, signal_run, broadcast, Back
    <3>7. QED
      BY <1>1, <1>3, <3>1, <3>2, <3>3, <3>4, <3>5, <3>6 DEF Step
  <2>2. v \in Range(waiters) \/ \E u \in Threads : v \in Range(todo[u])
    BY <1>0, <1>1, <2>1 DEF WaiterListed
  <2>3. CASE UNCHANGED <<waiters, todo>>
    BY <2>2, <2>3
  <2>4. CASE unlock(t)
    <3>1. waiters' = waiters /\ \A u \in Threads \ {t} : todo'[u] = todo[u]
      BY <1>0, <2>4 DEF unlock
    <3>2. todo[t] = <<>>
      BY <1>0, <2>4 DEF unlock, Running
    <3>3. QED
      BY <2>2, <3>1, <3>2 DEF Range
  <2>5. CASE run(t) \/ signal_run(t)
    <3>1. CASE todo[t] = <<>>
      BY <1>0, <2>2, <2>5, <3>1 DEF run, signal_run, Running
    <3>2. CASE todo[t] # <<>>
      <4>1. /\ waiters' = waiters /\ \A u \in Threads \ {t} : todo'[u] = todo[u]
            /\ sleeping' = sleeping \ {Head(todo[t])}
            /\ \/ todo'[t] = Tail(todo[t])
               \/ todo'[t] = <<>> /\ Len(todo[t]) = 1
        BY <1>0, <2>5, <3>2 DEF run, signal_run, Running
      <4>2. todo[t] \in Seq(Threads)
        BY <1>0
      <4>3. \A w \in Range(todo[t]) : w = Head(todo[t]) \/ w \in Range(todo'[t])
        <5>1. CASE todo'[t] = Tail(todo[t])
          BY <3>2, <4>2, <5>1, HeadOrTail
        <5>2. CASE Len(todo[t]) = 1
          BY <4>2, <5>2 DEF Range
        <5>3. QED
          BY <4>1, <5>1, <5>2
      <4>4. QED
        BY <2>2, <4>1, <4>3
    <3>3. QED
      BY <3>1, <3>2
  <2>6. CASE (signal_shift(t) /\ waiters # <<>>) \/ broadcast(t)
    <3>1. todo[t] = <<>> /\ \A u \in Threads \ {t} : todo'[u] = todo[u]
      BY <1>0, <2>6 DEF signal_shift, broadcast, Running
    <3>2. ASSUME v \in Range(waiters)
          PROVE  v \in Range(waiters') \/ v \in Range(todo'[t])
      <4>1. CASE broadcast(t)
        BY <1>0, <3>2, <4>1 DEF broadcast
      <4>2. CASE signal_shift(t) /\ waiters # <<>>
        <5>1. todo'[t] = <<Head(waiters)>> /\ waiters' = Tail(waiters)
          BY <1>0, <4>2 DEF signal_shift
        <5>2. Head(waiters) \in Range(todo'[t])
          BY <5>1 DEF Range
        <5>3. QED
          BY <1>0, <3>2, <4>2, <5>1, <5>2, HeadOrTail
      <4>3. QED
        BY <2>6, <4>1, <4>2
    <3>3. QED
      BY <2>2, <3>1, <3>2 DEF Range
  <2>7. QED
    BY <1>1, <1>3, <2>3, <2>4, <2>5, <2>6
       DEF Step, try_lock, lock, Taken, unlock_test, wait_test, signal_shift
<1>4. QED
  BY <1>2, <1>3

\* No wake-up of Mutex or ConditionVariable is lost, whoever is killed at which
\* point: a thread asleep in lock is in @waiting and one asleep in wait in
\* @waiters, or about to be run, and a free mutex has a thread on its way to it.
THEOREM WakeupsKept == Spec => []MutexWakes
<1>1. Init => WaitInv
  BY DEF Init, WaitInv, WaitTypes, Asleep, Running, MutexWakes, LockersListed,
         HandOff, WaiterListed, MuHandOff, Points
<1>2. WaitInv /\ [Next]_vars => WaitInv'
  <2>1. ASSUME WaitInv, NEW t \in Threads, Step(t)
        PROVE  WaitInv'
    <3>1. MuHandOff'
      <4>1. WaitTypes' /\ Asleep'
        BY <2>1, WaitTypesStep
      <4>2. QED
        BY <4>1 DEF Asleep, MuHandOff, Locking
    <3>2. QED
      BY <2>1, <3>1, WaitTypesStep, LockersStep, HandOffStep, WaitersStep
         DEF WaitInv, MutexWakes
  <2>2. ASSUME WaitInv, UNCHANGED vars
        PROVE  WaitInv'
    BY <2>2 DEF vars, WaitInv, WaitTypes, Asleep, Running, MutexWakes,
                LockersListed, HandOff, WaiterListed, MuHandOff, Unharmed
  <2>3. QED
    BY <2>1, <2>2 DEF Next
<1>3. WaitInv => MutexWakes
  BY DEF WaitInv
<1>4. QED
  BY <1>1, <1>2, <1>3, PTL DEF Spec
=============================================================================
