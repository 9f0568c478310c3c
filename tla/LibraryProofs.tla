---------------------------- MODULE LibraryProofs ----------------------------
(* The bound of SizedQueue and the wake-ups of both queues, for any number   *)
(* of threads and any values of max; mutual exclusion of Mutex_m, and that   *)
(* none of its wake-ups is lost, for any number of threads.                  *)
EXTENDS ThreadQueue, LockHolders, MutexWaits, FiniteSetTheorems,
        WellFoundedInduction, TLAPS

CONSTANT Syncs

Mu == INSTANCE MutexM

Sizes == length \in Nat /\ max \in Nat

\* No step makes the queue longer but a push that finds room.
LEMMA StepBound ==
  ASSUME Sizes, NEW t \in Threads, Step(t)
  PROVE  Sizes' /\ (Sized /\ length' > length => length' <= max)
<1> USE DEF Sizes
<1>1. CASE push(t)
  BY <1>1 DEF push, Full, Stop
<1>2. CASE run(t)
  BY <1>2 DEF run
<1>3. CASE pop(t)
  BY <1>3 DEF pop, Stop
<1>4. CASE pop_non_block(t)
  BY <1>4 DEF pop_non_block
<1>5. CASE pop_wake(t)
  BY <1>5 DEF pop_wake
<1>6. CASE \E m \in Maxes : max_set(t, m)
  BY <1>6, SizeAssumption DEF max_set
<1>7. CASE max_shift(t)
  BY <1>7 DEF max_shift
<1>8. CASE max_run(t)
  BY <1>8 DEF max_run
<1>9. CASE clear(t)
  BY <1>9 DEF clear
<1>10. CASE End(t)
  BY <1>10 DEF End
<1>11. QED
  BY <1>1, <1>2, <1>3, <1>4, <1>5, <1>6, <1>7, <1>8, <1>9, <1>10 DEF Step

\* SizedQueue#push never exceeds @max, for every number of threads and every
\* sequence of changes of max, threads killed and queues cleared included.
THEOREM SizedQueueBound == Spec => BoundKept
<1>1. Init => Sizes
  BY SizeAssumption DEF Init, Sizes
<1>2. Sizes /\ [Next]_vars =>
        Sizes' /\ [Sized /\ length' > length => length' <= max]_vars
  <2>1. CASE Next
    BY <2>1, StepBound DEF Next
  <2>2. CASE UNCHANGED vars
    BY <2>2 DEF vars, Sizes
  <2>3. QED
    BY <2>1, <2>2
<1>3. QED
  BY <1>1, <1>2, PTL DEF Spec, BoundKept

-----------------------------------------------------------------------------
(* Lists of waiting threads.                                                *)

\* A set of numbers that is not empty has a least one.
LEMMA LeastIndex ==
  ASSUME NEW S, S \subseteq Nat, S # {}
  PROVE  \E n \in S : \A m \in S : n <= m
<1>1. PICK n \in S : \A m \in S : ~(<<m, n>> \in OpToRel(<, Nat))
  BY WFMin, NatLessThanWellFounded
<1>2. \A m \in S : ~(m < n)
  BY <1>1 DEF OpToRel
<1>3. QED
  BY <1>2

\* What follows the first element of a list and the element itself are all of it.
LEMMA HeadOrTail ==
  ASSUME NEW s \in Seq(Threads), s # <<>>
  PROVE  /\ Head(s) \in Threads /\ Tail(s) \in Seq(Threads)
         /\ Head(s) \in Range(s) /\ Range(Tail(s)) \subseteq Range(s)
         /\ \A t \in Range(s) : t = Head(s) \/ t \in Range(Tail(s))
<1>1. Len(s) \in Nat \ {0} /\ Head(s) = s[1] /\ Tail(s) \in Seq(Threads)
      /\ DOMAIN s = 1..Len(s)
  OBVIOUS
<1>2. /\ Len(Tail(s)) = Len(s) - 1 /\ DOMAIN Tail(s) = 1..(Len(s) - 1)
      /\ \A i \in 1..(Len(s) - 1) : Tail(s)[i] = s[i+1]
  BY <1>1
<1>3. ASSUME NEW i \in DOMAIN s
      PROVE  s[i] = Head(s) \/ s[i] \in Range(Tail(s))
  <2>1. CASE i = 1
    BY <1>1, <2>1
  <2>2. CASE i # 1
    <3>1. i - 1 \in 1..(Len(s) - 1) /\ i \in 1..Len(s)
      BY <1>1, <2>2
    <3>2. Tail(s)[i-1] = s[i] /\ i - 1 \in DOMAIN Tail(s)
      BY <1>1, <1>2, <3>1
    <3>3. QED
      BY <3>2 DEF Range
  <2>3. QED
    BY <2>1, <2>2
<1>4. \A i \in DOMAIN Tail(s) : i + 1 \in DOMAIN s /\ Tail(s)[i] = s[i + 1]
  BY <1>1, <1>2
<1>5. Range(Tail(s)) \subseteq Range(s)
  BY <1>4 DEF Range
<1>6. 1 \in DOMAIN s /\ Head(s) = s[1]
  BY <1>1
<1>7. Head(s) \in Threads /\ Head(s) \in Range(s)
  BY <1>1, <1>6 DEF Range
<1>8. \A t \in Range(s) : t = Head(s) \/ t \in Range(Tail(s))
  BY <1>3 DEF Range
<1>9. QED
  BY <1>1, <1>5, <1>7, <1>8

LEMMA Appended ==
  ASSUME NEW s \in Seq(Threads), NEW t \in Threads
  PROVE  /\ Append(s, t) \in Seq(Threads)
         /\ Range(Append(s, t)) = Range(s) \cup {t}
<1>1. /\ DOMAIN s = 1..Len(s) /\ Len(s) \in Nat
      /\ DOMAIN Append(s, t) = 1..(Len(s) + 1) /\ Append(s, t) \in Seq(Threads)
      /\ Append(s, t)[Len(s) + 1] = t
      /\ \A i \in 1..Len(s) : Append(s, t)[i] = s[i]
  OBVIOUS
<1>2. \A i \in 1..(Len(s) + 1) : i = Len(s) + 1 \/ i \in 1..Len(s)
  BY <1>1
<1>3. \A i \in 1..Len(s) : i \in 1..(Len(s) + 1)
  BY <1>1
<1>4. Len(s) + 1 \in 1..(Len(s) + 1)
  BY <1>1
<1> DEFINE q == Append(s, t)
<1> HIDE DEF q
<1>5. Range(q) = Range(s) \cup {t}
  BY <1>1, <1>2, <1>3, <1>4 DEF Range, q
<1>6. QED
  BY <1>1, <1>5 DEF q

\* The retry of a shift skips dead threads only.
LEMMA DropDeadKeeps ==
  ASSUME NEW s \in Seq(Threads)
  PROVE  /\ DropDead(s) \in Seq(Threads)
         /\ Range(DropDead(s)) \subseteq Range(s)
         /\ \A t \in Range(s) \ Dead : t \in Range(DropDead(s))
<1> DEFINE live == {i \in DOMAIN s : s[i] \notin Dead}
<1>1. DOMAIN s = 1..Len(s) /\ Len(s) \in Nat
  OBVIOUS
<1>2. CASE live = {}
  BY <1>2 DEF DropDead, Range
<1>3. CASE live # {}
  <2> DEFINE k == CHOOSE i \in live : \A j \in live : i <= j
  <2>0. \E i \in live : \A j \in live : i <= j
    <3>1. live \subseteq Nat
      BY <1>1
    <3> HIDE DEF live
    <3>2. QED
      BY <1>3, <3>1, LeastIndex
  <2>1. k \in live /\ \A j \in live : k <= j
    BY <2>0
  <2>2. DropDead(s) = SubSeq(s, k, Len(s))
    BY <1>3 DEF DropDead
  <2> HIDE DEF k
  <2>3. /\ k \in 1..Len(s)
        /\ SubSeq(s, k, Len(s)) \in Seq(Threads)
        /\ Len(SubSeq(s, k, Len(s))) = Len(s) - k + 1
        /\ DOMAIN SubSeq(s, k, Len(s)) = 1..(Len(s) - k + 1)
        /\ \A i \in 1..Len(s)-k+1 : SubSeq(s, k, Len(s))[i] = s[k+i-1]
    BY <1>1, <2>1
  <2>4. ASSUME NEW i \in DOMAIN s, s[i] \notin Dead
        PROVE  s[i] \in Range(DropDead(s))
    <3>1. k <= i /\ i \in 1..Len(s)
      BY <1>1, <2>1, <2>4
    <3>2. i - k + 1 \in 1..Len(s)-k+1 /\ k + (i - k + 1) - 1 = i
      BY <1>1, <2>3, <3>1
    <3>3. SubSeq(s, k, Len(s))[i-k+1] = s[i] /\ i-k+1 \in DOMAIN SubSeq(s, k, Len(s))
      BY <2>3, <3>2
    <3>4. QED
      BY <2>2, <3>3 DEF Range
  <2>5. \A i \in DOMAIN DropDead(s) : k + i - 1 \in DOMAIN s /\ DropDead(s)[i] = s[k + i - 1]
    BY <1>1, <2>2, <2>3
  <2>6. QED
    BY <2>2, <2>3, <2>4, <2>5 DEF Range
<1>4. QED
  BY <1>2, <1>3

LEMMA RestKeeps ==
  ASSUME NEW s \in Seq(Threads)
  PROVE  /\ Rest(s) \in Seq(Threads) /\ Range(Rest(s)) \subseteq Range(s)
         /\ \A t \in Range(s) : s # <<>> /\ (t = Head(s) \/ t \in Range(Rest(s)))
<1>1. CASE s = <<>>
  BY <1>1 DEF Rest, Range
<1>2. CASE s # <<>>
  BY <1>2, HeadOrTail DEF Rest
<1>3. QED
  BY <1>1, <1>2

-----------------------------------------------------------------------------
(* No wake-up of a queue is lost: the invariant.                            *)

QueuePoints == {"idle", "push", "pop", "popped", "run", "grow", "growing", "dead"}

QueueTypes == /\ length \in Nat /\ max \in Nat
              /\ waiting \in Seq(Threads) /\ queueWait \in Seq(Threads)
              /\ pc \in [Threads -> QueuePoints]
              /\ sleeping \subseteq Threads
              /\ todo \in [Threads -> Threads \cup {None}]
              /\ growth \in [Threads -> Nat]
              /\ lost \in BOOLEAN

\* Threads sleep in pop, and in push of a SizedQueue; they run others where they
\* say so, and have iterations of diff.times left in max= only.
Places == /\ \A t \in sleeping : pc[t] \in {"pop", "push"}
          /\ \A t \in Threads :
               /\ pc[t] = "push" => Sized
               /\ todo[t] # None => pc[t] \in {"run", "growing", "dead"}
               /\ growth[t] > 0 => pc[t] \in {"grow", "growing"}
               /\ pc[t] = "growing" => growth[t] > 0 /\ todo[t] \in Threads

\* A thread killed in max= takes a wake-up with it.
KillsLose == \A t \in Threads : pc[t] = "dead" /\ todo[t] # None => lost

\* The consumers that are awake.
Takers == {u \in Threads \ sleeping : pc[u] = "pop"}

\* What will push, or wake a thread that does: the producers that are awake, the
\* threads in the second part of SizedQueue#pop, each iteration of max=.
Way == {w \in Threads \X Nat :
          IF w[2] = 0 THEN w[1] \notin sleeping /\ pc[w[1]] \in {"push", "popped"}
          ELSE w[2] <= growth[w[1]]}

\* The room is spoken for while a thread is listed that sleeps in push.
RoomPromised ==
  ~lost /\ (\E t \in Threads : Idle(t, "push") /\ t \in Range(queueWait)) =>
    max <= length + Cardinality(Way)

QueueInv == /\ QueueTypes /\ Places /\ KillsLose
            /\ IsFiniteSet(Takers) /\ IsFiniteSet(Way)
            /\ SleeperListed /\ ConsumerServed /\ RoomPromised

\* The room that is promised is given by a thread that is awake.
LEMMA PromiseKept == QueueInv => ProducerServed
<1> SUFFICES ASSUME QueueInv, ~lost, length < max, NEW t \in Threads, Idle(t, "push")
             PROVE  \E u \in Threads \ sleeping : pc[u] \in {"push", "popped", "grow", "growing"}
  BY DEF ProducerServed
<1> USE DEF QueueInv
<1>1. CASE t \in Range(queueWait)
  <2>1. max <= length + Cardinality(Way) /\ Cardinality(Way) \in Nat
    BY <1>1, FS_CardinalityType DEF RoomPromised
  <2>2. Way # {}
    <3>1. Way = {} => Cardinality(Way) = 0
      BY FS_EmptySet, Zenon
    <3>2. length \in Nat /\ max \in Nat
      BY DEF QueueTypes
    <3>3. QED
      BY <2>1, <3>1, <3>2
  <2>3. PICK w \in Way : TRUE
    BY <2>2
  <2>4. CASE w[2] = 0
    BY <2>3, <2>4 DEF Way
  <2>5. CASE w[2] # 0
    <3>1. w[1] \in Threads /\ growth[w[1]] > 0
      BY <2>3, <2>5 DEF Way, QueueTypes
    <3>2. QED
      BY <3>1 DEF Places
  <2>6. QED
    BY <2>4, <2>5
<1>2. CASE t \notin Range(queueWait)
  <2>1. PICK u \in Threads : todo[u] = t /\ pc[u] \in {"growing", "dead"}
    BY <1>2 DEF SleeperListed, Idle
  <2>2. pc[u] = "growing"
    BY <2>1, NoneAssumption DEF KillsLose
  <2>3. QED
    BY <2>2 DEF Places
<1>3. QED
  BY <1>1, <1>2

\* The critical sections of push and pop that wake the first live thread of a
\* list: what is left of the list, and who sleeps.
LEMMA WakeKeeps ==
  ASSUME QueueTypes, Places, NEW t \in Threads, t \notin sleeping,
         NEW list \in Seq(Threads), NEW p \in {"pop", "push"},
         WakeFirst(t, DropDead(list), p)
  PROVE  /\ Rest(DropDead(list)) \in Seq(Threads)
         /\ Range(Rest(DropDead(list))) \subseteq Range(list)
         /\ pc' = [pc EXCEPT ![t] = "run"]
         /\ \E x \in Threads \cup {None} : todo' = [todo EXCEPT ![t] = x]
         /\ lost' \in BOOLEAN /\ (lost => lost')
         /\ \/ /\ \A u \in sleeping : u \notin Range(list)
               /\ sleeping' = sleeping
            \/ \E h \in Threads :
                 /\ sleeping' = sleeping \ {h} /\ (lost' \/ Idle(h, p))
                 /\ \A u \in sleeping : u \in Range(list) =>
                      u = h \/ u \in Range(Rest(DropDead(list)))
<1> DEFINE s == DropDead(list)
<1>1. /\ s \in Seq(Threads) /\ Range(s) \subseteq Range(list)
      /\ \A u \in Range(list) \ Dead : u \in Range(s)
  BY DropDeadKeeps
<1>2. \A u \in sleeping : u \in Range(list) => u \in Range(s)
  BY <1>1 DEF Places, Dead
<1> HIDE DEF s
<1>3. /\ Rest(s) \in Seq(Threads) /\ Range(Rest(s)) \subseteq Range(s)
      /\ \A u \in Range(s) : s # <<>> /\ (u = Head(s) \/ u \in Range(Rest(s)))
  BY <1>1, RestKeeps
<1>4. CASE s = <<>>
  <2>1. /\ pc' = [pc EXCEPT ![t] = "run"] /\ todo' = [todo EXCEPT ![t] = None]
        /\ UNCHANGED <<sleeping, lost>>
    BY <1>4 DEF s, WakeFirst, Goto
  <2>2. \A u \in sleeping : u \notin Range(list)
    BY <1>2, <1>3, <1>4
  <2>3. QED
    BY <1>1, <1>3, <2>1, <2>2 DEF QueueTypes, s
<1>5. CASE s # <<>>
  <2>1. Head(s) \in Threads
    BY <1>1, <1>5, HeadOrTail
  <2>2. /\ pc' = [pc EXCEPT ![t] = "run"] /\ todo' = [todo EXCEPT ![t] = Head(s)]
        /\ sleeping' = sleeping \ {Head(s)} /\ lost' = (lost \/ ~Idle(Head(s), p))
    BY <1>5 DEF s, WakeFirst, Goto
  <2>3. lost' \in BOOLEAN
    BY <2>2 DEF QueueTypes
  <2>4. QED
    BY <1>1, <1>2, <1>3, <2>1, <2>2, <2>3 DEF s
<1>6. QED
  BY <1>4, <1>5

LEMMA WakeTypes ==
  ASSUME QueueTypes, Places, NEW t \in Threads, t \notin sleeping,
         NEW list \in Seq(Threads), NEW p \in {"pop", "push"},
         WakeFirst(t, DropDead(list), p)
  PROVE  /\ Rest(DropDead(list)) \in Seq(Threads)
         /\ pc' = [pc EXCEPT ![t] = "run"]
         /\ \E x \in Threads \cup {None} : todo' = [todo EXCEPT ![t] = x]
         /\ lost' \in BOOLEAN /\ (lost => lost') /\ sleeping' \subseteq sleeping
<1>1. sleeping' = sleeping \/ \E h \in Threads : sleeping' = sleeping \ {h}
  BY WakeKeeps
<1>2. Rest(DropDead(list)) \in Seq(Threads) /\ pc' = [pc EXCEPT ![t] = "run"]
  BY WakeKeeps
<1>3. \E x \in Threads \cup {None} : todo' = [todo EXCEPT ![t] = x]
  BY WakeKeeps
<1>4. lost' \in BOOLEAN /\ (lost => lost')
  BY WakeKeeps
<1>5. QED
  BY <1>1, <1>2, <1>3, <1>4

LEMMA QueueTypesStep ==
  ASSUME QueueInv, NEW t \in Threads, Step(t)
  PROVE  QueueTypes' /\ Places' /\ KillsLose'
<1> USE DEF QueueTypes, Places, KillsLose, QueuePoints, At, Goto
<1>0. QueueTypes /\ Places /\ KillsLose
  BY DEF QueueInv
<1> USE NoneAssumption
<1>1. CASE push(t)
  <2>1. CASE Full(t) /\ Stop(t, "push")
    <3>1. queueWait' = Append(queueWait, t) /\ waiting' = waiting /\ Sized
      BY <1>1, <2>1 DEF push, Full, Stop
    <3>2. queueWait' \in Seq(Threads)
      BY <1>0, <3>1, Appended
    <3>3. QED
      BY <1>0, <1>1, <2>1, <3>1, <3>2 DEF push, Stop
  <2>2. CASE ~Full(t)
    <3>1. /\ length' = length + 1 /\ waiting' = Rest(DropDead(waiting))
          /\ WakeFirst(t, DropDead(waiting), "pop") /\ UNCHANGED <<max, queueWait, growth>>
          /\ pc[t] \in {"idle", "push"} /\ t \notin sleeping
      BY <1>1, <2>2 DEF push, Served
    <3>0. /\ waiting \in Seq(Threads) /\ "pop" \in {"pop", "push"}
          /\ t \notin sleeping /\ WakeFirst(t, DropDead(waiting), "pop")
          /\ waiting' = Rest(DropDead(waiting))
      BY <1>0, <3>1 DEF QueueTypes
    <3>2. /\ waiting' \in Seq(Threads) /\ pc' = [pc EXCEPT ![t] = "run"]
          /\ lost' \in BOOLEAN /\ (lost => lost') /\ sleeping' \subseteq sleeping
      BY <1>0, <3>0, WakeTypes
    <3>3. PICK x \in Threads \cup {None} : todo' = [todo EXCEPT ![t] = x]
      BY <1>0, <3>0, WakeTypes, Zenon
    <3>4. QED
      BY <1>0, <3>1, <3>2, <3>3
  <2>3. QED
    BY <1>1, <2>1, <2>2 DEF push
<1>2. CASE run(t)
  BY <1>0, <1>2 DEF run
<1>3. CASE pop(t)
  <2>1. CASE length = 0
    <3>1. /\ waiting' = Append(waiting, t) /\ pc' = [pc EXCEPT ![t] = "pop"]
          /\ sleeping' = sleeping \cup {t} /\ pc[t] \in {"idle", "pop"}
          /\ UNCHANGED <<length, max, queueWait, todo, growth, lost>>
      BY <1>3, <2>1 DEF pop, Stop
    <3>2. waiting' \in Seq(Threads)
      BY <1>0, <3>1, Appended
    <3>3. QED
      BY <1>0, <3>1, <3>2
  <2>2. CASE length # 0
    <3>1. PICK p \in {"popped", "idle"} : pc' = [pc EXCEPT ![t] = p]
      BY <1>3, <2>2 DEF pop
    <3>2. /\ length' = length - 1 /\ pc[t] \in {"idle", "pop"} /\ t \notin sleeping
          /\ UNCHANGED <<max, waiting, queueWait, sleeping, todo, growth, lost>>
      BY <1>3, <2>2 DEF pop
    <3>3. length - 1 \in Nat
      BY <1>0, <2>2
    <3>4. QED
      BY <1>0, <3>1, <3>2, <3>3
  <2>3. QED
    BY <2>1, <2>2
<1>4. CASE pop_non_block(t)
  BY <1>0, <1>4 DEF pop_non_block
<1>5. CASE pop_wake(t)
  <2>1. CASE Room(t)
    <3>1. /\ queueWait' = Rest(DropDead(queueWait)) /\ WakeFirst(t, DropDead(queueWait), "push")
          /\ UNCHANGED <<length, max, waiting, growth>>
          /\ pc[t] = "popped" /\ t \notin sleeping
      BY <1>5, <2>1 DEF pop_wake, Popped
    <3>0. /\ queueWait \in Seq(Threads) /\ "push" \in {"pop", "push"}
          /\ t \notin sleeping /\ WakeFirst(t, DropDead(queueWait), "push")
          /\ queueWait' = Rest(DropDead(queueWait))
      BY <1>0, <3>1 DEF QueueTypes
    <3>2. /\ queueWait' \in Seq(Threads) /\ pc' = [pc EXCEPT ![t] = "run"]
          /\ lost' \in BOOLEAN /\ (lost => lost') /\ sleeping' \subseteq sleeping
      BY <1>0, <3>0, WakeTypes
    <3>3. PICK x \in Threads \cup {None} : todo' = [todo EXCEPT ![t] = x]
      BY <1>0, <3>0, WakeTypes, Zenon
    <3>4. QED
      BY <1>0, <3>1, <3>2, <3>3
  <2>2. CASE ~Room(t)
    <3>1. /\ pc' = [pc EXCEPT ![t] = "idle"] /\ pc[t] = "popped" /\ t \notin sleeping
          /\ UNCHANGED <<length, max, waiting, queueWait, growth, sleeping, todo, lost>>
      BY <1>5, <2>2 DEF pop_wake
    <3>2. QED
      BY <1>0, <3>1
  <2>3. QED
    BY <2>1, <2>2
<1>6. ASSUME NEW m \in Maxes, max_set(t, m) PROVE QueueTypes' /\ Places' /\ KillsLose'
  <2>1. m \in Nat
    BY SizeAssumption
  <2>2. CASE m <= max
    BY <1>0, <1>6, <2>1, <2>2 DEF max_set
  <2>3. CASE ~(m <= max)
    <3>1. m - max \in Nat /\ m - max > 0
      BY <1>0, <2>1, <2>3
    <3>2. /\ max' = m /\ pc[t] = "idle" /\ t \notin sleeping
          /\ pc' = [pc EXCEPT ![t] = "grow"] /\ growth' = [growth EXCEPT ![t] = m - max]
          /\ UNCHANGED <<length, waiting, queueWait, sleeping, todo, lost>>
      BY <1>6, <2>3 DEF max_set
    <3>3. QED
      BY <1>0, <2>1, <3>1, <3>2
  <2>4. QED
    BY <2>2, <2>3
<1>7. CASE max_shift(t)
  <2>1. CASE growth[t] = 0
    <3>1. /\ pc' = [pc EXCEPT ![t] = "idle"] /\ growth' = [growth EXCEPT ![t] = 0]
          /\ pc[t] = "grow" /\ t \notin sleeping
          /\ UNCHANGED <<length, max, waiting, queueWait, sleeping, todo, lost>>
      BY <1>0, <1>7, <2>1 DEF max_shift
    <3>2. QED
      BY <1>0, <3>1
  <2>2. CASE growth[t] # 0 /\ queueWait = <<>>
    <3>1. /\ pc' = [pc EXCEPT ![t] = "grow"] /\ growth' = [growth EXCEPT ![t] = growth[t] - 1]
          /\ pc[t] = "grow" /\ t \notin sleeping
          /\ UNCHANGED <<length, max, waiting, queueWait, sleeping, todo, lost>>
      BY <1>0, <1>7, <2>2 DEF max_shift
    <3>2. growth[t] - 1 \in Nat
      BY <1>0, <2>2
    <3>3. QED
      BY <1>0, <3>1, <3>2
  <2>3. CASE growth[t] # 0 /\ queueWait # <<>>
    <3>1. Head(queueWait) \in Threads /\ Tail(queueWait) \in Seq(Threads)
      BY <1>0, <2>3, HeadOrTail
    <3>2. growth[t] > 0
      BY <1>0, <2>3
    <3>3. /\ todo' = [todo EXCEPT ![t] = Head(queueWait)] /\ queueWait' = Tail(queueWait)
          /\ pc' = [pc EXCEPT ![t] = "growing"] /\ t \notin sleeping
          /\ UNCHANGED <<length, max, waiting, sleeping, growth, lost>>
      BY <1>7, <2>3 DEF max_shift
    <3>4. QED
      BY <1>0, <3>1, <3>2, <3>3
  <2>4. QED
    BY <2>1, <2>2, <2>3
<1>8. CASE max_run(t)
  <2>1. /\ pc' = [pc EXCEPT ![t] = "grow"] /\ todo' = [todo EXCEPT ![t] = None]
        /\ sleeping' = sleeping \ {todo[t]} /\ pc[t] = "growing" /\ lost' \in BOOLEAN
        /\ (lost => lost') /\ UNCHANGED <<length, max, waiting, queueWait>>
    BY <1>0, <1>8 DEF max_run
  <2>2. PICK n \in Nat : growth' = [growth EXCEPT ![t] = n]
    <3>1. growth[t] \in Nat /\ growth[t] - 1 \in Nat
      BY <1>0, <2>1
    <3>2. growth' = [growth EXCEPT ![t] = IF todo[t] \in Dead THEN growth[t] ELSE growth[t] - 1]
      BY <1>0, <1>8 DEF max_run
    <3>3. QED
      BY <3>1, <3>2
  <2>3. QED
    BY <1>0, <2>1, <2>2
<1>9. CASE clear(t)
  BY <1>0, <1>9 DEF clear
<1>10. CASE End(t)
  <2>1. /\ pc' = [pc EXCEPT ![t] = "dead"] /\ sleeping' = sleeping \ {t}
        /\ growth' = [growth EXCEPT ![t] = 0] /\ pc[t] # "dead" /\ lost' \in BOOLEAN
        /\ (lost => lost') /\ UNCHANGED <<length, max, waiting, queueWait>>
    BY <1>0, <1>10 DEF End
  <2>2. /\ lost' = (lost \/ (t \notin sleeping /\ pc[t] \notin {"idle", "run"}))
        /\ todo' = [todo EXCEPT ![t] = IF pc[t] = "growing" THEN todo[t] ELSE None]
    BY <1>0, <1>10 DEF End
  <2>3. t \in sleeping => pc[t] \in {"pop", "push"}
    BY <1>0
  <2>4. todo[t] \in Threads \cup {None} /\ todo'[t] \in Threads \cup {None}
    BY <1>0, <2>2
  <2>5. QueueTypes' /\ Places'
    BY <1>0, <2>1, <2>2, <2>4
  <2>6. pc'[t] = "dead" /\ todo'[t] # None => lost'
    BY <1>0, <2>2, <2>3
  <2>7. \A u \in Threads \ {t} : pc'[u] = pc[u] /\ todo'[u] = todo[u]
    BY <1>0, <2>1, <2>2
  <2>8. QED
    BY <1>0, <2>1, <2>5, <2>6, <2>7
<1>11. QED
  BY <1>1, <1>2, <1>3, <1>4, <1>5, <1>6, <1>7, <1>8, <1>9, <1>10 DEF Step

-----------------------------------------------------------------------------
(* No wake-up of a queue is lost: who is listed.                            *)

\* t goes to p, and of the other threads none falls asleep and at most x is woken.
Moves(t, p, x) ==
  /\ pc' = [pc EXCEPT ![t] = p]
  /\ \A u \in Threads \ {t} : u \in sleeping' <=> u \in sleeping /\ u # x

\* What a thread that was awake does to no list, and to none of the threads
\* that max= has taken.
LEMMA ListedKept ==
  ASSUME QueueTypes, SleeperListed, NEW t \in Threads, NEW p \in QueuePoints, NEW x,
         Moves(t, p, x), t \notin sleeping', sleeping' \subseteq Threads,
         pc[t] # "dead", pc[t] = "growing" => p = "dead" \/ todo[t] \notin sleeping',
         pc[t] = "growing" /\ p = "dead" => todo'[t] = todo[t],
         \A u \in Threads \ {t} : todo'[u] = todo[u],
         \A u \in sleeping' \cap Range(waiting) : u \in Range(waiting'),
         \A u \in sleeping' \cap Range(queueWait) : u \in Range(queueWait')
  PROVE  SleeperListed'
<1> SUFFICES ASSUME NEW u \in sleeping'
             PROVE  /\ pc'[u] = "pop" => u \in Range(waiting')
                    /\ pc'[u] = "push" =>
                         \/ u \in Range(queueWait')
                         \/ \E v \in Threads : todo'[v] = u /\ pc'[v] \in {"growing", "dead"}
  BY DEF SleeperListed
<1>1. u \in sleeping /\ u # t /\ u \in Threads /\ pc'[u] = pc[u]
  BY DEF Moves, QueueTypes
<1>2. pc[u] = "pop" => u \in Range(waiting')
  BY <1>1 DEF SleeperListed
<1>3. ASSUME pc[u] = "push", u \notin Range(queueWait')
      PROVE  \E v \in Threads : todo'[v] = u /\ pc'[v] \in {"growing", "dead"}
  <2>1. PICK v \in Threads : todo[v] = u /\ pc[v] \in {"growing", "dead"}
    BY <1>1, <1>3 DEF SleeperListed
  <2>2. CASE v = t
    BY <2>1, <2>2 DEF Moves, QueueTypes
  <2>3. CASE v # t
    BY <2>1, <2>3 DEF Moves, QueueTypes
  <2>4. QED
    BY <2>2, <2>3
<1>4. QED
  BY <1>1, <1>2, <1>3

\* A thread that goes to sleep in push or pop has listed itself.
LEMMA ListedAppended ==
  ASSUME QueueTypes, SleeperListed, NEW t \in Threads, NEW p \in {"pop", "push"},
         Moves(t, p, None), sleeping' = sleeping \cup {t},
         pc[t] \notin {"growing", "dead"}, todo' = todo,
         Range(waiting) \subseteq Range(waiting'),
         Range(queueWait) \subseteq Range(queueWait'),
         p = "pop" => t \in Range(waiting'), p = "push" => t \in Range(queueWait')
  PROVE  SleeperListed'
<1> SUFFICES ASSUME NEW u \in sleeping'
             PROVE  /\ pc'[u] = "pop" => u \in Range(waiting')
                    /\ pc'[u] = "push" =>
                         \/ u \in Range(queueWait')
                         \/ \E v \in Threads : todo'[v] = u /\ pc'[v] \in {"growing", "dead"}
  BY DEF SleeperListed
<1>1. CASE u = t
  BY <1>1 DEF Moves, QueueTypes
<1>2. CASE u # t
  <2>1. u \in sleeping /\ pc'[u] = pc[u] /\ u \in Threads
    BY <1>2 DEF Moves, QueueTypes
  <2>2. \A v \in Threads : pc[v] \in {"growing", "dead"} => pc'[v] = pc[v]
    BY DEF Moves, QueueTypes
  <2>3. QED
    BY <2>1, <2>2 DEF SleeperListed
<1>3. QED
  BY <1>1, <1>2

LEMMA SleepersStep ==
  ASSUME QueueInv, QueueTypes', NEW t \in Threads, Step(t)
  PROVE  SleeperListed'
<1> USE NoneAssumption DEF At, Goto
<1>0. /\ QueueTypes /\ Places /\ SleeperListed /\ sleeping' \subseteq Threads
      /\ pc \in [Threads -> QueuePoints] /\ sleeping \subseteq Threads
      /\ waiting \in Seq(Threads) /\ queueWait \in Seq(Threads)
      /\ todo \in [Threads -> Threads \cup {None}]
  BY DEF QueueInv, QueueTypes
<1>1. CASE push(t)
  <2>1. CASE Full(t)
    <3>1. /\ queueWait' = Append(queueWait, t) /\ waiting' = waiting /\ todo' = todo
          /\ pc' = [pc EXCEPT ![t] = "push"] /\ sleeping' = sleeping \cup {t}
          /\ pc[t] \in {"idle", "push"}
      BY <1>1, <2>1 DEF push, Stop
    <3>2. Moves(t, "push", None)
      BY <1>0, <3>1 DEF Moves
    <3>3. Range(queueWait') = Range(queueWait) \cup {t}
      BY <1>0, <3>1, Appended
    <3>4. QED
      BY <1>0, <3>1, <3>2, <3>3, ListedAppended
  <2>2. CASE ~Full(t)
    <3>1. /\ waiting' = Rest(DropDead(waiting)) /\ queueWait' = queueWait
          /\ WakeFirst(t, DropDead(waiting), "pop")
          /\ pc[t] \in {"idle", "push"} /\ t \notin sleeping
      BY <1>1, <2>2 DEF push, Served
    <3>2. /\ pc' = [pc EXCEPT ![t] = "run"]
          /\ \E y \in Threads \cup {None} : todo' = [todo EXCEPT ![t] = y]
          /\ \/ /\ \A u \in sleeping : u \notin Range(waiting)
                /\ sleeping' = sleeping
             \/ \E h \in Threads :
                  /\ sleeping' = sleeping \ {h}
                  /\ \A u \in sleeping : u \in Range(waiting) => u = h \/ u \in Range(waiting')
      BY <1>0, <3>1, WakeKeeps
    <3>3. PICK x \in Threads \cup {None} : sleeping' = sleeping \ {x}
      BY <1>0, <3>2
    <3>4. \A u \in sleeping' \cap Range(waiting) : u \in Range(waiting')
      BY <3>2
    <3>5. Moves(t, "run", x) /\ "run" \in QueuePoints
      BY <3>2, <3>3 DEF Moves, QueuePoints
    <3>6. \A u \in Threads \ {t} : todo'[u] = todo[u]
      BY <1>0, <3>2
    <3>7. QED
      BY <1>0, <3>1, <3>3, <3>4, <3>5, <3>6, ListedKept
  <2>3. QED
    BY <2>1, <2>2
<1>2. CASE run(t)
  <2>1. /\ sleeping' = sleeping \ {todo[t]} /\ todo' = [todo EXCEPT ![t] = None]
        /\ pc' = [pc EXCEPT ![t] = "idle"] /\ UNCHANGED <<waiting, queueWait>>
        /\ pc[t] = "run" /\ t \notin sleeping
    BY <1>2 DEF run
  <2>2. Moves(t, "idle", todo[t]) /\ "idle" \in QueuePoints
    BY <2>1 DEF Moves, QueuePoints
  <2>3. QED
    BY <1>0, <2>1, <2>2, ListedKept
<1>3. CASE pop(t)
  <2>1. CASE length = 0
    <3>1. /\ waiting' = Append(waiting, t) /\ queueWait' = queueWait /\ todo' = todo
          /\ pc' = [pc EXCEPT ![t] = "pop"] /\ sleeping' = sleeping \cup {t}
          /\ pc[t] \in {"idle", "pop"}
      BY <1>3, <2>1 DEF pop, Stop
    <3>2. Moves(t, "pop", None)
      BY <1>0, <3>1 DEF Moves
    <3>3. Range(waiting') = Range(waiting) \cup {t}
      BY <1>0, <3>1, Appended
    <3>4. QED
      BY <1>0, <3>1, <3>2, <3>3, ListedAppended
  <2>2. CASE length # 0
    <3>1. PICK p \in {"popped", "idle"} : pc' = [pc EXCEPT ![t] = p]
      BY <1>3, <2>2 DEF pop
    <3>2. /\ pc[t] \in {"idle", "pop"} /\ t \notin sleeping
          /\ UNCHANGED <<waiting, queueWait, sleeping, todo>>
      BY <1>3, <2>2 DEF pop
    <3>3. Moves(t, p, None) /\ p \in QueuePoints
      BY <1>0, <3>1, <3>2 DEF Moves, QueuePoints
    <3>4. QED
      BY <1>0, <3>2, <3>3, ListedKept
  <2>3. QED
    BY <2>1, <2>2
<1>4. CASE pop_non_block(t)
  BY <1>0, <1>4 DEF pop_non_block, SleeperListed
<1>5. CASE pop_wake(t)
  <2>1. CASE Room(t)
    <3>1. /\ queueWait' = Rest(DropDead(queueWait)) /\ waiting' = waiting
          /\ WakeFirst(t, DropDead(queueWait), "push")
          /\ pc[t] = "popped" /\ t \notin sleeping
      BY <1>5, <2>1 DEF pop_wake, Popped
    <3>2. /\ pc' = [pc EXCEPT ![t] = "run"]
          /\ \E y \in Threads \cup {None} : todo' = [todo EXCEPT ![t] = y]
          /\ \/ /\ \A u \in sleeping : u \notin Range(queueWait)
                /\ sleeping' = sleeping
             \/ \E h \in Threads :
                  /\ sleeping' = sleeping \ {h}
                  /\ \A u \in sleeping : u \in Range(queueWait) => u = h \/ u \in Range(queueWait')
      BY <1>0, <3>1, WakeKeeps
    <3>3. PICK x \in Threads \cup {None} : sleeping' = sleeping \ {x}
      BY <1>0, <3>2
    <3>4. \A u \in sleeping' \cap Range(queueWait) : u \in Range(queueWait')
      BY <3>2
    <3>5. Moves(t, "run", x) /\ "run" \in QueuePoints
      BY <3>2, <3>3 DEF Moves, QueuePoints
    <3>6. \A u \in Threads \ {t} : todo'[u] = todo[u]
      BY <1>0, <3>2
    <3>7. QED
      BY <1>0, <3>1, <3>3, <3>4, <3>5, <3>6, ListedKept
  <2>2. CASE ~Room(t)
    <3>1. /\ pc' = [pc EXCEPT ![t] = "idle"] /\ pc[t] = "popped" /\ t \notin sleeping
          /\ UNCHANGED <<waiting, queueWait, sleeping, todo>>
      BY <1>5, <2>2 DEF pop_wake
    <3>2. Moves(t, "idle", None) /\ "idle" \in QueuePoints
      BY <1>0, <3>1 DEF Moves, QueuePoints
    <3>3. QED
      BY <1>0, <3>1, <3>2, ListedKept
  <2>3. QED
    BY <2>1, <2>2
<1>6. ASSUME NEW m \in Maxes, max_set(t, m) PROVE SleeperListed'
  <2>1. PICK p \in {"idle", "grow"} : pc' = [pc EXCEPT ![t] = p]
    BY <1>0, <1>6 DEF max_set
  <2>2. /\ pc[t] = "idle" /\ t \notin sleeping
        /\ UNCHANGED <<waiting, queueWait, sleeping, todo>>
    BY <1>6 DEF max_set
  <2>3. Moves(t, p, None) /\ p \in QueuePoints
    BY <1>0, <2>1, <2>2 DEF Moves, QueuePoints
  <2>4. QED
    BY <1>0, <2>2, <2>3, ListedKept
<1>7. CASE max_shift(t)
  <2>1. CASE queueWait = <<>> \/ growth[t] = 0
    <3>1. PICK p \in {"idle", "grow"} : pc' = [pc EXCEPT ![t] = p]
      BY <1>7, <2>1 DEF max_shift
    <3>2. /\ pc[t] = "grow" /\ t \notin sleeping
          /\ UNCHANGED <<waiting, queueWait, sleeping, todo>>
      BY <1>7, <2>1 DEF max_shift
    <3>3. Moves(t, p, None) /\ p \in QueuePoints
      BY <1>0, <3>1, <3>2 DEF Moves, QueuePoints
    <3>4. QED
      BY <1>0, <3>2, <3>3, ListedKept
  <2>2. CASE ~(queueWait = <<>> \/ growth[t] = 0)
    <3>1. /\ todo' = [todo EXCEPT ![t] = Head(queueWait)] /\ queueWait' = Tail(queueWait)
          /\ pc' = [pc EXCEPT ![t] = "growing"] /\ UNCHANGED <<waiting, sleeping>>
          /\ pc[t] = "grow" /\ t \notin sleeping
      BY <1>7, <2>2 DEF max_shift
    <3>2. /\ \A u \in Range(queueWait) : u = Head(queueWait) \/ u \in Range(queueWait')
          /\ Head(queueWait) \in Threads
      BY <1>0, <2>2, <3>1, HeadOrTail
    <3> SUFFICES ASSUME NEW u \in sleeping
                 PROVE  /\ pc'[u] = "pop" => u \in Range(waiting)
                        /\ pc'[u] = "push" =>
                             \/ u \in Range(queueWait')
                             \/ \E v \in Threads : todo'[v] = u /\ pc'[v] \in {"growing", "dead"}
      BY <3>1 DEF SleeperListed
    <3>3. u \in Threads \ {t} /\ pc'[u] = pc[u]
      BY <1>0, <3>1
    <3>4. todo'[t] = Head(queueWait) /\ pc'[t] = "growing"
      BY <1>0, <3>1
    <3>5. \A v \in Threads : pc[v] \in {"growing", "dead"} => todo'[v] = todo[v] /\ pc'[v] = pc[v]
      BY <1>0, <3>1
    <3>6. QED
      BY <1>0, <3>2, <3>3, <3>4, <3>5 DEF SleeperListed
  <2>3. QED
    BY <2>1, <2>2
<1>8. CASE max_run(t)
  <2>1. /\ pc' = [pc EXCEPT ![t] = "grow"] /\ todo' = [todo EXCEPT ![t] = None]
        /\ sleeping' = sleeping \ {todo[t]} /\ pc[t] = "growing" /\ t \notin sleeping
        /\ UNCHANGED <<waiting, queueWait>>
    BY <1>8 DEF max_run
  <2>2. Moves(t, "grow", todo[t]) /\ "grow" \in QueuePoints
    BY <2>1 DEF Moves, QueuePoints
  <2>3. QED
    BY <1>0, <2>1, <2>2, ListedKept
<1>9. CASE clear(t)
  BY <1>0, <1>9 DEF clear, SleeperListed
<1>10. CASE End(t)
  <2>1. /\ pc' = [pc EXCEPT ![t] = "dead"] /\ sleeping' = sleeping \ {t}
        /\ todo' = [todo EXCEPT ![t] = IF pc[t] = "growing" THEN todo[t] ELSE None]
        /\ pc[t] # "dead" /\ UNCHANGED <<waiting, queueWait>>
    BY <1>10 DEF End
  <2>2. Moves(t, "dead", None) /\ "dead" \in QueuePoints
    BY <1>0, <2>1 DEF Moves, QueuePoints
  <2>3. QED
    BY <1>0, <2>1, <2>2, ListedKept
<1>11. QED
  BY <1>1, <1>2, <1>3, <1>4, <1>5, <1>6, <1>7, <1>8, <1>9, <1>10 DEF Step

-----------------------------------------------------------------------------
(* No wake-up of a queue is lost: the consumers.                            *)

\* A step after which no consumer that was awake is missing, and no object more.
LEMMA TakersKept ==
  ASSUME QueueTypes, Places, IsFiniteSet(Takers), ConsumerServed, QueueTypes',
         NEW t \in Threads, NEW p \in QueuePoints \ {"pop"}, NEW x, Moves(t, p, x),
         lost => lost', t \notin sleeping /\ pc[t] = "pop" => lost',
         length' <= length
  PROVE  IsFiniteSet(Takers)' /\ ConsumerServed'
<1>0. /\ pc \in [Threads -> QueuePoints] /\ sleeping \subseteq Threads
      /\ sleeping' \subseteq Threads
  BY DEF QueueTypes
<1>1. Takers' \subseteq Takers \cup {x}
  BY <1>0 DEF Takers, Moves
<1>2. IsFiniteSet(Takers \cup {x})
  BY FS_AddElement
<1>3. IsFiniteSet(Takers')
  BY <1>1, <1>2, FS_Subset
<1>4. ASSUME ~lost', NEW u \in Threads, u \in sleeping', pc'[u] = "pop"
      PROVE  length' <= Cardinality(Takers')
  <2>1. Idle(u, "pop")
    BY <1>0, <1>4 DEF Idle, Moves
  <2>2. length <= Cardinality(Takers)
    BY <1>4, <2>1 DEF ConsumerServed, Takers
  <2>3. Takers \subseteq Takers'
    BY <1>0, <1>4 DEF Takers, Moves
  <2>4. Cardinality(Takers) <= Cardinality(Takers')
    BY <1>3, <2>3, FS_Subset
  <2>5. Cardinality(Takers) \in Nat /\ Cardinality(Takers') \in Nat
    BY <1>3, FS_CardinalityType
  <2>6. QED
    BY <2>2, <2>4, <2>5 DEF QueueTypes
<1>5. QED
  BY <1>3, <1>4 DEF ConsumerServed, Takers, Idle

LEMMA ConsumerStep ==
  ASSUME QueueInv, QueueTypes', NEW t \in Threads, Step(t)
  PROVE  IsFiniteSet(Takers)' /\ ConsumerServed'
<1> USE NoneAssumption DEF At, Goto
<1>0. /\ QueueTypes /\ Places /\ SleeperListed /\ ConsumerServed /\ IsFiniteSet(Takers)
      /\ sleeping' \subseteq Threads
      /\ pc \in [Threads -> QueuePoints] /\ sleeping \subseteq Threads
      /\ waiting \in Seq(Threads) /\ queueWait \in Seq(Threads)
      /\ length \in Nat /\ max \in Nat /\ lost \in BOOLEAN
      /\ Cardinality(Takers) \in Nat
  BY FS_CardinalityType DEF QueueInv, QueueTypes
<1>1. CASE push(t)
  <2>1. CASE Full(t)
    <3>1. /\ pc' = [pc EXCEPT ![t] = "push"] /\ sleeping' = sleeping \cup {t}
          /\ pc[t] \in {"idle", "push"} /\ UNCHANGED <<length, lost>>
      BY <1>1, <2>1 DEF push, Stop
    <3>2. Moves(t, "push", None) /\ "push" \in QueuePoints \ {"pop"}
      BY <1>0, <3>1 DEF Moves, QueuePoints
    <3>3. QED
      BY <1>0, <3>1, <3>2, TakersKept
  <2>2. CASE ~Full(t)
    <3>1. /\ length' = length + 1 /\ WakeFirst(t, DropDead(waiting), "pop")
          /\ pc[t] \in {"idle", "push"} /\ t \notin sleeping
      BY <1>1, <2>2 DEF push, Served
    <3>2. /\ pc' = [pc EXCEPT ![t] = "run"]
          /\ lost' \in BOOLEAN /\ (lost => lost')
          /\ \/ /\ \A u \in sleeping : u \notin Range(waiting)
                /\ sleeping' = sleeping
             \/ \E h \in Threads :
                  sleeping' = sleeping \ {h} /\ (lost' \/ Idle(h, "pop"))
      BY <1>0, <3>1, WakeKeeps
    <3>3. CASE (\A u \in sleeping : u \notin Range(waiting)) /\ sleeping' = sleeping
      <4>1. \A u \in sleeping : pc[u] # "pop"
        BY <1>0, <3>3 DEF SleeperListed
      <4>2. \A u \in Threads : pc'[u] = "pop" => pc[u] = "pop"
        BY <1>0, <3>2
      <4>3. ~(\E u \in Threads : Idle(u, "pop"))'
        BY <1>0, <3>3, <4>1, <4>2 DEF Idle
      <4>4. Takers' = Takers
        BY <1>0, <3>1, <3>2, <3>3 DEF Takers
      <4>5. QED
        BY <1>0, <4>3, <4>4 DEF ConsumerServed
    <3>4. ASSUME NEW h \in Threads, sleeping' = sleeping \ {h}, lost' \/ Idle(h, "pop")
          PROVE  IsFiniteSet(Takers') /\ ConsumerServed'
      <4>1. Takers' \subseteq Takers \cup {h}
        BY <1>0, <3>2, <3>4 DEF Takers
      <4>2. /\ IsFiniteSet(Takers \cup {h})
            /\ Cardinality(Takers \cup {h}) =
                 IF h \in Takers THEN Cardinality(Takers) ELSE Cardinality(Takers) + 1
        BY <1>0, FS_AddElement
      <4>3. IsFiniteSet(Takers')
        BY <4>1, <4>2, FS_Subset
      <4>4. ASSUME ~lost', NEW u \in Threads, u \in sleeping', pc'[u] = "pop"
            PROVE  length' <= Cardinality(Takers')
        <5>1. Idle(h, "pop") /\ h # t /\ ~lost
          BY <3>1, <3>2, <3>4, <4>4 DEF Idle
        <5>2. length <= Cardinality(Takers)
          BY <1>0, <5>1 DEF ConsumerServed, Takers
        <5>3. Takers' = Takers \cup {h} /\ h \notin Takers
          BY <1>0, <3>1, <3>2, <3>4, <5>1 DEF Takers, Idle
        <5>4. QED
          BY <1>0, <3>1, <4>2, <5>2, <5>3
      <4>5. QED
        BY <4>3, <4>4 DEF ConsumerServed, Takers, Idle
    <3>5. QED
      BY <3>2, <3>3, <3>4
  <2>3. QED
    BY <2>1, <2>2
<1>2. CASE run(t)
  <2>1. /\ sleeping' = sleeping \ {todo[t]} /\ pc' = [pc EXCEPT ![t] = "idle"]
        /\ pc[t] = "run" /\ UNCHANGED <<length, lost>>
    BY <1>2 DEF run
  <2>2. Moves(t, "idle", todo[t]) /\ "idle" \in QueuePoints \ {"pop"}
    BY <2>1 DEF Moves, QueuePoints
  <2>3. QED
    BY <1>0, <2>1, <2>2, TakersKept
<1>3. CASE pop(t)
  <2>1. CASE length = 0
    <3>1. /\ pc' = [pc EXCEPT ![t] = "pop"] /\ sleeping' = sleeping \cup {t}
          /\ length' = length
      BY <1>3, <2>1 DEF pop, Stop
    <3>2. Takers' \subseteq Takers
      BY <1>0, <3>1 DEF Takers
    <3>3. IsFiniteSet(Takers') /\ Cardinality(Takers') \in Nat
      BY <1>0, <3>2, FS_Subset, FS_CardinalityType
    <3>4. length' <= Cardinality(Takers')
      BY <2>1, <3>1, <3>3
    <3>5. QED
      BY <3>3, <3>4 DEF ConsumerServed, Takers
  <2>2. CASE length # 0
    <3>1. PICK p \in {"popped", "idle"} : pc' = [pc EXCEPT ![t] = p]
      BY <1>3, <2>2 DEF pop
    <3>2. length' = length - 1 /\ UNCHANGED <<sleeping, lost>>
      BY <1>3, <2>2 DEF pop
    <3>3. Takers' = Takers \ {t}
      BY <1>0, <3>1, <3>2 DEF Takers
    <3>4. /\ IsFiniteSet(Takers')
          /\ Cardinality(Takers') =
               IF t \in Takers THEN Cardinality(Takers) - 1 ELSE Cardinality(Takers)
      BY <1>0, <3>3, FS_RemoveElement
    <3>5. \A u \in Threads : u \in sleeping' /\ pc'[u] = "pop" => Idle(u, "pop")
      BY <1>0, <3>1, <3>2 DEF Idle
    <3>6. ASSUME ~lost', NEW u \in Threads, u \in sleeping', pc'[u] = "pop"
          PROVE  length' <= Cardinality(Takers')
      <4>1. length <= Cardinality(Takers)
        BY <1>0, <3>2, <3>5, <3>6 DEF ConsumerServed, Takers
      <4>2. QED
        BY <1>0, <3>2, <3>4, <4>1
    <3>7. QED
      BY <3>4, <3>6 DEF ConsumerServed, Takers, Idle
  <2>3. QED
    BY <2>1, <2>2
<1>4. CASE pop_non_block(t)
  BY <1>0, <1>4 DEF pop_non_block, ConsumerServed, Takers, Idle
<1>5. CASE pop_wake(t)
  <2>1. CASE Room(t)
    <3>1. WakeFirst(t, DropDead(queueWait), "push") /\ pc[t] = "popped" /\ t \notin sleeping
          /\ length' = length
      BY <1>5, <2>1 DEF pop_wake
    <3>2. /\ pc' = [pc EXCEPT ![t] = "run"] /\ (lost => lost')
          /\ (sleeping' = sleeping \/ \E h \in Threads : sleeping' = sleeping \ {h})
      BY <1>0, <3>1, WakeKeeps
    <3>3. PICK x \in Threads \cup {None} : sleeping' = sleeping \ {x}
      BY <1>0, <3>2
    <3>4. Moves(t, "run", x) /\ "run" \in QueuePoints \ {"pop"}
      BY <3>2, <3>3 DEF Moves, QueuePoints
    <3>5. QED
      BY <1>0, <3>1, <3>2, <3>4, TakersKept
  <2>2. CASE ~Room(t)
    <3>1. /\ pc' = [pc EXCEPT ![t] = "idle"] /\ pc[t] = "popped"
          /\ UNCHANGED <<length, sleeping, lost>>
      BY <1>5, <2>2 DEF pop_wake
    <3>2. Moves(t, "idle", None) /\ "idle" \in QueuePoints \ {"pop"}
      BY <1>0, <3>1 DEF Moves, QueuePoints
    <3>3. QED
      BY <1>0, <3>1, <3>2, TakersKept
  <2>3. QED
    BY <2>1, <2>2
<1>6. ASSUME NEW m \in Maxes, max_set(t, m)
      PROVE  IsFiniteSet(Takers') /\ ConsumerServed'
  <2>1. PICK p \in {"idle", "grow"} : pc' = [pc EXCEPT ![t] = p]
    BY <1>0, <1>6 DEF max_set
  <2>2. pc[t] = "idle" /\ UNCHANGED <<length, sleeping, lost>>
    BY <1>6 DEF max_set
  <2>3. Moves(t, p, None) /\ p \in QueuePoints \ {"pop"}
    BY <1>0, <2>1, <2>2 DEF Moves, QueuePoints
  <2>4. QED
    BY <1>0, <2>2, <2>3, TakersKept
<1>7. CASE max_shift(t)
  <2>1. PICK p \in {"idle", "grow", "growing"} : pc' = [pc EXCEPT ![t] = p]
    BY <1>7 DEF max_shift
  <2>2. pc[t] = "grow" /\ UNCHANGED <<length, sleeping, lost>>
    BY <1>7 DEF max_shift
  <2>3. Moves(t, p, None) /\ p \in QueuePoints \ {"pop"}
    BY <1>0, <2>1, <2>2 DEF Moves, QueuePoints
  <2>4. QED
    BY <1>0, <2>2, <2>3, TakersKept
<1>8. CASE max_run(t)
  <2>1. /\ pc' = [pc EXCEPT ![t] = "grow"] /\ sleeping' = sleeping \ {todo[t]}
        /\ pc[t] = "growing" /\ (lost => lost') /\ length' = length
    BY <1>8 DEF max_run
  <2>2. Moves(t, "grow", todo[t]) /\ "grow" \in QueuePoints \ {"pop"}
    BY <2>1 DEF Moves, QueuePoints
  <2>3. QED
    BY <1>0, <2>1, <2>2, TakersKept
<1>9. CASE clear(t)
  <2>1. pc' = pc /\ sleeping' = sleeping /\ length' = 0
    BY <1>9 DEF clear
  <2>2. Takers' = Takers
    BY <2>1 DEF Takers
  <2>3. length' <= Cardinality(Takers')
    BY <1>0, <2>1, <2>2
  <2>4. QED
    BY <1>0, <2>2, <2>3 DEF ConsumerServed, Takers
<1>10. CASE End(t)
  <2>1. /\ pc' = [pc EXCEPT ![t] = "dead"] /\ sleeping' = sleeping \ {t}
        /\ (lost => lost') /\ (t \notin sleeping /\ pc[t] = "pop" => lost')
        /\ length' = length
    BY <1>10 DEF End
  <2>2. Moves(t, "dead", None) /\ "dead" \in QueuePoints \ {"pop"}
    BY <1>0, <2>1 DEF Moves, QueuePoints
  <2>3. QED
    BY <1>0, <2>1, <2>2, TakersKept
<1>11. QED
  BY <1>1, <1>2, <1>3, <1>4, <1>5, <1>6, <1>7, <1>8, <1>9, <1>10 DEF Step

-----------------------------------------------------------------------------
(* No wake-up of a queue is lost: the producers.                            *)

\* A producer that sleeps and is still listed.
Waits(u) == Idle(u, "push") /\ u \in Range(queueWait)

\* What is on its way comes from the woken thread, from t, or was there before.
LEMMA WayFinite ==
  ASSUME QueueTypes, QueueTypes', IsFiniteSet(Way), NEW t \in Threads,
         NEW p \in QueuePoints, NEW x, Moves(t, p, x),
         \A u \in Threads \ {t} : growth'[u] = growth[u]
  PROVE  IsFiniteSet(Way') /\ Cardinality(Way') \in Nat
<1>1. growth'[t] \in Nat
  BY DEF QueueTypes
<1> DEFINE Own == {t} \X (0..growth'[t])
           Woken == {<<x, 0>>}
<1>2. IsFiniteSet(Own)
  <2>1. 0 \in Int /\ growth'[t] \in Int
    BY <1>1
  <2>2. IsFiniteSet(0..growth'[t])
    BY <2>1, FS_Interval
  <2>3. IsFiniteSet({t})
    BY FS_Singleton
  <2>4. QED
    BY <2>2, <2>3, FS_Product
<1>3. IsFiniteSet(Way \cup Own \cup Woken)
  BY <1>2, FS_Union, FS_Singleton
<1>4. ASSUME NEW w \in Way' PROVE w \in Way \cup Own \cup Woken
  <2>1. w = <<w[1], w[2]>> /\ w[1] \in Threads /\ w[2] \in Nat
    BY <1>4 DEF Way
  <2>2. CASE w[1] = t
    <3>1. w[2] \in 0..growth'[t]
      BY <1>1, <1>4, <2>1, <2>2 DEF Way
    <3>2. QED
      BY <2>1, <2>2, <3>1
  <2>3. CASE w[1] # t /\ w[2] # 0
    BY <1>4, <2>1, <2>3 DEF Way
  <2>4. CASE w[1] # t /\ w[2] = 0 /\ w[1] # x
    BY <1>4, <2>1, <2>4 DEF Way, Moves, QueueTypes
  <2>5. CASE w[1] = x /\ w[2] = 0
    BY <2>1, <2>5
  <2>6. QED
    BY <2>2, <2>3, <2>4, <2>5
<1>5. IsFiniteSet(Way')
  <2> HIDE DEF Own, Woken
  <2>1. Way' \subseteq Way \cup Own \cup Woken
    BY <1>4
  <2>2. QED
    BY <1>3, <2>1, FS_Subset
<1>6. QED
  BY <1>5, FS_CardinalityType

\* A step after which no less is on its way, and the room is no larger.
LEMMA WayKept ==
  ASSUME QueueTypes, QueueTypes', IsFiniteSet(Way), IsFiniteSet(Way'), RoomPromised,
         lost => lost', max' <= max, length <= length',
         ~lost' => Way \subseteq Way',
         \A u \in Threads : Waits(u)' => Waits(u)
  PROVE  RoomPromised'
<1>1. ASSUME ~lost', NEW u \in Threads, Waits(u)'
      PROVE  max' <= length' + Cardinality(Way')
  <2>1. max <= length + Cardinality(Way)
    BY <1>1 DEF RoomPromised, Waits
  <2>2. /\ Cardinality(Way) <= Cardinality(Way')
        /\ Cardinality(Way) \in Nat /\ Cardinality(Way') \in Nat
    BY <1>1, FS_Subset, FS_CardinalityType
  <2>3. QED
    BY <2>1, <2>2 DEF QueueTypes
<1>2. QED
  BY <1>1 DEF RoomPromised, Waits

\* A thread that sleeps in push after a step of another one did so before.
LEMMA WaitsBefore ==
  ASSUME QueueTypes, QueueTypes', NEW t \in Threads, NEW p \in QueuePoints, NEW x,
         Moves(t, p, x), t \notin sleeping' \/ p # "push",
         Range(queueWait') \subseteq Range(queueWait)
  PROVE  \A u \in Threads : Waits(u)' => Waits(u) /\ u # t /\ u # x
BY DEF Waits, Idle, Moves, QueueTypes

\* The part of Way that t and the woken thread x have nothing to do with.
LEMMA WaySame ==
  ASSUME QueueTypes, NEW t \in Threads, NEW p \in QueuePoints, NEW x, Moves(t, p, x),
         \A u \in Threads \ {t} : growth'[u] = growth[u],
         NEW w \in Way, w[1] # t
  PROVE  w \in Way'
<1>1. w \in Threads \X Nat /\ w[1] \in Threads
  BY DEF Way
<1>2. CASE w[2] = 0
  BY <1>1, <1>2 DEF Way, Moves, QueueTypes
<1>3. CASE w[2] # 0
  BY <1>1, <1>3 DEF Way
<1>4. QED
  BY <1>2, <1>3

\* A step that leaves out of Way nothing of t, either.
LEMMA WayGrows ==
  ASSUME QueueTypes, QueueTypes', Places, NEW t \in Threads, NEW p \in QueuePoints,
         NEW x, Moves(t, p, x), \A u \in Threads \ {t} : growth'[u] = growth[u],
         growth[t] <= growth'[t],
         t \notin sleeping /\ pc[t] \in {"push", "popped"} =>
           t \notin sleeping' /\ p \in {"push", "popped"}
  PROVE  Way \subseteq Way'
<1> SUFFICES ASSUME NEW w \in Way, w[1] = t PROVE w \in Way'
  BY WaySame
<1>1. w \in Threads \X Nat /\ w[1] \in Threads /\ w[2] \in Nat
  BY DEF Way
<1>2. CASE w[2] = 0
  BY <1>1, <1>2 DEF Way, Moves, QueueTypes
<1>3. CASE w[2] # 0
  BY <1>1, <1>3 DEF Way, QueueTypes
<1>4. QED
  BY <1>2, <1>3

\* A step that gives up one thing on its way.
LEMMA WayLess ==
  ASSUME IsFiniteSet(Way), IsFiniteSet(Way'), NEW v, Way \ {v} \subseteq Way'
  PROVE  Cardinality(Way) <= Cardinality(Way') + 1
<1>1. /\ IsFiniteSet(Way \ {v}) /\ Cardinality(Way) \in Nat /\ Cardinality(Way') \in Nat
      /\ Cardinality(Way \ {v}) = IF v \in Way THEN Cardinality(Way) - 1 ELSE Cardinality(Way)
  BY FS_RemoveElement, FS_CardinalityType
<1>2. Cardinality(Way \ {v}) <= Cardinality(Way')
  BY FS_Subset
<1>3. QED
  BY <1>1, <1>2

\* A step that gives up one thing on its way for another one.
LEMMA WaySwapped ==
  ASSUME IsFiniteSet(Way), IsFiniteSet(Way'), NEW v, NEW w, w \notin Way,
         w \in Way', Way \ {v} \subseteq Way'
  PROVE  Cardinality(Way) <= Cardinality(Way')
<1> DEFINE S == Way \ {v}
<1>1. /\ IsFiniteSet(S) /\ Cardinality(Way) \in Nat /\ w \notin S
      /\ Cardinality(S) = IF v \in Way THEN Cardinality(Way) - 1 ELSE Cardinality(Way)
  BY FS_RemoveElement, FS_CardinalityType
<1> HIDE DEF S
<1>2. Cardinality(S \cup {w}) = Cardinality(S) + 1 /\ IsFiniteSet(S \cup {w})
  BY <1>1, FS_AddElement
<1>3. Cardinality(S \cup {w}) <= Cardinality(Way') /\ Cardinality(Way') \in Nat
  BY FS_Subset, FS_CardinalityType DEF S
<1>4. QED
  BY <1>1, <1>2, <1>3

\* A step that adds n things to what is on its way.
LEMMA WayMore ==
  ASSUME IsFiniteSet(Way), IsFiniteSet(Way'), NEW n \in Nat, NEW t, NEW k \in Nat,
         Way \cup ({t} \X ((k+1)..(k+n))) \subseteq Way',
         Way \cap ({t} \X ((k+1)..(k+n))) = {}
  PROVE  Cardinality(Way) + n <= Cardinality(Way')
<1> DEFINE D == {t} \X ((k+1)..(k+n))
<1>1. IsFiniteSet({t}) /\ Cardinality({t}) = 1
  BY FS_Singleton
<1>2. IsFiniteSet(D) /\ Cardinality(D) = n
  <2>1. /\ k + 1 \in Int /\ k + n \in Int
        /\ n = IF k + 1 > k + n THEN 0 ELSE (k + n) - (k + 1) + 1
    OBVIOUS
  <2>2. IsFiniteSet((k+1)..(k+n)) /\ Cardinality((k+1)..(k+n)) = n
    BY <2>1, FS_Interval
  <2>3. /\ IsFiniteSet(D)
        /\ Cardinality(D) = Cardinality({t}) * Cardinality((k+1)..(k+n))
    BY <1>1, <2>2, FS_Product
  <2>4. 1 * n = n
    OBVIOUS
  <2>5. QED
    BY <1>1, <2>2, <2>3, <2>4
<1> HIDE DEF D
<1>3. Way \cup D \subseteq Way' /\ Way \cap D = {}
  BY DEF D
<1>4. /\ IsFiniteSet(Way \cup D)
      /\ Cardinality(Way \cup D) = Cardinality(Way) + Cardinality(D) - Cardinality(Way \cap D)
  BY <1>2, FS_Union
<1>5. /\ Cardinality(Way) \in Nat /\ Cardinality(Way') \in Nat
      /\ Cardinality(Way \cup D) <= Cardinality(Way') /\ Cardinality(Way \cap D) = 0
  BY <1>3, FS_Subset, FS_CardinalityType, FS_EmptySet
<1>6. QED
  BY <1>2, <1>4, <1>5

\* A step that does neither to Way, with the iterations of max= as they were.
LEMMA WayStays ==
  ASSUME QueueTypes, QueueTypes', Places, IsFiniteSet(Way), NEW t \in Threads,
         NEW p \in QueuePoints, NEW x, Moves(t, p, x), growth' = growth,
         t \notin sleeping => pc[t] \notin {"push", "popped"}
  PROVE  IsFiniteSet(Way') /\ Cardinality(Way') \in Nat /\ Way \subseteq Way'
<1>1. growth[t] <= growth'[t]
  BY DEF QueueTypes
<1>2. \A u \in Threads \ {t} : growth'[u] = growth[u]
  OBVIOUS
<1>3. IsFiniteSet(Way') /\ Cardinality(Way') \in Nat
  BY <1>2, WayFinite
<1>4. Way \subseteq Way'
  BY <1>1, <1>2, WayGrows
<1>5. QED
  BY <1>3, <1>4

LEMMA RoomStep ==
  ASSUME QueueInv, QueueTypes', Places', NEW t \in Threads, Step(t)
  PROVE  IsFiniteSet(Way)' /\ RoomPromised'
<1> USE NoneAssumption DEF At, Goto
<1>0. /\ QueueTypes /\ Places /\ RoomPromised /\ IsFiniteSet(Way)
      /\ sleeping' \subseteq Threads
      /\ pc \in [Threads -> QueuePoints] /\ sleeping \subseteq Threads
      /\ waiting \in Seq(Threads) /\ queueWait \in Seq(Threads)
      /\ length \in Nat /\ max \in Nat /\ lost \in BOOLEAN
      /\ growth \in [Threads -> Nat] /\ growth[t] \in Nat
      /\ Cardinality(Way) \in Nat
  BY FS_CardinalityType DEF QueueInv, QueueTypes
<1>1. CASE push(t)
  <2>1. CASE Full(t)
    <3>1. /\ pc' = [pc EXCEPT ![t] = "push"] /\ sleeping' = sleeping \cup {t}
          /\ growth' = growth /\ length >= max /\ length' = length /\ max' = max
      BY <1>1, <2>1 DEF push, Stop, Full
    <3>2. Moves(t, "push", None) /\ "push" \in QueuePoints
      BY <1>0, <3>1 DEF Moves, QueuePoints
    <3>3. IsFiniteSet(Way') /\ Cardinality(Way') \in Nat
      BY <1>0, <3>1, <3>2, WayFinite
    <3>4. max' <= length' + Cardinality(Way')
      BY <1>0, <3>1, <3>3
    <3>5. QED
      BY <3>3, <3>4 DEF RoomPromised
  <2>2. CASE ~Full(t)
    <3>1. /\ length' = length + 1 /\ WakeFirst(t, DropDead(waiting), "pop")
          /\ pc[t] \in {"idle", "push"} /\ t \notin sleeping
          /\ UNCHANGED <<max, queueWait, growth>>
      BY <1>1, <2>2 DEF push, Served
    <3>2. /\ pc' = [pc EXCEPT ![t] = "run"] /\ (lost => lost')
          /\ (sleeping' = sleeping \/ \E h \in Threads : sleeping' = sleeping \ {h})
      BY <1>0, <3>1, WakeKeeps
    <3>3. PICK x \in Threads \cup {None} : sleeping' = sleeping \ {x}
      <4>1. sleeping \ {None} = sleeping
        BY <1>0
      <4>2. QED
        BY <3>2, <4>1
    <3>4. Moves(t, "run", x) /\ "run" \in QueuePoints
      BY <3>2, <3>3 DEF Moves, QueuePoints
    <3>5. IsFiniteSet(Way') /\ Cardinality(Way') \in Nat
      BY <1>0, <3>1, <3>4, WayFinite
    <3>6. \A u \in Threads : Waits(u)' => Waits(u)
      BY <1>0, <3>1, <3>4, WaitsBefore
    <3>7. Way \ {<<t, 0>>} \subseteq Way'
      <4> SUFFICES ASSUME NEW w \in Way, w # <<t, 0>>, w[1] = t PROVE w \in Way'
        BY <1>0, <3>1, <3>4, WaySame
      <4>1. w \in Threads \X Nat /\ w[2] # 0
        BY DEF Way
      <4>2. QED
        BY <3>1, <4>1 DEF Way
    <3>8. Cardinality(Way) <= Cardinality(Way') + 1
      BY <1>0, <3>5, <3>7, WayLess
    <3>9. ASSUME ~lost', NEW u \in Threads, Waits(u)'
          PROVE  max' <= length' + Cardinality(Way')
      <4>1. max <= length + Cardinality(Way)
        BY <3>2, <3>6, <3>9 DEF RoomPromised, Waits, QueueInv
      <4>2. QED
        BY <1>0, <3>1, <3>5, <3>8, <4>1
    <3>10. QED
      BY <3>5, <3>9 DEF RoomPromised, Waits
  <2>3. QED
    BY <2>1, <2>2
<1>2. CASE run(t)
  <2>1. /\ sleeping' = sleeping \ {todo[t]} /\ pc' = [pc EXCEPT ![t] = "idle"]
        /\ pc[t] = "run" /\ UNCHANGED <<length, max, growth, queueWait, lost>>
    BY <1>2 DEF run
  <2>2. Moves(t, "idle", todo[t]) /\ "idle" \in QueuePoints
    BY <2>1 DEF Moves, QueuePoints
  <2>3. IsFiniteSet(Way') /\ Way \subseteq Way'
    BY <1>0, <2>1, <2>2, WayStays
  <2>4. \A u \in Threads : Waits(u)' => Waits(u)
    BY <1>0, <2>1, <2>2, WaitsBefore
  <2>5. max' <= max /\ length <= length'
    BY <1>0, <2>1
  <2>6. QED
    BY <1>0, <2>1, <2>3, <2>4, <2>5, WayKept
<1>3. CASE pop(t)
  <2>1. CASE length = 0
    <3>1. /\ pc' = [pc EXCEPT ![t] = "pop"] /\ sleeping' = sleeping \cup {t}
          /\ UNCHANGED <<length, max, growth, queueWait, lost>>
          /\ pc[t] \in {"idle", "pop"}
      BY <1>3, <2>1 DEF pop, Stop
    <3>2. Moves(t, "pop", None) /\ "pop" \in QueuePoints
      BY <1>0, <3>1 DEF Moves, QueuePoints
    <3>3. IsFiniteSet(Way') /\ Way \subseteq Way'
      BY <1>0, <3>1, <3>2, WayStays
    <3>4. \A u \in Threads : Waits(u)' => Waits(u)
      BY <1>0, <3>1, <3>2, WaitsBefore
    <3>5. max' <= max /\ length <= length'
      BY <1>0, <3>1
    <3>6. QED
      BY <1>0, <3>1, <3>3, <3>4, <3>5, WayKept
  <2>2. CASE length # 0
    <3>1. PICK p \in {"popped", "idle"} : pc' = [pc EXCEPT ![t] = p] /\ (Sized => p = "popped")
      BY <1>3, <2>2 DEF pop
    <3>2. /\ length' = length - 1 /\ pc[t] \in {"idle", "pop"} /\ t \notin sleeping
          /\ UNCHANGED <<max, queueWait, sleeping, growth, lost>>
      BY <1>3, <2>2 DEF pop
    <3>3. Moves(t, p, None) /\ p \in QueuePoints
      BY <1>0, <3>1, <3>2 DEF Moves, QueuePoints
    <3>4. IsFiniteSet(Way') /\ Cardinality(Way') \in Nat /\ Way \subseteq Way'
      BY <1>0, <3>2, <3>3, WayStays
    <3>5. \A u \in Threads : Waits(u)' => Waits(u)
      BY <1>0, <3>1, <3>2, <3>3, WaitsBefore
    <3>6. ASSUME ~lost', NEW u \in Threads, Waits(u)'
          PROVE  max' <= length' + Cardinality(Way')
      <4>1. max <= length + Cardinality(Way)
        BY <3>2, <3>5, <3>6 DEF RoomPromised, Waits, QueueInv
      <4>2. p = "popped"
        BY <3>1, <3>5, <3>6 DEF Waits, Idle, QueueInv, Places
      <4>3. <<t, 0>> \in Way' /\ <<t, 0>> \notin Way
        BY <1>0, <3>1, <3>2, <4>2 DEF Way
      <4>4. /\ Cardinality(Way \cup {<<t, 0>>}) = Cardinality(Way) + 1
            /\ Cardinality(Way \cup {<<t, 0>>}) <= Cardinality(Way')
        <5>1. Cardinality(Way \cup {<<t, 0>>}) = Cardinality(Way) + 1
          BY <1>0, <4>3, FS_AddElement
        <5>2. Way \cup {<<t, 0>>} \subseteq Way'
          BY <3>4, <4>3
        <5>3. Cardinality(Way \cup {<<t, 0>>}) <= Cardinality(Way')
          BY <3>4, <5>2, FS_Subset
        <5>4. QED
          BY <5>1, <5>3
      <4>5. QED
        BY <1>0, <3>2, <3>4, <4>1, <4>4
    <3>7. QED
      BY <3>4, <3>6 DEF RoomPromised, Waits
  <2>3. QED
    BY <2>1, <2>2
<1>4. CASE pop_non_block(t)
  BY <1>0, <1>4 DEF pop_non_block, RoomPromised, Way, Idle
<1>5. CASE pop_wake(t)
  <2>1. CASE Room(t)
    <3>1. /\ queueWait' = Rest(DropDead(queueWait)) /\ WakeFirst(t, DropDead(queueWait), "push")
          /\ pc[t] = "popped" /\ t \notin sleeping /\ UNCHANGED <<length, max, growth>>
      BY <1>5, <2>1 DEF pop_wake, Popped
    <3>2. /\ pc' = [pc EXCEPT ![t] = "run"] /\ (lost => lost')
          /\ Range(queueWait') \subseteq Range(queueWait)
          /\ \/ /\ \A u \in sleeping : u \notin Range(queueWait)
                /\ sleeping' = sleeping
             \/ \E h \in Threads :
                  sleeping' = sleeping \ {h} /\ (lost' \/ Idle(h, "push"))
      BY <1>0, <3>1, WakeKeeps
    <3>3. PICK x \in Threads \cup {None} : sleeping' = sleeping \ {x}
      <4>1. sleeping \ {None} = sleeping
        BY <1>0
      <4>2. QED
        BY <3>2, <4>1
    <3>4. Moves(t, "run", x) /\ "run" \in QueuePoints
      BY <3>2, <3>3 DEF Moves, QueuePoints
    <3>5. IsFiniteSet(Way') /\ Cardinality(Way') \in Nat
      BY <1>0, <3>1, <3>4, WayFinite
    <3>6. \A u \in Threads : Waits(u)' => Waits(u) /\ u \in sleeping
      BY <1>0, <3>1, <3>2, <3>4, WaitsBefore DEF Waits, Idle
    <3>7. ASSUME ~lost', NEW u \in Threads, Waits(u)'
          PROVE  max' <= length' + Cardinality(Way')
      <4>1. max <= length + Cardinality(Way)
        BY <3>2, <3>6, <3>7 DEF RoomPromised, Waits, QueueInv
      <4>2. PICK h \in Threads : sleeping' = sleeping \ {h} /\ Idle(h, "push")
        BY <3>2, <3>6, <3>7 DEF Waits
      <4>3. <<h, 0>> \in Way' /\ <<h, 0>> \notin Way
        BY <1>0, <3>1, <3>2, <4>2 DEF Way, Idle
      <4>4. Way \ {<<t, 0>>} \subseteq Way'
        <5> SUFFICES ASSUME NEW w \in Way, w # <<t, 0>>, w[1] = t PROVE w \in Way'
          BY <1>0, <3>1, <3>4, WaySame
        <5>1. w \in Threads \X Nat /\ w[2] # 0
          BY DEF Way
        <5>2. QED
          BY <3>1, <5>1 DEF Way
      <4>5. Cardinality(Way) <= Cardinality(Way')
        BY <1>0, <3>5, <4>3, <4>4, WaySwapped
      <4>6. QED
        BY <1>0, <3>1, <3>5, <4>1, <4>5
    <3>8. QED
      BY <3>5, <3>7 DEF RoomPromised, Waits
  <2>2. CASE ~Room(t)
    <3>1. /\ pc' = [pc EXCEPT ![t] = "idle"] /\ ~(length < max)
          /\ UNCHANGED <<length, max, growth, sleeping>>
      BY <1>5, <2>2 DEF pop_wake, Room
    <3>2. Moves(t, "idle", None) /\ "idle" \in QueuePoints
      BY <1>0, <3>1 DEF Moves, QueuePoints
    <3>3. IsFiniteSet(Way') /\ Cardinality(Way') \in Nat
      BY <1>0, <3>1, <3>2, WayFinite
    <3>4. max' <= length' + Cardinality(Way')
      BY <1>0, <3>1, <3>3
    <3>5. QED
      BY <3>3, <3>4 DEF RoomPromised
  <2>3. QED
    BY <2>1, <2>2
<1>6. ASSUME NEW m \in Maxes, max_set(t, m) PROVE IsFiniteSet(Way') /\ RoomPromised'
  <2>0. m \in Nat /\ max' = m /\ pc[t] = "idle" /\ t \notin sleeping
        /\ UNCHANGED <<length, queueWait, sleeping, lost>>
    BY <1>6, SizeAssumption DEF max_set
  <2>1. CASE m <= max
    <3>1. pc' = pc /\ growth' = growth
      BY <1>6, <2>1 DEF max_set
    <3>2. Way' = Way /\ \A u \in Threads : Waits(u)' => Waits(u)
      BY <2>0, <3>1 DEF Way, Waits, Idle
    <3>3. max' <= max /\ length <= length'
      BY <1>0, <2>0, <2>1
    <3>4. QED
      BY <1>0, <2>0, <3>2, <3>3, WayKept
  <2>2. CASE ~(m <= max)
    <3>1. /\ pc' = [pc EXCEPT ![t] = "grow"] /\ growth' = [growth EXCEPT ![t] = m - max]
          /\ m - max \in Nat
      BY <1>0, <1>6, <2>0, <2>2 DEF max_set
    <3>2. Moves(t, "grow", None) /\ "grow" \in QueuePoints
      BY <1>0, <2>0, <3>1 DEF Moves, QueuePoints
    <3>3. growth[t] = 0 /\ growth'[t] = m - max /\ \A u \in Threads \ {t} : growth'[u] = growth[u]
      BY <1>0, <2>0, <3>1 DEF Places
    <3>4. IsFiniteSet(Way') /\ Cardinality(Way') \in Nat /\ Way \subseteq Way'
      <4>1. growth[t] <= growth'[t]
        BY <3>1, <3>3
      <4>2. IsFiniteSet(Way') /\ Cardinality(Way') \in Nat
        BY <1>0, <3>2, <3>3, WayFinite
      <4>3. Way \subseteq Way'
        BY <1>0, <2>0, <3>2, <3>3, <4>1, WayGrows
      <4>4. QED
        BY <4>2, <4>3
    <3>5. /\ {t} \X ((0+1)..(0+(m - max))) \subseteq Way'
          /\ Way \cap ({t} \X ((0+1)..(0+(m - max)))) = {}
      BY <1>0, <3>1, <3>3 DEF Way
    <3>6. Cardinality(Way) + (m - max) <= Cardinality(Way')
      BY <1>0, <3>1, <3>4, <3>5, WayMore
    <3>7. \A u \in Threads : Waits(u)' => Waits(u)
      BY <1>0, <2>0, <3>2, WaitsBefore
    <3>8. ASSUME ~lost', NEW u \in Threads, Waits(u)'
          PROVE  max' <= length' + Cardinality(Way')
      <4>1. max <= length + Cardinality(Way)
        BY <2>0, <3>7, <3>8 DEF RoomPromised, Waits, QueueInv
      <4>2. QED
        BY <1>0, <2>0, <3>4, <3>6, <4>1
    <3>9. QED
      BY <3>4, <3>8 DEF RoomPromised, Waits
  <2>3. QED
    BY <2>1, <2>2
<1>7. CASE max_shift(t)
  <2>0. /\ pc[t] = "grow" /\ t \notin sleeping
        /\ UNCHANGED <<length, max, sleeping, lost>>
    BY <1>7 DEF max_shift
  <2>1. CASE queueWait = <<>> \/ growth[t] = 0
    <3>1. PICK p \in {"idle", "grow"} : pc' = [pc EXCEPT ![t] = p]
      BY <1>7, <2>1 DEF max_shift
    <3>2. Moves(t, p, None) /\ p \in QueuePoints
      BY <1>0, <2>0, <3>1 DEF Moves, QueuePoints
    <3>3. queueWait' = queueWait /\ \A u \in Threads \ {t} : growth'[u] = growth[u]
      BY <1>0, <1>7, <2>1 DEF max_shift
    <3>4. IsFiniteSet(Way') /\ Cardinality(Way') \in Nat
      BY <1>0, <3>2, <3>3, WayFinite
    <3>5. CASE queueWait = <<>>
      BY <3>3, <3>4, <3>5 DEF RoomPromised, Range
    <3>6. CASE growth[t] = 0
      <4>1. growth[t] <= growth'[t]
        BY <1>0, <3>6 DEF QueueTypes
      <4>2. Way \subseteq Way'
        BY <1>0, <2>0, <3>2, <3>3, <4>1, WayGrows
      <4>3. \A u \in Threads : Waits(u)' => Waits(u)
        BY <1>0, <3>2, <3>3, <2>0, WaitsBefore
      <4>4. max' <= max /\ length <= length'
        BY <1>0, <2>0
      <4>5. QED
        BY <1>0, <2>0, <3>4, <4>2, <4>3, <4>4, WayKept
    <3>7. QED
      BY <2>1, <3>5, <3>6
  <2>2. CASE ~(queueWait = <<>> \/ growth[t] = 0)
    <3>1. /\ queueWait' = Tail(queueWait) /\ pc' = [pc EXCEPT ![t] = "growing"]
          /\ growth' = growth
      BY <1>7, <2>2 DEF max_shift
    <3>2. Range(queueWait') \subseteq Range(queueWait)
      BY <1>0, <2>2, <3>1, HeadOrTail
    <3>3. Moves(t, "growing", None) /\ "growing" \in QueuePoints
      BY <1>0, <2>0, <3>1 DEF Moves, QueuePoints
    <3>4. \A u \in Threads : Waits(u)' => Waits(u)
      BY <1>0, <3>2, <3>3, WaitsBefore
    <3>5. IsFiniteSet(Way') /\ Way \subseteq Way'
      BY <1>0, <2>0, <3>1, <3>3, WayStays
    <3>6. max' <= max /\ length <= length'
      BY <1>0, <2>0
    <3>7. QED
      BY <1>0, <2>0, <3>4, <3>5, <3>6, WayKept
  <2>3. QED
    BY <2>1, <2>2
<1>8. CASE max_run(t)
  <2>1. /\ pc' = [pc EXCEPT ![t] = "grow"] /\ sleeping' = sleeping \ {todo[t]}
        /\ pc[t] = "growing" /\ t \notin sleeping /\ UNCHANGED <<length, max, queueWait>>
        /\ (lost => lost')
    BY <1>8 DEF max_run
  <2>2. Moves(t, "grow", todo[t]) /\ "grow" \in QueuePoints
    BY <2>1 DEF Moves, QueuePoints
  <2>3. /\ todo[t] \in Threads /\ growth[t] > 0
        /\ growth' = [growth EXCEPT ![t] = IF todo[t] \in Dead THEN growth[t] ELSE growth[t] - 1]
    BY <1>0, <1>8, <2>1 DEF max_run, Places
  <2>4. \A u \in Threads \ {t} : growth'[u] = growth[u]
    BY <1>0, <2>3
  <2>5. IsFiniteSet(Way') /\ Cardinality(Way') \in Nat
    BY <1>0, <2>2, <2>4, WayFinite
  <2>6. \A u \in Threads : Waits(u)' => Waits(u)
    BY <1>0, <2>1, <2>2, WaitsBefore
  <2>7. max' <= max /\ length <= length'
    BY <1>0, <2>1
  <2>8. CASE todo[t] \in Dead
    <3>1. growth[t] <= growth'[t]
      BY <1>0, <2>3, <2>8
    <3>2. Way \subseteq Way'
      BY <1>0, <2>1, <2>2, <2>4, <3>1, WayGrows
    <3>3. QED
      BY <1>0, <2>1, <2>5, <2>6, <2>7, <3>2, WayKept
  <2>9. CASE todo[t] \notin Dead
    <3>1. ~lost' => Idle(todo[t], "push")
      BY <1>8, <2>9 DEF max_run
    <3>2. growth'[t] = growth[t] - 1
      BY <1>0, <2>3, <2>9
    <3>3. Way \ {<<t, growth[t]>>} \subseteq Way'
      <4> SUFFICES ASSUME NEW w \in Way, w # <<t, growth[t]>>, w[1] = t PROVE w \in Way'
        BY <1>0, <2>2, <2>4, WaySame
      <4>1. w \in Threads \X Nat /\ w = <<t, w[2]>> /\ w[2] \in Nat
        BY DEF Way
      <4>2. w[2] # 0 /\ w[2] <= growth[t]
        BY <2>1, <4>1 DEF Way
      <4>3. w[2] # growth[t]
        BY <4>1
      <4>4. w[2] <= growth'[t]
        BY <1>0, <3>2, <4>1, <4>2, <4>3
      <4>5. QED
        BY <4>1, <4>2, <4>4 DEF Way
    <3>4. ASSUME ~lost', NEW u \in Threads, Waits(u)'
          PROVE  max' <= length' + Cardinality(Way')
      <4>1. max <= length + Cardinality(Way)
        BY <2>1, <2>6, <3>4 DEF RoomPromised, Waits, QueueInv
      <4>2. <<todo[t], 0>> \in Way' /\ <<todo[t], 0>> \notin Way
        BY <1>0, <2>1, <2>3, <3>1, <3>4 DEF Way, Idle
      <4>3. Cardinality(Way) <= Cardinality(Way')
        BY <1>0, <2>5, <3>3, <4>2, WaySwapped
      <4>4. QED
        BY <1>0, <2>1, <2>5, <4>1, <4>3
    <3>5. QED
      BY <2>5, <3>4 DEF RoomPromised, Waits
  <2>10. QED
    BY <2>8, <2>9
<1>9. CASE clear(t)
  <2>1. UNCHANGED <<pc, sleeping, growth>> /\ ((\E u \in Threads : Idle(u, "push")) => lost')
    BY <1>9 DEF clear
  <2>2. Way' = Way
    BY <2>1 DEF Way
  <2>3. QED
    BY <1>0, <2>1, <2>2 DEF RoomPromised, Idle
<1>10. CASE End(t)
  <2>1. /\ pc' = [pc EXCEPT ![t] = "dead"] /\ sleeping' = sleeping \ {t}
        /\ growth' = [growth EXCEPT ![t] = 0] /\ (lost => lost')
        /\ (t \notin sleeping /\ pc[t] \notin {"idle", "run"} => lost')
        /\ UNCHANGED <<length, max, queueWait>>
    BY <1>10 DEF End
  <2>2. Moves(t, "dead", None) /\ "dead" \in QueuePoints
    BY <1>0, <2>1 DEF Moves, QueuePoints
  <2>3. IsFiniteSet(Way') /\ \A u \in Threads \ {t} : growth'[u] = growth[u]
    BY <1>0, <2>1, <2>2, WayFinite
  <2>4. \A u \in Threads : Waits(u)' => Waits(u)
    BY <1>0, <2>1, <2>2, WaitsBefore
  <2>5. max' <= max /\ length <= length'
    BY <1>0, <2>1
  <2>6. ASSUME ~lost' PROVE Way \subseteq Way'
    <3>1. t \in sleeping \/ pc[t] \in {"idle", "run"}
      BY <2>1, <2>6
    <3>2. pc[t] \notin {"grow", "growing"} /\ growth[t] \in Nat
      BY <1>0, <3>1 DEF Places, QueueTypes
    <3>3. ~(growth[t] > 0)
      BY <1>0, <3>2 DEF Places
    <3>4. growth[t] <= growth'[t]
      BY <1>0, <2>1, <3>2, <3>3
    <3>5. QED
      BY <1>0, <2>2, <2>3, <3>1, <3>4, WayGrows
  <2>7. QED
    BY <1>0, <2>1, <2>3, <2>4, <2>5, <2>6, WayKept
<1>11. QED
  BY <1>1, <1>2, <1>3, <1>4, <1>5, <1>6, <1>7, <1>8, <1>9, <1>10 DEF Step

-----------------------------------------------------------------------------
(* No wake-up of a queue is lost: the theorem.                              *)

LEMMA QueueInvInit == Init => QueueInv
<1> SUFFICES ASSUME Init PROVE QueueInv
  OBVIOUS
<1> USE NoneAssumption, SizeAssumption DEF Init
<1>1. QueueTypes /\ Places /\ KillsLose
  <2>1. max \in Nat /\ length \in Nat /\ lost \in BOOLEAN
    OBVIOUS
  <2>2. waiting \in Seq(Threads) /\ queueWait \in Seq(Threads)
    OBVIOUS
  <2>3. /\ \A t \in Threads : pc[t] = "idle" /\ todo[t] = None /\ growth[t] = 0
        /\ pc \in [Threads -> QueuePoints] /\ sleeping = {}
        /\ todo \in [Threads -> Threads \cup {None}] /\ growth \in [Threads -> Nat]
    BY DEF QueuePoints
  <2>4. QED
    BY <2>1, <2>2, <2>3 DEF QueueTypes, Places, KillsLose
<1>2. Takers = {} /\ Way = {}
  BY DEF Takers, Way
<1>3. IsFiniteSet(Takers) /\ IsFiniteSet(Way)
  BY <1>2, FS_EmptySet
<1>4. SleeperListed /\ ConsumerServed /\ RoomPromised
  BY DEF SleeperListed, ConsumerServed, RoomPromised, Idle
<1>5. QED
  BY <1>1, <1>3, <1>4 DEF QueueInv

LEMMA QueueInvStep == QueueInv /\ [Next]_vars => QueueInv'
<1> SUFFICES ASSUME QueueInv, [Next]_vars PROVE QueueInv'
  OBVIOUS
<1>1. CASE UNCHANGED vars
  BY <1>1 DEF vars, QueueInv, QueueTypes, Places, KillsLose, Takers, Way,
              SleeperListed, ConsumerServed, RoomPromised, Idle
<1>2. ASSUME NEW t \in Threads, Step(t) PROVE QueueInv'
  <2>1. QueueTypes' /\ Places' /\ KillsLose'
    BY <1>2, QueueTypesStep
  <2>2. SleeperListed' /\ (IsFiniteSet(Takers)' /\ ConsumerServed')
    BY <1>2, <2>1, SleepersStep, ConsumerStep
  <2>3. IsFiniteSet(Way)' /\ RoomPromised'
    BY <1>2, <2>1, RoomStep
  <2>4. QED
    BY <2>1, <2>2, <2>3 DEF QueueInv
<1>3. QED
  BY <1>1, <1>2 DEF Next

\* No thread sleeps for ever in Queue#pop or SizedQueue#push while there are
\* objects or room for it, unless a thread was killed or the queue cleared at the
\* wrong moment or a wake-up went to a thread that was listed twice: for any
\* number of threads, of objects and of changes of max.
THEOREM QueueWakeupsKept == Spec => []QueueWakes
<1>1. QueueInv => QueueWakes
  BY PromiseKept DEF QueueInv, QueueWakes
<1>2. QED
  BY <1>1, QueueInvInit, QueueInvStep, PTL DEF Spec

-----------------------------------------------------------------------------
(* Mutex_m: mutual exclusion.                                               *)

MuPoints == {"out", "mu_lock", "in", "unlock", "run", "dead"}

Types == /\ locked \in BOOLEAN
         /\ holds \subseteq Threads
         /\ pc \in [Threads -> MuPoints]

\* The lock is held for its holder, and only the holder gets to mu_unlock.
Held == holds # {} => locked
Holders == \A t \in Threads : pc[t] \in {"in", "unlock"} => t \in holds

Inv == Types /\ Exclusion /\ Held /\ Holders

LEMMA StepPreserves ==
  ASSUME Killable \cap Syncs = {}, Inv, NEW t \in Threads, Mu!Step(t)
  PROVE  Inv'
<1> USE DEF Inv, Types, Exclusion, Held, Holders, MuPoints, Mu!At, Mu!Goto
<1>1. CASE Mu!mu_try_lock(t)
  BY <1>1 DEF Mu!mu_try_lock, Mu!Taken
<1>2. CASE Mu!mu_lock(t)
  <2>1. CASE Mu!Taken(t) /\ ~locked
    BY <2>1 DEF Mu!Taken
  <2>2. CASE Mu!Goto(t, "mu_lock") /\ UNCHANGED <<locked, holds>>
    BY <2>2
  <2>3. QED
    BY <1>2, <2>1, <2>2 DEF Mu!mu_lock, Mu!Busy
<1>3. CASE Mu!mu_unlock_test(t)
  BY <1>3 DEF Mu!mu_unlock_test, Mu!Back
<1>4. CASE Mu!mu_unlock(t)
  BY <1>4 DEF Mu!mu_unlock
<1>5. CASE Mu!mu_run(t)
  BY <1>5 DEF Mu!mu_run, Mu!Back
<1>6. CASE Mu!Kill(t)
  BY <1>6 DEF Mu!Kill
<1>7. QED
  BY <1>1, <1>2, <1>3, <1>4, <1>5, <1>6 DEF Mu!Step

\* mu_lock, mu_try_lock and mu_unlock keep the lock to one thread at a time, for
\* every number of threads, as long as no thread is killed in mu_synchronize.
THEOREM MutexMExcludes ==
  ASSUME Killable \cap Syncs = {}
  PROVE  Mu!Spec => []Exclusion
<1>1. Mu!Init => Inv
  BY DEF Mu!Init, Inv, Types, Exclusion, Held, Holders, MuPoints
<1>2. Inv /\ [Mu!Next]_Mu!vars => Inv'
  <2>1. CASE Mu!Next
    BY <2>1, StepPreserves DEF Mu!Next
  <2>2. CASE UNCHANGED Mu!vars
    BY <2>2 DEF Mu!vars, Inv, Types, Exclusion, Held, Holders
  <2>3. QED
    BY <2>1, <2>2
<1>3. Inv => Exclusion
  BY DEF Inv
<1>4. QED
  BY <1>1, <1>2, <1>3, PTL DEF Mu!Spec

-----------------------------------------------------------------------------
(* No wake-up is lost.                                                      *)

WaitTypes == /\ locked \in BOOLEAN
             /\ sleeping \subseteq Threads
             /\ pc \in [Threads -> MuPoints]
             /\ waiting \in Seq(Threads)
             /\ todo \in [Threads -> Seq(Threads)]

\* Threads sleep in mu_lock only, have others to run only in the loop that runs
\* them, and wait only for a lock that is taken.
Asleep == \A t \in sleeping : pc[t] = "mu_lock"
Running == \A t \in Threads : todo[t] # <<>> => pc[t] = "run"
Awaited == ~locked => waiting = <<>>

\* While nobody is dead, a sleeper is in @mu_waiting or about to be run.
Listed == Mu!Dead = {} => \A t \in sleeping :
            t \in Range(waiting) \/ \E u \in Threads : t \in Range(todo[u])

WaitInv == WaitTypes /\ Asleep /\ Running /\ Awaited /\ Listed

LEMMA WaitStep ==
  ASSUME WaitInv, NEW t \in Threads, Mu!Step(t)
  PROVE  WaitTypes' /\ Asleep' /\ Running' /\ Awaited'
<1> USE DEF WaitInv, WaitTypes, Asleep, Running, Awaited, MuPoints, Mu!At, Mu!Goto, Mu!Back
<1>1. CASE Mu!mu_try_lock(t) \/ (Mu!mu_lock(t) /\ Mu!Taken(t))
  BY <1>1 DEF Mu!mu_try_lock, Mu!mu_lock, Mu!Taken
<1>2. CASE Mu!mu_lock(t) /\ ~Mu!Taken(t)
  <2>1. /\ waiting' = Append(waiting, t) /\ sleeping' = sleeping \cup {t}
        /\ pc' = [pc EXCEPT ![t] = "mu_lock"] /\ pc[t] # "run"
        /\ locked /\ UNCHANGED <<locked, todo>>
    BY <1>2 DEF Mu!mu_lock, Mu!Busy
  <2>2. QED
    BY <2>1
<1>3. CASE Mu!mu_unlock_test(t)
  BY <1>3 DEF Mu!mu_unlock_test
<1>4. CASE Mu!mu_unlock(t)
  BY <1>4 DEF Mu!mu_unlock, Mu!Wait
<1>5. CASE Mu!mu_run(t)
  <2>1. /\ sleeping' \subseteq sleeping /\ UNCHANGED <<locked, waiting>>
        /\ \E s \in Seq(Threads) : /\ todo' = [todo EXCEPT ![t] = s]
                                   /\ s = <<>> \/ pc' = pc
        /\ \E p \in MuPoints : pc' = [pc EXCEPT ![t] = p]
        /\ pc[t] = "run"
    <3>1. CASE todo[t] = <<>> \/ Head(todo[t]) \in Mu!Dead
      <4>1. \E p \in MuPoints : pc' = [pc EXCEPT ![t] = p]
        BY <1>5, <3>1 DEF Mu!mu_run
      <4>2. /\ todo' = [todo EXCEPT ![t] = <<>>] /\ <<>> \in Seq(Threads)
            /\ UNCHANGED <<sleeping, locked, waiting>> /\ pc[t] = "run"
        BY <1>5, <3>1 DEF Mu!mu_run
      <4>3. QED
        BY <4>1, <4>2
    <3>2. CASE ~(todo[t] = <<>> \/ Head(todo[t]) \in Mu!Dead)
      <4>1. pc' = [pc EXCEPT ![t] = "run"] /\ Tail(todo[t]) \in Seq(Threads)
        BY <1>5, <3>2 DEF Mu!mu_run
      <4>2. QED
        BY <1>5, <3>2, <4>1 DEF Mu!mu_run
    <3>3. QED
      BY <3>1, <3>2
  <2>2. PICK p \in MuPoints : pc' = [pc EXCEPT ![t] = p]
    BY <2>1
  <2>3. QED
    BY <2>1, <2>2
<1>6. CASE Mu!Kill(t)
  BY <1>6 DEF Mu!Kill
<1>7. QED
  BY <1>1, <1>2, <1>3, <1>4, <1>5, <1>6 DEF Mu!Step

LEMMA ListedStep ==
  ASSUME WaitInv, NEW t \in Threads, Mu!Step(t)
  PROVE  Listed'
<1> USE DEF WaitTypes, MuPoints, Mu!At, Mu!Goto
<1> SUFFICES ASSUME Mu!Dead' = {}, NEW v \in sleeping'
             PROVE  v \in Range(waiting') \/ \E u \in Threads : v \in Range(todo'[u])
  BY DEF Listed
<1>0. WaitTypes /\ Asleep /\ Running /\ Awaited /\ Listed
  BY DEF WaitInv
<1>1. Mu!Dead = {}
  <2>1. \A u \in Threads \ {t} : pc'[u] = pc[u]
    BY <1>0 DEF Mu!Step, Mu!mu_try_lock, Mu!mu_lock, Mu!Taken, Mu!mu_unlock_test, Mu!mu_unlock,
                Mu!mu_run, Mu!Kill
  <2>2. pc[t] # "dead"
    BY <1>0 DEF Mu!Step, Mu!mu_try_lock, Mu!mu_lock, Mu!mu_unlock_test, Mu!mu_unlock, Mu!mu_run, Mu!Kill, Mu!Dead
  <2>3. QED
    BY <2>1, <2>2 DEF Mu!Dead
<1>2. \A u \in sleeping : u \in Range(waiting) \/ \E w \in Threads : u \in Range(todo[w])
  BY <1>0, <1>1 DEF Listed
<1>3. CASE Mu!mu_try_lock(t) \/ (Mu!mu_lock(t) /\ Mu!Taken(t)) \/ Mu!mu_unlock_test(t)
  BY <1>2, <1>3 DEF Mu!mu_try_lock, Mu!Taken, Mu!mu_unlock_test
<1>4. CASE Mu!mu_lock(t) /\ ~Mu!Taken(t)
  <2>1. /\ waiting' = Append(waiting, t) /\ sleeping' = sleeping \cup {t}
        /\ UNCHANGED todo
    BY <1>4 DEF Mu!mu_lock
  <2>2. t \in Range(waiting') /\ Range(waiting) \subseteq Range(waiting')
    <3>1. /\ DOMAIN waiting = 1..Len(waiting)
          /\ DOMAIN waiting' = 1..Len(waiting)+1
          /\ waiting'[Len(waiting)+1] = t
          /\ \A i \in 1..Len(waiting) : waiting'[i] = waiting[i]
          /\ Len(waiting) \in Nat
      BY <1>0, <2>1
    <3>2. QED
      BY <3>1 DEF Range
  <2>3. QED
    BY <1>2, <2>1, <2>2
<1>5. CASE Mu!mu_unlock(t)
  <2>1. /\ sleeping' = sleeping /\ todo[t] = <<>> /\ todo'[t] = waiting
        /\ \A u \in Threads \ {t} : todo'[u] = todo[u]
    BY <1>0, <1>5 DEF Mu!mu_unlock, Mu!Wait, Running
  <2>2. QED
    BY <1>2, <2>1 DEF Range
<1>6. CASE Mu!mu_run(t)
  <2>1. CASE todo[t] = <<>>
    BY <1>0, <1>2, <1>6, <2>1 DEF Mu!mu_run
  <2>2. CASE todo[t] # <<>>
    <3>1. /\ sleeping' = sleeping \ {Head(todo[t])}
          /\ todo' = [todo EXCEPT ![t] = Tail(todo[t])] /\ waiting' = waiting
      BY <1>1, <1>6, <2>2 DEF Mu!mu_run
    <3>2. /\ todo[t] \in Seq(Threads) /\ todo'[t] = Tail(todo[t])
          /\ \A u \in Threads \ {t} : todo'[u] = todo[u]
      BY <1>0, <3>1
    <3>3. /\ Len(todo[t]) \in Nat \ {0} /\ DOMAIN todo[t] = 1..Len(todo[t])
          /\ todo[t][1] = Head(todo[t])
          /\ DOMAIN todo'[t] = 1..Len(todo[t])-1
          /\ \A i \in 1..Len(todo[t])-1 : todo'[t][i] = todo[t][i+1]
      BY <2>2, <3>2
    <3>4. ASSUME NEW i \in 1..Len(todo[t]), i # 1
          PROVE  todo[t][i] \in Range(todo'[t])
      <4>1. i - 1 \in 1..Len(todo[t])-1 /\ (i-1)+1 = i
        BY <3>3, <3>4
      <4>2. todo'[t][i-1] = todo[t][i] /\ i - 1 \in DOMAIN todo'[t]
        BY <3>3, <4>1
      <4>3. QED
        BY <4>2 DEF Range
    <3>5. \A w \in Range(todo[t]) : w = Head(todo[t]) \/ w \in Range(todo'[t])
      BY <3>3, <3>4 DEF Range
    <3>6. QED
      BY <1>2, <3>1, <3>2, <3>5
  <2>3. QED
    BY <2>1, <2>2
<1>7. CASE Mu!Kill(t)
  <2>1. /\ waiting' = waiting /\ sleeping' \subseteq sleeping /\ todo[t] = <<>>
        /\ \A u \in Threads \ {t} : todo'[u] = todo[u]
    BY <1>0, <1>7 DEF Mu!Kill, Running, Mu!Dead
  <2>2. QED
    BY <1>2, <2>1 DEF Range
<1>8. QED
  BY <1>3, <1>4, <1>5, <1>6, <1>7 DEF Mu!Step

\* No wake-up of mu_unlock is lost while nobody has died: a free lock that
\* threads sleep for has a thread in mu_unlock that will run one of them.  The
\* parts of MutexWakes that concern Mutex say nothing of Mutex_m.
THEOREM MuWakeupsKept == Mu!Spec => []MutexWakes
<1>1. Mu!Init => WaitInv
  <2> SUFFICES ASSUME Mu!Init PROVE WaitInv
    OBVIOUS
  <2>1. WaitTypes
    <3>1. <<>> \in Seq(Threads)
      OBVIOUS
    <3>2. waiting \in Seq(Threads) /\ todo \in [Threads -> Seq(Threads)]
      BY <3>1 DEF Mu!Init
    <3>3. pc \in [Threads -> MuPoints] /\ sleeping \subseteq Threads /\ locked \in BOOLEAN
      BY DEF Mu!Init, MuPoints
    <3>4. QED
      BY <3>2, <3>3 DEF WaitTypes
  <2>2. Asleep /\ Running /\ Awaited /\ Listed
    BY DEF Mu!Init, Asleep, Running, Awaited, Listed
  <2>3. QED
    BY <2>1, <2>2 DEF WaitInv
<1>2. WaitInv /\ [Mu!Next]_Mu!vars => WaitInv'
  <2>1. ASSUME WaitInv, NEW t \in Threads, Mu!Step(t)
        PROVE  WaitInv'
    BY <2>1, WaitStep, ListedStep DEF WaitInv
  <2>2. ASSUME WaitInv, UNCHANGED Mu!vars
        PROVE  WaitInv'
    BY <2>2 DEF Mu!vars, WaitInv, WaitTypes, Asleep, Running, Awaited, Listed, Mu!Dead
  <2>3. QED
    BY <2>1, <2>2 DEF Mu!Next
<1>3. WaitInv => MutexWakes
  <2>1. SUFFICES ASSUME WaitInv PROVE MutexWakes
    OBVIOUS
  <2>2. DOMAIN pc = Threads /\ \A t \in sleeping : pc[t] = "mu_lock"
    BY <2>1 DEF WaitInv, WaitTypes, Asleep
  <2>3. LockersListed /\ HandOff /\ WaiterListed
    BY <2>2 DEF LockersListed, HandOff, WaiterListed, Locking
  <2>4. ASSUME ~locked, Mu!Dead = {}, NEW v \in sleeping
        PROVE  \E u \in Threads \ sleeping : pc[u] = "run" /\ todo[u] # <<>>
    <3>1. PICK u \in Threads : v \in Range(todo[u])
      BY <2>1, <2>4 DEF WaitInv, Awaited, Listed, Range
    <3>2. todo[u] # <<>> /\ pc[u] = "run" /\ u \notin sleeping
      BY <2>1, <3>1 DEF WaitInv, Running, Asleep, Range
    <3>3. QED
      BY <3>2
  <2>5. QED
    BY <2>2, <2>3, <2>4 DEF MutexWakes, MuHandOff, Mu!Dead
<1>4. QED
  BY <1>1, <1>2, <1>3, PTL DEF Mu!Spec
=============================================================================
