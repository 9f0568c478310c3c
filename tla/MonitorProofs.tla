---------------------------- MODULE MonitorProofs ----------------------------
(* Ownership of monitors and that none of their wake-ups is lost, and the    *)
(* same of the synchronizers of sync.rb, for any number of threads.          *)
EXTENDS Monitor, SyncState, TLAPS

CONSTANT MaxNest
VARIABLES sync_waiting, sync_upgrade_waiting

Synchronizer == INSTANCE Sync

\* nil is not a thread, and no thread is killed in the loop of mon_enter or in
\* the ensure clause of wait: its entry would stay in a queue of the monitor.
MonitorUse ==
  /\ NoThread \notin Threads
  /\ MaxDepth \in Nat
  /\ KillPoints \subseteq {"out", "in", "wait"}

Points == {"out", "enter", "in", "wait", "rewait", "dead"}

Types == /\ mon_owner \in Threads \cup {NoThread}
         /\ mon_count \in Nat
         /\ mon_entering_queue \in Seq(Threads)
         /\ mon_waiting_queue \in Seq(Threads)
         /\ cv_waiters \in Seq(Threads)
         /\ mon_pc \in [Threads -> Points]
         /\ asleep \subseteq Threads
         /\ saved \in [Threads -> Nat]
         /\ depth \in [Threads -> 0..MaxDepth]

\* The owner is the thread that is in the monitor, with its count; a thread in
\* wait has its count saved, and any other thread is in no mon_synchronize.
Owner == /\ \A t \in Threads : mon_owner = t <=> mon_pc[t] = "in"
         /\ mon_owner = NoThread => mon_count = 0
Counts == \A t \in Threads :
  /\ mon_pc[t] \in {"out", "enter", "dead"} => depth[t] = 0
  /\ mon_pc[t] = "in" => depth[t] = mon_count /\ depth[t] > 0
  /\ mon_pc[t] \in {"wait", "rewait"} => depth[t] = saved[t] /\ depth[t] > 0

\* Threads sleep where they wait for others, and a timeout_thread is alive only
\* while its thread is in wait.
Asleep == \A t \in asleep : mon_pc[t] \in {"enter", "wait", "rewait"}
Timers == timer \subseteq {t \in Threads : mon_pc[t] = "wait"}

Inv == Types /\ Owner /\ Counts /\ Asleep /\ Timers /\ QueuesMatch /\ HandedOver

-----------------------------------------------------------------------------
(* The queues.                                                              *)

LEMMA ElementsTyped ==
  ASSUME NEW s \in Seq(Threads)
  PROVE  Elements(s) \subseteq Threads
<1>1. DOMAIN s = 1..Len(s) /\ \A i \in 1..Len(s) : s[i] \in Threads
  OBVIOUS
<1>2. QED
  BY <1>1 DEF Elements

LEMMA Appended ==
  ASSUME NEW s \in Seq(Threads), NEW t \in Threads
  PROVE  /\ Append(s, t) \in Seq(Threads)
         /\ Elements(Append(s, t)) = Elements(s) \cup {t}
         /\ NoDuplicates(s) /\ t \notin Elements(s) => NoDuplicates(Append(s, t))
<1> DEFINE a == Append(s, t)
<1>1. /\ Len(s) \in Nat /\ DOMAIN s = 1..Len(s)
      /\ a \in Seq(Threads) /\ DOMAIN a = 1..Len(s)+1
      /\ a[Len(s)+1] = t /\ \A i \in 1..Len(s) : a[i] = s[i]
  OBVIOUS
<1> HIDE DEF a
<1>2. \A i \in 1..Len(s)+1 : i = Len(s)+1 \/ i \in 1..Len(s)
  BY <1>1
<1>3. 1..Len(s) \subseteq 1..Len(s)+1 /\ Len(s)+1 \in 1..Len(s)+1
  BY <1>1
<1>4. Elements(a) = Elements(s) \cup {t}
  BY <1>1, <1>2, <1>3 DEF Elements
<1>5. NoDuplicates(s) /\ t \notin Elements(s) => NoDuplicates(a)
  BY <1>1, <1>2 DEF Elements, NoDuplicates
<1>6. QED
  BY <1>1, <1>4, <1>5 DEF a

\* Of a list without duplicates: what is left when one element is taken out.
LEMMA Removed ==
  ASSUME NEW s \in Seq(Threads), NEW k \in DOMAIN s, NoDuplicates(s),
         NEW r \in Seq(Threads), Len(r) = Len(s) - 1,
         \A i \in 1..Len(r) : r[i] = IF i < k THEN s[i] ELSE s[i+1]
  PROVE  Elements(r) = Elements(s) \ {s[k]} /\ NoDuplicates(r)
<1>1. /\ Len(s) \in Nat /\ DOMAIN s = 1..Len(s) /\ k \in 1..Len(s)
      /\ Len(r) \in Nat /\ DOMAIN r = 1..Len(r)
  OBVIOUS
<1> DEFINE f(i) == IF i < k THEN i ELSE i + 1
<1>2. \A i \in 1..Len(r) : f(i) \in 1..Len(s) /\ f(i) # k /\ r[i] = s[f(i)]
  BY <1>1
<1>3. \A i, j \in 1..Len(r) : f(i) = f(j) => i = j
  BY <1>1
<1>4. ASSUME NEW j \in 1..Len(s), j # k
      PROVE  s[j] \in Elements(r)
  <2> DEFINE i == IF j < k THEN j ELSE j - 1
  <2>1. i \in 1..Len(r) /\ f(i) = j
    BY <1>1, <1>4
  <2>2. QED
    BY <1>1, <1>2, <2>1 DEF Elements
<1> HIDE DEF f
<1>5. Elements(r) \subseteq Elements(s) \ {s[k]}
  BY <1>1, <1>2 DEF Elements, NoDuplicates
<1>6. Elements(s) \ {s[k]} \subseteq Elements(r)
  BY <1>1, <1>4 DEF Elements
<1>7. NoDuplicates(r)
  BY <1>1, <1>2, <1>3 DEF NoDuplicates
<1>8. QED
  BY <1>5, <1>6, <1>7

LEMMA Shifted ==
  ASSUME NEW s \in Seq(Threads), s # <<>>, NoDuplicates(s)
  PROVE  /\ Head(s) \in Threads /\ Head(s) \in Elements(s)
         /\ Tail(s) \in Seq(Threads)
         /\ Elements(Tail(s)) = Elements(s) \ {Head(s)}
         /\ NoDuplicates(Tail(s))
<1>1. /\ Len(s) \in Nat \ {0} /\ DOMAIN s = 1..Len(s) /\ Head(s) = s[1]
      /\ Tail(s) \in Seq(Threads) /\ Len(Tail(s)) = Len(s) - 1
      /\ \A i \in 1..Len(s)-1 : Tail(s)[i] = s[i+1]
  OBVIOUS
<1>2. 1 \in DOMAIN s /\ \A i \in 1..Len(s)-1 : Tail(s)[i] = IF i < 1 THEN s[i] ELSE s[i+1]
  BY <1>1
<1>3. Elements(Tail(s)) = Elements(s) \ {s[1]} /\ NoDuplicates(Tail(s))
  BY <1>1, <1>2, Removed
<1>4. Head(s) \in Elements(s) /\ Head(s) \in Threads
  BY <1>1, <1>2, SMTT(20) DEF Elements
<1>5. QED
  BY <1>1, <1>3, <1>4

LEMMA Joined ==
  ASSUME NEW a \in Seq(Threads), NEW b \in Seq(Threads)
  PROVE  /\ a \o b \in Seq(Threads) /\ Len(a \o b) = Len(a) + Len(b)
         /\ \A i \in 1..Len(a)+Len(b) :
              (a \o b)[i] = IF i <= Len(a) THEN a[i] ELSE b[i - Len(a)]
OBVIOUS

LEMMA Deleted ==
  ASSUME NEW s \in Seq(Threads), NEW t \in Elements(s), NoDuplicates(s)
  PROVE  /\ Without(s, t) \in Seq(Threads)
         /\ Elements(Without(s, t)) = Elements(s) \ {t}
         /\ NoDuplicates(Without(s, t))
<1> DEFINE k == CHOOSE i \in DOMAIN s : s[i] = t
<1> DEFINE r == SubSeq(s, 1, k - 1) \o SubSeq(s, k + 1, Len(s))
<1>1. k \in DOMAIN s /\ s[k] = t
  BY DEF Elements
<1>2. Without(s, t) = r
  BY DEF Without
<1> HIDE DEF k
<1>3. Len(s) \in Nat /\ k \in 1..Len(s)
  BY <1>1
<1>4. /\ SubSeq(s, 1, k-1) \in Seq(Threads) /\ Len(SubSeq(s, 1, k-1)) = k - 1
      /\ \A i \in 1..k-1 : SubSeq(s, 1, k-1)[i] = s[i]
  BY <1>3
<1>5. /\ SubSeq(s, k+1, Len(s)) \in Seq(Threads)
      /\ Len(SubSeq(s, k+1, Len(s))) = Len(s) - k
      /\ \A i \in 1..Len(s)-k : SubSeq(s, k+1, Len(s))[i] = s[k+i]
  BY <1>3
<1> DEFINE a == SubSeq(s, 1, k-1)
           b == SubSeq(s, k+1, Len(s))
<1>6. /\ r \in Seq(Threads) /\ Len(r) = Len(a) + Len(b)
      /\ \A i \in 1..Len(a)+Len(b) : r[i] = IF i <= Len(a) THEN a[i] ELSE b[i - Len(a)]
  BY <1>4, <1>5, Joined
<1> HIDE DEF r, a, b
<1>7. Len(r) = Len(s) - 1 /\ Len(a) + Len(b) = Len(s) - 1 /\ Len(a) = k - 1
  <2>1. Len(a) = k - 1
    BY <1>4 DEF a
  <2>2. Len(b) = Len(s) - k
    BY <1>5 DEF b
  <2>3. QED
    BY <1>3, <1>6, <2>1, <2>2
<1>8. \A i \in 1..Len(s)-1 : r[i] = IF i < k THEN s[i] ELSE s[i+1]
  <2> TAKE i \in 1..Len(s)-1
  <2>1. CASE i < k
    <3>1. i \in 1..k-1 /\ i <= Len(a)
      BY <1>3, <1>7, <2>1
    <3>2. a[i] = s[i]
      BY <1>4, <3>1 DEF a
    <3>3. QED
      BY <1>6, <1>7, <2>1, <3>1, <3>2
  <2>2. CASE ~(i < k)
    <3>1. i - (k - 1) \in 1..Len(s)-k /\ k + (i - (k - 1)) = i + 1 /\ ~(i <= k - 1)
      BY <1>3, <2>2
    <3>2. b[i - (k - 1)] = s[i+1]
      BY <1>5, <3>1 DEF b
    <3>3. QED
      BY <1>6, <1>7, <2>2, <3>1, <3>2
  <2>3. QED
    BY <2>1, <2>2
<1>9. Elements(r) = Elements(s) \ {s[k]} /\ NoDuplicates(r)
  BY <1>1, <1>6, <1>7, <1>8, Removed
<1>10. QED
  BY <1>1, <1>2, <1>6, <1>9

-----------------------------------------------------------------------------
(* The owner, the counts and where threads sleep.                           *)

\* The queue that HandOver looks at, and the thread it wakes.
LEMMA HandOverFacts ==
  ASSUME Types, QueuesMatch
  PROVE  /\ HandOver.waiting \in Seq(Threads) /\ HandOver.entering \in Seq(Threads)
         /\ NoDuplicates(HandOver.waiting) /\ NoDuplicates(HandOver.entering)
         /\ Elements(HandOver.waiting) = Elements(mon_waiting_queue) \ HandOver.woken
         /\ Elements(HandOver.entering) = Elements(mon_entering_queue) \ HandOver.woken
         /\ \A t \in HandOver.woken : t \in asleep /\ mon_pc[t] \in {"enter", "rewait"}
         /\ (\E t \in asleep : mon_pc[t] \in {"enter", "rewait"}) => HandOver.woken # {}
<1> DEFINE fromWaiting == mon_waiting_queue # <<>>
           queue == IF fromWaiting THEN mon_waiting_queue ELSE mon_entering_queue
           rest == IF queue = <<>> THEN <<>> ELSE Tail(queue)
<1>1. /\ HandOver.woken = (IF queue = <<>> THEN {} ELSE {Head(queue)})
      /\ HandOver.waiting = (IF fromWaiting THEN rest ELSE mon_waiting_queue)
      /\ HandOver.entering = (IF fromWaiting THEN mon_entering_queue ELSE rest)
  BY DEF HandOver
<1>2. /\ mon_waiting_queue \in Seq(Threads) /\ NoDuplicates(mon_waiting_queue)
      /\ mon_entering_queue \in Seq(Threads) /\ NoDuplicates(mon_entering_queue)
      /\ Elements(mon_entering_queue) = {t \in asleep : mon_pc[t] = "enter"}
      /\ Elements(mon_waiting_queue) = {t \in asleep : mon_pc[t] = "rewait"}
  BY DEF Types, QueuesMatch
<1>3. Elements(<<>>) = {} /\ NoDuplicates(<<>>) /\ <<>> \in Seq(Threads)
  BY DEF Elements, NoDuplicates
<1>4. CASE mon_waiting_queue # <<>>
  <2>1. /\ HandOver.woken = {Head(mon_waiting_queue)}
        /\ HandOver.waiting = Tail(mon_waiting_queue)
        /\ HandOver.entering = mon_entering_queue
    BY <1>1, <1>4
  <2>2. Head(mon_waiting_queue) \in {t \in asleep : mon_pc[t] = "rewait"}
    BY <1>2, <1>4, Shifted
  <2>3. Elements(mon_entering_queue) = Elements(mon_entering_queue) \ {Head(mon_waiting_queue)}
    BY <1>2, <2>2
  <2>4. QED
    BY <1>2, <1>4, <2>1, <2>2, <2>3, Shifted
<1>5. CASE mon_waiting_queue = <<>> /\ mon_entering_queue # <<>>
  <2>1. /\ HandOver.woken = {Head(mon_entering_queue)}
        /\ HandOver.waiting = mon_waiting_queue
        /\ HandOver.entering = Tail(mon_entering_queue)
    BY <1>1, <1>5
  <2>2. Head(mon_entering_queue) \in {t \in asleep : mon_pc[t] = "enter"}
    BY <1>2, <1>5, Shifted
  <2>3. QED
    BY <1>2, <1>3, <1>5, <2>1, <2>2, Shifted
<1>6. CASE mon_waiting_queue = <<>> /\ mon_entering_queue = <<>>
  <2>1. HandOver.woken = {} /\ HandOver.waiting = <<>> /\ HandOver.entering = <<>>
    BY <1>1, <1>6
  <2>2. QED
    BY <1>2, <1>3, <1>6, <2>1
<1>7. QED
  BY <1>4, <1>5, <1>6

\* The queues after the owner has given the monitor up.
LEMMA PassedFacts ==
  ASSUME Types, QueuesMatch, Passed
  PROVE  /\ mon_owner' = NoThread
         /\ mon_waiting_queue' \in Seq(Threads) /\ NoDuplicates(mon_waiting_queue')
         /\ mon_entering_queue' \in Seq(Threads) /\ NoDuplicates(mon_entering_queue')
         /\ Elements(mon_waiting_queue') = Elements(mon_waiting_queue) \ HandOver.woken
         /\ Elements(mon_entering_queue') = Elements(mon_entering_queue) \ HandOver.woken
BY HandOverFacts DEF Passed

LEMMA InterruptedFacts ==
  ASSUME Types, QueuesMatch, NEW t \in Threads
  PROVE  /\ Interrupted(t) \in Seq(Threads)
         /\ Elements(Interrupted(t)) = Elements(cv_waiters) \ {t}
         /\ NoDuplicates(Interrupted(t))
<1>1. cv_waiters \in Seq(Threads) /\ NoDuplicates(cv_waiters)
  BY DEF Types, QueuesMatch
<1>2. CASE t \in Elements(cv_waiters)
  BY <1>1, <1>2, Deleted DEF Interrupted
<1>3. CASE t \notin Elements(cv_waiters)
  BY <1>1, <1>3 DEF Interrupted
<1>4. QED
  BY <1>2, <1>3

-----------------------------------------------------------------------------
(* One lemma per operation.                                                 *)

\* try_mon_enter, and mon_enter of a monitor that is free or the thread's own.
LEMMA EnteredStep ==
  ASSUME MonitorUse, Inv, NEW t \in Threads, At(t, {"out", "in", "enter"}),
         depth[t] < MaxDepth, ~BlockedBy(t), Entered(t)
  PROVE  Inv'
<1> USE DEF Inv
<1>1. /\ mon_owner' = t /\ mon_count' = mon_count + 1
      /\ depth' = [depth EXCEPT ![t] = depth[t] + 1]
      /\ mon_pc' = [mon_pc EXCEPT ![t] = "in"]
      /\ UNCHANGED <<mon_entering_queue, mon_waiting_queue, cv_waiters, asleep, timer, saved>>
  BY DEF Entered, Goto, queues
<1>2. /\ t \notin asleep /\ mon_pc[t] \in {"out", "in", "enter"}
      /\ mon_owner \in {NoThread, t} /\ depth[t] = mon_count
  BY DEF At, BlockedBy, Owner, Counts, MonitorUse, Types
<1>3. Types'
  BY <1>1, <1>2 DEF Types, Points, MonitorUse
<1>4. Owner'
  BY <1>1, <1>2 DEF Owner, Types, MonitorUse
<1>5. Counts'
  <2>1. \A u \in Threads \ {t} : /\ mon_pc'[u] = mon_pc[u] /\ depth'[u] = depth[u]
                               /\ mon_pc[u] # "in"
    BY <1>1, <1>2 DEF Owner, MonitorUse, Types
  <2>2. mon_pc'[t] = "in" /\ depth'[t] = mon_count' /\ depth'[t] > 0
    BY <1>1, <1>2 DEF Types
  <2>3. QED
    BY <1>1, <2>1, <2>2 DEF Counts
<1>6. Asleep' /\ Timers'
  BY <1>1, <1>2 DEF Asleep, Timers, Types
<1>7. QueuesMatch'
  <2>1. \A u \in asleep : mon_pc'[u] = mon_pc[u]
    BY <1>1, <1>2 DEF Types
  <2>2. \A u \in Elements(cv_waiters) : u # t /\ u \in Threads
    BY <1>2, ElementsTyped DEF QueuesMatch, Types
  <2>3. \A u \in Elements(cv_waiters) : mon_pc'[u] = mon_pc[u]
    BY <1>1, <2>2 DEF Types
  <2>4. QED
    BY <1>1, <2>1, <2>3 DEF QueuesMatch
<1>8. HandedOver'
  BY <1>1 DEF HandedOver, Types
<1>9. QED
  BY <1>3, <1>4, <1>5, <1>6, <1>7, <1>8

\* mon_enter of a monitor that another thread has.
LEMMA BlockedStep ==
  ASSUME MonitorUse, Inv, NEW t \in Threads, mon_enter(t), BlockedBy(t)
  PROVE  Inv'
<1> USE DEF Inv
<1>1. /\ mon_entering_queue' = Append(mon_entering_queue, t)
      /\ asleep' = asleep \cup {t}
      /\ mon_pc' = [mon_pc EXCEPT ![t] = "enter"]
      /\ UNCHANGED <<mon_owner, mon_count, mon_waiting_queue, cv_waiters, timer, saved, depth>>
  BY DEF mon_enter, Goto
<1>2. /\ t \notin asleep /\ mon_pc[t] \in {"out", "in", "enter"}
      /\ mon_owner \in Threads /\ mon_owner # t
  BY DEF mon_enter, At, BlockedBy, Types
<1>3. mon_pc[t] \in {"out", "enter"}
  BY <1>2 DEF Owner
<1>4. /\ mon_entering_queue' \in Seq(Threads)
      /\ Elements(mon_entering_queue') = Elements(mon_entering_queue) \cup {t}
      /\ NoDuplicates(mon_entering_queue')
  BY <1>1, <1>2, Appended DEF Types, QueuesMatch
<1>5. Types'
  BY <1>1, <1>4 DEF Types, Points
<1>6. Owner' /\ Counts'
  BY <1>1, <1>2, <1>3 DEF Owner, Counts, Types, MonitorUse
<1>7. Asleep' /\ Timers'
  BY <1>1, <1>2 DEF Asleep, Timers, Types
<1>8. QueuesMatch'
  <2>1. \A u \in asleep : mon_pc'[u] = mon_pc[u]
    BY <1>1, <1>2 DEF Types
  <2>2. \A u \in Elements(cv_waiters) : mon_pc'[u] = mon_pc[u]
    BY <1>1, <1>2, ElementsTyped DEF QueuesMatch, Types
  <2>3. mon_pc'[t] = "enter"
    BY <1>1 DEF Types
  <2>4. QED
    BY <1>1, <1>4, <2>1, <2>2, <2>3 DEF QueuesMatch
<1>9. HandedOver'
  BY <1>1, <1>2 DEF HandedOver, Types
<1>10. QED
  BY <1>5, <1>6, <1>7, <1>8, <1>9

LEMMA ExitStep ==
  ASSUME MonitorUse, Inv, NEW t \in Threads, mon_exit(t)
  PROVE  Inv'
<1> USE DEF Inv
<1>1. /\ t \notin asleep /\ mon_pc[t] = "in" /\ mon_owner = t
      /\ mon_count' = mon_count - 1
      /\ depth' = [depth EXCEPT ![t] = depth[t] - 1]
      /\ UNCHANGED <<cv_waiters, timer, saved>>
  BY DEF mon_exit, At
<1>2. depth[t] = mon_count /\ mon_count \in Nat /\ mon_count > 0
  BY <1>1 DEF Counts, Types
<1>3. CASE mon_count = 1
  <2>1. PICK p \in {"out", "dead"} : mon_pc' = [mon_pc EXCEPT ![t] = p]
    <3>1. CASE t \in dying
      BY <1>3, <3>1 DEF mon_exit, Goto
    <3>2. CASE t \notin dying
      BY <1>3, <3>2 DEF mon_exit, Goto
    <3>3. QED
      BY <3>1, <3>2
  <2>2. Passed /\ asleep' = asleep \ HandOver.woken
    BY <1>3 DEF mon_exit
  <2> HIDE DEF mon_exit
  <2>3. /\ mon_owner' = NoThread
        /\ mon_waiting_queue' \in Seq(Threads) /\ NoDuplicates(mon_waiting_queue')
        /\ mon_entering_queue' \in Seq(Threads) /\ NoDuplicates(mon_entering_queue')
        /\ Elements(mon_waiting_queue') = Elements(mon_waiting_queue) \ HandOver.woken
        /\ Elements(mon_entering_queue') = Elements(mon_entering_queue) \ HandOver.woken
    BY <2>2, PassedFacts
  <2>4. \A u \in Threads \ {t} : mon_pc'[u] = mon_pc[u] /\ depth'[u] = depth[u]
    BY <1>1, <2>1 DEF Types
  <2>5. mon_pc'[t] = p /\ depth'[t] = 0 /\ mon_count' = 0
    BY <1>1, <1>2, <1>3, <2>1 DEF Types
  <2>6. Types'
    <3>1. mon_pc' \in [Threads -> Points]
      BY <2>1 DEF Types, Points
    <3>2. depth' \in [Threads -> 0..MaxDepth]
      BY <1>1, <1>2, <1>3 DEF Types, MonitorUse
    <3>3. QED
      BY <1>1, <2>2, <2>3, <2>5, <3>1, <3>2 DEF Types
  <2>7. Owner' /\ Counts'
    BY <1>1, <2>3, <2>4, <2>5 DEF Owner, Counts, MonitorUse, Types
  <2>8. Asleep' /\ Timers'
    BY <1>1, <2>2, <2>4 DEF Asleep, Timers, Types
  <2>9. \A u \in asleep : u # t /\ u \in Threads /\ mon_pc'[u] = mon_pc[u]
    BY <1>1, <2>4 DEF Types
  <2>10. QueuesMatch'
    <3>1. \A u \in Elements(cv_waiters) : mon_pc'[u] = "wait"
      BY <1>1, <2>4, ElementsTyped DEF QueuesMatch, Types
    <3>2. \A u \in HandOver.woken : mon_pc[u] # "wait"
      BY HandOverFacts
    <3>3. QED
      BY <1>1, <2>2, <2>3, <2>9, <3>1, <3>2 DEF QueuesMatch
  <2>11. HandedOver'
    BY <2>2, <2>6, <2>9, HandOverFacts DEF HandedOver, Types
  <2>12. QED
    BY <2>6, <2>7, <2>8, <2>10, <2>11
<1>4. CASE mon_count # 1
  <2>1. /\ UNCHANGED <<mon_owner, mon_waiting_queue, mon_entering_queue, asleep>>
        /\ mon_pc' = mon_pc
    BY <1>1, <1>2, <1>4 DEF mon_exit, Goto, Types
  <2>2. Types'
    <3>1. depth' \in [Threads -> 0..MaxDepth]
      BY <1>1, <1>2 DEF Types, MonitorUse
    <3>2. QED
      BY <1>1, <1>2, <2>1, <3>1 DEF Types
  <2>3. Owner' /\ Counts'
    BY <1>1, <1>2, <1>4, <2>1 DEF Owner, Counts, MonitorUse, Types
  <2>4. Asleep' /\ Timers' /\ QueuesMatch' /\ HandedOver'
    BY <1>1, <2>1 DEF Asleep, Timers, QueuesMatch, HandedOver
  <2>5. QED
    BY <2>2, <2>3, <2>4
<1>5. QED
  BY <1>3, <1>4

LEMMA WaitStep ==
  ASSUME MonitorUse, Inv, NEW t \in Threads, wait(t)
  PROVE  Inv'
<1> USE DEF Inv
<1>1. /\ t \notin asleep /\ mon_pc[t] = "in" /\ mon_owner = t
      /\ timer' \subseteq timer \cup {t}
      /\ saved' = [saved EXCEPT ![t] = mon_count]
      /\ mon_count' = 0 /\ Passed
      /\ cv_waiters' = Append(cv_waiters, t)
      /\ asleep' = (asleep \ HandOver.woken) \cup {t}
      /\ mon_pc' = [mon_pc EXCEPT ![t] = "wait"]
      /\ UNCHANGED depth
  BY DEF wait, At, Goto
<1>2. /\ mon_owner' = NoThread
      /\ mon_waiting_queue' \in Seq(Threads) /\ NoDuplicates(mon_waiting_queue')
      /\ mon_entering_queue' \in Seq(Threads) /\ NoDuplicates(mon_entering_queue')
      /\ Elements(mon_waiting_queue') = Elements(mon_waiting_queue) \ HandOver.woken
      /\ Elements(mon_entering_queue') = Elements(mon_entering_queue) \ HandOver.woken
  BY <1>1, PassedFacts
<1>3. \A u \in Elements(cv_waiters) : u \in Threads \ {t} /\ mon_pc[u] = "wait"
  BY <1>1, ElementsTyped DEF QueuesMatch, Types
<1>4. /\ cv_waiters' \in Seq(Threads) /\ NoDuplicates(cv_waiters')
      /\ Elements(cv_waiters') = Elements(cv_waiters) \cup {t}
  BY <1>1, <1>3, Appended DEF QueuesMatch, Types
<1>5. /\ mon_pc'[t] = "wait" /\ saved'[t] = depth[t] /\ depth[t] > 0
      /\ \A u \in Threads \ {t} : mon_pc'[u] = mon_pc[u] /\ saved'[u] = saved[u]
  BY <1>1 DEF Types, Counts
<1>6. Types'
  <2>1. mon_pc' \in [Threads -> Points] /\ saved' \in [Threads -> Nat]
    BY <1>1 DEF Types, Points
  <2>2. QED
    BY <1>1, <1>2, <1>4, <2>1 DEF Types
<1>7. Owner' /\ Counts'
  BY <1>1, <1>2, <1>5 DEF Owner, Counts, MonitorUse, Types
<1>8. Asleep' /\ Timers'
  BY <1>1, <1>5 DEF Asleep, Timers, Types
<1>9. QueuesMatch'
  <2>1. \A u \in asleep : u # t /\ u \in Threads /\ mon_pc'[u] = mon_pc[u]
    BY <1>1, <1>5 DEF Types
  <2>2. \A u \in Elements(cv_waiters') : mon_pc'[u] = "wait"
    BY <1>3, <1>4, <1>5
  <2>3. \A u \in HandOver.woken : mon_pc[u] # "wait"
    BY HandOverFacts
  <2>4. {u \in asleep' : mon_pc'[u] = "wait"} \subseteq Elements(cv_waiters')
    BY <1>1, <1>4, <2>1 DEF QueuesMatch
  <2>5. /\ Elements(mon_entering_queue') = {u \in asleep' : mon_pc'[u] = "enter"}
        /\ Elements(mon_waiting_queue') = {u \in asleep' : mon_pc'[u] = "rewait"}
    BY <1>1, <1>2, <1>5, <2>1 DEF QueuesMatch
  <2>6. QED
    BY <1>2, <1>4, <2>2, <2>4, <2>5 DEF QueuesMatch
<1>10. HandedOver'
  <2> SUFFICES ASSUME NEW v \in asleep', mon_pc'[v] \in {"enter", "rewait"}
               PROVE  \E u \in Threads \ asleep' : mon_pc'[u] \in {"enter", "rewait"}
    BY <1>6 DEF HandedOver, Types
  <2>1. v \in asleep /\ mon_pc[v] \in {"enter", "rewait"}
    BY <1>1, <1>5 DEF Types
  <2>2. PICK w : w \in HandOver.woken
    BY <2>1, HandOverFacts
  <2>3. w \in asleep /\ mon_pc[w] \in {"enter", "rewait"}
    BY <2>2, HandOverFacts
  <2>4. QED
    BY <1>1, <1>5, <2>2, <2>3 DEF Types
<1>11. QED
  BY <1>6, <1>7, <1>8, <1>9, <1>10

\* The ensure clause of wait while another thread has the monitor.
LEMMA RewaitBlockedStep ==
  ASSUME MonitorUse, Inv, NEW t \in Threads, rewait(t), BlockedBy(t)
  PROVE  Inv'
<1> USE DEF Inv
<1>1. /\ t \notin asleep /\ mon_pc[t] \in {"wait", "rewait"}
      /\ timer' = timer \ {t}
      /\ cv_waiters' = IF mon_pc[t] = "wait" THEN Interrupted(t) ELSE cv_waiters
      /\ mon_waiting_queue' = Append(mon_waiting_queue, t)
      /\ asleep' = asleep \cup {t}
      /\ mon_pc' = [mon_pc EXCEPT ![t] = "rewait"]
      /\ UNCHANGED <<mon_owner, mon_count, mon_entering_queue, saved, depth>>
  BY DEF rewait, At, Goto
<1>2. mon_owner \in Threads
  BY DEF BlockedBy, Types
<1>3. /\ cv_waiters' \in Seq(Threads) /\ NoDuplicates(cv_waiters')
      /\ Elements(cv_waiters') = Elements(cv_waiters) \ {t}
  BY <1>1, InterruptedFacts DEF QueuesMatch, Types
<1>4. t \notin Elements(mon_waiting_queue)
  BY <1>1 DEF QueuesMatch
<1>5. /\ mon_waiting_queue' \in Seq(Threads) /\ NoDuplicates(mon_waiting_queue')
      /\ Elements(mon_waiting_queue') = Elements(mon_waiting_queue) \cup {t}
  BY <1>1, <1>4, Appended DEF QueuesMatch, Types
<1>6. mon_pc'[t] = "rewait" /\ \A u \in Threads \ {t} : mon_pc'[u] = mon_pc[u]
  BY <1>1 DEF Types
<1>7. Types'
  <2>1. mon_pc' \in [Threads -> Points]
    BY <1>1 DEF Types, Points
  <2>2. QED
    BY <1>1, <1>3, <1>5, <2>1 DEF Types
<1>8. Owner' /\ Counts'
  BY <1>1, <1>6 DEF Owner, Counts, MonitorUse, Types
<1>9. Asleep' /\ Timers'
  BY <1>1, <1>6 DEF Asleep, Timers, Types
<1>10. QueuesMatch'
  <2>1. \A u \in asleep : u # t /\ u \in Threads /\ mon_pc'[u] = mon_pc[u]
    BY <1>1, <1>6 DEF Types
  <2>2. \A u \in Elements(cv_waiters') : mon_pc'[u] = "wait"
    BY <1>3, <1>6, ElementsTyped DEF QueuesMatch, Types
  <2>3. {u \in asleep' : mon_pc'[u] = "wait"} \subseteq Elements(cv_waiters')
    BY <1>1, <1>3, <1>6, <2>1 DEF QueuesMatch
  <2>4. /\ Elements(mon_entering_queue') = {u \in asleep' : mon_pc'[u] = "enter"}
        /\ Elements(mon_waiting_queue') = {u \in asleep' : mon_pc'[u] = "rewait"}
    BY <1>1, <1>5, <1>6, <2>1 DEF QueuesMatch
  <2>5. NoDuplicates(mon_entering_queue')
    BY <1>1 DEF QueuesMatch
  <2>6. QED
    BY <1>3, <1>5, <2>2, <2>3, <2>4, <2>5 DEF QueuesMatch
<1>11. HandedOver'
  BY <1>1, <1>2, <1>7 DEF HandedOver, Types
<1>12. QED
  BY <1>7, <1>8, <1>9, <1>10, <1>11

\* The ensure clause of wait takes the monitor.
LEMMA RewaitTakenStep ==
  ASSUME MonitorUse, Inv, NEW t \in Threads, rewait(t), ~BlockedBy(t)
  PROVE  Inv'
<1> USE DEF Inv
<1>1. /\ t \notin asleep /\ mon_pc[t] \in {"wait", "rewait"}
      /\ timer' = timer \ {t}
      /\ cv_waiters' = IF mon_pc[t] = "wait" THEN Interrupted(t) ELSE cv_waiters
      /\ mon_owner' = t /\ mon_count' = saved[t]
      /\ mon_pc' = [mon_pc EXCEPT ![t] = "in"]
      /\ UNCHANGED <<mon_waiting_queue, asleep, mon_entering_queue, saved, depth>>
  BY DEF rewait, At, Goto, CountRestored
<1>2. \A u \in Threads : mon_pc[u] # "in"
  BY <1>1 DEF BlockedBy, Owner, MonitorUse
<1>3. /\ cv_waiters' \in Seq(Threads) /\ NoDuplicates(cv_waiters')
      /\ Elements(cv_waiters') = Elements(cv_waiters) \ {t}
  BY <1>1, InterruptedFacts DEF QueuesMatch, Types
<1>4. mon_pc'[t] = "in" /\ \A u \in Threads \ {t} : mon_pc'[u] = mon_pc[u]
  BY <1>1 DEF Types
<1>5. Types'
  <2>1. mon_pc' \in [Threads -> Points]
    BY <1>1 DEF Types, Points
  <2>2. QED
    BY <1>1, <1>3, <2>1 DEF Types
<1>6. Owner' /\ Counts'
  BY <1>1, <1>2, <1>4 DEF Owner, Counts, MonitorUse, Types
<1>7. Asleep' /\ Timers'
  BY <1>1, <1>4 DEF Asleep, Timers, Types
<1>8. QueuesMatch'
  <2>1. \A u \in asleep : u # t /\ u \in Threads /\ mon_pc'[u] = mon_pc[u]
    BY <1>1, <1>4 DEF Types
  <2>2. \A u \in Elements(cv_waiters') : mon_pc'[u] = "wait"
    BY <1>3, <1>4, ElementsTyped DEF QueuesMatch, Types
  <2>3. {u \in asleep' : mon_pc'[u] = "wait"} \subseteq Elements(cv_waiters')
    BY <1>1, <1>3, <2>1 DEF QueuesMatch
  <2>4. QED
    BY <1>1, <1>3, <2>1, <2>2, <2>3 DEF QueuesMatch
<1>9. HandedOver'
  BY <1>1, <1>5 DEF HandedOver, Types
<1>10. QED
  BY <1>5, <1>6, <1>7, <1>8, <1>9

\* A wake-up by the timeout, by signal, by broadcast or by Thread.kill.
LEMMA WokenStep ==
  ASSUME MonitorUse, Inv, asleep' \subseteq asleep,
         \A u \in asleep \ asleep' : mon_pc[u] = "wait",
         timer' \subseteq timer,
         cv_waiters' \in Seq(Threads), NoDuplicates(cv_waiters'),
         Elements(cv_waiters') \subseteq Elements(cv_waiters),
         Elements(cv_waiters) \ Elements(cv_waiters') \subseteq Threads \ asleep',
         UNCHANGED <<mon_owner, mon_count, mon_entering_queue, mon_waiting_queue,
                     mon_pc, saved, depth>>
  PROVE  Inv'
<1> USE DEF Inv
<1>1. Types' /\ Owner' /\ Counts'
  BY DEF Types, Owner, Counts
<1>2. Asleep' /\ Timers'
  BY DEF Asleep, Timers
<1>3. QueuesMatch'
  BY DEF QueuesMatch
<1>4. HandedOver'
  BY DEF HandedOver
<1>5. QED
  BY <1>1, <1>2, <1>3, <1>4

LEMMA TimeoutStep ==
  ASSUME MonitorUse, Inv, NEW t \in Threads, TimeoutFires(t)
  PROVE  Inv'
<1>1. /\ mon_pc[t] = "wait" /\ timer' \subseteq timer /\ asleep' = asleep \ {t}
      /\ UNCHANGED <<mon_owner, mon_count, mon_entering_queue, mon_waiting_queue,
                     cv_waiters, mon_pc, saved, depth>>
  BY DEF TimeoutFires, Inv, Timers, queues
<1>2. cv_waiters \in Seq(Threads) /\ NoDuplicates(cv_waiters)
  BY DEF Inv, Types, QueuesMatch
<1>3. QED
  BY <1>1, <1>2, WokenStep

LEMMA SignalStep ==
  ASSUME MonitorUse, Inv, NEW t \in Threads, signal(t) \/ broadcast(t)
  PROVE  Inv'
<1>1. /\ cv_waiters \in Seq(Threads) /\ NoDuplicates(cv_waiters)
      /\ Elements(cv_waiters) \subseteq Threads
      /\ \A u \in Elements(cv_waiters) : mon_pc[u] = "wait"
  BY ElementsTyped DEF Inv, Types, QueuesMatch
<1>2. cv_waiters # <<>>
  BY DEF signal, broadcast
<1>3. PICK ws, rest : Wake(t, ws, rest) /\ \/ ws = {Head(cv_waiters)} /\ rest = Tail(cv_waiters)
                                           \/ ws = Elements(cv_waiters) /\ rest = <<>>
  BY DEF signal, broadcast
<1>4. /\ asleep' = asleep \ ws /\ cv_waiters' = rest
      /\ UNCHANGED <<mon_owner, mon_count, mon_entering_queue, mon_waiting_queue,
                     mon_pc, timer, saved, depth>>
  BY <1>3 DEF Wake
<1>5. /\ rest \in Seq(Threads) /\ NoDuplicates(rest)
      /\ ws \subseteq Elements(cv_waiters) /\ Elements(rest) = Elements(cv_waiters) \ ws
  <2>1. CASE ws = {Head(cv_waiters)} /\ rest = Tail(cv_waiters)
    BY <1>1, <1>2, <2>1, Shifted
  <2>2. CASE ws = Elements(cv_waiters) /\ rest = <<>>
    BY <2>2 DEF Elements, NoDuplicates
  <2>3. QED
    BY <1>3, <2>1, <2>2
<1>6. QED
  BY <1>1, <1>4, <1>5, WokenStep

\* A killed thread outside the monitor is dead, others unwind from where they are.
LEMMA KillStep ==
  ASSUME MonitorUse, Inv, NEW t \in Threads, Kill(t)
  PROVE  Inv'
<1> USE DEF Inv
<1>1. /\ mon_pc[t] \in {"out", "in", "wait"} /\ asleep' = asleep \ {t}
      /\ UNCHANGED <<mon_owner, mon_count, mon_entering_queue, mon_waiting_queue,
                     cv_waiters, timer, saved, depth>>
  BY DEF Kill, MonitorUse, queues
<1>2. CASE mon_pc[t] # "out"
  <2>1. mon_pc' = mon_pc
    BY <1>1, <1>2 DEF Kill, Goto, Types
  <2>2. \A u \in asleep \ asleep' : mon_pc[u] = "wait"
    BY <1>1, <1>2 DEF Asleep
  <2>3. cv_waiters \in Seq(Threads) /\ NoDuplicates(cv_waiters)
    BY DEF Types, QueuesMatch
  <2> HIDE DEF Inv
  <2>4. QED
    BY <1>1, <2>1, <2>2, <2>3, WokenStep
<1>3. CASE mon_pc[t] = "out"
  <2>1. /\ mon_pc' = [mon_pc EXCEPT ![t] = "dead"] /\ asleep' = asleep
        /\ t \notin asleep
    BY <1>1, <1>3 DEF Kill, Goto, Asleep
  <2>2. mon_pc'[t] = "dead" /\ \A u \in Threads \ {t} : mon_pc'[u] = mon_pc[u]
    BY <2>1 DEF Types
  <2>3. Types'
    <3>1. mon_pc' \in [Threads -> Points]
      BY <2>1 DEF Types, Points
    <3>2. QED
      BY <1>1, <2>1, <3>1 DEF Types
  <2>4. Owner' /\ Counts'
    BY <1>1, <1>3, <2>2 DEF Owner, Counts, Types
  <2>5. Asleep' /\ Timers'
    BY <1>1, <1>3, <2>1, <2>2 DEF Asleep, Timers, Types
  <2>6. QueuesMatch'
    <3>1. \A u \in asleep : u # t /\ u \in Threads /\ mon_pc'[u] = mon_pc[u]
      BY <2>1, <2>2 DEF Types
    <3>2. \A u \in Elements(cv_waiters) : mon_pc'[u] = "wait"
      BY <1>3, <2>2, ElementsTyped DEF QueuesMatch, Types
    <3>3. QED
      BY <1>1, <2>1, <3>1, <3>2 DEF QueuesMatch
  <2>7. HandedOver'
    <3> SUFFICES ASSUME NEW v \in asleep, mon_pc'[v] \in {"enter", "rewait"},
                        mon_owner \notin Threads
                 PROVE  \E u \in Threads \ asleep : mon_pc'[u] \in {"enter", "wait", "rewait"}
      BY <1>1, <2>1, <2>3 DEF HandedOver, Types
    <3>1. mon_pc[v] \in {"enter", "rewait"}
      BY <2>1, <2>2 DEF Types
    <3>2. PICK u \in Threads \ asleep : mon_pc[u] \in {"enter", "wait", "rewait"}
      BY <3>1 DEF HandedOver, Types
    <3>3. QED
      BY <1>3, <2>2, <3>2
  <2>8. QED
    BY <2>3, <2>4, <2>5, <2>6, <2>7
<1>4. QED
  BY <1>1, <1>2, <1>3

-----------------------------------------------------------------------------
(* The theorems.                                                            *)

LEMMA Invariance ==
  ASSUME MonitorUse
  PROVE  Spec => []Inv
<1>1. Init => Inv
  <2> SUFFICES ASSUME Init PROVE Inv
    OBVIOUS
  <2>1. <<>> \in Seq(Threads) /\ Elements(<<>>) = {} /\ NoDuplicates(<<>>)
    BY DEF Elements, NoDuplicates
  <2>2. Types
    BY <2>1 DEF Init, Types, Points, MonitorUse
  <2>3. Owner /\ Counts
    BY DEF Init, Owner, Counts, MonitorUse
  <2>4. Asleep /\ Timers /\ QueuesMatch /\ HandedOver
    BY <2>1 DEF Init, Asleep, Timers, QueuesMatch, HandedOver
  <2>5. QED
    BY <2>2, <2>3, <2>4 DEF Inv
<1>2. Inv /\ [Next]_vars => Inv'
  <2> SUFFICES ASSUME Inv, [Next]_vars PROVE Inv'
    OBVIOUS
  <2>1. CASE UNCHANGED vars
    BY <2>1 DEF vars, queues, Inv, Types, Owner, Counts, Asleep, Timers, QueuesMatch,
                HandedOver
  <2>2. ASSUME NEW t \in Threads, try_mon_enter(t)
        PROVE  Inv'
    BY <2>2, EnteredStep DEF try_mon_enter, At
  <2>3. ASSUME NEW t \in Threads, mon_enter(t)
        PROVE  Inv'
    BY <2>3, EnteredStep, BlockedStep DEF mon_enter
  <2>4. ASSUME NEW t \in Threads, rewait(t)
        PROVE  Inv'
    BY <2>4, RewaitBlockedStep, RewaitTakenStep
  <2>5. QED
    BY <2>1, <2>2, <2>3, <2>4, ExitStep, WaitStep, TimeoutStep, SignalStep, KillStep
       DEF Next
<1>3. QED
  BY <1>1, <1>2, PTL DEF Spec

\* Every variable of a monitor keeps its type: mon_count never exceeds the
\* nesting of the owner's mon_synchronize and never falls below 0.
THEOREM MonitorTypes ==
  ASSUME MonitorUse
  PROVE  Spec => []TypeOK
<1>1. Inv => TypeOK
  <2> SUFFICES ASSUME Inv PROVE TypeOK
    OBVIOUS
  <2>1. mon_count \in 0..MaxDepth
    <3>1. CASE mon_owner = NoThread
      BY <3>1 DEF Inv, Owner, MonitorUse
    <3>2. CASE mon_owner \in Threads
      BY <3>2 DEF Inv, Owner, Counts, Types
    <3>3. QED
      BY <3>1, <3>2 DEF Inv, Types
  <2>2. QED
    BY <2>1 DEF Inv, Types, TypeOK, Points
<1>2. QED
  BY <1>1, Invariance, PTL

\* A thread in a monitor owns it with the count of its entries, also after a
\* wait that a signal, a timeout or Thread.kill ended, and nested to any depth.
THEOREM MonitorsOwned ==
  ASSUME MonitorUse
  PROVE  Spec => []MonitorOwned
<1>1. Inv => MonitorOwned
  BY DEF Inv, MonitorOwned, Owner, Counts, Types
<1>2. QED
  BY <1>1, Invariance, PTL

\* No wake-up of a monitor or of its condition variable is lost: the queues list
\* the sleeping threads once each, and a free monitor that threads sleep for has
\* been handed to one of them.
THEOREM MonitorWakeupsKept ==
  ASSUME MonitorUse
  PROVE  Spec => []MonitorWakes
<1>1. Inv => MonitorWakes
  BY DEF Inv, MonitorWakes
<1>2. QED
  BY <1>1, Invariance, PTL

-----------------------------------------------------------------------------
(* Sync: the synchronizer of sync.rb.  The shared locks of a thread are      *)
(* those of its entry in sync_upgrade_waiting while it has one.              *)

\* nil is not a thread.
SyncUse == NoThread \notin Threads /\ MaxNest \in Nat

Entries == [thread : Threads, count : Nat]
Upgraders(q) == [i \in DOMAIN q |-> q[i].thread]
Shares(q, s) == [k \in Threads |->
  IF \E i \in DOMAIN q : q[i].thread = k
  THEN q[CHOOSE i \in DOMAIN q : q[i].thread = k].count ELSE s[k]]

SyncTypes ==
  /\ sync_mode \in {"UN", "SH", "EX"}
  /\ sync_sh_locker \in [Threads -> Nat]
  /\ sync_ex_locker \in Threads \cup {NoThread}
  /\ sync_ex_count \in Nat
  /\ sync_waiting \in Seq(Threads)
  /\ sync_upgrade_waiting \in Seq(Entries)
  /\ sync_pc \in [Threads -> {"idle", "SH", "EX"}]
  /\ sync_asleep \subseteq Threads
  /\ sync_runs \in [Threads -> Seq(Threads)]
  /\ held \in [Threads -> Seq({"SH", "EX"})]

\* A sleeping thread is in one list, once: a queue, or what a thread has still
\* to run.
SyncListed ==
  /\ NoDuplicates(sync_waiting) /\ NoDuplicates(Upgraders(sync_upgrade_waiting))
  /\ Elements(sync_waiting) \cap Elements(Upgraders(sync_upgrade_waiting)) = {}
  /\ \A u \in Threads :
       /\ NoDuplicates(sync_runs[u])
       /\ Elements(sync_runs[u]) \cap Elements(sync_waiting) = {}
       /\ Elements(sync_runs[u]) \cap Elements(Upgraders(sync_upgrade_waiting)) = {}
       /\ \A v \in Threads \ {u} : Elements(sync_runs[u]) \cap Elements(sync_runs[v]) = {}
  /\ sync_asleep = Elements(sync_waiting) \cup Elements(Upgraders(sync_upgrade_waiting))
                     \cup UNION {Elements(sync_runs[u]) : u \in Threads}

SyncAsleep ==
  /\ \A t \in sync_asleep : sync_pc[t] # "idle" /\ sync_runs[t] = <<>>
  /\ \A t \in Elements(sync_waiting) : sync_sh_locker[t] = 0
  /\ \A t \in Elements(Upgraders(sync_upgrade_waiting)) :
       sync_sh_locker[t] = 0 /\ sync_pc[t] = "EX"

\* Outside sync_lock only the holders have a shared lock.
SyncModes ==
  /\ sync_mode = "EX" => /\ sync_ex_locker \in Threads /\ sync_ex_count > 0
                         /\ sync_pc[sync_ex_locker] = "idle"
  /\ sync_mode # "EX" => sync_ex_locker = NoThread /\ sync_ex_count = 0
  /\ sync_mode = "SH" => \E t \in Threads : sync_sh_locker[t] > 0
  /\ \A t \in Threads : sync_sh_locker[t] > 0 =>
       sync_mode = "SH" \/ sync_pc[t] = "EX" \/ sync_ex_locker = t
  /\ \A t \in Threads : sync_pc[t] = "SH" =>
       Shares(sync_upgrade_waiting, sync_sh_locker)[t] = 0

\* What a thread asked for: n shared locks, then an exclusive one, which makes
\* c with what it asked for afterwards.
Asked(h, n, c) == /\ Len(h) = n + c
                  /\ \A i \in 1..n : h[i] = "SH"
                  /\ c > 0 => h[n+1] = "EX"
Exclusive(t) == IF sync_ex_locker = t THEN sync_ex_count ELSE 0
SyncCounts == \A t \in Threads :
  Asked(held[t], Shares(sync_upgrade_waiting, sync_sh_locker)[t], Exclusive(t))

SyncInv == /\ SyncTypes /\ SyncListed /\ SyncAsleep /\ SyncModes /\ SyncCounts
           /\ SyncHandedOver

LEMMA EntryThreads ==
  ASSUME NEW q \in Seq(Entries)
  PROVE  /\ Upgraders(q) \in Seq(Threads) /\ Len(Upgraders(q)) = Len(q)
         /\ DOMAIN q = 1..Len(q) /\ DOMAIN Upgraders(q) = 1..Len(q)
         /\ \A i \in 1..Len(q) : /\ q[i] \in Entries /\ Upgraders(q)[i] = q[i].thread
                                 /\ q[i].thread \in Threads /\ q[i].count \in Nat
<1>1. Len(q) \in Nat /\ DOMAIN q = 1..Len(q) /\ \A i \in 1..Len(q) : q[i] \in Entries
  OBVIOUS
<1>2. \A i \in 1..Len(q) : q[i].thread \in Threads /\ q[i].count \in Nat
  BY <1>1 DEF Entries
<1>3. QED
  BY <1>1, <1>2 DEF Upgraders

LEMMA SharesGiven ==
  ASSUME NEW q \in Seq(Entries), NEW s \in [Threads -> Nat], NoDuplicates(Upgraders(q))
  PROVE  /\ Shares(q, s) \in [Threads -> Nat]
         /\ \A i \in 1..Len(q) : Shares(q, s)[q[i].thread] = q[i].count
         /\ \A k \in Threads \ Elements(Upgraders(q)) : Shares(q, s)[k] = s[k]
<1>1. /\ \A i, j \in 1..Len(q) : q[i].thread = q[j].thread => i = j
      /\ Elements(Upgraders(q)) = {q[i].thread : i \in 1..Len(q)}
  <2>1. DOMAIN Upgraders(q) = 1..Len(q) /\ \A i \in 1..Len(q) : Upgraders(q)[i] = q[i].thread
    BY EntryThreads
  <2>2. \A i, j \in 1..Len(q) : q[i].thread = q[j].thread => i = j
    BY <2>1 DEF NoDuplicates
  <2>3. Elements(Upgraders(q)) = {q[i].thread : i \in 1..Len(q)}
    BY <2>1 DEF Elements
  <2>4. QED
    BY <2>2, <2>3
<1>2. ASSUME NEW i \in 1..Len(q)
      PROVE  Shares(q, s)[q[i].thread] = q[i].count
  <2>1. (CHOOSE j \in DOMAIN q : q[j].thread = q[i].thread) = i
    BY <1>1, EntryThreads
  <2>2. QED
    BY <2>1, EntryThreads DEF Shares
<1>3. ASSUME NEW k \in Threads, k \notin Elements(Upgraders(q))
      PROVE  Shares(q, s)[k] = s[k]
  BY <1>1, <1>3, EntryThreads DEF Shares
<1>4. Shares(q, s) \in [Threads -> Nat]
  <2>1. ASSUME NEW k \in Threads
        PROVE  Shares(q, s)[k] \in Nat
    <3>1. CASE k \in Elements(Upgraders(q))
      BY <1>1, <1>2, <3>1, EntryThreads
    <3>2. CASE k \notin Elements(Upgraders(q))
      BY <1>3, <3>2
    <3>3. QED
      BY <3>1, <3>2
  <2>2. QED
    BY <2>1 DEF Shares
<1>5. QED
  BY <1>2, <1>3, <1>4

\* sync_unlock puts back the shared locks that the invariant counts.
LEMMA RestoreGives ==
  ASSUME SyncTypes, NoDuplicates(Upgraders(sync_upgrade_waiting)),
         NEW s \in [Threads -> Nat]
  PROVE  Synchronizer!Restore(s) = Shares(sync_upgrade_waiting, s)
<1> DEFINE q == sync_upgrade_waiting
<1>1. q \in Seq(Entries)
  BY DEF SyncTypes
<1>2. \A i, j \in DOMAIN q : q[i].thread = q[j].thread => i = j
  BY <1>1, EntryThreads DEF NoDuplicates
<1>3. ASSUME NEW k \in Threads
      PROVE  Synchronizer!Restore(s)[k] = Shares(q, s)[k]
  <2> DEFINE entries == {i \in DOMAIN q : q[i].thread = k}
  <2>1. CASE entries = {}
    BY <2>1 DEF Shares, Synchronizer!Restore
  <2>2. CASE entries # {}
    <3>1. PICK e \in DOMAIN q : q[e].thread = k
      BY <2>2
    <3>2. entries = {e}
      BY <1>2, <3>1
    <3>3. (CHOOSE i \in entries : \A j \in entries : j <= i) = e
      <4>1. DOMAIN q = 1..Len(q) /\ e \in Nat /\ e <= e
        BY <1>1, <3>1, EntryThreads
      <4>2. QED
        BY <3>2, <4>1
    <3>4. (CHOOSE i \in DOMAIN q : q[i].thread = k) = e
      BY <1>2, <3>1
    <3>5. Synchronizer!Restore(s)[k] = q[CHOOSE i \in entries : \A j \in entries : j <= i].count
      BY <2>2 DEF Synchronizer!Restore
    <3>6. QED
      BY <3>1, <3>3, <3>4, <3>5 DEF Shares
  <2>3. QED
    BY <2>1, <2>2
<1> HIDE DEF q
<1>4. QED
  BY <1>3 DEF Shares, Synchronizer!Restore, q

LEMMA SharesChanged ==
  ASSUME NEW q \in Seq(Entries), NEW s \in [Threads -> Nat], NoDuplicates(Upgraders(q)),
         NEW t \in Threads \ Elements(Upgraders(q)),
         NEW z \in [Threads -> Nat], \A u \in Threads \ {t} : z[u] = s[u]
  PROVE  Shares(q, z) = [Shares(q, s) EXCEPT ![t] = z[t]]
<1>1. \A i \in DOMAIN q : q[i].thread # t
  BY EntryThreads DEF Elements
<1>2. QED
  BY <1>1 DEF Shares

LEMMA SharesEmpty ==
  ASSUME NEW s \in [Threads -> Nat]
  PROVE  Shares(<<>>, s) = s /\ Elements(Upgraders(<<>>)) = {} /\ NoDuplicates(Upgraders(<<>>))
BY DEF Shares, Elements, NoDuplicates, Upgraders

LEMMA EntryAdded ==
  ASSUME NEW q \in Seq(Entries), NEW s \in [Threads -> Nat], NoDuplicates(Upgraders(q)),
         NEW t \in Threads \ Elements(Upgraders(q))
  PROVE  LET a == Append(q, [thread |-> t, count |-> s[t]])
         IN /\ a \in Seq(Entries)
            /\ Elements(Upgraders(a)) = Elements(Upgraders(q)) \cup {t}
            /\ NoDuplicates(Upgraders(a))
            /\ Shares(a, [s EXCEPT ![t] = 0]) = Shares(q, s)
<1> DEFINE e == [thread |-> t, count |-> s[t]]
           a == Append(q, e)
           z == [s EXCEPT ![t] = 0]
<1>1. e \in Entries /\ e.thread = t /\ e.count = s[t]
  BY DEF Entries
<1>2. /\ Len(q) \in Nat /\ a \in Seq(Entries) /\ Len(a) = Len(q) + 1
      /\ a[Len(q)+1] = e /\ \A i \in 1..Len(q) : a[i] = q[i]
  BY <1>1
<1>3. z \in [Threads -> Nat] /\ z[t] = 0 /\ \A k \in Threads \ {t} : z[k] = s[k]
  OBVIOUS
<1> HIDE DEF a, z, e
<1>4. Upgraders(a) = Append(Upgraders(q), t)
  <2>1. /\ Upgraders(a) \in Seq(Threads) /\ Len(Upgraders(a)) = Len(q) + 1
        /\ \A i \in 1..Len(q)+1 : Upgraders(a)[i] = a[i].thread
    BY <1>2, EntryThreads
  <2>2. /\ Append(Upgraders(q), t) \in Seq(Threads) /\ Len(Append(Upgraders(q), t)) = Len(q) + 1
        /\ Append(Upgraders(q), t)[Len(q)+1] = t
        /\ \A i \in 1..Len(q) : Append(Upgraders(q), t)[i] = q[i].thread
    BY <1>2, EntryThreads
  <2>3. \A i \in 1..Len(q)+1 : Upgraders(a)[i] = Append(Upgraders(q), t)[i]
    BY <1>1, <1>2, <2>1, <2>2, SMTT(20)
  <2>4. QED
    BY <1>2, <2>1, <2>2, <2>3
<1>5. Elements(Upgraders(a)) = Elements(Upgraders(q)) \cup {t} /\ NoDuplicates(Upgraders(a))
  BY <1>4, EntryThreads, Appended
<1>6. Shares(a, z) = Shares(q, s)
  <2>1. ASSUME NEW k \in Threads
        PROVE  Shares(a, z)[k] = Shares(q, s)[k]
    <3>1. CASE k = t
      <4>0. Len(q) + 1 \in 1..Len(a)
        BY <1>2
      <4>1. Shares(a, z)[a[Len(q)+1].thread] = a[Len(q)+1].count
        BY <1>2, <1>3, <1>5, <4>0, SharesGiven, ZenonT(30)
      <4>2. Shares(q, s)[t] = s[t]
        BY SharesGiven
      <4>3. QED
        BY <1>1, <1>2, <3>1, <4>1, <4>2
    <3>2. CASE k # t /\ k \in Elements(Upgraders(q))
      <4>1. PICK i \in 1..Len(q) : q[i].thread = k
        BY <3>2, EntryThreads DEF Elements
      <4>2. Shares(q, s)[q[i].thread] = q[i].count
        BY SharesGiven
      <4>3. i \in 1..Len(a) /\ a[i] = q[i]
        BY <1>2
      <4>4. Shares(a, z)[a[i].thread] = a[i].count
        BY <1>2, <1>3, <1>5, <4>3, SharesGiven
      <4>5. QED
        BY <4>1, <4>2, <4>3, <4>4
    <3>3. CASE k # t /\ k \notin Elements(Upgraders(q))
      <4>1. Shares(q, s)[k] = s[k]
        BY <3>3, SharesGiven
      <4>2. Shares(a, z)[k] = z[k]
        BY <1>2, <1>3, <1>5, <3>3, SharesGiven
      <4>3. QED
        BY <1>3, <3>3, <4>1, <4>2
    <3>4. QED
      BY <3>1, <3>2, <3>3
  <2>2. QED
    BY <2>1 DEF Shares
<1>7. QED
  BY <1>2, <1>5, <1>6 DEF a, z, e

\* A thread that is awake has no entry.
LEMMA AwakeShares ==
  ASSUME SyncInv, NEW t \in Threads, t \notin sync_asleep
  PROVE  /\ t \notin Elements(sync_waiting)
         /\ t \notin Elements(Upgraders(sync_upgrade_waiting))
         /\ Shares(sync_upgrade_waiting, sync_sh_locker)[t] = sync_sh_locker[t]
<1>1. /\ t \notin Elements(sync_waiting)
      /\ t \notin Elements(Upgraders(sync_upgrade_waiting))
  BY DEF SyncInv, SyncListed
<1>2. /\ sync_upgrade_waiting \in Seq(Entries) /\ sync_sh_locker \in [Threads -> Nat]
      /\ NoDuplicates(Upgraders(sync_upgrade_waiting))
  BY DEF SyncInv, SyncTypes, SyncListed
<1>3. QED
  BY <1>1, <1>2, SharesGiven

LEMMA AskedAppended ==
  ASSUME NEW h \in Seq({"SH", "EX"}), NEW m \in {"SH", "EX"},
         NEW n \in Nat, NEW c \in Nat, Asked(h, n, c)
  PROVE  /\ Append(h, m) \in Seq({"SH", "EX"}) /\ Append(h, m) # <<>>
         /\ c > 0 => Asked(Append(h, m), n, c + 1)
         /\ c = 0 /\ m = "EX" => Asked(Append(h, m), n, 1)
         /\ c = 0 /\ m = "SH" => Asked(Append(h, m), n + 1, 0)
<1> DEFINE a == Append(h, m)
<1>1. /\ a \in Seq({"SH", "EX"}) /\ a # <<>> /\ Len(h) \in Nat
      /\ Len(a) = Len(h) + 1 /\ a[Len(h)+1] = m
      /\ \A i \in 1..Len(h) : a[i] = h[i]
  OBVIOUS
<1>2. /\ Len(h) = n + c /\ \A i \in 1..n : h[i] = "SH"
      /\ c > 0 => h[n+1] = "EX"
  BY DEF Asked
<1> HIDE DEF a
<1>3. c > 0 => Asked(a, n, c + 1)
  <2> SUFFICES ASSUME c > 0 PROVE Asked(a, n, c + 1)
    OBVIOUS
  <2>1. n + 1 \in 1..Len(h) /\ \A i \in 1..n : i \in 1..Len(h)
    BY <1>2
  <2>2. QED
    BY <1>1, <1>2, <2>1 DEF Asked
<1>4. c = 0 /\ m = "EX" => Asked(a, n, 1)
  BY <1>1, <1>2 DEF Asked
<1>5. c = 0 /\ m = "SH" => Asked(a, n + 1, 0)
  BY <1>1, <1>2 DEF Asked
<1>6. QED
  BY <1>1, <1>3, <1>4, <1>5 DEF a

LEMMA AskedShortened ==
  ASSUME NEW h \in Seq({"SH", "EX"}),
         NEW n \in Nat, NEW c \in Nat, Asked(h, n, c), n + c > 0
  PROVE  LET a == SubSeq(h, 1, Len(h) - 1)
         IN /\ a \in Seq({"SH", "EX"}) /\ (a = <<>> <=> n + c = 1)
            /\ c > 0 => Asked(a, n, c - 1)
            /\ c = 0 => Asked(a, n - 1, 0)
<1> DEFINE a == SubSeq(h, 1, Len(h) - 1)
<1>1. /\ Len(h) = n + c /\ \A i \in 1..n : h[i] = "SH"
      /\ c > 0 => h[n+1] = "EX"
  BY DEF Asked
<1>2. /\ a \in Seq({"SH", "EX"}) /\ Len(a) = Len(h) - 1
      /\ \A i \in 1..Len(h)-1 : a[i] = h[i]
  BY <1>1
<1> HIDE DEF a
<1>3. a = <<>> <=> n + c = 1
  BY <1>1, <1>2
<1>4. c > 0 => Asked(a, n, c - 1)
  BY <1>1, <1>2 DEF Asked
<1>5. c = 0 => Asked(a, n - 1, 0)
  BY <1>1, <1>2 DEF Asked
<1>6. QED
  BY <1>2, <1>3, <1>4, <1>5 DEF a

\* sync_try_lock_sub gives the lock.
LEMMA TakeKeeps ==
  ASSUME SyncUse, SyncInv, NEW t \in Threads, NEW m \in {"SH", "EX"},
         t \notin sync_asleep, sync_pc[t] \in {"idle", m},
         Synchronizer!Granted(t, m), Synchronizer!Take(t, m)
  PROVE  SyncInv'
<1> DEFINE q == sync_upgrade_waiting
           s == sync_sh_locker
<1>1. /\ SyncTypes /\ SyncListed /\ SyncAsleep /\ SyncModes /\ SyncCounts
      /\ q \in Seq(Entries) /\ s \in [Threads -> Nat] /\ NoDuplicates(Upgraders(q))
      /\ NoThread \notin Threads /\ sync_ex_count \in Nat
  BY DEF SyncInv, SyncTypes, SyncListed, SyncUse
<1>2. /\ held' = [held EXCEPT ![t] = Append(held[t], m)]
      /\ sync_pc' = [sync_pc EXCEPT ![t] = "idle"]
      /\ UNCHANGED <<sync_waiting, sync_upgrade_waiting, sync_asleep, sync_runs>>
  BY DEF Synchronizer!Take, Synchronizer!queues
<1>3. t \notin Elements(Upgraders(q)) /\ Shares(q, s)[t] = s[t] /\ Shares(q, s) \in [Threads -> Nat]
  BY <1>1, AwakeShares, SharesGiven
<1>4. \/ /\ sync_mode = "EX" /\ sync_ex_locker = t /\ sync_ex_count > 0
         /\ sync_ex_count' = sync_ex_count + 1
         /\ UNCHANGED <<sync_mode, sync_sh_locker, sync_ex_locker>>
      \/ /\ sync_ex_locker = NoThread /\ sync_ex_count = 0 /\ m = "EX"
         /\ sync_mode' = "EX" /\ sync_ex_locker' = t /\ sync_ex_count' = 1
         /\ UNCHANGED sync_sh_locker
         /\ \A u \in Threads \ {t} : s[u] > 0 => sync_pc[u] = "EX"
      \/ /\ sync_ex_locker = NoThread /\ sync_ex_count = 0 /\ m = "SH"
         /\ sync_mode' = "SH" /\ s' = [s EXCEPT ![t] = s[t] + 1]
         /\ UNCHANGED <<sync_ex_locker, sync_ex_count>>
  <2>1. CASE sync_mode = "EX"
    BY <1>1, <2>1 DEF Synchronizer!Granted, Synchronizer!Take, SyncModes
  <2>2. CASE sync_mode # "EX" /\ m = "EX"
    <3>1. /\ sync_ex_locker = NoThread /\ sync_ex_count = 0
          /\ sync_mode' = "EX" /\ sync_ex_locker' = t /\ sync_ex_count' = 1
          /\ UNCHANGED sync_sh_locker
      BY <1>1, <2>2 DEF Synchronizer!Take, SyncModes
    <3>2. sync_mode = "UN" \/ (sync_mode = "SH" /\ {u \in DOMAIN s : s[u] > 0} = {t})
      BY <2>2 DEF Synchronizer!Granted, Synchronizer!Upgradable, Synchronizer!Sharers
    <3>3. \A u \in Threads \ {t} : s[u] > 0 => sync_pc[u] = "EX"
      BY <1>1, <3>1, <3>2 DEF SyncModes
    <3>4. QED
      BY <2>2, <3>1, <3>3
  <2>3. CASE sync_mode # "EX" /\ m = "SH"
    <3>1. /\ sync_ex_locker = NoThread /\ sync_ex_count = 0
          /\ sync_mode' = "SH" /\ UNCHANGED <<sync_ex_locker, sync_ex_count>>
          /\ s' = [s EXCEPT ![t] = IF sync_mode = "UN" THEN 1 ELSE s[t] + 1]
      BY <1>1, <2>3 DEF Synchronizer!Take, SyncModes
    <3>2. sync_mode = "UN" => s[t] = 0
      BY <1>1, <2>3, <3>1 DEF SyncModes
    <3>3. (IF sync_mode = "UN" THEN 1 ELSE s[t] + 1) = s[t] + 1
      BY <3>2
    <3>4. QED
      BY <2>3, <3>1, <3>3
  <2>4. QED
    BY <2>1, <2>2, <2>3
<1>5. s' \in [Threads -> Nat] /\ s'[t] \in Nat /\ Shares(q', s') = [Shares(q, s) EXCEPT ![t] = s'[t]]
      /\ \A u \in Threads \ {t} : s'[u] = s[u]
  <2>1. CASE s' = s
    BY <1>1, <1>2, <1>3, <2>1
  <2>2. CASE s' = [s EXCEPT ![t] = s[t] + 1]
    <3>1. /\ s' \in [Threads -> Nat] /\ t \in Threads \ Elements(Upgraders(q))
          /\ \A u \in Threads \ {t} : s'[u] = s[u]
      BY <1>1, <1>3, <2>2
    <3>2. Shares(q, s') = [Shares(q, s) EXCEPT ![t] = s'[t]]
      BY <1>1, <3>1, SharesChanged
    <3>3. QED
      BY <1>1, <1>2, <3>1, <3>2
  <2>3. QED
    BY <1>4, <2>1, <2>2
<1>6. /\ held[t] \in Seq({"SH", "EX"}) /\ held'[t] = Append(held[t], m)
      /\ \A u \in Threads \ {t} : held'[u] = held[u]
  BY <1>1, <1>2 DEF SyncTypes
<1>6a. /\ s[t] \in Nat /\ Exclusive(t) \in Nat /\ Asked(held[t], s[t], Exclusive(t))
       /\ held'[t] \in Seq({"SH", "EX"}) /\ held'[t] # <<>>
  <2>1. s[t] \in Nat /\ Exclusive(t) \in Nat /\ Asked(held[t], s[t], Exclusive(t))
    BY <1>1, <1>3 DEF SyncCounts, Exclusive
  <2>2. QED
    BY <1>6, <2>1, AskedAppended
<1>7. SyncTypes'
  <2>1. held' \in [Threads -> Seq({"SH", "EX"})]
    BY <1>1, <1>2, <1>6a DEF SyncTypes
  <2>2. QED
    BY <1>1, <1>2, <1>4, <1>5, <2>1 DEF SyncTypes
<1>8. SyncListed'
  BY <1>1, <1>2 DEF SyncListed
<1>9. SyncAsleep'
  <2>1. /\ \A u \in sync_asleep : u # t /\ u \in Threads /\ sync_pc'[u] = sync_pc[u] /\ s'[u] = s[u]
        /\ Elements(sync_waiting) \subseteq sync_asleep
        /\ Elements(Upgraders(q)) \subseteq sync_asleep
    BY <1>1, <1>2, <1>5 DEF SyncListed, SyncTypes
  <2>2. QED
    BY <1>1, <1>2, <2>1 DEF SyncAsleep
<1>10. SyncModes'
  <2>1. /\ sync_pc'[t] = "idle"
        /\ \A u \in Threads \ {t} : /\ sync_pc'[u] = sync_pc[u] /\ s'[u] = s[u]
                                    /\ Shares(q', s')[u] = Shares(q, s)[u]
    BY <1>1, <1>2, <1>3, <1>5 DEF SyncTypes
  <2>2. \A u \in Threads : sync_pc'[u] = "SH" => Shares(q', s')[u] = 0
    BY <1>1, <2>1 DEF SyncModes
  <2>3. CASE sync_mode = "EX" /\ sync_ex_locker = t
    BY <1>1, <1>4, <2>1, <2>2, <2>3 DEF SyncModes
  <2>4. CASE sync_mode' = "EX" /\ sync_ex_locker = NoThread
    BY <1>1, <1>4, <2>1, <2>2, <2>4 DEF SyncModes
  <2>5. CASE sync_mode' = "SH"
    <3>1. s'[t] > 0
      BY <1>1, <1>4, <2>5
    <3>2. QED
      BY <1>1, <1>4, <2>1, <2>2, <2>5, <3>1 DEF SyncModes
  <2>6. QED
    BY <1>4, <2>3, <2>4, <2>5
<1>11. SyncCounts'
  <2> SUFFICES ASSUME NEW u \in Threads
               PROVE  Asked(held'[u], Shares(q', s')[u], Exclusive(u)')
    BY DEF SyncCounts
  <2>1. CASE u # t
    <3>1. held'[u] = held[u] /\ Shares(q', s')[u] = Shares(q, s)[u]
      BY <1>3, <1>5, <1>6, <2>1
    <3>2. Exclusive(u)' = Exclusive(u)
      BY <1>1, <1>4, <2>1 DEF Exclusive
    <3>3. QED
      BY <1>1, <3>1, <3>2 DEF SyncCounts
  <2>2. CASE u = t
    <3>1. Shares(q', s')[t] = s'[t]
      BY <1>1, <1>3, <1>5
    <3>2. CASE sync_ex_locker = t /\ sync_ex_count > 0 /\ sync_ex_count' = sync_ex_count + 1
               /\ UNCHANGED <<s, sync_ex_locker>>
      <4>1. Exclusive(t) > 0 /\ Exclusive(t)' = Exclusive(t) + 1
        BY <3>2 DEF Exclusive
      <4>2. QED
        BY <1>6, <1>6a, <2>2, <3>1, <3>2, <4>1, AskedAppended
    <3>3. CASE sync_ex_locker = NoThread /\ m = "EX" /\ sync_ex_locker' = t /\ sync_ex_count' = 1 /\ s' = s
      <4>1. Exclusive(t) = 0 /\ Exclusive(t)' = 1
        BY <1>1, <3>3 DEF Exclusive
      <4>2. QED
        BY <1>6, <1>6a, <2>2, <3>1, <3>3, <4>1, AskedAppended
    <3>4. CASE sync_ex_locker = NoThread /\ m = "SH" /\ sync_ex_locker' = NoThread
               /\ s' = [s EXCEPT ![t] = s[t] + 1]
      <4>1. Exclusive(t) = 0 /\ Exclusive(t)' = 0 /\ s'[t] = s[t] + 1
        BY <1>1, <3>4 DEF Exclusive
      <4>2. QED
        BY <1>6, <1>6a, <2>2, <3>1, <3>4, <4>1, AskedAppended
    <3>5. QED
      BY <1>4, <3>2, <3>3, <3>4
  <2>3. QED
    BY <2>1, <2>2
<1>12. SyncHandedOver'
  <2>1. t \in DOMAIN sync_pc' \ sync_asleep' /\ held'[t] # <<>>
    BY <1>1, <1>2, <1>6a DEF SyncTypes
  <2>2. QED
    BY <2>1 DEF SyncHandedOver
<1>13. QED
  BY <1>7, <1>8, <1>9, <1>10, <1>11, <1>12 DEF SyncInv

\* When the lock is not given somebody else has it, or is run by somebody else.
LEMMA OtherAwake ==
  ASSUME SyncUse, SyncInv, NEW u \in Threads, NEW t \in Threads, t # u,
         sync_runs[t] = <<>>, sync_ex_locker = u \/ sync_sh_locker[u] > 0
  PROVE  \E w \in Threads \ {t} : w \notin sync_asleep /\ (held[w] # <<>> \/ sync_runs[w] # <<>>)
<1> DEFINE q == sync_upgrade_waiting
           s == sync_sh_locker
<1>1. /\ SyncTypes /\ SyncListed /\ SyncAsleep /\ SyncModes /\ SyncCounts
      /\ q \in Seq(Entries) /\ s \in [Threads -> Nat] /\ NoDuplicates(Upgraders(q))
      /\ NoThread \notin Threads
  BY DEF SyncInv, SyncTypes, SyncListed, SyncUse
<1>2. CASE u \notin sync_asleep
  <2>1. Shares(q, s)[u] = s[u] /\ s[u] \in Nat /\ held[u] \in Seq({"SH", "EX"})
    BY <1>1, <1>2, AwakeShares DEF SyncTypes
  <2>2. Exclusive(u) \in Nat /\ (sync_ex_locker = u => Exclusive(u) > 0)
    BY <1>1 DEF SyncTypes, SyncModes, Exclusive
  <2>3. Len(held[u]) = s[u] + Exclusive(u)
    BY <1>1, <2>1 DEF SyncCounts, Asked
  <2>4. Len(held[u]) # 0
    <3>1. s[u] > 0 \/ Exclusive(u) > 0
      BY <2>2
    <3>2. s[u] + Exclusive(u) > 0
      BY <2>1, <2>2, <3>1
    <3>3. QED
      BY <2>3, <3>2
  <2>5. held[u] # <<>>
    BY <2>4
  <2>6. QED
    BY <1>2, <2>5
<1>3. CASE u \in sync_asleep
  <2>1. u \notin Elements(sync_waiting) /\ u \notin Elements(Upgraders(q))
    <3>1. sync_ex_locker = u => sync_pc[u] = "idle"
      BY <1>1 DEF SyncModes
    <3>2. sync_ex_locker # u
      BY <1>1, <1>3, <3>1 DEF SyncAsleep
    <3>3. s[u] # 0
      BY <1>1, <3>2
    <3>4. QED
      BY <1>1, <3>3 DEF SyncAsleep
  <2>2. PICK w \in Threads : u \in Elements(sync_runs[w])
    BY <1>1, <1>3, <2>1 DEF SyncListed
  <2>3. sync_runs[w] # <<>>
    BY <2>2 DEF Elements
  <2>4. w \notin sync_asleep
    BY <1>1, <2>3 DEF SyncAsleep
  <2>5. QED
    BY <2>3, <2>4
<1>4. QED
  BY <1>2, <1>3

\* The iteration of sync_lock that ends in Thread.stop.
LEMMA WaitKeeps ==
  ASSUME SyncUse, SyncInv, NEW t \in Threads, NEW m \in {"SH", "EX"},
         Synchronizer!sync_lock(t, m), ~Synchronizer!Granted(t, m)
  PROVE  SyncInv'
<1> DEFINE q == sync_upgrade_waiting
           s == sync_sh_locker
<1>1. /\ SyncTypes /\ SyncListed /\ SyncAsleep /\ SyncModes /\ SyncCounts
      /\ q \in Seq(Entries) /\ s \in [Threads -> Nat] /\ NoDuplicates(Upgraders(q))
      /\ NoThread \notin Threads
  BY DEF SyncInv, SyncTypes, SyncListed, SyncUse
<1>2. /\ t \notin sync_asleep /\ sync_runs[t] = <<>> /\ sync_pc[t] \in {"idle", m}
      /\ sync_pc' = [sync_pc EXCEPT ![t] = m]
      /\ sync_asleep' = sync_asleep \cup {t}
      /\ UNCHANGED <<sync_mode, sync_ex_locker, sync_ex_count, sync_runs, held>>
  BY DEF Synchronizer!sync_lock, Synchronizer!Awake
<1>3. \/ s[t] > 0 /\ q' = Append(q, [thread |-> t, count |-> s[t]])
         /\ s' = [s EXCEPT ![t] = 0] /\ UNCHANGED sync_waiting
      \/ s[t] = 0 /\ sync_waiting' = Append(sync_waiting, t) /\ UNCHANGED <<q, s>>
  <2>1. t \in Synchronizer!Sharers <=> s[t] > 0
    BY <1>1 DEF Synchronizer!Sharers
  <2>2. s[t] \in Nat /\ (s[t] > 0 \/ s[t] = 0)
    BY <1>1
  <2>3. QED
    BY <2>1, <2>2 DEF Synchronizer!sync_lock
<1>4. /\ t \notin Elements(sync_waiting) /\ t \notin Elements(Upgraders(q))
      /\ Shares(q, s)[t] = s[t]
  BY <1>1, <1>2, AwakeShares
<1>5. /\ q' \in Seq(Entries) /\ NoDuplicates(Upgraders(q')) /\ Shares(q', s') = Shares(q, s)
      /\ sync_waiting' \in Seq(Threads) /\ NoDuplicates(sync_waiting')
      /\ s' \in [Threads -> Nat] /\ s'[t] = 0
      /\ \A u \in Threads \ {t} : s'[u] = s[u]
      /\ \/ /\ s[t] > 0 /\ Elements(sync_waiting') = Elements(sync_waiting)
            /\ Elements(Upgraders(q')) = Elements(Upgraders(q)) \cup {t}
         \/ /\ Elements(sync_waiting') = Elements(sync_waiting) \cup {t}
            /\ Elements(Upgraders(q')) = Elements(Upgraders(q))
  <2>1. sync_waiting \in Seq(Threads) /\ NoDuplicates(sync_waiting)
    BY <1>1 DEF SyncTypes, SyncListed
  <2>2. CASE s[t] > 0 /\ q' = Append(q, [thread |-> t, count |-> s[t]])
             /\ s' = [s EXCEPT ![t] = 0] /\ UNCHANGED sync_waiting
    <3>1. t \in Threads \ Elements(Upgraders(q))
      BY <1>4
    <3>2. LET a == Append(q, [thread |-> t, count |-> s[t]])
          IN /\ a \in Seq(Entries)
             /\ Elements(Upgraders(a)) = Elements(Upgraders(q)) \cup {t}
             /\ NoDuplicates(Upgraders(a))
             /\ Shares(a, [s EXCEPT ![t] = 0]) = Shares(q, s)
      BY <1>1, <3>1, EntryAdded
    <3>3. s' \in [Threads -> Nat] /\ s'[t] = 0 /\ \A u \in Threads \ {t} : s'[u] = s[u]
      BY <1>1, <2>2
    <3>4. QED
      BY <2>1, <2>2, <3>2, <3>3
  <2>3. CASE s[t] = 0 /\ sync_waiting' = Append(sync_waiting, t) /\ UNCHANGED <<q, s>>
    BY <1>1, <1>4, <2>1, <2>3, Appended
  <2>4. QED
    BY <1>3, <2>2, <2>3
<1>6. \E w \in Threads \ {t} : w \notin sync_asleep /\ (held[w] # <<>> \/ sync_runs[w] # <<>>)
  <2>1. CASE sync_mode = "EX"
    <3>1. sync_ex_locker # t /\ sync_ex_locker \in Threads
      BY <1>1, <2>1 DEF SyncModes, Synchronizer!Granted
    <3>2. QED
      BY <1>1, <1>2, <3>1, OtherAwake
  <2>2. CASE sync_mode # "EX"
    <3>1. sync_mode = "SH" /\ Synchronizer!Sharers # {t}
      BY <1>1, <2>2 DEF SyncTypes, Synchronizer!Granted, Synchronizer!Upgradable
    <3>2. \E u \in Threads : s[u] > 0
      BY <1>1, <3>1 DEF SyncModes
    <3>3. \E u \in Threads : u # t /\ s[u] > 0
      BY <1>1, <3>1, <3>2 DEF Synchronizer!Sharers
    <3>4. QED
      BY <1>2, <3>3, OtherAwake
  <2>3. QED
    BY <2>1, <2>2
<1>7. s[t] > 0 => m = "EX" /\ (sync_mode = "SH" => \E u \in Threads \ {t} : s[u] > 0)
  <2> SUFFICES ASSUME s[t] > 0
               PROVE  m = "EX" /\ (sync_mode = "SH" => \E u \in Threads \ {t} : s[u] > 0)
    OBVIOUS
  <2>1. sync_mode = "SH" \/ sync_pc[t] = "EX" \/ sync_ex_locker = t
    BY <1>1 DEF SyncModes
  <2>2. sync_ex_locker = t => sync_mode = "EX"
    BY <1>1 DEF SyncModes
  <2>3. sync_mode # "SH" => sync_pc[t] = "EX"
    BY <2>1, <2>2 DEF Synchronizer!Granted
  <2>4. m = "EX"
    BY <1>2, <2>3 DEF Synchronizer!Granted
  <2>5. sync_mode = "SH" => {u \in Threads : s[u] > 0} # {t}
    BY <1>1, <2>4 DEF Synchronizer!Granted, Synchronizer!Upgradable, Synchronizer!Sharers
  <2>6. QED
    BY <2>4, <2>5
<1>8. SyncTypes'
  BY <1>1, <1>2, <1>5 DEF SyncTypes
<1>9. SyncListed'
  <2>1. \A u \in Threads : t \notin Elements(sync_runs[u])
    BY <1>1, <1>2 DEF SyncListed
  <2>2. /\ Elements(sync_waiting') \cap Elements(Upgraders(q')) = {}
        /\ Elements(sync_waiting') \cup Elements(Upgraders(q'))
             = Elements(sync_waiting) \cup Elements(Upgraders(q)) \cup {t}
    BY <1>1, <1>4, <1>5 DEF SyncListed
  <2>3. ASSUME NEW u \in Threads
        PROVE  /\ NoDuplicates(sync_runs'[u])
               /\ Elements(sync_runs'[u]) \cap Elements(sync_waiting') = {}
               /\ Elements(sync_runs'[u]) \cap Elements(Upgraders(q')) = {}
               /\ \A v \in Threads \ {u} : Elements(sync_runs'[u]) \cap Elements(sync_runs'[v]) = {}
    <3>1. /\ NoDuplicates(sync_runs[u])
          /\ Elements(sync_runs[u]) \cap Elements(sync_waiting) = {}
          /\ Elements(sync_runs[u]) \cap Elements(Upgraders(q)) = {}
          /\ \A v \in Threads \ {u} : Elements(sync_runs[u]) \cap Elements(sync_runs[v]) = {}
      BY <1>1 DEF SyncListed
    <3>2. QED
      BY <1>2, <1>5, <2>1, <3>1
  <2>4. sync_asleep' = Elements(sync_waiting') \cup Elements(Upgraders(q'))
                         \cup UNION {Elements(sync_runs'[u]) : u \in Threads}
    <3>1. sync_asleep = Elements(sync_waiting) \cup Elements(Upgraders(q))
                          \cup UNION {Elements(sync_runs[u]) : u \in Threads}
      BY <1>1 DEF SyncListed
    <3>2. QED
      BY <1>2, <2>2, <3>1
  <2>5. QED
    BY <1>5, <2>2, <2>3, <2>4 DEF SyncListed
<1>10. SyncAsleep'
  <2>1. /\ sync_pc'[t] = m /\ sync_runs' = sync_runs
        /\ \A u \in Threads \ {t} : sync_pc'[u] = sync_pc[u] /\ s'[u] = s[u]
        /\ sync_asleep \subseteq Threads
        /\ Elements(sync_waiting) \subseteq sync_asleep /\ Elements(Upgraders(q)) \subseteq sync_asleep
    BY <1>1, <1>2, <1>5 DEF SyncTypes, SyncListed
  <2>2. \A u \in sync_asleep' : sync_pc'[u] # "idle" /\ sync_runs'[u] = <<>>
    BY <1>1, <1>2, <2>1 DEF SyncAsleep
  <2>3. \A u \in Elements(sync_waiting') : s'[u] = 0
    BY <1>1, <1>2, <1>5, <2>1 DEF SyncAsleep
  <2>4. \A u \in Elements(Upgraders(q')) : s'[u] = 0 /\ sync_pc'[u] = "EX"
    BY <1>1, <1>2, <1>5, <1>7, <2>1 DEF SyncAsleep
  <2>5. QED
    BY <2>2, <2>3, <2>4 DEF SyncAsleep
<1>11. SyncModes'
  <2>1. /\ sync_pc'[t] = m
        /\ \A u \in Threads \ {t} : sync_pc'[u] = sync_pc[u] /\ s'[u] = s[u]
    BY <1>1, <1>2, <1>5 DEF SyncTypes
  <2>2. sync_mode = "EX" => sync_ex_locker # t
    BY DEF Synchronizer!Granted
  <2>3. sync_mode = "SH" => \E u \in Threads : s'[u] > 0
    <3>1. CASE s[t] > 0
      BY <1>7, <2>1, <3>1
    <3>2. CASE ~(s[t] > 0)
      BY <1>1, <2>1, <3>2 DEF SyncModes
    <3>3. QED
      BY <3>1, <3>2
  <2>4. m = "SH" => Shares(q, s)[t] = 0
    BY <1>1, <1>4, <1>7
  <2>5. QED
    BY <1>1, <1>2, <1>5, <2>1, <2>2, <2>3, <2>4 DEF SyncModes
<1>12. SyncCounts'
  <2>1. /\ held' = held /\ Shares(q', s') = Shares(q, s)
        /\ sync_ex_locker' = sync_ex_locker /\ sync_ex_count' = sync_ex_count
    BY <1>2, <1>5
  <2>2. QED
    BY <1>1, <2>1 DEF SyncCounts, Exclusive
<1>13. SyncHandedOver'
  <2>1. PICK w \in Threads \ {t} : w \notin sync_asleep /\ (held[w] # <<>> \/ sync_runs[w] # <<>>)
    BY <1>6
  <2>2. w \in DOMAIN sync_pc' \ sync_asleep' /\ (held'[w] # <<>> \/ sync_runs'[w] # <<>>)
    BY <1>1, <1>2, <2>1 DEF SyncTypes
  <2>3. QED
    BY <2>2 DEF SyncHandedOver
<1>14. QED
  BY <1>8, <1>9, <1>10, <1>11, <1>12, <1>13 DEF SyncInv

\* What sync_unlock does to the lists: nothing, or a queue becomes what the
\* thread has to run.
LEMMA UnlockLists ==
  ASSUME SyncUse, SyncInv, NEW t \in Threads, Synchronizer!sync_unlock(t)
  PROVE  LET q == sync_upgrade_waiting
             z == Synchronizer!Shared(t)
         IN \/ /\ ~Synchronizer!Runnable(t) /\ sync_sh_locker' = z
               /\ UNCHANGED <<sync_waiting, sync_upgrade_waiting, sync_runs>>
            \/ /\ q # <<>> /\ sync_upgrade_waiting' = <<>> /\ UNCHANGED sync_waiting
               /\ sync_sh_locker' = Synchronizer!Restore(z)
               /\ sync_runs' = [sync_runs EXCEPT ![t] = Upgraders(q)]
            \/ /\ q = <<>> /\ sync_sh_locker' = z
               /\ sync_waiting' = <<>> /\ UNCHANGED sync_upgrade_waiting
               /\ sync_runs' = [sync_runs EXCEPT ![t] = sync_waiting]
BY DEF Synchronizer!sync_unlock, Synchronizer!queues, Upgraders

LEMMA UnlockListed ==
  ASSUME SyncUse, SyncInv, NEW t \in Threads, Synchronizer!sync_unlock(t)
  PROVE  SyncListed'
<1> DEFINE q == sync_upgrade_waiting
           U == Upgraders(q)
           none == UNION {Elements(sync_runs[u]) : u \in Threads}
<1>1. /\ sync_asleep' = sync_asleep /\ t \notin sync_asleep /\ sync_runs[t] = <<>>
      /\ sync_runs \in [Threads -> Seq(Threads)]
  BY DEF Synchronizer!sync_unlock, Synchronizer!Awake, Synchronizer!Idle, SyncInv, SyncTypes
<1>2. /\ NoDuplicates(sync_waiting) /\ NoDuplicates(U)
      /\ Elements(sync_waiting) \cap Elements(U) = {}
      /\ sync_asleep = Elements(sync_waiting) \cup Elements(U)
                         \cup UNION {Elements(sync_runs[u]) : u \in Threads}
  BY DEF SyncInv, SyncListed
<1>3. \A u \in Threads :
        /\ NoDuplicates(sync_runs[u])
        /\ Elements(sync_runs[u]) \cap Elements(sync_waiting) = {}
        /\ Elements(sync_runs[u]) \cap Elements(U) = {}
        /\ \A v \in Threads \ {u} : Elements(sync_runs[u]) \cap Elements(sync_runs[v]) = {}
  BY DEF SyncInv, SyncListed
<1>4. Elements(<<>>) = {} /\ NoDuplicates(<<>>) /\ Upgraders(<<>>) = <<>>
  BY DEF Elements, NoDuplicates, Upgraders
<1>5. Elements(sync_runs[t]) = {}
  BY <1>1, <1>4
\* The list L is moved, and no other one changes.
<1>6. ASSUME NEW L, sync_runs' = [sync_runs EXCEPT ![t] = L], NoDuplicates(L),
             \/ L = U /\ Elements(U') = {} /\ NoDuplicates(U') /\ sync_waiting' = sync_waiting
             \/ L = sync_waiting /\ Elements(sync_waiting') = {} /\ NoDuplicates(sync_waiting') /\ U' = U
      PROVE  SyncListed'
  <2>1. sync_runs'[t] = L /\ \A u \in Threads \ {t} : sync_runs'[u] = sync_runs[u]
    BY <1>1, <1>6
  <2>2. /\ NoDuplicates(sync_waiting') /\ NoDuplicates(U')
        /\ Elements(sync_waiting') \cap Elements(U') = {}
        /\ Elements(L) \cap (Elements(sync_waiting') \cup Elements(U')) = {}
        /\ Elements(sync_waiting') \subseteq Elements(sync_waiting)
        /\ Elements(U') \subseteq Elements(U)
        /\ Elements(L) \cup Elements(sync_waiting') \cup Elements(U')
             = Elements(sync_waiting) \cup Elements(U)
    BY <1>2, <1>6
  <2>3. ASSUME NEW u \in Threads
        PROVE  /\ NoDuplicates(sync_runs'[u])
               /\ Elements(sync_runs'[u]) \cap Elements(sync_waiting') = {}
               /\ Elements(sync_runs'[u]) \cap Elements(U') = {}
               /\ \A v \in Threads \ {u} : Elements(sync_runs'[u]) \cap Elements(sync_runs'[v]) = {}
    <3>1. \A v \in Threads : Elements(sync_runs[v]) \cap Elements(L) = {}
      BY <1>3, <1>6
    <3>2. CASE u = t
      BY <1>6, <2>1, <2>2, <3>1, <3>2
    <3>3. CASE u # t
      BY <1>3, <2>1, <2>2, <3>1, <3>3
    <3>4. QED
      BY <3>2, <3>3
  <2>4. sync_asleep' = Elements(sync_waiting') \cup Elements(U')
                         \cup UNION {Elements(sync_runs'[u]) : u \in Threads}
    <3>1. UNION {Elements(sync_runs'[u]) : u \in Threads}
            = Elements(L) \cup UNION {Elements(sync_runs[u]) : u \in Threads}
      BY <1>5, <2>1
    <3>2. QED
      BY <1>1, <1>2, <2>2, <3>1
  <2>5. QED
    BY <2>2, <2>3, <2>4 DEF SyncListed
<1>7. CASE UNCHANGED <<sync_waiting, sync_upgrade_waiting, sync_runs>>
  BY <1>1, <1>7 DEF SyncInv, SyncListed
<1>8. CASE sync_upgrade_waiting' = <<>> /\ UNCHANGED sync_waiting
           /\ sync_runs' = [sync_runs EXCEPT ![t] = U]
  BY <1>2, <1>4, <1>6, <1>8
<1>9. CASE sync_waiting' = <<>> /\ UNCHANGED sync_upgrade_waiting
           /\ sync_runs' = [sync_runs EXCEPT ![t] = sync_waiting]
  BY <1>2, <1>4, <1>6, <1>9
<1>10. QED
  BY <1>7, <1>8, <1>9, UnlockLists

LEMMA UnlockKeeps ==
  ASSUME SyncUse, SyncInv, NEW t \in Threads, Synchronizer!sync_unlock(t)
  PROVE  SyncInv'
<1> DEFINE q == sync_upgrade_waiting
           s == sync_sh_locker
           U == Upgraders(q)
           z == Synchronizer!Shared(t)
<1>1. /\ SyncTypes /\ SyncListed /\ SyncAsleep /\ SyncModes /\ SyncCounts
      /\ q \in Seq(Entries) /\ s \in [Threads -> Nat] /\ NoDuplicates(U)
      /\ NoThread \notin Threads /\ sync_ex_count \in Nat
  BY DEF SyncInv, SyncTypes, SyncListed, SyncUse
<1>2. /\ t \notin sync_asleep /\ sync_pc[t] = "idle" /\ sync_runs[t] = <<>> /\ held[t] # <<>>
      /\ held' = [held EXCEPT ![t] = SubSeq(held[t], 1, Len(held[t]) - 1)]
      /\ UNCHANGED <<sync_pc, sync_asleep>>
  BY DEF Synchronizer!sync_unlock, Synchronizer!Awake, Synchronizer!Idle
<1>3. \/ /\ sync_mode = "EX" /\ sync_ex_locker = t /\ sync_ex_count > 0 /\ z = s
         /\ sync_ex_count' = sync_ex_count - 1
         /\ sync_ex_locker' = IF sync_ex_count = 1 THEN NoThread ELSE t
         /\ sync_mode' = IF sync_ex_count > 1 THEN "EX" ELSE IF s[t] > 0 THEN "SH" ELSE "UN"
         /\ ~Synchronizer!Runnable(t) => sync_ex_count > 1
      \/ /\ sync_mode = "SH" /\ s[t] > 0 /\ z = [s EXCEPT ![t] = s[t] - 1]
         /\ sync_ex_locker = NoThread /\ sync_ex_count = 0
         /\ UNCHANGED <<sync_ex_locker, sync_ex_count>>
         /\ \/ /\ sync_mode' = "UN" /\ s[t] = 1 /\ \A u \in Threads \ {t} : ~(s[u] > 0)
               /\ Synchronizer!Runnable(t)
            \/ /\ sync_mode' = "SH" /\ (s[t] > 1 \/ \E u \in Threads \ {t} : s[u] > 0)
  <2>1. \A u \in Threads : u \in Synchronizer!Sharers <=> s[u] > 0
    BY <1>1 DEF Synchronizer!Sharers
  <2>2. Synchronizer!Sharers \subseteq Threads
    BY <1>1 DEF Synchronizer!Sharers
  <2>3. CASE Synchronizer!UnlockEX(t)
    BY <1>1, <2>1, <2>3 DEF Synchronizer!UnlockEX, Synchronizer!Runnable,
       Synchronizer!Shared, SyncModes
  <2>4. CASE Synchronizer!UnlockSH(t)
    <3>1. /\ sync_mode = "SH" /\ s[t] > 0 /\ sync_ex_locker = NoThread /\ sync_ex_count = 0
          /\ UNCHANGED <<sync_ex_locker, sync_ex_count>>
          /\ z = [s EXCEPT ![t] = s[t] - 1]
          /\ sync_mode' = IF s[t] = 1 /\ Synchronizer!Sharers = {t} THEN "UN" ELSE "SH"
      BY <1>1, <2>1, <2>4 DEF Synchronizer!UnlockSH, Synchronizer!Shared, SyncModes
    <3>2. CASE s[t] = 1 /\ Synchronizer!Sharers = {t}
      <4>1. \A u \in Threads \ {t} : ~(s[u] > 0)
        BY <2>1, <3>2
      <4>2. Synchronizer!Runnable(t)
        BY <3>1, <3>2 DEF Synchronizer!Runnable
      <4>3. QED
        BY <3>1, <3>2, <4>1, <4>2
    <3>3. CASE ~(s[t] = 1 /\ Synchronizer!Sharers = {t})
      <4>1. s[t] > 1 \/ \E u \in Threads \ {t} : s[u] > 0
        <5>1. CASE s[t] = 1
          <6>1. Synchronizer!Sharers # {t} /\ t \in Synchronizer!Sharers
            BY <2>1, <3>1, <3>3, <5>1
          <6>2. QED
            BY <2>1, <2>2, <6>1
        <5>2. CASE s[t] # 1
          BY <1>1, <3>1, <5>2
        <5>3. QED
          BY <5>1, <5>2
      <4>2. QED
        BY <3>1, <3>3, <4>1
    <3>4. QED
      BY <3>2, <3>3
  <2>5. QED
    BY <2>3, <2>4 DEF Synchronizer!sync_unlock
<1>4. /\ t \notin Elements(sync_waiting) /\ t \notin Elements(U) /\ Shares(q, s)[t] = s[t]
  BY <1>1, <1>2, AwakeShares
<1>5. /\ z \in [Threads -> Nat] /\ \A u \in Threads \ {t} : z[u] = s[u]
      /\ Shares(q, z) = [Shares(q, s) EXCEPT ![t] = z[t]]
      /\ Shares(q, s) \in [Threads -> Nat] /\ Shares(q, z) \in [Threads -> Nat]
  <2>1. z \in [Threads -> Nat] /\ \A u \in Threads \ {t} : z[u] = s[u]
    BY <1>1, <1>3
  <2>2. t \in Threads \ Elements(U)
    BY <1>4
  <2> HIDE DEF z
  <2>3. Shares(q, z) = [Shares(q, s) EXCEPT ![t] = z[t]]
    BY <1>1, <2>1, <2>2, SharesChanged
  <2>4. Shares(q, s) \in [Threads -> Nat] /\ Shares(q, z) \in [Threads -> Nat]
    BY <1>1, <2>1, SharesGiven
  <2>5. QED
    BY <2>1, <2>3, <2>4
<1> HIDE DEF z
\* The shared locks after the step, without and with those put back.
<1>6. /\ s' \in [Threads -> Nat] /\ Shares(q', s') = Shares(q, z) /\ q' \in Seq(Entries)
      /\ sync_waiting' \in Seq(Threads) /\ sync_runs' \in [Threads -> Seq(Threads)]
      /\ \A u \in Threads \ {t} : sync_runs'[u] = sync_runs[u]
      /\ Elements(sync_waiting') \subseteq Elements(sync_waiting)
      /\ Elements(U') \subseteq Elements(U)
      /\ \A u \in Threads : u \notin Elements(U) => s'[u] = z[u]
      /\ Elements(U') # {} => s' = z
  <2>1. sync_runs \in [Threads -> Seq(Threads)] /\ sync_waiting \in Seq(Threads)
    BY <1>1 DEF SyncTypes
  <2>2. Elements(<<>>) = {} /\ Upgraders(<<>>) = <<>> /\ <<>> \in Seq(Entries) /\ <<>> \in Seq(Threads)
    BY DEF Elements, Upgraders
  <2>3. CASE s' = z /\ UNCHANGED <<sync_waiting, sync_upgrade_waiting, sync_runs>>
    BY <1>1, <1>5, <2>1, <2>3
  <2>4. CASE /\ q # <<>> /\ q' = <<>> /\ UNCHANGED sync_waiting
             /\ s' = Synchronizer!Restore(z)
             /\ sync_runs' = [sync_runs EXCEPT ![t] = U]
    <3>1. s' = Shares(q, z)
      BY <1>1, <1>5, <2>4, RestoreGives
    <3>2. Shares(<<>>, s') = s'
      BY <1>5, <3>1, SharesEmpty
    <3>3. \A u \in Threads : u \notin Elements(U) => s'[u] = z[u]
      BY <1>1, <1>5, <3>1, SharesGiven
    <3>4. U \in Seq(Threads)
      BY <1>1, EntryThreads
    <3>5. sync_runs' \in [Threads -> Seq(Threads)] /\ \A u \in Threads \ {t} : sync_runs'[u] = sync_runs[u]
      BY <2>1, <2>4, <3>4
    <3>6. Elements(U') = {}
      BY <2>2, <2>4
    <3>7. QED
      BY <1>5, <2>1, <2>2, <2>4, <3>1, <3>2, <3>3, <3>5, <3>6
  <2>5. CASE /\ q = <<>> /\ s' = z /\ sync_waiting' = <<>> /\ UNCHANGED sync_upgrade_waiting
             /\ sync_runs' = [sync_runs EXCEPT ![t] = sync_waiting]
    <3>1. sync_runs' \in [Threads -> Seq(Threads)] /\ \A u \in Threads \ {t} : sync_runs'[u] = sync_runs[u]
      BY <2>1, <2>5
    <3>2. QED
      BY <1>1, <1>5, <2>1, <2>2, <2>5, <3>1
  <2>6. QED
    BY <2>3, <2>4, <2>5, UnlockLists DEF z
<1>7. /\ \A u \in Elements(U) : u \in Threads \ {t} /\ sync_pc[u] = "EX" /\ z[u] = 0
      /\ \A u \in Elements(sync_waiting) : u \in Threads \ {t} /\ u \notin Elements(U) /\ z[u] = 0
      /\ \A u \in Threads : z[u] > 0 => s'[u] = z[u]
      /\ \A u \in Threads : s'[u] > 0 => z[u] > 0 \/ sync_pc[u] = "EX"
  <2>1. U \in Seq(Threads) /\ sync_waiting \in Seq(Threads)
    BY <1>1, EntryThreads DEF SyncTypes
  <2>2. Elements(U) \subseteq Threads /\ Elements(sync_waiting) \subseteq Threads
    BY <2>1, ElementsTyped
  <2>3. \A u \in Elements(U) : u \in Threads \ {t} /\ sync_pc[u] = "EX" /\ z[u] = 0
    BY <1>1, <1>4, <1>5, <2>2 DEF SyncAsleep
  <2>4. \A u \in Elements(sync_waiting) : u \in Threads \ {t} /\ u \notin Elements(U) /\ z[u] = 0
    BY <1>1, <1>4, <1>5, <2>2 DEF SyncAsleep, SyncListed
  <2>5. QED
    BY <1>6, <2>3, <2>4
<1>8. /\ held[t] \in Seq({"SH", "EX"}) /\ s[t] \in Nat /\ Exclusive(t) \in Nat
      /\ Asked(held[t], s[t], Exclusive(t)) /\ s[t] + Exclusive(t) > 0
      /\ held'[t] = SubSeq(held[t], 1, Len(held[t]) - 1)
      /\ held'[t] \in Seq({"SH", "EX"}) /\ (held'[t] = <<>> <=> s[t] + Exclusive(t) = 1)
      /\ \A u \in Threads \ {t} : held'[u] = held[u]
  <2>1. /\ held[t] \in Seq({"SH", "EX"}) /\ s[t] \in Nat /\ Exclusive(t) \in Nat
        /\ Asked(held[t], s[t], Exclusive(t))
    BY <1>1, <1>4 DEF SyncTypes, SyncCounts, Exclusive
  <2>2. s[t] + Exclusive(t) > 0
    BY <1>2, <2>1 DEF Asked
  <2>3. held'[t] = SubSeq(held[t], 1, Len(held[t]) - 1) /\ \A u \in Threads \ {t} : held'[u] = held[u]
    BY <1>1, <1>2 DEF SyncTypes
  <2>4. QED
    BY <2>1, <2>2, <2>3, AskedShortened
<1>9. SyncTypes'
  <2>1. held' \in [Threads -> Seq({"SH", "EX"})]
    BY <1>1, <1>2, <1>8 DEF SyncTypes
  <2>2. sync_ex_count' \in Nat /\ sync_ex_locker' \in Threads \cup {NoThread}
        /\ sync_mode' \in {"UN", "SH", "EX"}
    BY <1>1, <1>3
  <2>3. QED
    BY <1>1, <1>2, <1>6, <2>1, <2>2 DEF SyncTypes
<1>10. SyncListed'
  BY UnlockListed
<1>11. SyncAsleep'
  <2>1. \A u \in sync_asleep' : sync_pc'[u] # "idle" /\ sync_runs'[u] = <<>>
    <3>1. sync_asleep \subseteq Threads \ {t}
      BY <1>1, <1>2 DEF SyncTypes
    <3>2. QED
      BY <1>1, <1>2, <1>6, <3>1 DEF SyncAsleep
  <2>2. \A u \in Elements(sync_waiting') : s'[u] = 0
    BY <1>6, <1>7
  <2>3. \A u \in Elements(U') : s'[u] = 0 /\ sync_pc'[u] = "EX"
    BY <1>2, <1>6, <1>7
  <2>4. QED
    BY <2>1, <2>2, <2>3 DEF SyncAsleep
<1>12. SyncModes'
  <2>1. \A u \in Threads : sync_pc'[u] = "SH" => Shares(q', s')[u] = 0
    BY <1>1, <1>2, <1>5, <1>6 DEF SyncModes
  <2>2. \A u \in Threads \ {t} : s[u] > 0 => sync_mode = "SH" \/ sync_pc[u] = "EX" \/ sync_ex_locker = u
    BY <1>1 DEF SyncModes
  <2>3. CASE sync_mode = "EX"
    <3>1. \A u \in Threads \ {t} : s'[u] > 0 => sync_pc[u] = "EX"
      BY <1>3, <1>5, <1>7, <2>2, <2>3
    <3>2. s'[t] = s[t]
      BY <1>3, <1>4, <1>6, <2>3
    <3>3. CASE sync_ex_count > 1
      BY <1>1, <1>2, <1>3, <2>1, <2>3, <3>1, <3>3 DEF SyncModes
    <3>4. CASE sync_ex_count = 1 /\ s[t] > 0
      BY <1>1, <1>2, <1>3, <2>1, <2>3, <3>1, <3>2, <3>4 DEF SyncModes
    <3>5. CASE sync_ex_count = 1 /\ ~(s[t] > 0)
      BY <1>1, <1>2, <1>3, <2>1, <2>3, <3>1, <3>2, <3>5 DEF SyncModes
    <3>6. QED
      BY <1>1, <1>3, <2>3, <3>3, <3>4, <3>5
  <2>4. CASE sync_mode' = "UN" /\ sync_mode = "SH"
    <3>1. \A u \in Threads : ~(z[u] > 0)
      BY <1>1, <1>3, <1>5, <2>4 DEF z, Synchronizer!Shared
    <3>2. QED
      BY <1>2, <1>3, <1>7, <2>1, <2>4, <3>1 DEF SyncModes
  <2>5. CASE sync_mode' = "SH" /\ sync_mode = "SH"
    <3>1. \E u \in Threads : z[u] > 0
      <4>1. z[t] = s[t] - 1 /\ s[t] \in Nat
        BY <1>1, <1>3, <2>5
      <4>2. QED
        BY <1>3, <1>5, <2>5, <4>1
    <3>2. \E u \in Threads : s'[u] > 0
      BY <1>7, <3>1
    <3>3. QED
      BY <1>3, <2>1, <2>5, <3>2 DEF SyncModes
  <2>6. QED
    BY <1>3, <2>3, <2>4, <2>5
<1>13. SyncCounts'
  <2> SUFFICES ASSUME NEW u \in Threads
               PROVE  Asked(held'[u], Shares(q', s')[u], Exclusive(u)')
    BY DEF SyncCounts
  <2>1. CASE u # t
    <3>1. held'[u] = held[u] /\ Shares(q', s')[u] = Shares(q, s)[u]
      BY <1>5, <1>6, <1>8, <2>1
    <3>2. Exclusive(u)' = Exclusive(u)
      BY <1>1, <1>3, <2>1 DEF Exclusive
    <3>3. QED
      BY <1>1, <3>1, <3>2 DEF SyncCounts
  <2>2. CASE u = t
    <3>1. Shares(q', s')[t] = z[t]
      BY <1>5, <1>6
    <3>2. CASE sync_mode = "EX"
      <4>1. /\ Exclusive(t) > 0 /\ Exclusive(t)' = Exclusive(t) - 1 /\ z[t] = s[t]
        BY <1>1, <1>3, <3>2 DEF Exclusive
      <4>2. Asked(held'[t], s[t], Exclusive(t) - 1)
        BY <1>8, <4>1, AskedShortened
      <4>3. QED
        BY <2>2, <3>1, <4>1, <4>2
    <3>3. CASE sync_mode = "SH"
      <4>1. Exclusive(t) = 0 /\ Exclusive(t)' = 0 /\ z[t] = s[t] - 1
        BY <1>1, <1>3, <3>3 DEF Exclusive
      <4>2. Asked(held'[t], s[t] - 1, 0)
        BY <1>8, <4>1, AskedShortened
      <4>3. QED
        BY <2>2, <3>1, <4>1, <4>2
    <3>4. QED
      BY <1>3, <3>2, <3>3
  <2>3. QED
    BY <2>1, <2>2
<1>14. SyncHandedOver'
  <2>0. DOMAIN sync_pc' = Threads /\ t \notin sync_asleep'
    BY <1>1, <1>2 DEF SyncTypes
  <2>1. CASE held'[t] # <<>> \/ sync_runs'[t] # <<>>
    BY <2>0, <2>1 DEF SyncHandedOver
  <2>2. CASE held'[t] = <<>> /\ sync_runs'[t] = <<>> /\ sync_asleep # {}
    <3>1. \E w \in Threads \ {t} : w \notin sync_asleep /\ (held[w] # <<>> \/ sync_runs[w] # <<>>)
      <4>1. s[t] + Exclusive(t) = 1
        BY <1>8, <2>2
      <4>2. CASE \E u \in Threads \ {t} : sync_ex_locker = u \/ s[u] > 0
        BY <1>2, <4>2, OtherAwake
      <4>3. CASE ~(\E u \in Threads \ {t} : sync_ex_locker = u \/ s[u] > 0)
        <5>1. Synchronizer!Runnable(t)
          <6>1. CASE sync_mode = "EX"
            <7>1. Exclusive(t) = sync_ex_count
              BY <1>3, <6>1 DEF Exclusive
            <7>2. ~(sync_ex_count > 1)
              BY <1>1, <1>8, <4>1, <7>1
            <7>3. QED
              BY <1>3, <6>1, <7>2
          <6>2. CASE sync_mode = "SH"
            <7>1. ~(s[t] > 1)
              BY <1>8, <4>1
            <7>2. QED
              BY <1>3, <4>3, <6>2, <7>1
          <6>3. QED
            BY <1>3, <6>1, <6>2
        <5>2. q = <<>> /\ sync_waiting = <<>>
          <6>1. /\ q # <<>> => U # <<>>
            <7>1. Len(U) = Len(q)
              BY <1>1, EntryThreads
            <7>2. QED
              BY <1>1, <7>1
          <6>2. \/ q # <<>> /\ sync_runs'[t] = U
                \/ q = <<>> /\ sync_runs'[t] = sync_waiting
            BY <1>1, <5>1, UnlockLists DEF SyncTypes
          <6>3. QED
            BY <2>2, <6>1, <6>2
        <5>3. Elements(<<>>) = {} /\ Upgraders(<<>>) = <<>>
          BY DEF Elements, Upgraders
        <5>4. PICK w \in Threads : Elements(sync_runs[w]) # {}
          <6>1. Elements(sync_waiting) = {} /\ Elements(U) = {}
            BY <5>2, <5>3
          <6>2. sync_asleep = UNION {Elements(sync_runs[u]) : u \in Threads}
            BY <1>1, <6>1 DEF SyncListed
          <6>3. QED
            BY <2>2, <6>2
        <5>5. sync_runs[w] # <<>> /\ w # t
          BY <1>2, <5>3, <5>4
        <5>6. w \notin sync_asleep
          BY <1>1, <5>5 DEF SyncAsleep
        <5>7. QED
          BY <5>5, <5>6
      <4>4. QED
        BY <4>2, <4>3
    <3>2. QED
      BY <1>2, <1>6, <1>8, <2>0, <3>1 DEF SyncHandedOver
  <2>3. CASE sync_asleep = {}
    BY <1>2, <2>3 DEF SyncHandedOver
  <2>4. QED
    BY <2>1, <2>2, <2>3
<1>15. QED
  BY <1>9, <1>10, <1>11, <1>12, <1>13, <1>14 DEF SyncInv

\* w.run of one thread, in the loop of sync_unlock.
LEMMA RunKeeps ==
  ASSUME SyncUse, SyncInv, NEW t \in Threads, Synchronizer!run(t)
  PROVE  SyncInv'
<1> DEFINE q == sync_upgrade_waiting
           s == sync_sh_locker
           U == Upgraders(q)
           x == Head(sync_runs[t])
<1>1. /\ SyncTypes /\ SyncListed /\ SyncAsleep /\ SyncModes /\ SyncCounts
  BY DEF SyncInv
<1>2. /\ t \notin sync_asleep /\ sync_runs[t] # <<>>
      /\ sync_asleep' = sync_asleep \ {x}
      /\ sync_runs' = [sync_runs EXCEPT ![t] = Tail(sync_runs[t])]
      /\ UNCHANGED <<sync_mode, sync_sh_locker, sync_ex_locker, sync_ex_count,
                     sync_waiting, sync_upgrade_waiting, sync_pc, held>>
  BY DEF Synchronizer!run, Synchronizer!Awake, Synchronizer!lockVars, Synchronizer!queues
<1>3. sync_runs[t] \in Seq(Threads) /\ sync_runs \in [Threads -> Seq(Threads)]
      /\ NoDuplicates(sync_runs[t])
  BY <1>1 DEF SyncTypes, SyncListed
<1>4. /\ x \in Threads /\ x \in Elements(sync_runs[t])
      /\ sync_runs'[t] \in Seq(Threads)
      /\ Elements(sync_runs'[t]) = Elements(sync_runs[t]) \ {x}
      /\ NoDuplicates(sync_runs'[t])
      /\ \A u \in Threads \ {t} : sync_runs'[u] = sync_runs[u]
  <2>1. sync_runs'[t] = Tail(sync_runs[t]) /\ \A u \in Threads \ {t} : sync_runs'[u] = sync_runs[u]
    BY <1>2, <1>3
  <2>2. QED
    BY <1>2, <1>3, <2>1, Shifted
<1>5. x \in sync_asleep /\ x # t
  BY <1>1, <1>2, <1>4 DEF SyncListed
<1>6. SyncTypes'
  <2>1. sync_runs' \in [Threads -> Seq(Threads)]
    BY <1>2, <1>3, <1>4
  <2>2. QED
    BY <1>1, <1>2, <2>1 DEF SyncTypes
<1>7. SyncListed'
  <2>1. \A u \in Threads :
          /\ NoDuplicates(sync_runs[u])
          /\ Elements(sync_runs[u]) \cap Elements(sync_waiting) = {}
          /\ Elements(sync_runs[u]) \cap Elements(U) = {}
          /\ \A v \in Threads \ {u} : Elements(sync_runs[u]) \cap Elements(sync_runs[v]) = {}
    BY <1>1 DEF SyncListed
  <2>2. \A u \in Threads : Elements(sync_runs'[u]) = Elements(sync_runs[u]) \ {x}
    BY <1>4, <2>1
  <2>3. \A u \in Threads : NoDuplicates(sync_runs'[u])
    BY <1>4, <2>1
  <2>4. x \notin Elements(sync_waiting) /\ x \notin Elements(U)
    BY <1>4, <2>1
  <2>5. sync_asleep' = Elements(sync_waiting) \cup Elements(U)
                         \cup UNION {Elements(sync_runs'[u]) : u \in Threads}
    <3>1. sync_asleep = Elements(sync_waiting) \cup Elements(U)
                          \cup UNION {Elements(sync_runs[u]) : u \in Threads}
      BY <1>1 DEF SyncListed
    <3>2. QED
      BY <1>2, <2>2, <2>4, <3>1
  <2>6. \A u \in Threads :
          /\ Elements(sync_runs'[u]) \cap Elements(sync_waiting) = {}
          /\ Elements(sync_runs'[u]) \cap Elements(U) = {}
          /\ \A v \in Threads \ {u} : Elements(sync_runs'[u]) \cap Elements(sync_runs'[v]) = {}
    BY <2>1, <2>2
  <2>7. sync_waiting' = sync_waiting /\ U' = U
    BY <1>2
  <2>8. QED
    BY <1>1, <2>3, <2>5, <2>6, <2>7 DEF SyncListed
<1>8. SyncAsleep'
  <2>1. \A u \in sync_asleep : u # t /\ u \in Threads
    BY <1>1, <1>2 DEF SyncTypes
  <2>2. QED
    BY <1>1, <1>2, <1>4, <2>1 DEF SyncAsleep
<1>9. SyncModes' /\ SyncCounts'
  BY <1>1, <1>2 DEF SyncModes, SyncCounts, Exclusive
<1>10. SyncHandedOver'
  <2>1. x \in DOMAIN sync_pc' \ sync_asleep' /\ sync_pc'[x] # "idle"
    BY <1>1, <1>2, <1>4, <1>5 DEF SyncTypes, SyncAsleep
  <2>2. QED
    BY <2>1 DEF SyncHandedOver
<1>11. QED
  BY <1>6, <1>7, <1>8, <1>9, <1>10 DEF SyncInv

LEMMA SyncStarts ==
  ASSUME SyncUse, Synchronizer!Init
  PROVE  SyncInv
<1>1. /\ sync_mode = "UN" /\ sync_waiting = <<>> /\ sync_upgrade_waiting = <<>>
      /\ sync_sh_locker = [t \in Threads |-> 0] /\ sync_ex_locker = NoThread
      /\ sync_ex_count = 0 /\ sync_pc = [t \in Threads |-> "idle"] /\ sync_asleep = {}
      /\ sync_runs = [t \in Threads |-> <<>>] /\ held = [t \in Threads |-> <<>>]
      /\ NoThread \notin Threads
  BY DEF Synchronizer!Init, SyncUse
<1>2. Elements(<<>>) = {} /\ NoDuplicates(<<>>) /\ Upgraders(<<>>) = <<>>
  BY DEF Elements, NoDuplicates, Upgraders
<1>3. SyncTypes
  BY <1>1 DEF SyncTypes
<1>4. SyncListed
  BY <1>1, <1>2 DEF SyncListed
<1>5. SyncAsleep
  BY <1>1, <1>2 DEF SyncAsleep
<1>6. Shares(sync_upgrade_waiting, sync_sh_locker) = [t \in Threads |-> 0]
  BY <1>1, SharesEmpty
<1>7. SyncModes
  BY <1>1, <1>6 DEF SyncModes
<1>8. SyncCounts
  <2>1. Asked(<<>>, 0, 0)
    BY DEF Asked
  <2>2. QED
    BY <1>1, <1>6, <2>1 DEF SyncCounts, Exclusive
<1>9. SyncHandedOver
  BY <1>1 DEF SyncHandedOver
<1>10. QED
  BY <1>3, <1>4, <1>5, <1>7, <1>8, <1>9 DEF SyncInv

LEMMA SyncSteps ==
  ASSUME SyncUse, SyncInv, [Synchronizer!Next]_Synchronizer!vars
  PROVE  SyncInv'
<1>1. ASSUME NEW t \in Threads, NEW m \in {"SH", "EX"}, Synchronizer!sync_lock(t, m)
      PROVE  SyncInv'
  <2>1. CASE Synchronizer!Granted(t, m) /\ Synchronizer!Take(t, m)
    BY <1>1, <2>1, TakeKeeps DEF Synchronizer!sync_lock, Synchronizer!Awake
  <2>2. CASE ~Synchronizer!Granted(t, m)
    BY <1>1, <2>2, WaitKeeps
  <2>3. QED
    BY <1>1, <2>1, <2>2 DEF Synchronizer!sync_lock
<1>2. ASSUME NEW t \in Threads, Synchronizer!sync_try_lock(t)
      PROVE  SyncInv'
  <2>1. sync_mode \in {"SH", "EX"}
    BY <1>2 DEF Synchronizer!sync_try_lock, SyncInv, SyncTypes
  <2>2. QED
    BY <1>2, <2>1, TakeKeeps DEF Synchronizer!sync_try_lock, Synchronizer!Awake, Synchronizer!Idle
<1>3. CASE UNCHANGED Synchronizer!vars
  <2>1. UNCHANGED <<sync_mode, sync_sh_locker, sync_ex_locker, sync_ex_count,
                    sync_waiting, sync_upgrade_waiting, sync_pc, sync_asleep, sync_runs, held>>
    BY <1>3 DEF Synchronizer!vars, Synchronizer!lockVars, Synchronizer!queues
  <2>2. QED
    BY <2>1 DEF SyncInv, SyncTypes, SyncListed, SyncAsleep, SyncModes, SyncCounts, Exclusive,
                SyncHandedOver
<1>4. QED
  BY <1>1, <1>2, <1>3, UnlockKeeps, RunKeeps DEF Synchronizer!Next

\* sync.rb: in sync_synchronize the lock is held, in the mode asked for.
LEMMA SyncInvHeld ==
  ASSUME SyncUse, SyncInv
  PROVE  SyncHeld
<1> DEFINE s == sync_sh_locker
<1>1. /\ SyncTypes /\ SyncAsleep /\ SyncModes /\ SyncCounts /\ DOMAIN sync_pc = Threads
      /\ NoThread \notin Threads /\ DOMAIN s = Threads
  BY DEF SyncInv, SyncTypes, SyncUse
<1> SUFFICES ASSUME NEW t \in Threads, sync_pc[t] = "idle", held[t] # <<>>
             PROVE  IF "EX" \in Modes(t)
                    THEN sync_mode = "EX" /\ sync_ex_locker = t
                    ELSE sync_mode = "SH" /\ s[t] > 0
  BY <1>1 DEF SyncHeld, Sharers
<1>2. t \notin sync_asleep
  BY <1>1 DEF SyncAsleep
<1>3. /\ held[t] \in Seq({"SH", "EX"}) /\ s[t] \in Nat /\ Exclusive(t) \in Nat
      /\ Asked(held[t], s[t], Exclusive(t))
  BY <1>1, <1>2, AwakeShares DEF SyncTypes, SyncCounts, Exclusive
<1>4. /\ DOMAIN held[t] = 1..Len(held[t]) /\ Len(held[t]) = s[t] + Exclusive(t)
      /\ \A i \in 1..s[t] : held[t][i] = "SH"
      /\ Exclusive(t) > 0 => held[t][s[t]+1] = "EX"
      /\ Len(held[t]) # 0
  BY <1>3 DEF Asked
<1>5. CASE sync_ex_locker = t
  <2>1. sync_mode = "EX" /\ Exclusive(t) > 0
    BY <1>1, <1>5 DEF SyncModes, Exclusive
  <2>2. s[t] + 1 \in DOMAIN held[t]
    BY <1>3, <1>4, <2>1
  <2>3. "EX" \in Modes(t)
    BY <1>4, <2>1, <2>2 DEF Modes
  <2>4. QED
    BY <1>5, <2>1, <2>3
<1>6. CASE sync_ex_locker # t
  <2>1. Exclusive(t) = 0
    BY <1>6 DEF Exclusive
  <2>2. s[t] > 0 /\ DOMAIN held[t] = 1..s[t]
    BY <1>3, <1>4, <2>1
  <2>3. "EX" \notin Modes(t)
    BY <1>4, <2>2 DEF Modes
  <2>4. sync_mode = "SH"
    BY <1>1, <1>6, <2>2 DEF SyncModes
  <2>5. QED
    BY <2>2, <2>3, <2>4
<1>7. QED
  BY <1>5, <1>6

\* A thread in sync_synchronize has the lock in the mode it asked for, and
\* while threads sleep for it one is awake to run them, whatever the order of
\* upgrades and of the calls of w.run.
THEOREM SyncIsSound ==
  ASSUME SyncUse
  PROVE  Synchronizer!Spec => []SyncSound
<1>1. Synchronizer!Init => SyncInv
  BY SyncStarts
<1>2. SyncInv /\ [Synchronizer!Next]_Synchronizer!vars => SyncInv'
  BY SyncSteps
<1>3. SyncInv => SyncSound
  BY SyncInvHeld DEF SyncInv, SyncSound
<1>4. QED
  BY <1>1, <1>2, <1>3, PTL DEF Synchronizer!Spec
=============================================================================
