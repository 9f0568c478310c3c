-------------------------- MODULE ThreadSchedProofs --------------------------
(* Proofs about the scheduler, for any number of threads, descriptors,      *)
(* priorities and time limits: types, the thread list, who runs, contexts,  *)
(* joins, kills, descriptor events and deadlock reports.                    *)
EXTENDS ThreadSched, FiniteSetTheorems, WellFoundedInduction, TLAPS

-----------------------------------------------------------------------------
(* Type correctness.                                                        *)

LEMMA WaitKindsFacts ==
  /\ {} \in WaitKinds /\ {"fd"} \in WaitKinds /\ {"select"} \in WaitKinds
  /\ {"time"} \in WaitKinds /\ {"join"} \in WaitKinds
  /\ {"select", "time"} \in WaitKinds /\ {"join", "time"} \in WaitKinds
BY DEF WaitKinds

LEMMA DeadlineType ==
  ASSUME TypeOK, NEW d \in Limits \cup {INFTY}
  PROVE  /\ Deadline(d) \in 0..INFTY
         /\ d # INFTY => now + d \in 0..INFTY
BY LimitAssumption, NumberAssumption DEF Deadline, TypeOK

LEMMA ReadiedType ==
  ASSUME NEW t \in Threads
  PROVE  Readied(t) \in {"RUNNABLE", "TO_KILL"}
BY DEF Readied

LEMMA TypeInit == Init => TypeOK
<1> SUFFICES ASSUME Init PROVE TypeOK
  OBVIOUS
<1>1. 0 \in 0..INFTY /\ 0 \in 0..MaxTime
  BY NumberAssumption
<1>2. status \in [Threads -> {Unborn, "TO_KILL", "RUNNABLE", "STOPPED", "KILLED"}]
  BY DEF Init
<1>3. now \in 0..MaxTime /\ delay \in [Threads -> 0..INFTY] /\ priority \in [Threads -> Nat]
  BY <1>1 DEF Init
<1>4. waitFor \in [Threads -> WaitKinds]
  BY WaitKindsFacts DEF Init
<1>5. QED
  BY <1>2, <1>3, <1>4, MainAssumption DEF Init, TypeOK

LEMMA TypeEnds ==
  ASSUME TypeOK, NEW t \in Threads, Ends(t)
  PROVE  TypeOK'
<1> USE MainAssumption, WaitKindsFacts DEF listVars, waitVars, flagVars, stackVars, envVars
<1>1. CASE EndQuietly(t)
  BY <1>1 DEF EndQuietly, ThreadEnds, Remove, EnterSchedule, Silent, TypeOK
<1>2. CASE EndFatally(t)
  BY <1>2, ReadiedType DEF EndFatally, ThreadEnds, Remove, Cleanup, EnterSchedule, TypeOK
<1>3. CASE EndDelegating(t)
  BY <1>3, ReadiedType
     DEF EndDelegating, ThreadEnds, Remove, Throw, Unwound, TypeOK
<1>4. QED
  BY <1>1, <1>2, <1>3 DEF Ends

\* The fields that Sleep leaves to its callers, and the others.
CallerFields ==
  /\ join \in [Threads -> Threads]
  /\ delay \in [Threads -> 0..INFTY]
  /\ fds \in [Threads -> SUBSET Fds]
  /\ last \in [Threads -> {"RUNNABLE", "TO_KILL"}]
  /\ critical \in BOOLEAN

LEMMA SleepType ==
  ASSUME TypeOK, CallerFields', NEW t \in Threads, NEW w \in WaitKinds,
         NEW p \in {"code", "stop", "join", "exit"}, Sleep(t, w, p)
  PROVE  TypeOK'
BY DEF Sleep, EnterSchedule, CallerFields, TypeOK, listVars, flagVars, envVars

LEMMA FailsType ==
  ASSUME TypeOK, NEW t \in Threads, Fails(t)
  PROVE  TypeOK'
BY DEF Fails, TypeOK, listVars, waitVars, flagVars, envVars

LEMMA TypeWaits ==
  ASSUME TypeOK, NEW t \in Threads, Waits(t)
  PROVE  TypeOK'
<1>1. CASE rb_thread_stop(t)
  <2>1. CASE Alone
    <3>1. /\ critical' = FALSE
          /\ unwind' = [unwind EXCEPT ![t] = "error"]
          /\ UNCHANGED <<listVars, status, waitVars, flagVars, at, last, context,
                         curr, pending, phase, envVars>>
      BY <1>1, <2>1 DEF rb_thread_stop
    <3>2. QED
      BY <3>1 DEF TypeOK, listVars, waitVars, flagVars, envVars
  <2>2. CASE ~Alone
    <3>1. CallerFields'
      BY <1>1, <2>2, ReadiedType DEF rb_thread_stop, CallerFields, TypeOK
    <3>2. waitFor[t] \in WaitKinds /\ Sleep(t, waitFor[t], "stop")
      BY <1>1, <2>2 DEF rb_thread_stop, TypeOK
    <3>3. QED
      BY <3>1, <3>2, SleepType
  <2>3. QED
    BY <2>1, <2>2
<1>2. ASSUME NEW u \in Threads, NEW d \in Limits \cup {INFTY}, rb_thread_join(t, u, d)
      PROVE  TypeOK'
  <2>1. CASE Fails(t)
    BY <2>1, FailsType
  <2>2. CASE ~Fails(t)
    <3> DEFINE w == IF d = INFTY THEN {"join"} ELSE {"join", "time"}
    <3>1. /\ last' = [last EXCEPT ![t] = Readied(t)]
          /\ join' = [join EXCEPT ![t] = u]
          /\ delay' = [delay EXCEPT ![t] = Deadline(d)]
          /\ UNCHANGED <<fds, critical>>
          /\ Sleep(t, w, "join")
      BY <1>2, <2>2 DEF rb_thread_join
    <3>2. CallerFields'
      BY <3>1, ReadiedType, DeadlineType DEF CallerFields, TypeOK
    <3>3. w \in WaitKinds
      BY WaitKindsFacts
    <3> HIDE DEF w
    <3>4. QED
      BY <3>1, <3>2, <3>3, SleepType
  <2>3. QED
    BY <2>1, <2>2
<1>3. CASE rb_thread_join_critical(t)
  BY <1>3, MainAssumption
     DEF rb_thread_join_critical, Throw, Transfer, Unwound, TypeOK,
         listVars, waitVars, flagVars, envVars
<1>4. ASSUME NEW d \in Limits, rb_thread_wait_for(t, d)
      PROVE  TypeOK'
  <2>1. now + d \in 0..INFTY
    BY NumberAssumption, LimitAssumption DEF TypeOK
  <2>2. CallerFields'
    BY <1>4, <2>1 DEF rb_thread_wait_for, CallerFields, TypeOK
  <2>3. QED
    BY <1>4, <2>2, WaitKindsFacts, SleepType DEF rb_thread_wait_for
<1>5. ASSUME NEW f \in Fds, rb_thread_wait_fd(t, f)
      PROVE  TypeOK'
  <2>1. CallerFields'
    BY <1>5 DEF rb_thread_wait_fd, CallerFields, TypeOK
  <2>2. QED
    BY <1>5, <2>1, WaitKindsFacts, SleepType DEF rb_thread_wait_fd
<1>6. ASSUME NEW fs \in (SUBSET Fds) \ {{}}, NEW d \in Limits \cup {INFTY},
             rb_thread_select(t, fs, d)
      PROVE  TypeOK'
  <2> DEFINE w == IF d = INFTY THEN {"select"} ELSE {"select", "time"}
  <2>1. CallerFields'
    BY <1>6, DeadlineType DEF rb_thread_select, CallerFields, TypeOK
  <2>2. Sleep(t, w, "code") /\ w \in WaitKinds
    BY <1>6, WaitKindsFacts DEF rb_thread_select
  <2> HIDE DEF w
  <2>3. QED
    BY <2>1, <2>2, SleepType
<1>7. CASE rb_thread_polling(t)
  <2>1. now + 1 \in 0..INFTY
    BY NumberAssumption DEF TypeOK
  <2>2. CallerFields'
    BY <1>7, <2>1 DEF rb_thread_polling, CallerFields, TypeOK
  <2>3. QED
    BY <1>7, <2>2, WaitKindsFacts, SleepType DEF rb_thread_polling
<1>8. CASE rb_thread_sleep_forever(t)
  <2>1. CASE Sleep(t, {"time"}, "code") /\ CallerFields'
    BY <2>1, WaitKindsFacts, SleepType
  <2>2. CASE phase' = "pause"
    BY <1>8, <2>2
       DEF rb_thread_sleep_forever, Sleep, EnterSchedule, TypeOK, listVars,
           waitVars, flagVars, stackVars, envVars
  <2>3. INFTY \in 0..INFTY
    BY NumberAssumption
  <2>4. QED
    BY <1>8, <2>1, <2>2, <2>3 DEF rb_thread_sleep_forever, CallerFields, TypeOK
<1>9. QED
  BY <1>1, <1>2, <1>3, <1>4, <1>5, <1>6, <1>7, <1>8 DEF Waits

\* The fields that Yield changes.
YieldFields ==
  /\ at \in [Threads -> {"code", "stop", "join", "exit"}]
  /\ pending \in BOOLEAN
  /\ phase \in {"run", "sched", "pause", "exited"}

LEMMA YieldType ==
  ASSUME TypeOK, NEW t \in Threads, NEW may, Yield(t, may)
  PROVE  YieldFields'
<1>1. CASE may
  BY <1>1 DEF Yield, EnterSchedule, YieldFields, TypeOK
<1>2. CASE ~may
  BY <1>2 DEF Yield, YieldFields, TypeOK
<1>3. QED
  BY <1>1, <1>2

LEMMA TypeActs ==
  ASSUME TypeOK, NEW t \in Threads, Acts(t)
  PROVE  TypeOK'
<1> USE DEF listVars, waitVars, flagVars, stackVars, envVars
<1>1. ASSUME NEW u \in Threads, rb_thread_start_0(t, u)
      PROVE  TypeOK'
  BY <1>1 DEF rb_thread_start_0, Transfer, TypeOK
<1>2. ASSUME NEW u \in Threads, NEW may \in BOOLEAN, Wake(t, u, may)
      PROVE  TypeOK'
  <2>1. CASE Fails(t)
    BY <2>1, FailsType
  <2>2. CASE ~Fails(t)
    <3>1. /\ status' = [status EXCEPT ![u] = Readied(u)]
          /\ waitFor' = [waitFor EXCEPT ![u] = {}]
          /\ UNCHANGED <<listVars, join, delay, fds, flagVars, unwind, last, context,
                         curr, critical, envVars>>
      BY <1>2, <2>2 DEF Wake
    <3>2. YieldFields'
      BY <1>2, <2>2, YieldType DEF Wake
    <3>3. QED
      BY <3>1, <3>2, ReadiedType, WaitKindsFacts DEF YieldFields, TypeOK
  <2>3. QED
    BY <2>1, <2>2
<1>3. ASSUME NEW u \in Threads, rb_thread_kill(t, u)
      PROVE  TypeOK'
  <2>1. CASE u = Main
    BY <1>3, <2>1 DEF rb_thread_kill, TypeOK
  <2>2. CASE u # Main
    <3>1. /\ status' = [status EXCEPT ![u] = "TO_KILL"]
          /\ waitFor' = [waitFor EXCEPT ![u] = {}]
          /\ UNCHANGED <<listVars, join, delay, fds, flagVars, unwind, last, context,
                         curr, critical, envVars>>
      BY <1>3, <2>2 DEF rb_thread_kill
    <3>2. YieldFields'
      BY <1>3, <2>2, YieldType DEF rb_thread_kill
    <3>3. QED
      BY <3>1, <3>2, WaitKindsFacts DEF YieldFields, TypeOK
  <2>3. QED
    BY <2>1, <2>2
<1>4. ASSUME NEW u \in Threads, rb_thread_raise(t, u)
      PROVE  TypeOK'
  BY <1>4, ReadiedType, WaitKindsFacts
     DEF rb_thread_raise, Throw, Unwound, Transfer, TypeOK
<1>5. ASSUME NEW u \in Threads, NEW p \in Priorities, rb_thread_priority_set(t, u, p)
      PROVE  TypeOK'
  <2>1. p \in Nat
    BY NumberAssumption
  <2>2. QED
    BY <1>5, <2>1 DEF rb_thread_priority_set, EnterSchedule, TypeOK
<1>6. CASE rb_thread_pass(t)
  BY <1>6 DEF rb_thread_pass, EnterSchedule, TypeOK
<1>7. ASSUME NEW v \in BOOLEAN, rb_thread_critical_set(t, v)
      PROVE  TypeOK'
  BY <1>7 DEF rb_thread_critical_set, TypeOK
<1>8. ASSUME NEW e \in {"error", "exit"}, rb_f_raise(t, e)
      PROVE  TypeOK'
  BY <1>8 DEF rb_f_raise, TypeOK
<1>9. CASE Rescue(t)
  BY <1>9 DEF Rescue, TypeOK
<1>10. QED
  BY <1>1, <1>2, <1>3, <1>4, <1>5, <1>6, <1>7, <1>8, <1>9
     DEF Acts, rb_thread_wakeup, rb_thread_run, TypeOK

LEMMA NowType ==
  ASSUME TypeOK, NEW t \in Threads, NEW u \in Threads
  PROVE  /\ StatusNow(t) \in {Unborn, "TO_KILL", "RUNNABLE", "STOPPED", "KILLED"}
         /\ WaitAfter(u, t) \in WaitKinds
BY WaitKindsFacts DEF StatusNow, WaitAfter, WaitNow, TypeOK

LEMMA TypeRuns ==
  ASSUME TypeOK, NEW t \in Threads, Runs(t)
  PROVE  TypeOK'
<1> USE DEF listVars, waitVars, flagVars, stackVars, envVars
<1>1. CASE AfterStop(t)
  BY <1>1 DEF AfterStop, TypeOK
<1>2. CASE rb_thread_wait_other_threads(t)
  BY <1>2 DEF rb_thread_wait_other_threads, EnterSchedule, TypeOK
<1>3. CASE CHECK_INTS(t)
  BY <1>3 DEF CHECK_INTS, EnterSchedule, TypeOK
<1>4. CASE ScheduleTo(t)
  BY <1>4, NowType DEF ScheduleTo, Throw, Unwound, Transfer, TypeOK
<1>5. QED
  BY <1>1, <1>2, <1>3, <1>4 DEF Runs

LEMMA TypeStep == TypeOK /\ [Next]_vars => TypeOK'
<1> SUFFICES ASSUME TypeOK, [Next]_vars PROVE TypeOK'
  OBVIOUS
<1> USE DEF listVars, waitVars, flagVars, stackVars, envVars
<1>1. ASSUME NEW t \in Threads, ruby_cleanup(t)
      PROVE  TypeOK'
  BY <1>1, ReadiedType, WaitKindsFacts DEF ruby_cleanup, Cleanup, TypeOK
<1>2. CASE ScheduleAlone
  BY <1>2 DEF ScheduleAlone, TypeOK
<1>3. CASE ScheduleDeadlock
  BY <1>3, NowType, MainAssumption DEF ScheduleDeadlock, Throw, Unwound, Transfer, TypeOK
<1>4. CASE catch_timer
  BY <1>4 DEF catch_timer, TypeOK
<1>5. CASE Tick
  <2>1. now' \in 0..MaxTime
    BY <1>5, NumberAssumption DEF Tick, TypeOK
  <2>2. QED
    BY <1>5, <2>1 DEF Tick, TypeOK
<1>6. ASSUME NEW fs \in SUBSET Fds, Ready(fs)
      PROVE  TypeOK'
  BY <1>6 DEF Ready, TypeOK
<1>7. CASE UNCHANGED vars
  BY <1>7 DEF vars, TypeOK
<1>8. QED
  BY <1>1, <1>2, <1>3, <1>4, <1>5, <1>6, <1>7, TypeEnds, TypeWaits, TypeActs,
     TypeRuns DEF Next

\* Every field of every struct thread and every global of the scheduler always
\* holds a value of its type; in particular no sum of a time and a limit ever
\* passes DELAY_INFTY, and wait_for is always one of the seven combinations
\* rb_thread_schedule distinguishes.
THEOREM SchedulerTypes == Spec => []TypeOK
<1>1. QED
  BY TypeInit, TypeStep, PTL DEF Spec

-----------------------------------------------------------------------------
(* The thread list.  Beyond ListOK and RingWhole, the induction needs that   *)
(* the running thread is in the list (so insertion and removal happen at a   *)
(* live thread) and that a thread outside it waits for nothing (so the       *)
(* scheduler, which sets THREAD_RUNNABLE when a select times out, never      *)
(* revives one).                                                             *)

CurrLive == phase # "sched" => curr \in Live

DeadIdle == \A t \in Threads \ Live : waitFor[t] = {}

ListInv == TypeOK /\ ListOK /\ RingWhole /\ CurrLive /\ DeadIdle

LEMMA ListInit == Init => ListInv
<1> SUFFICES ASSUME Init PROVE ListInv
  OBVIOUS
<1>1. Live = {Main}
  BY MainAssumption DEF Init, Live, Unborn
<1>2. \A t \in Threads : next[t] = Main /\ prev[t] = Main /\ waitFor[t] = {}
  BY DEF Init
<1>3. Start = Main /\ curr = Main
  BY MainAssumption DEF Init, Start
<1>4. ListOK
  BY <1>1, <1>2, <1>3, MainAssumption DEF ListOK
<1>5. RingWhole
  BY <1>1, <1>2, MainAssumption DEF RingWhole
<1>6. QED
  BY <1>1, <1>2, <1>3, <1>4, <1>5, TypeInit DEF ListInv, CurrLive, DeadIdle

\* A step that leaves the links and the set of live threads alone, and gives
\* the processor to a live thread.
LEMMA ListFrame ==
  ASSUME ListInv, TypeOK', UNCHANGED listVars, Live' = Live, curr' \in Live, DeadIdle'
  PROVE  ListInv'
<1>1. Start' = curr'
  BY DEF Start, Live
<1>2. ListOK'
  BY <1>1 DEF ListInv, ListOK, listVars
<1>3. RingWhole'
  BY DEF ListInv, RingWhole, listVars
<1>4. QED
  BY <1>2, <1>3 DEF ListInv, CurrLive

\* A step that concerns neither the list nor the scheduling.
LEMMA ListStay ==
  ASSUME ListInv, TypeOK', UNCHANGED <<listVars, status, waitFor, curr, phase>>
  PROVE  ListInv'
BY DEF ListInv, ListOK, RingWhole, CurrLive, DeadIdle, Start, Live, listVars

\* The running thread is live when it acts.
LEMMA RunnerLive ==
  ASSUME ListInv, phase = "run"
  PROVE  curr \in Live /\ curr \in Threads
BY DEF ListInv, CurrLive, TypeOK

\* A statement about the status of one thread: a live thread stays live.
LEMMA LiveOne ==
  ASSUME TypeOK, NEW u \in Live, NEW s \in {"TO_KILL", "RUNNABLE", "STOPPED"},
         status' = [status EXCEPT ![u] = s]
  PROVE  Live' = Live
BY DEF Live, TypeOK, Unborn

\* Insertion behind the running thread.
LEMMA ListInsert ==
  ASSUME ListInv, TypeOK', NEW t \in Threads, NEW u \in Threads,
         rb_thread_start_0(t, u)
  PROVE  ListInv'
<1>1. t \in Live /\ u \notin Live /\ t # u /\ curr' = u
  BY RunnerLive DEF rb_thread_start_0, Calls, InCode, Transfer, Live
<1>2. Live' = Live \cup {u}
  BY <1>1 DEF rb_thread_start_0, Live, ListInv, TypeOK, Unborn
<1>3. /\ next' = [next EXCEPT ![u] = next[t], ![t] = u]
      /\ prev' = [prev EXCEPT ![next[t]] = u, ![u] = t]
      /\ waitFor' = waitFor
      /\ next \in [Threads -> Threads] /\ prev \in [Threads -> Threads]
  BY DEF rb_thread_start_0, waitVars, ListInv, TypeOK
<1>4. Live \subseteq Threads
  BY DEF Live
<1>5. /\ next'[t] = u /\ next'[u] = next[t]
      /\ \A x \in Live \ {t} : next'[x] = next[x]
  BY <1>1, <1>3, <1>4
<1>6. /\ next[t] \in Live /\ next[t] # u
      /\ prev'[next[t]] = u /\ prev'[u] = t
      /\ \A x \in Live \ {next[t]} : prev'[x] = prev[x]
  BY <1>1, <1>3, <1>4 DEF ListInv, ListOK
<1>7. Start' = u
  BY <1>1, <1>2 DEF Start, Live
<1>8. ASSUME NEW x \in Live'
      PROVE  /\ next'[x] \in Live' /\ prev'[next'[x]] = x
             /\ prev'[x] \in Live' /\ next'[prev'[x]] = x
             /\ next'[x] # x
  <2>1. CASE x = u
    BY <2>1, <1>1, <1>2, <1>5, <1>6
  <2>2. CASE x = t
    BY <2>2, <1>1, <1>2, <1>5, <1>6 DEF ListInv, ListOK
  <2>3. CASE x \in Live \ {t}
    <3>1. next[x] \in Live /\ prev[next[x]] = x /\ next[x] # next[t]
      BY <1>1, <2>3 DEF ListInv, ListOK
    <3>2. next'[x] \in Live' /\ prev'[next'[x]] = x
      BY <1>2, <1>5, <1>6, <2>3, <3>1
    <3>3. next'[x] # x
      BY <1>1, <1>5, <2>3 DEF ListInv, ListOK
    <3>4. prev'[x] \in Live' /\ next'[prev'[x]] = x
      BY <1>1, <1>2, <1>5, <1>6, <2>3 DEF ListInv, ListOK
    <3>5. QED
      BY <3>2, <3>3, <3>4
  <2>4. QED
    BY <1>2, <2>1, <2>2, <2>3
<1>9. ListOK'
  BY <1>2, <1>7, <1>8 DEF ListInv, ListOK
<1>10. ASSUME NEW S \in SUBSET (Live'), S # {}, \A x \in S : next'[x] \in S
       PROVE  S = Live'
  <2> DEFINE R == S \ {u}
  <2>1. \A x \in R : next[x] \in R
    <3> SUFFICES ASSUME NEW x \in R PROVE next[x] \in R
      OBVIOUS
    <3>1. x \in Live /\ next[x] \in Live /\ next[x] # u
      BY <1>1, <1>2 DEF ListInv, ListOK
    <3>2. QED
      BY <1>5, <1>10, <3>1
  <2>2. R # {} /\ R \in SUBSET Live
    BY <1>2, <1>5, <1>6, <1>10
  <2>3. R = Live
    BY <2>1, <2>2 DEF ListInv, RingWhole
  <2>4. u \in S
    BY <1>1, <1>5, <1>10, <2>3
  <2>5. QED
    BY <1>2, <2>3, <2>4
<1>11. RingWhole'
  BY <1>8, <1>10 DEF RingWhole
<1>12. DeadIdle' /\ CurrLive'
  BY <1>1, <1>2, <1>3 DEF ListInv, DeadIdle, CurrLive
<1>13. QED
  BY <1>9, <1>11, <1>12 DEF ListInv

\* Removal of the running thread: ListInv of the links that remain.
LEMMA ListRemove ==
  ASSUME ListInv, TypeOK', NEW t \in Threads, ThreadEnds(t), Live' = Live \ {t},
         \/ curr' = Main
         \/ curr' = curr /\ status'[t] = "KILLED" /\ phase' = "sched",
         DeadIdle'
  PROVE  ListInv'
<1>1. t \in Live /\ t # Main /\ Main \in Live /\ curr = t
  BY RunnerLive DEF ThreadEnds, InCode, ListInv, ListOK
<1>2. /\ next' = [next EXCEPT ![prev[t]] = next[t]]
      /\ prev' = [prev EXCEPT ![next[t]] = prev[t]]
      /\ next \in [Threads -> Threads] /\ prev \in [Threads -> Threads]
  BY DEF ThreadEnds, Remove, ListInv, TypeOK
<1>3. Live \subseteq Threads
  BY DEF Live
<1>4. next[t] # t
  BY <1>1 DEF ListInv, ListOK
<1>5. /\ prev[t] \in Live /\ prev[t] # t /\ next[prev[t]] = t
      /\ next[t] \in Live /\ prev[next[t]] = t
  BY <1>1, <1>4 DEF ListInv, ListOK
<1>6. /\ next'[prev[t]] = next[t]
      /\ prev'[next[t]] = prev[t]
      /\ \A x \in Live \ {prev[t]} : next'[x] = next[x]
      /\ \A x \in Live \ {next[t]} : prev'[x] = prev[x]
  BY <1>2, <1>3, <1>5
<1>7. ASSUME NEW x \in Live'
      PROVE  /\ next'[x] \in Live' /\ prev'[next'[x]] = x
             /\ prev'[x] \in Live' /\ next'[prev'[x]] = x
  <2>1. x \in Live /\ x # t
    OBVIOUS
  <2>2. next'[x] \in Live' /\ prev'[next'[x]] = x
    <3>1. CASE x = prev[t]
      BY <3>1, <1>4, <1>5, <1>6
    <3>2. CASE x # prev[t]
      <4>1. next[x] \in Live /\ prev[next[x]] = x /\ next[x] # t /\ next[x] # next[t]
        BY <2>1, <3>2, <1>1, <1>5 DEF ListInv, ListOK
      <4>2. QED
        BY <2>1, <3>2, <4>1, <1>6
    <3>3. QED
      BY <3>1, <3>2
  <2>3. prev'[x] \in Live' /\ next'[prev'[x]] = x
    <3>1. CASE x = next[t]
      BY <3>1, <1>5, <1>6
    <3>2. CASE x # next[t]
      <4>1. prev[x] \in Live /\ next[prev[x]] = x /\ prev[x] # t /\ prev[x] # prev[t]
        BY <2>1, <3>2, <1>1, <1>5 DEF ListInv, ListOK
      <4>2. QED
        BY <2>1, <3>2, <4>1, <1>6
    <3>3. QED
      BY <3>1, <3>2
  <2>4. QED
    BY <2>2, <2>3
<1>8. ASSUME NEW S \in SUBSET (Live'), S # {}, \A x \in S : next'[x] \in S
      PROVE  S = Live'
  <2>1. CASE prev[t] \in S
    <3> DEFINE R == S \cup {t}
    <3>1. \A x \in R : next[x] \in R
      BY <1>5, <1>6, <1>8, <2>1
    <3>2. R \in SUBSET Live /\ R # {}
      BY <1>1
    <3>3. R = Live
      BY <3>1, <3>2 DEF ListInv, RingWhole
    <3>4. QED
      BY <3>3
  <2>2. CASE prev[t] \notin S
    <3>1. \A x \in S : next[x] \in S
      BY <1>6, <1>8, <2>2
    <3>2. S \in SUBSET Live
      OBVIOUS
    <3>3. S = Live
      BY <1>8, <3>1, <3>2 DEF ListInv, RingWhole
    <3>4. QED
      BY <1>1, <3>3
  <2>3. QED
    BY <2>1, <2>2
<1>9. RingWhole'
  BY <1>7, <1>8 DEF RingWhole
<1>10. ASSUME NEW x \in Live', next'[x] = x
       PROVE  Live' = {x}
  BY <1>8, <1>10
<1>11. Start' \in Live'
  <2>1. CASE curr' = Main
    BY <1>1, <2>1 DEF Start, Live
  <2>2. CASE curr' = curr /\ status'[t] = "KILLED"
    BY <1>1, <1>4, <1>5, <1>6, <2>2 DEF Start
  <2>3. QED
    BY <2>1, <2>2
<1>12. ListOK'
  BY <1>1, <1>7, <1>10, <1>11 DEF ListOK
<1>13. CurrLive'
  BY <1>1 DEF CurrLive
<1>14. QED
  BY <1>9, <1>12, <1>13 DEF ListInv

LEMMA ListEnds ==
  ASSUME ListInv, TypeOK', NEW t \in Threads, Ends(t)
  PROVE  ListInv'
<1>1. /\ ThreadEnds(t) /\ t \in Live /\ t # Main /\ curr = t
      /\ Main \in Live /\ TypeOK /\ DeadIdle
  BY RunnerLive DEF Ends, EndQuietly, EndFatally, EndDelegating, ThreadEnds, InCode,
                    ListInv, ListOK
<1>2. CASE EndQuietly(t)
  <2>1. Live' = Live \ {t} /\ status'[t] = "KILLED"
    BY <1>1, <1>2 DEF EndQuietly, Live, TypeOK, Unborn
  <2>2. DeadIdle'
    BY <1>1, <1>2, <2>1 DEF EndQuietly, DeadIdle, TypeOK
  <2>3. QED
    BY <1>1, <1>2, <2>1, <2>2, ListRemove DEF EndQuietly, EnterSchedule
<1>3. CASE EndFatally(t)
  <2>1. Live' = Live \ {t} /\ status'[t] = "KILLED"
    <3>1. \A x \in Threads :
            status'[x] = IF x = t THEN "KILLED"
                         ELSE IF x \notin Live \ {t} THEN status[x]
                         ELSE IF x = Main THEN Readied(x) ELSE "TO_KILL"
      BY <1>3 DEF EndFatally, Cleanup
    <3>2. \A x \in Live \ {t} : status'[x] \in {"RUNNABLE", "TO_KILL"}
      BY <3>1, ReadiedType DEF Live
    <3>3. QED
      BY <1>1, <3>1, <3>2 DEF Live, Unborn
  <2>2. DeadIdle'
    BY <1>1, <1>3, <2>1 DEF EndFatally, Cleanup, DeadIdle, TypeOK
  <2>3. QED
    BY <1>1, <1>3, <2>1, <2>2, ListRemove DEF EndFatally, EnterSchedule
<1>4. CASE EndDelegating(t)
  <2>1. Live' = Live \ {t}
    BY <1>1, <1>4, ReadiedType DEF EndDelegating, Live, TypeOK, Unborn
  <2>2. DeadIdle'
    BY <1>1, <1>4, <2>1 DEF EndDelegating, DeadIdle, TypeOK
  <2>3. QED
    BY <1>1, <1>4, <2>1, <2>2, ListRemove DEF EndDelegating
<1>5. QED
  BY <1>2, <1>3, <1>4 DEF Ends

\* An operation of the running thread t that changes the status of one live
\* thread at most and goes on, or schedules.
LEMMA ListOne ==
  ASSUME ListInv, TypeOK', InCode(curr), NEW u \in Live,
         NEW s \in {"TO_KILL", "RUNNABLE", "STOPPED"}, NEW w,
         status' = [status EXCEPT ![u] = s],
         waitFor' = [waitFor EXCEPT ![u] = w],
         UNCHANGED listVars, curr' \in Live
  PROVE  ListInv'
<1>1. Live' = Live
  BY LiveOne DEF ListInv
<1>2. DeadIdle'
  BY <1>1 DEF ListInv, DeadIdle, TypeOK
<1>3. QED
  BY <1>1, <1>2, ListFrame

\* An operation that changes no status.
LEMMA ListNone ==
  ASSUME ListInv, TypeOK', phase = "run", UNCHANGED <<listVars, status, waitFor>>,
         curr' \in Live
  PROVE  ListInv'
<1>1. Live' = Live
  BY DEF Live
<1>2. DeadIdle'
  BY <1>1 DEF ListInv, DeadIdle
<1>3. QED
  BY <1>1, <1>2, ListFrame

LEMMA ListSleep ==
  ASSUME ListInv, TypeOK', NEW t \in Threads, InCode(t), NEW w, NEW p, Sleep(t, w, p)
  PROVE  ListInv'
<1>1. curr = t /\ t \in Live
  BY RunnerLive DEF InCode
<1>2. QED
  BY <1>1, ListOne DEF Sleep

LEMMA ListFails ==
  ASSUME ListInv, TypeOK', NEW t \in Threads, InCode(t), Fails(t)
  PROVE  ListInv'
BY RunnerLive, ListNone DEF Fails, InCode, waitVars

LEMMA ListWaits ==
  ASSUME ListInv, TypeOK', NEW t \in Threads, Waits(t)
  PROVE  ListInv'
<1>1. CASE rb_thread_stop(t)
  <2>1. InCode(t)
    BY <1>1 DEF rb_thread_stop, Calls
  <2>2. CASE Alone
    BY <1>1, <2>1, <2>2, RunnerLive, ListNone DEF rb_thread_stop, InCode, waitVars
  <2>3. CASE ~Alone
    BY <1>1, <2>1, <2>3, ListSleep DEF rb_thread_stop
  <2>4. QED
    BY <2>2, <2>3
<1>2. ASSUME NEW u \in Threads, NEW d \in Limits \cup {INFTY}, rb_thread_join(t, u, d)
      PROVE  ListInv'
  BY <1>2, ListSleep, ListFails DEF rb_thread_join, Calls
<1>3. CASE rb_thread_join_critical(t)
  <2>1. Main \in Live /\ phase = "run"
    BY <1>3 DEF ListInv, ListOK, rb_thread_join_critical, Calls, InCode
  <2>2. QED
    BY <1>3, <2>1, ListNone DEF rb_thread_join_critical, Transfer, waitVars
<1>4. ASSUME NEW d \in Limits, rb_thread_wait_for(t, d)
      PROVE  ListInv'
  BY <1>4, ListSleep DEF rb_thread_wait_for, Calls
<1>5. ASSUME NEW f \in Fds, rb_thread_wait_fd(t, f)
      PROVE  ListInv'
  BY <1>5, ListSleep DEF rb_thread_wait_fd, Calls
<1>6. ASSUME NEW fs \in (SUBSET Fds) \ {{}}, NEW d \in Limits \cup {INFTY},
             rb_thread_select(t, fs, d)
      PROVE  ListInv'
  BY <1>6, ListSleep DEF rb_thread_select, Calls
<1>7. CASE rb_thread_polling(t)
  BY <1>7, ListSleep DEF rb_thread_polling, Calls
<1>8. CASE rb_thread_sleep_forever(t)
  <2>1. InCode(t)
    BY <1>8 DEF rb_thread_sleep_forever, Calls
  <2>2. CASE Sleep(t, {"time"}, "code")
    BY <2>1, <2>2, ListSleep
  <2>3. CASE ~Sleep(t, {"time"}, "code")
    BY <1>8, <2>1, <2>3, RunnerLive, ListNone
       DEF rb_thread_sleep_forever, InCode, waitVars
  <2>4. QED
    BY <2>2, <2>3
<1>9. QED
  BY <1>1, <1>2, <1>3, <1>4, <1>5, <1>6, <1>7, <1>8 DEF Waits

LEMMA ListActs ==
  ASSUME ListInv, TypeOK', NEW t \in Threads, Acts(t)
  PROVE  ListInv'
<1>1. InCode(t) /\ curr = t /\ t \in Live /\ phase = "run"
  BY RunnerLive
     DEF Acts, rb_thread_start_0, rb_thread_wakeup, rb_thread_run, rb_thread_kill,
         rb_thread_raise, rb_thread_priority_set, rb_thread_pass,
         rb_thread_critical_set, rb_f_raise, Rescue, Calls, InCode
<1>2. ASSUME NEW u \in Threads, NEW may, Wake(t, u, may)
      PROVE  ListInv'
  BY <1>1, <1>2, ListFails, ListOne, ReadiedType DEF Wake
<1>3. ASSUME NEW u \in Threads, rb_thread_kill(t, u)
      PROVE  ListInv'
  <2>1. CASE u = Main
    BY <1>1, <1>3, <2>1, ListNone DEF rb_thread_kill
  <2>2. CASE u # Main
    <3>1. u \in Live
      BY <1>3 DEF rb_thread_kill, Live, Unborn
    <3>2. QED
      BY <1>1, <1>3, <2>2, <3>1, ListOne DEF rb_thread_kill
  <2>3. QED
    BY <2>1, <2>2
<1>4. ASSUME NEW u \in Threads, rb_thread_raise(t, u)
      PROVE  ListInv'
  BY <1>1, <1>4, ListOne, ReadiedType DEF rb_thread_raise, Transfer
<1>5. ASSUME NEW u \in Threads, NEW p \in Priorities, rb_thread_priority_set(t, u, p)
      PROVE  ListInv'
  BY <1>1, <1>5, ListNone DEF rb_thread_priority_set, waitVars
<1>6. CASE rb_thread_pass(t)
  BY <1>1, <1>6, ListNone DEF rb_thread_pass, waitVars
<1>7. ASSUME NEW v \in BOOLEAN, rb_thread_critical_set(t, v)
      PROVE  ListInv'
  BY <1>1, <1>7, ListNone DEF rb_thread_critical_set, waitVars
<1>8. ASSUME NEW e \in {"error", "exit"}, rb_f_raise(t, e)
      PROVE  ListInv'
  BY <1>1, <1>8, ListNone DEF rb_f_raise, waitVars
<1>9. CASE Rescue(t)
  BY <1>1, <1>9, ListNone DEF Rescue, waitVars
<1>10. QED
  BY <1>2, <1>3, <1>4, <1>5, <1>6, <1>7, <1>8, <1>9, ListInsert
     DEF Acts, rb_thread_wakeup, rb_thread_run

\* What the walks of rb_thread_schedule do to status and wait_for.
LEMMA ListWalk ==
  ASSUME ListInv, NEW t \in Threads
  PROVE  /\ t \in Live <=> StatusNow(t) \notin {Unborn, "KILLED"}
         /\ t \notin Live => WaitNow(t) = {}
<1>1. Woken(t) => t \in Live
  BY DEF Woken, JoinDone, Expired, FdWoken, FdWaiting, SelectExpired, Stopped, Live,
         Unborn, ListInv, DeadIdle
<1>2. QED
  BY <1>1 DEF StatusNow, WaitNow, Live, Unborn, ListInv, DeadIdle

LEMMA ListRuns ==
  ASSUME ListInv, TypeOK', NEW t \in Threads, Runs(t)
  PROVE  ListInv'
<1>1. CASE AfterStop(t)
  <2>1. curr = t /\ t \in Live /\ TypeOK
    BY <1>1, RunnerLive DEF AfterStop, ListInv
  <2>2. last[t] \in {"RUNNABLE", "TO_KILL"}
    BY <2>1 DEF TypeOK
  <2>3. Live' = Live
    BY <1>1, <2>1, <2>2, LiveOne DEF AfterStop
  <2>4. DeadIdle'
    BY <1>1, <2>3 DEF AfterStop, waitVars, ListInv, DeadIdle
  <2>5. QED
    BY <1>1, <2>1, <2>3, <2>4, ListFrame DEF AfterStop
<1>2. CASE rb_thread_wait_other_threads(t)
  BY <1>2, RunnerLive, ListNone DEF rb_thread_wait_other_threads, waitVars
<1>3. CASE CHECK_INTS(t)
  BY <1>3, RunnerLive, ListNone DEF CHECK_INTS, InCode, waitVars
<1>4. CASE ScheduleTo(t)
  <2>1. \A u \in Threads : status'[u] = StatusNow(u)
    BY <1>4 DEF ScheduleTo
  <2>2. Live' = Live
    BY <2>1, ListWalk DEF Live
  <2>3. \A u \in Threads : waitFor'[u] = WaitAfter(t, u)
    BY <1>4 DEF ScheduleTo
  <2>4. DeadIdle'
    BY <2>2, <2>3, ListWalk DEF DeadIdle, WaitAfter
  <2>5. t \in Live
    BY <1>4, ListWalk DEF ScheduleTo, Chosen, Unborn
  <2>6. QED
    BY <1>4, <2>2, <2>4, <2>5, ListFrame DEF ScheduleTo, Transfer
<1>5. QED
  BY <1>1, <1>2, <1>3, <1>4 DEF Runs

LEMMA ListStep == ListInv /\ [Next]_vars => ListInv'
<1> SUFFICES ASSUME ListInv, [Next]_vars PROVE ListInv'
  OBVIOUS
<1>1. TypeOK'
  BY TypeStep DEF ListInv
<1>2. ASSUME NEW t \in Threads, ruby_cleanup(t)
      PROVE  ListInv'
  <2>1. curr = t /\ t \in Live
    BY <1>2, RunnerLive DEF ruby_cleanup, InCode
  <2>2. /\ \A u \in Live : status'[u] \in {"RUNNABLE", "TO_KILL"} /\ waitFor'[u] = {}
        /\ \A u \in Threads \ Live : status'[u] = status[u] /\ waitFor'[u] = waitFor[u]
    BY <1>2, ReadiedType DEF ruby_cleanup, Cleanup, Live
  <2>3. Live' = Live
    BY <2>2 DEF Live, Unborn
  <2>4. DeadIdle'
    BY <2>2, <2>3 DEF ListInv, DeadIdle
  <2>5. QED
    BY <1>1, <1>2, <2>1, <2>3, <2>4, ListFrame DEF ruby_cleanup
<1>3. CASE ScheduleAlone
  <2>1. curr \in Live /\ Live' = Live
    BY <1>3 DEF ScheduleAlone, Live, Unborn, ListInv, TypeOK
  <2>2. DeadIdle'
    BY <1>3, <2>1 DEF ScheduleAlone, waitVars, ListInv, DeadIdle
  <2>3. QED
    BY <1>1, <1>3, <2>1, <2>2, ListFrame DEF ScheduleAlone
<1>4. CASE ScheduleDeadlock
  <2>1. Main \in Live /\ Main \in Threads
    BY MainAssumption DEF ListInv, ListOK
  <2>2. \A u \in Threads :
          /\ status'[u] = IF u = Main THEN "TO_KILL" ELSE StatusNow(u)
          /\ waitFor'[u] = WaitAfter(Main, u)
    BY <1>4 DEF ScheduleDeadlock
  <2>3. Live' = Live
    BY <2>1, <2>2, ListWalk DEF Live, Unborn
  <2>4. DeadIdle'
    BY <2>2, <2>3, ListWalk DEF DeadIdle, WaitAfter
  <2>5. QED
    BY <1>1, <1>4, <2>1, <2>3, <2>4, ListFrame DEF ScheduleDeadlock, Transfer
<1>5. CASE catch_timer \/ Tick \/ (\E fs \in SUBSET Fds : Ready(fs)) \/ UNCHANGED vars
  BY <1>1, <1>5, ListStay DEF catch_timer, Tick, Ready, vars, waitVars
<1>6. QED
  BY <1>1, <1>2, <1>3, <1>4, <1>5, ListEnds, ListWaits, ListActs, ListRuns DEF Next

\* The thread list is always one ring of exactly the live threads, linked the
\* same way in both directions, with the main thread in it, and
\* rb_thread_schedule always starts its walk inside the ring: whatever the
\* order in which threads are created, end, are killed or raise in each other,
\* and however many there are.
THEOREM ThreadListSound == Spec => [](ListOK /\ RingWhole)
<1>1. ListInv => ListOK /\ RingWhole
  BY DEF ListInv
<1>2. QED
  BY ListInit, ListStep, <1>1, PTL DEF Spec

-----------------------------------------------------------------------------
(* Who runs.  rb_thread_deadlock, which a join in a critical section calls,  *)
(* goes to the main thread as it is and does not save the caller's context:  *)
(* the properties hold for programs that do not do both.                     *)

Uncritical == ~({"critical", "join"} \subseteq Ops)

CriticalUsed == critical => "critical" \in Ops

\* The thread that rb_thread_schedule finds alone waits for nothing; a thread to
\* be killed waits for nothing; only a thread that has always been alone has
\* no saved context.
AloneAwake == phase = "sched" /\ status[curr] = "RUNNABLE" => waitFor[curr] = {}
KilledIdle == \A t \in Threads : status[t] = "TO_KILL" => waitFor[t] = {}
NoContext == \A t \in Live : context[t] = "none" => Live = {t} /\ curr = t

\* A stopped thread is where it stopped, and joins a thread that was created.
StopPoints == \A t \in Threads : status[t] = "STOPPED" =>
                /\ waitFor[t] = {} => at[t] = "stop"
                /\ "join" \in waitFor[t] => at[t] = "join"
Joined == \A t \in Threads : "join" \in waitFor[t] => status[join[t]] # Unborn

WakeInv == CriticalUsed /\ RunnerAwake /\ AloneAwake /\ KilledIdle
ContextInv == ContextFresh /\ NoContext
JoinInv == StopPoints /\ Joined /\ NoMutualJoin

\* A join in a critical section does not happen.
LEMMA NeverCritical ==
  ASSUME Uncritical, WakeInv, NEW t \in Threads, rb_thread_join_critical(t)
  PROVE  FALSE
BY DEF Uncritical, WakeInv, CriticalUsed, rb_thread_join_critical, Calls

LEMMA WakeInit == Init => WakeInv
<1> SUFFICES ASSUME Init PROVE WakeInv
  OBVIOUS
<1>1. \A t \in Threads : waitFor[t] = {} /\ status[t] \notin {"TO_KILL", "STOPPED"}
  BY DEF Init, Unborn
<1>2. critical = FALSE /\ curr = Main /\ status[Main] = "RUNNABLE" /\ phase = "run"
  BY MainAssumption DEF Init
<1>3. QED
  BY <1>1, <1>2, MainAssumption
     DEF WakeInv, CriticalUsed, RunnerAwake, AloneAwake, KilledIdle, Live, Unborn

LEMMA WakeEnds ==
  ASSUME ListInv, ListInv', WakeInv, NEW t \in Threads, Ends(t)
  PROVE  WakeInv'
<1> USE MainAssumption DEF ListInv, TypeOK, WakeInv, CriticalUsed, RunnerAwake,
                           AloneAwake, KilledIdle
<1>1. CASE EndQuietly(t)
  BY <1>1 DEF EndQuietly, ThreadEnds, InCode, EnterSchedule
<1>2. CASE EndFatally(t)
  BY <1>2 DEF EndFatally, ThreadEnds, InCode, EnterSchedule, Cleanup, Live
<1>3. CASE EndDelegating(t)
  <2>1. /\ curr' = Main /\ t # Main /\ critical' = critical /\ phase' = "run"
        /\ status'[Main] = Readied(Main) /\ waitFor'[Main] = {}
        /\ status'[t] = "KILLED"
        /\ \A u \in Threads \ {t, Main} : status'[u] = status[u] /\ waitFor'[u] = waitFor[u]
    BY <1>3 DEF EndDelegating, ThreadEnds, InCode
  <2>2. curr' \in Live'
    BY <2>1 DEF CurrLive
  <2>3. status'[Main] \in {"RUNNABLE", "TO_KILL"}
    BY <2>1, ReadiedType
  <2>4. KilledIdle'
    <3> SUFFICES ASSUME NEW u \in Threads, status'[u] = "TO_KILL"
                 PROVE  waitFor'[u] = {}
      OBVIOUS
    <3>1. CASE u \in Threads \ {t, Main}
      BY <2>1, <3>1
    <3>2. QED
      BY <2>1, <3>1
  <2>5. RunnerAwake'
    BY <2>1, <2>2, <2>3
  <2>6. QED
    BY <2>1, <2>4, <2>5
<1>4. QED
  BY <1>1, <1>2, <1>3 DEF Ends

LEMMA WakeSleep ==
  ASSUME ListInv, ListInv', WakeInv, NEW t \in Threads, InCode(t), NEW w, NEW p,
         Sleep(t, w, p), CriticalUsed'
  PROVE  WakeInv'
BY DEF ListInv, TypeOK, WakeInv, RunnerAwake, AloneAwake, KilledIdle, Sleep, InCode,
       EnterSchedule

\* A step of the running thread that changes neither a status nor a wait.
LEMMA WakeStay ==
  ASSUME WakeInv, ListInv', UNCHANGED <<status, waitFor, curr>>,
         phase \in {"run", "pause"} \/ phase' = phase, CriticalUsed'
  PROVE  WakeInv'
BY DEF ListInv, CurrLive, WakeInv, RunnerAwake, AloneAwake, KilledIdle, Live

LEMMA WakeWaits ==
  ASSUME Uncritical, ListInv, ListInv', WakeInv, NEW t \in Threads, Waits(t)
  PROVE  WakeInv'
<1> USE DEF WakeInv, CriticalUsed, waitVars
<1>1. CASE rb_thread_stop(t)
  <2>1. CriticalUsed' /\ InCode(t)
    BY <1>1 DEF rb_thread_stop, Calls
  <2>2. CASE Alone
    BY <1>1, <2>1, <2>2, WakeStay DEF rb_thread_stop, InCode
  <2>3. CASE ~Alone
    BY <1>1, <2>1, <2>3, WakeSleep DEF rb_thread_stop
  <2>4. QED
    BY <2>2, <2>3
<1>2. ASSUME NEW u \in Threads, NEW d \in Limits \cup {INFTY}, rb_thread_join(t, u, d)
      PROVE  WakeInv'
  <2>1. CASE Fails(t)
    BY <1>2, <2>1, WakeStay DEF Fails, rb_thread_join, Calls, InCode
  <2>2. CASE ~Fails(t)
    BY <1>2, <2>2, WakeSleep DEF rb_thread_join, Calls
  <2>3. QED
    BY <2>1, <2>2
<1>3. ASSUME NEW d \in Limits, rb_thread_wait_for(t, d)
      PROVE  WakeInv'
  BY <1>3, WakeSleep DEF rb_thread_wait_for, Calls
<1>4. ASSUME NEW f \in Fds, rb_thread_wait_fd(t, f)
      PROVE  WakeInv'
  BY <1>4, WakeSleep DEF rb_thread_wait_fd, Calls
<1>5. ASSUME NEW fs \in (SUBSET Fds) \ {{}}, NEW d \in Limits \cup {INFTY},
             rb_thread_select(t, fs, d)
      PROVE  WakeInv'
  BY <1>5, WakeSleep DEF rb_thread_select, Calls
<1>6. CASE rb_thread_polling(t)
  BY <1>6, WakeSleep DEF rb_thread_polling, Calls
<1>7. CASE rb_thread_sleep_forever(t)
  <2>1. InCode(t) /\ critical' = critical
    BY <1>7 DEF rb_thread_sleep_forever, Calls
  <2>2. CASE Sleep(t, {"time"}, "code")
    BY <2>1, <2>2, WakeSleep
  <2>3. CASE ~Sleep(t, {"time"}, "code")
    BY <1>7, <2>1, <2>3, WakeStay DEF rb_thread_sleep_forever, InCode
  <2>4. QED
    BY <2>2, <2>3
<1>8. QED
  BY <1>1, <1>2, <1>3, <1>4, <1>5, <1>6, <1>7, NeverCritical DEF Waits

\* A step of the running thread t that makes another thread, or itself, ready
\* or kills it.
LEMMA WakeOne ==
  ASSUME ListInv, ListInv', WakeInv, InCode(curr), NEW u \in Live,
         NEW s \in {"TO_KILL", "RUNNABLE"},
         status' = [status EXCEPT ![u] = s],
         waitFor' = [waitFor EXCEPT ![u] = {}],
         curr' \in {curr, u}, critical' = critical
  PROVE  WakeInv'
BY DEF ListInv, TypeOK, CurrLive, WakeInv, CriticalUsed, RunnerAwake, AloneAwake, KilledIdle,
       InCode, Live

LEMMA WakeActs ==
  ASSUME ListInv, ListInv', WakeInv, NEW t \in Threads, Acts(t)
  PROVE  WakeInv'
<1>1. InCode(t) /\ curr = t /\ phase = "run"
  BY DEF Acts, rb_thread_start_0, rb_thread_wakeup, rb_thread_run, rb_thread_kill,
         rb_thread_raise, rb_thread_priority_set, rb_thread_pass,
         rb_thread_critical_set, rb_f_raise, Rescue, Calls, InCode
<1>2. ASSUME NEW u \in Threads, NEW may, Wake(t, u, may)
      PROVE  WakeInv'
  <2>1. CASE Fails(t)
    BY <1>1, <2>1, WakeStay DEF Fails, WakeInv, CriticalUsed, waitVars
  <2>2. CASE ~Fails(t)
    BY <1>1, <1>2, <2>2, WakeOne, ReadiedType DEF Wake
  <2>3. QED
    BY <2>1, <2>2
<1>3. ASSUME NEW u \in Threads, rb_thread_kill(t, u)
      PROVE  WakeInv'
  <2>1. CASE u = Main
    BY <1>1, <1>3, <2>1, WakeStay DEF rb_thread_kill, WakeInv, CriticalUsed
  <2>2. CASE u # Main
    <3>1. u \in Live
      BY <1>3 DEF rb_thread_kill, Live, Unborn
    <3>2. QED
      BY <1>1, <1>3, <2>2, <3>1, WakeOne DEF rb_thread_kill
  <2>3. QED
    BY <2>1, <2>2
<1>4. ASSUME NEW u \in Threads, rb_thread_raise(t, u)
      PROVE  WakeInv'
  BY <1>1, <1>4, WakeOne, ReadiedType DEF rb_thread_raise, Transfer
<1>5. ASSUME NEW u \in Threads, rb_thread_start_0(t, u)
      PROVE  WakeInv'
  <2>1. status[u] = Unborn /\ waitFor[u] = {} /\ u # t
    BY <1>1, <1>5, RunnerLive DEF rb_thread_start_0, ListInv, DeadIdle, Live
  <2>2. QED
    BY <1>5, <2>1 DEF rb_thread_start_0, Transfer, waitVars, ListInv, TypeOK, CurrLive,
      WakeInv, CriticalUsed, RunnerAwake, AloneAwake, KilledIdle
<1>6. ASSUME NEW v \in BOOLEAN, rb_thread_critical_set(t, v)
      PROVE  WakeInv'
  BY <1>1, <1>6, WakeStay DEF rb_thread_critical_set, Calls, CriticalUsed, waitVars
<1>7. CASE \/ \E u \in Threads, p \in Priorities : rb_thread_priority_set(t, u, p)
           \/ rb_thread_pass(t) \/ (\E e \in {"error", "exit"} : rb_f_raise(t, e))
           \/ Rescue(t)
  BY <1>1, <1>7, WakeStay DEF rb_thread_priority_set, rb_thread_pass, rb_f_raise, Rescue,
                              WakeInv, CriticalUsed, waitVars
<1>8. QED
  BY <1>2, <1>3, <1>4, <1>5, <1>6, <1>7 DEF Acts, rb_thread_wakeup, rb_thread_run

LEMMA WakeStep ==
  ASSUME Uncritical, ListInv, ListInv', WakeInv, [Next]_vars
  PROVE  WakeInv'
<1> USE DEF waitVars
<1>1. ASSUME NEW t \in Threads, Runs(t)
      PROVE  WakeInv'
  <2>1. CASE AfterStop(t)
    BY <2>1 DEF AfterStop, ListInv, TypeOK, CurrLive, WakeInv, CriticalUsed, RunnerAwake, AloneAwake,
                KilledIdle
  <2>2. CASE rb_thread_wait_other_threads(t) \/ CHECK_INTS(t)
    BY <2>2, WakeStay DEF rb_thread_wait_other_threads, CHECK_INTS, InCode, WakeInv,
                          CriticalUsed
  <2>3. CASE ScheduleTo(t)
    <3>1. \A u \in Threads : status'[u] = StatusNow(u) /\ waitFor'[u] = WaitAfter(t, u)
      BY <2>3 DEF ScheduleTo
    <3>2. curr' = t /\ phase' = "run" /\ critical' = critical
          /\ StatusNow(t) \in {"TO_KILL", "RUNNABLE"}
      BY <2>3 DEF ScheduleTo, Transfer, Chosen
    <3>3. KilledIdle'
      BY <3>1 DEF WakeInv, KilledIdle, StatusNow, WaitAfter, WaitNow
    <3>4. QED
      BY <3>1, <3>2, <3>3 DEF ListInv, CurrLive, WakeInv, CriticalUsed, RunnerAwake, AloneAwake, WaitAfter
  <2>4. QED
    BY <1>1, <2>1, <2>2, <2>3 DEF Runs
<1>2. ASSUME NEW t \in Threads, ruby_cleanup(t)
      PROVE  WakeInv'
  BY <1>2, ReadiedType
     DEF ruby_cleanup, Cleanup, InCode, ListInv, TypeOK, CurrLive, Live, WakeInv,
         CriticalUsed, RunnerAwake, AloneAwake, KilledIdle
<1>3. CASE ScheduleAlone
  BY <1>3 DEF ScheduleAlone, ListInv, CurrLive, WakeInv, CriticalUsed, RunnerAwake, AloneAwake, KilledIdle
<1>4. CASE ScheduleDeadlock
  <2>1. \A u \in Threads :
          /\ status'[u] = IF u = Main THEN "TO_KILL" ELSE StatusNow(u)
          /\ waitFor'[u] = WaitAfter(Main, u)
    BY <1>4 DEF ScheduleDeadlock
  <2>2. curr' = Main /\ phase' = "run" /\ critical' = critical
    BY <1>4 DEF ScheduleDeadlock, Transfer
  <2>3. KilledIdle'
    BY <2>1 DEF WakeInv, KilledIdle, StatusNow, WaitAfter, WaitNow
  <2>4. QED
    BY <2>1, <2>2, <2>3, MainAssumption
       DEF ListInv, CurrLive, WakeInv, CriticalUsed, RunnerAwake, AloneAwake, WaitAfter
<1>5. CASE catch_timer \/ Tick \/ (\E fs \in SUBSET Fds : Ready(fs)) \/ UNCHANGED vars
  BY <1>5, WakeStay DEF catch_timer, Tick, Ready, vars, WakeInv, CriticalUsed
<1>6. QED
  BY <1>1, <1>2, <1>3, <1>4, <1>5, WakeEnds, WakeWaits, WakeActs DEF Next

-----------------------------------------------------------------------------
(* The saved contexts.                                                       *)

LEMMA ContextInit == Init => ContextInv
<1> SUFFICES ASSUME Init PROVE ContextInv
  OBVIOUS
<1>1. Live = {Main} /\ curr = Main
  BY MainAssumption DEF Init, Live, Unborn
<1>2. QED
  BY <1>1 DEF ContextInv, ContextFresh, NoContext

\* A step without a switch.
LEMMA ContextStay ==
  ASSUME ContextInv, UNCHANGED <<context, curr>>, Live' = Live
  PROVE  ContextInv'
BY DEF ContextInv, ContextFresh, NoContext

\* A switch that saves the context of the thread it takes the processor from.
LEMMA ContextSwitch ==
  ASSUME ListInv, ContextInv, NEW t \in Threads, Transfer({curr} \cap Live, t),
         Live' \subseteq Live \cup {t}
  PROVE  ContextInv'
BY DEF ListInv, TypeOK, ContextInv, ContextFresh, NoContext, Transfer, Live

LEMMA ContextEnds ==
  ASSUME ListInv, ContextInv, NEW t \in Threads, Ends(t)
  PROVE  ContextInv'
<1>1. InCode(t) /\ t # Main /\ curr = t /\ t \in Live /\ Main \in Live
  BY RunnerLive DEF Ends, EndQuietly, EndFatally, EndDelegating, ThreadEnds, InCode,
                    ListInv, ListOK
<1>2. Live' = Live \ {t}
  <2>1. CASE EndQuietly(t)
    BY <2>1, <1>1 DEF EndQuietly, Live, ListInv, TypeOK, Unborn
  <2>2. CASE EndFatally(t)
    BY <2>2, <1>1, ReadiedType DEF EndFatally, Cleanup, Live, Unborn
  <2>3. CASE EndDelegating(t)
    BY <2>3, <1>1, ReadiedType DEF EndDelegating, Live, ListInv, TypeOK, Unborn
  <2>4. QED
    BY <2>1, <2>2, <2>3 DEF Ends
<1>3. CASE EndQuietly(t) \/ EndFatally(t)
  <2>1. context' = [context EXCEPT ![t] = "none"] /\ curr' = curr
    BY <1>3 DEF EndQuietly, EndFatally
  <2>2. QED
    BY <1>1, <1>2, <2>1 DEF ContextInv, ContextFresh, NoContext, ListInv, TypeOK, Live
<1>4. CASE EndDelegating(t)
  <2>1. context' = [context EXCEPT ![t] = "none", ![Main] = "obsolete"] /\ curr' = Main
    BY <1>4 DEF EndDelegating
  <2>2. QED
    BY <1>1, <1>2, <2>1, MainAssumption
       DEF ContextInv, ContextFresh, NoContext, ListInv, TypeOK, Live
<1>5. QED
  BY <1>3, <1>4 DEF Ends

LEMMA ContextWaits ==
  ASSUME Uncritical, ListInv, WakeInv, ContextInv, NEW t \in Threads, Waits(t)
  PROVE  ContextInv'
<1>1. ASSUME NEW w, NEW p, Sleep(t, w, p), InCode(t)
      PROVE  ContextInv'
  <2>1. Live' = Live
    BY <1>1, RunnerLive, LiveOne DEF Sleep, InCode, ListInv
  <2>2. QED
    BY <1>1, <2>1, ContextStay DEF Sleep
<1>2. CASE UNCHANGED <<status, context, curr>>
  BY <1>2, ContextStay DEF Live
<1>3. ASSUME NEW u \in Threads, NEW d \in Limits \cup {INFTY}, rb_thread_join(t, u, d)
      PROVE  ContextInv'
  BY <1>1, <1>2, <1>3 DEF rb_thread_join, Fails, Calls
<1>4. ASSUME NEW fs \in (SUBSET Fds) \ {{}}, NEW d \in Limits \cup {INFTY},
             rb_thread_select(t, fs, d)
      PROVE  ContextInv'
  BY <1>1, <1>4 DEF rb_thread_select, Calls
<1>5. CASE rb_thread_stop(t)
  BY <1>1, <1>2, <1>5 DEF rb_thread_stop, Calls
<1>6. CASE rb_thread_sleep_forever(t)
  BY <1>1, <1>2, <1>6 DEF rb_thread_sleep_forever, Calls, stackVars
<1>7. CASE \/ \E d \in Limits : rb_thread_wait_for(t, d)
           \/ \E f \in Fds : rb_thread_wait_fd(t, f)
           \/ rb_thread_polling(t)
  BY <1>1, <1>7 DEF rb_thread_wait_for, rb_thread_wait_fd, rb_thread_polling, Calls
<1>8. QED
  BY <1>3, <1>4, <1>5, <1>6, <1>7, NeverCritical DEF Waits

LEMMA ContextActs ==
  ASSUME ListInv, ContextInv, NEW t \in Threads, Acts(t)
  PROVE  ContextInv'
<1>1. /\ InCode(t) /\ curr = t /\ t \in Live /\ phase = "run"
      /\ {curr} \cap Live = {t}
  BY RunnerLive
     DEF Acts, rb_thread_start_0, rb_thread_wakeup, rb_thread_run, rb_thread_kill,
         rb_thread_raise, rb_thread_priority_set, rb_thread_pass,
         rb_thread_critical_set, rb_f_raise, Rescue, Calls, InCode
<1>2. CASE UNCHANGED <<status, context, curr>>
  BY <1>2, ContextStay DEF Live
<1>3. ASSUME NEW u \in Live, NEW s \in {"TO_KILL", "RUNNABLE"},
             status' = [status EXCEPT ![u] = s]
      PROVE  Live' = Live
  BY <1>3, LiveOne DEF ListInv
<1>4. ASSUME NEW u \in Threads, NEW may, Wake(t, u, may)
      PROVE  ContextInv'
  BY <1>2, <1>3, <1>4, ReadiedType, ContextStay DEF Wake, Fails
<1>5. ASSUME NEW u \in Threads, rb_thread_kill(t, u)
      PROVE  ContextInv'
  <2>1. u \in Live
    BY <1>5 DEF rb_thread_kill, Live, Unborn
  <2>2. QED
    BY <1>2, <1>3, <1>5, <2>1, ContextStay DEF rb_thread_kill
<1>6. ASSUME NEW u \in Threads, rb_thread_raise(t, u)
      PROVE  ContextInv'
  <2>1. Live' = Live
    BY <1>3, <1>6, ReadiedType DEF rb_thread_raise
  <2>2. QED
    BY <1>1, <1>6, <2>1, ContextSwitch DEF rb_thread_raise
<1>7. ASSUME NEW u \in Threads, rb_thread_start_0(t, u)
      PROVE  ContextInv'
  <2>1. Live' = Live \cup {u}
    BY <1>7 DEF rb_thread_start_0, Live, ListInv, TypeOK, Unborn
  <2>2. QED
    BY <1>1, <1>7, <2>1, ContextSwitch DEF rb_thread_start_0
<1>8. CASE \/ \E u \in Threads, p \in Priorities : rb_thread_priority_set(t, u, p)
           \/ rb_thread_pass(t) \/ (\E e \in {"error", "exit"} : rb_f_raise(t, e))
           \/ Rescue(t) \/ (\E v \in BOOLEAN : rb_thread_critical_set(t, v))
  BY <1>2, <1>8 DEF rb_thread_priority_set, rb_thread_pass, rb_f_raise, Rescue,
                    rb_thread_critical_set, stackVars
<1>9. QED
  BY <1>4, <1>5, <1>6, <1>7, <1>8 DEF Acts, rb_thread_wakeup, rb_thread_run

LEMMA ContextStep ==
  ASSUME Uncritical, ListInv, WakeInv, ContextInv, [Next]_vars
  PROVE  ContextInv'
<1>1. CASE UNCHANGED <<status, context, curr>>
  BY <1>1, ContextStay DEF Live
<1>2. ASSUME NEW t \in Threads, Runs(t)
      PROVE  ContextInv'
  <2>1. CASE AfterStop(t)
    <3>1. Live' = Live
      BY <2>1, RunnerLive, LiveOne DEF AfterStop, ListInv, TypeOK
    <3>2. QED
      BY <2>1, <3>1, ContextStay DEF AfterStop
  <2>2. CASE rb_thread_wait_other_threads(t) \/ CHECK_INTS(t)
    BY <2>2, <1>1 DEF rb_thread_wait_other_threads, CHECK_INTS
  <2>3. CASE ScheduleTo(t)
    <3>1. Live' = Live
      BY <2>3, ListWalk DEF ScheduleTo, Live
    <3>2. QED
      BY <2>3, <3>1, ContextSwitch DEF ScheduleTo
  <2>4. QED
    BY <1>2, <2>1, <2>2, <2>3 DEF Runs
<1>3. ASSUME NEW t \in Threads, ruby_cleanup(t)
      PROVE  ContextInv'
  <2>1. \A u \in Threads : IF u \in Live THEN status'[u] \in {"RUNNABLE", "TO_KILL"}
                           ELSE status'[u] = status[u]
    BY <1>3, ReadiedType DEF ruby_cleanup, Cleanup
  <2>2. Live' = Live
    BY <2>1 DEF Live, Unborn
  <2>3. QED
    BY <1>3, <2>2, ContextStay DEF ruby_cleanup
<1>4. CASE ScheduleDeadlock
  <2>1. Main \in Live /\ Main \in Threads
    BY MainAssumption DEF ListInv, ListOK
  <2>2. \A u \in Threads : status'[u] = IF u = Main THEN "TO_KILL" ELSE StatusNow(u)
    BY <1>4 DEF ScheduleDeadlock
  <2>3. Live' = Live
    BY <2>1, <2>2, ListWalk DEF Live, Unborn
  <2>4. QED
    BY <1>4, <2>1, <2>3
       DEF ScheduleDeadlock, Transfer, ListInv, TypeOK, ContextInv, ContextFresh,
           NoContext, Live
<1>5. CASE ScheduleAlone \/ catch_timer \/ Tick \/ (\E fs \in SUBSET Fds : Ready(fs))
           \/ UNCHANGED vars
  BY <1>1, <1>5 DEF ScheduleAlone, catch_timer, Tick, Ready, vars, stackVars
<1>6. QED
  BY <1>2, <1>3, <1>4, <1>5, ContextEnds, ContextWaits, ContextActs DEF Next

-----------------------------------------------------------------------------
(* Joins.                                                                    *)

LEMMA JoinInit == Init => JoinInv
<1> SUFFICES ASSUME Init PROVE JoinInv
  OBVIOUS
<1>1. \A t \in Threads : waitFor[t] = {} /\ status[t] # "STOPPED"
  BY DEF Init, Unborn
<1>2. QED
  BY <1>1 DEF JoinInv, StopPoints, Joined, NoMutualJoin, Live

\* A step that stops nobody: who is still stopped is where it was and waits for
\* what it waited for.
LEMMA JoinShrinks ==
  ASSUME TypeOK, JoinInv, join' = join,
         \A t \in Threads :
           /\ status'[t] = "STOPPED" =>
                status[t] = "STOPPED" /\ at'[t] = at[t] /\ waitFor'[t] = waitFor[t]
           /\ "join" \in waitFor'[t] => "join" \in waitFor[t]
           /\ status[t] # Unborn => status'[t] # Unborn
  PROVE  JoinInv'
<1> USE DEF JoinInv
<1>1. StopPoints'
  BY DEF StopPoints
<1>2. Joined'
  BY DEF Joined, TypeOK
<1>3. NoMutualJoin'
  BY DEF NoMutualJoin, Stopped, Live, Unborn
<1>4. QED
  BY <1>1, <1>2, <1>3

\* The running thread stops: in rb_thread_stop, in a join of a thread that does
\* not join it, or in a timed wait or a wait for descriptors.
LEMMA JoinSleep ==
  ASSUME ListInv, JoinInv, NEW t \in Threads, InCode(t), NEW w, NEW p, Sleep(t, w, p),
         w = {} => p = "stop",
         "join" \in w => /\ p = "join" /\ join'[t] \in Live \ {t}
                         /\ ~Mutual(t, join'[t]),
         \A u \in Threads \ {t} : join'[u] = join[u]
  PROVE  JoinInv'
<1> USE DEF JoinInv, ListInv, TypeOK, InCode, Sleep, EnterSchedule
<1>1. /\ status'[t] = "STOPPED" /\ waitFor'[t] = w /\ at'[t] = p
      /\ \A u \in Threads \ {t} : /\ status'[u] = status[u] /\ waitFor'[u] = waitFor[u]
                                  /\ at'[u] = at[u] /\ join'[u] = join[u]
  OBVIOUS
<1>2. StopPoints'
  BY <1>1 DEF StopPoints
<1>3. Joined'
  BY <1>1 DEF Joined, Live, Unborn
<1>4. NoMutualJoin'
  <2> SUFFICES ASSUME NEW x \in Live', NEW y \in Live',
                      Stopped(x)', "join" \in waitFor'[x], join'[x] = y,
                      Stopped(y)', "join" \in waitFor'[y], join'[y] = x
               PROVE  FALSE
    BY DEF NoMutualJoin
  <2>1. x \in Threads /\ y \in Threads
    BY DEF Live
  <2>2. CASE x # t /\ y # t
    <3>1. /\ status[x] = "STOPPED" /\ "join" \in waitFor[x] /\ join[x] = y
          /\ status[y] = "STOPPED" /\ "join" \in waitFor[y] /\ join[y] = x
      BY <1>1, <2>1, <2>2 DEF Stopped
    <3>2. x \in Live /\ y \in Live
      BY <2>1, <3>1 DEF Live, Unborn
    <3>3. QED
      BY <3>1, <3>2 DEF NoMutualJoin, Stopped
  <2>3. CASE x = t
    BY <1>1, <2>1, <2>3 DEF Mutual, Live
  <2>4. CASE y = t
    BY <1>1, <2>1, <2>4 DEF Mutual, Live
  <2>5. QED
    BY <2>2, <2>3, <2>4
<1>5. QED
  BY <1>2, <1>3, <1>4

LEMMA JoinEnds ==
  ASSUME ListInv, JoinInv, NEW t \in Threads, Ends(t)
  PROVE  JoinInv'
<1> USE DEF ListInv, TypeOK, ThreadEnds, InCode
<1>1. CASE EndQuietly(t)
  BY <1>1, JoinShrinks DEF EndQuietly, EnterSchedule, Unborn
<1>2. CASE EndFatally(t)
  <2>1. \A u \in Threads :
          /\ status'[u] = "STOPPED" => u \notin Live
          /\ waitFor'[u] \in {{}, waitFor[u]}
          /\ status[u] # Unborn => status'[u] # Unborn
          /\ u \notin Live => status'[u] \in {"KILLED", status[u]}
    BY <1>2, ReadiedType DEF EndFatally, Cleanup, Live, Unborn
  <2>2. \A u \in Threads : status'[u] # "STOPPED"
    BY <2>1 DEF Live, Unborn
  <2>3. join' = join
    BY <1>2 DEF EndFatally
  <2>4. QED
    BY <2>1, <2>2, <2>3, JoinShrinks
<1>3. CASE EndDelegating(t)
  <2>1. \A u \in Threads :
          /\ u \in {t, Main} => status'[u] \in {"KILLED", "RUNNABLE", "TO_KILL"}
          /\ u \in {t, Main} => waitFor'[u] = {}
          /\ u \notin {t, Main} => /\ status'[u] = status[u] /\ waitFor'[u] = waitFor[u]
                                   /\ at'[u] = at[u]
    BY <1>3, ReadiedType, MainAssumption DEF EndDelegating, Throw
  <2>2. join' = join
    BY <1>3 DEF EndDelegating
  <2>3. QED
    BY <2>1, <2>2, JoinShrinks DEF Unborn
<1>4. QED
  BY <1>1, <1>2, <1>3 DEF Ends

LEMMA JoinWaits ==
  ASSUME Uncritical, ListInv, WakeInv, JoinInv, NEW t \in Threads, Waits(t)
  PROVE  JoinInv'
<1>1. CASE UNCHANGED <<status, waitFor, join, at>>
  BY <1>1, JoinShrinks DEF ListInv
<1>2. ASSUME NEW w, NEW p, Sleep(t, w, p), InCode(t), w # {}, "join" \notin w,
             join' = join
      PROVE  JoinInv'
  BY <1>2, JoinSleep
<1>3. CASE rb_thread_stop(t)
  <2>1. CASE Alone
    BY <1>1, <1>3, <2>1 DEF rb_thread_stop, waitVars
  <2>2. CASE ~Alone
    <3>1. waitFor[t] = {} /\ InCode(t)
      BY <1>3 DEF rb_thread_stop, Calls, InCode, WakeInv, RunnerAwake
    <3>2. QED
      BY <1>3, <2>2, <3>1, JoinSleep DEF rb_thread_stop
  <2>3. QED
    BY <2>1, <2>2
<1>4. ASSUME NEW u \in Threads, NEW d \in Limits \cup {INFTY}, rb_thread_join(t, u, d)
      PROVE  JoinInv'
  <2>1. CASE Fails(t)
    BY <1>1, <2>1 DEF Fails, waitVars
  <2>2. CASE ~Fails(t)
    <3> DEFINE w == IF d = INFTY THEN {"join"} ELSE {"join", "time"}
    <3>1. /\ InCode(t) /\ Sleep(t, w, "join")
          /\ u \in Live \ {t} /\ ~Mutual(t, u)
          /\ join' = [join EXCEPT ![t] = u]
      BY <1>4, <2>2 DEF rb_thread_join, Calls
    <3>2. "join" \in w
      OBVIOUS
    <3> HIDE DEF w
    <3>3. /\ join'[t] = u
          /\ \A x \in Threads \ {t} : join'[x] = join[x]
      BY <3>1 DEF ListInv, TypeOK
    <3>4. QED
      BY <3>1, <3>2, <3>3, JoinSleep
  <2>3. QED
    BY <2>1, <2>2
<1>5. ASSUME NEW d \in Limits, rb_thread_wait_for(t, d)
      PROVE  JoinInv'
  BY <1>2, <1>5 DEF rb_thread_wait_for, Calls
<1>6. ASSUME NEW f \in Fds, rb_thread_wait_fd(t, f)
      PROVE  JoinInv'
  BY <1>2, <1>6 DEF rb_thread_wait_fd, Calls
<1>7. ASSUME NEW fs \in (SUBSET Fds) \ {{}}, NEW d \in Limits \cup {INFTY},
             rb_thread_select(t, fs, d)
      PROVE  JoinInv'
  <2> DEFINE w == IF d = INFTY THEN {"select"} ELSE {"select", "time"}
  <2>1. w # {} /\ "join" \notin w
    OBVIOUS
  <2>2. Sleep(t, w, "code") /\ InCode(t) /\ join' = join
    BY <1>7 DEF rb_thread_select, Calls
  <2> HIDE DEF w
  <2>3. QED
    BY <1>2, <2>1, <2>2
<1>8. CASE rb_thread_polling(t)
  BY <1>2, <1>8 DEF rb_thread_polling, Calls
<1>9. CASE rb_thread_sleep_forever(t)
  BY <1>1, <1>2, <1>9 DEF rb_thread_sleep_forever, Calls, waitVars, stackVars
<1>10. QED
  BY <1>3, <1>4, <1>5, <1>6, <1>7, <1>8, <1>9, NeverCritical DEF Waits

LEMMA JoinActs ==
  ASSUME ListInv, WakeInv, JoinInv, NEW t \in Threads, Acts(t)
  PROVE  JoinInv'
<1>1. InCode(t) /\ curr = t /\ status[t] # "STOPPED" /\ TypeOK
  BY DEF Acts, rb_thread_start_0, rb_thread_wakeup, rb_thread_run, rb_thread_kill,
         rb_thread_raise, rb_thread_priority_set, rb_thread_pass,
         rb_thread_critical_set, rb_f_raise, Rescue, Calls, InCode, WakeInv, RunnerAwake,
         ListInv
\* The caller may go on to another point; u gets status s and waits for nothing.
<1>2. ASSUME NEW u \in Threads, NEW s \in {"RUNNABLE", "TO_KILL"},
             status' = [status EXCEPT ![u] = s],
             waitFor' = [waitFor EXCEPT ![u] = {}],
             join' = join, \A x \in Threads \ {t, u} : at'[x] = at[x]
      PROVE  JoinInv'
  <2>1. /\ status'[u] = s /\ waitFor'[u] = {}
        /\ \A x \in Threads \ {u} : status'[x] = status[x] /\ waitFor'[x] = waitFor[x]
    BY <1>1, <1>2 DEF TypeOK
  <2>2. QED
    BY <1>1, <1>2, <2>1, JoinShrinks DEF Unborn
<1>3. ASSUME UNCHANGED <<status, waitFor, join>>, \A x \in Threads \ {t} : at'[x] = at[x]
      PROVE  JoinInv'
  BY <1>1, <1>3, JoinShrinks
<1>4. ASSUME NEW may, Yield(t, may)
      PROVE  \A x \in Threads \ {t} : at'[x] = at[x]
  BY <1>1, <1>4 DEF Yield, EnterSchedule, TypeOK
<1>5. ASSUME NEW u \in Threads, NEW may, Wake(t, u, may)
      PROVE  JoinInv'
  <2>1. CASE Fails(t)
    BY <1>3, <2>1 DEF Fails, waitVars
  <2>2. CASE ~Fails(t)
    BY <1>2, <1>4, <1>5, <2>2, ReadiedType DEF Wake
  <2>3. QED
    BY <2>1, <2>2
<1>6. ASSUME NEW u \in Threads, rb_thread_kill(t, u)
      PROVE  JoinInv'
  <2>1. CASE u = Main
    BY <1>3, <1>6, <2>1 DEF rb_thread_kill
  <2>2. CASE u # Main
    BY <1>2, <1>4, <1>6, <2>2 DEF rb_thread_kill
  <2>3. QED
    BY <2>1, <2>2
<1>7. ASSUME NEW u \in Threads, rb_thread_raise(t, u)
      PROVE  JoinInv'
  <2>1. \A x \in Threads \ {u} : at'[x] = at[x]
    BY <1>1, <1>7 DEF rb_thread_raise, Throw, TypeOK
  <2>2. QED
    BY <1>2, <1>7, <2>1, ReadiedType DEF rb_thread_raise
<1>8. ASSUME NEW u \in Threads, rb_thread_start_0(t, u)
      PROVE  JoinInv'
  BY <1>1, <1>8, JoinShrinks DEF rb_thread_start_0, TypeOK, waitVars, Unborn
<1>9. CASE \/ \E u \in Threads, p \in Priorities : rb_thread_priority_set(t, u, p)
           \/ rb_thread_pass(t)
  BY <1>1, <1>3, <1>9 DEF rb_thread_priority_set, rb_thread_pass, EnterSchedule, waitVars,
                          TypeOK
<1>10. CASE \/ (\E e \in {"error", "exit"} : rb_f_raise(t, e)) \/ Rescue(t)
            \/ (\E v \in BOOLEAN : rb_thread_critical_set(t, v))
  BY <1>3, <1>10 DEF rb_f_raise, Rescue, rb_thread_critical_set, waitVars, stackVars
<1>11. QED
  BY <1>5, <1>6, <1>7, <1>8, <1>9, <1>10 DEF Acts, rb_thread_wakeup, rb_thread_run

LEMMA JoinStep ==
  ASSUME Uncritical, ListInv, WakeInv, JoinInv, [Next]_vars
  PROVE  JoinInv'
<1> USE DEF ListInv
<1>1. CASE UNCHANGED <<status, waitFor, join, at>>
  BY <1>1, JoinShrinks
<1>2. \A u \in Threads :
        /\ StatusNow(u) = "STOPPED" =>
             /\ status[u] = "STOPPED"
             /\ \A x \in Threads \ {u} : WaitAfter(x, u) = waitFor[u]
        /\ \A x \in Threads : "join" \in WaitAfter(x, u) => "join" \in waitFor[u]
        /\ status[u] # Unborn => StatusNow(u) # Unborn
  BY DEF StatusNow, WaitAfter, WaitNow, Woken, Unborn
<1>3. ASSUME NEW t \in Threads, Runs(t)
      PROVE  JoinInv'
  <2>1. CASE AfterStop(t)
    <3>1. last[t] \in {"RUNNABLE", "TO_KILL"}
      BY DEF TypeOK
    <3>2. QED
      BY <2>1, <3>1, JoinShrinks DEF AfterStop, TypeOK, waitVars, Unborn
  <2>2. CASE rb_thread_wait_other_threads(t) \/ CHECK_INTS(t)
    <3>1. UNCHANGED <<status, waitFor, join>> /\ status[t] # "STOPPED"
      BY <2>2 DEF rb_thread_wait_other_threads, CHECK_INTS, InCode, waitVars, WakeInv,
                  RunnerAwake
    <3>2. \A x \in Threads \ {t} : at'[x] = at[x]
      BY <2>2 DEF rb_thread_wait_other_threads, CHECK_INTS, EnterSchedule, TypeOK
    <3>3. QED
      BY <3>1, <3>2, JoinShrinks
  <2>3. CASE ScheduleTo(t)
    <3>1. /\ \A u \in Threads : status'[u] = StatusNow(u) /\ waitFor'[u] = WaitAfter(t, u)
          /\ StatusNow(t) # "STOPPED" /\ join' = join
      BY <2>3 DEF ScheduleTo, Chosen
    <3>2. \A u \in Threads \ {t} : at'[u] = at[u]
      BY <2>3 DEF ScheduleTo, Throw, TypeOK
    <3>3. QED
      BY <1>2, <3>1, <3>2, JoinShrinks
  <2>4. QED
    BY <1>3, <2>1, <2>2, <2>3 DEF Runs
<1>4. ASSUME NEW t \in Threads, ruby_cleanup(t)
      PROVE  JoinInv'
  <2>1. \A u \in Threads :
          /\ u \in Live => status'[u] \in {"RUNNABLE", "TO_KILL"} /\ waitFor'[u] = {}
          /\ u \notin Live => status'[u] = status[u] /\ waitFor'[u] = waitFor[u]
    BY <1>4, ReadiedType DEF ruby_cleanup, Cleanup
  <2>2. join' = join
    BY <1>4 DEF ruby_cleanup
  <2>3. QED
    BY <2>1, <2>2, JoinShrinks DEF Live, Unborn
<1>5. CASE ScheduleDeadlock
  <2>1. /\ \A u \in Threads :
             /\ status'[u] = IF u = Main THEN "TO_KILL" ELSE StatusNow(u)
             /\ waitFor'[u] = WaitAfter(Main, u)
        /\ join' = join
    BY <1>5 DEF ScheduleDeadlock
  <2>2. \A u \in Threads \ {Main} : at'[u] = at[u]
    BY <1>5 DEF ScheduleDeadlock, Throw, TypeOK
  <2>3. QED
    BY <1>2, <2>1, <2>2, MainAssumption, JoinShrinks DEF Unborn
<1>6. CASE ScheduleAlone \/ catch_timer \/ Tick \/ (\E fs \in SUBSET Fds : Ready(fs))
           \/ UNCHANGED vars
  BY <1>1, <1>6 DEF ScheduleAlone, catch_timer, Tick, Ready, vars, waitVars, stackVars
<1>7. QED
  BY <1>3, <1>4, <1>5, <1>6, JoinEnds, JoinWaits, JoinActs DEF Next

SchedInv == ListInv /\ WakeInv /\ ContextInv /\ JoinInv

LEMMA SchedInit == Init => SchedInv
BY ListInit, WakeInit, ContextInit, JoinInit DEF SchedInv

LEMMA SchedStep ==
  ASSUME Uncritical
  PROVE  SchedInv /\ [Next]_vars => SchedInv'
<1> SUFFICES ASSUME SchedInv, [Next]_vars PROVE SchedInv'
  OBVIOUS
<1>1. ListInv'
  BY ListStep DEF SchedInv
<1>2. WakeInv'
  BY <1>1, WakeStep DEF SchedInv
<1>3. QED
  BY <1>1, <1>2, ContextStep, JoinStep DEF SchedInv

\* Programs that do not join in critical sections: the thread that executes is
\* alive, not stopped and waits for nothing.
THEOREM RunnerIsAwake ==
  ASSUME Uncritical
  PROVE  Spec => []RunnerAwake
<1>1. SchedInv => RunnerAwake
  BY DEF SchedInv, WakeInv
<1>2. QED
  BY <1>1, SchedInit, SchedStep, PTL DEF Spec

\* In the same programs no thread is ever resumed at a point that it has left
\* already: whatever switches away from a thread saves its context, Thread.new,
\* Thread#raise and the end of a thread included.
THEOREM ContextsFresh ==
  ASSUME Uncritical
  PROVE  Spec => []ContextFresh
<1>1. SchedInv => ContextFresh
  BY DEF SchedInv, ContextInv
<1>2. QED
  BY <1>1, SchedInit, SchedStep, PTL DEF Spec

\* And Thread#join, with or without a limit, woken or interrupted, never makes
\* two threads wait for each other.
THEOREM JoinsNotMutual ==
  ASSUME Uncritical
  PROVE  Spec => []NoMutualJoin
<1>1. SchedInv => NoMutualJoin
  BY DEF SchedInv, JoinInv
<1>2. QED
  BY <1>1, SchedInit, SchedStep, PTL DEF Spec

-----------------------------------------------------------------------------
(* Kills.  rb_thread_polling and Thread#raise lose the THREAD_TO_KILL of a   *)
(* thread: the first overwrites it, the second discards the frame that       *)
(* would restore it.                                                         *)

KillKept == Uncritical /\ "polling" \notin Ops /\ "raise" \notin Ops

UnbornClear == \A t \in Threads : status[t] = Unborn => ~terminating[t]

\* A thread that has been unwound is THREAD_TO_KILL in its own code, and will be
\* again after a stop or a join.
KillHeld ==
  \A t \in Live \ {Main} : terminating[t] =>
     IF at[t] \in {"stop", "join"} THEN last[t] = "TO_KILL" ELSE status[t] = "TO_KILL"

KillInv == KillHeld /\ UnbornClear

LEMMA KillInit == Init => KillInv
<1> SUFFICES ASSUME Init PROVE KillInv
  OBVIOUS
<1>1. \A t \in Threads : terminating[t] = FALSE
  BY DEF Init
<1>2. QED
  BY <1>1 DEF KillInv, KillHeld, UnbornClear, Live

\* A step that revives nobody, and leaves a thread that has been unwound
\* THREAD_TO_KILL, or in the call that will make it so.
LEMMA KillFrame ==
  ASSUME KillInv,
         \A x \in Threads :
           /\ status'[x] = Unborn => status[x] = Unborn /\ terminating'[x] = terminating[x]
           /\ x \in Live' /\ x # Main /\ terminating'[x] =>
                \/ status'[x] = "TO_KILL" /\ at'[x] \notin {"stop", "join"}
                \/ /\ x \in Live /\ terminating[x]
                   /\ status[x] = "TO_KILL" => status'[x] = "TO_KILL"
                   /\ at'[x] = at[x] /\ last'[x] = last[x]
  PROVE  KillInv'
BY DEF KillInv, KillHeld, UnbornClear, Live

\* The running thread, in Ruby code.
LEMMA KillRunner ==
  ASSUME ListInv, KillInv, NEW t \in Threads, InCode(t), t # Main, terminating[t]
  PROVE  status[t] = "TO_KILL"
BY RunnerLive DEF InCode, KillInv, KillHeld

\* A step of the running thread that changes no status.
LEMMA KillStay ==
  ASSUME ListInv, KillInv, NEW t \in Threads, InCode(t) \/ t = Main,
         UNCHANGED <<status, terminating>>,
         at' = at \/ at'[t] = "code",
         \A x \in Threads \ {t} : at'[x] = at[x] /\ last'[x] = last[x]
  PROVE  KillInv'
<1>1. t # Main /\ terminating[t] => status[t] = "TO_KILL"
  BY KillRunner
<1>2. QED
  BY <1>1, KillFrame DEF Live, InCode

\* The running thread stops: it is not to be killed, or remembers that it is.
LEMMA KillSleep ==
  ASSUME ListInv, KillInv, NEW t \in Threads, InCode(t), NEW w, NEW p, Sleep(t, w, p),
         \/ status[t] # "TO_KILL" /\ last' = last
         \/ p \in {"stop", "join"} /\ last' = [last EXCEPT ![t] = Readied(t)]
  PROVE  KillInv'
<1>1. t \in Live /\ (t # Main /\ terminating[t] => status[t] = "TO_KILL")
  BY KillRunner, RunnerLive DEF InCode
<1>2. /\ status'[t] = "STOPPED" /\ at'[t] = p /\ terminating' = terminating
      /\ \A x \in Threads \ {t} : status'[x] = status[x] /\ at'[x] = at[x] /\ last'[x] = last[x]
  BY DEF Sleep, EnterSchedule, flagVars, ListInv, TypeOK
<1>3. status[t] = "TO_KILL" => p \in {"stop", "join"} /\ last'[t] = "TO_KILL"
  BY DEF Readied, ListInv, TypeOK
<1>4. UnbornClear'
  BY <1>2 DEF KillInv, UnbornClear, Unborn
<1>5. KillHeld'
  BY <1>1, <1>2, <1>3 DEF KillInv, KillHeld, Live
<1>6. QED
  BY <1>4, <1>5 DEF KillInv

LEMMA KillWaits ==
  ASSUME KillKept, ListInv, WakeInv, KillInv, NEW t \in Threads, Waits(t)
  PROVE  KillInv'
<1>1. ASSUME InCode(t), UNCHANGED <<status, terminating, at, last>>
      PROVE  KillInv'
  BY <1>1, KillStay
<1>2. CASE rb_thread_stop(t)
  BY <1>1, <1>2, KillSleep DEF rb_thread_stop, Calls, flagVars
<1>3. ASSUME NEW u \in Threads, NEW d \in Limits \cup {INFTY}, rb_thread_join(t, u, d)
      PROVE  KillInv'
  <2>1. CASE Fails(t)
    BY <1>1, <1>3, <2>1 DEF Fails, rb_thread_join, Calls, flagVars
  <2>2. CASE ~Fails(t)
    BY <1>3, <2>2, KillSleep DEF rb_thread_join, Calls
  <2>3. QED
    BY <2>1, <2>2
<1>4. ASSUME NEW d \in Limits, rb_thread_wait_for(t, d)
      PROVE  KillInv'
  BY <1>4, KillSleep DEF rb_thread_wait_for, Calls, MaySwitch
<1>5. ASSUME NEW f \in Fds, rb_thread_wait_fd(t, f)
      PROVE  KillInv'
  BY <1>5, KillSleep DEF rb_thread_wait_fd, Calls, MaySwitch
<1>6. ASSUME NEW fs \in (SUBSET Fds) \ {{}}, NEW d \in Limits \cup {INFTY},
             rb_thread_select(t, fs, d)
      PROVE  KillInv'
  BY <1>6, KillSleep DEF rb_thread_select, Calls, MaySwitch
<1>7. CASE rb_thread_sleep_forever(t)
  BY <1>1, <1>7, KillSleep DEF rb_thread_sleep_forever, Calls, flagVars, stackVars
<1>8. ~rb_thread_polling(t) /\ ~rb_thread_join_critical(t)
  BY NeverCritical DEF KillKept, rb_thread_polling, Calls
<1>9. QED
  BY <1>2, <1>3, <1>4, <1>5, <1>6, <1>7, <1>8 DEF Waits

LEMMA KillEnds ==
  ASSUME ListInv, KillInv, NEW t \in Threads, Ends(t)
  PROVE  KillInv'
<1> USE DEF ListInv, TypeOK, ThreadEnds
<1>1. CASE EndQuietly(t)
  <2>1. /\ status'[t] = "KILLED" /\ UNCHANGED <<terminating, last>>
        /\ \A x \in Threads \ {t} : status'[x] = status[x] /\ at'[x] = at[x]
    BY <1>1 DEF EndQuietly, EnterSchedule
  <2>2. QED
    BY <2>1, KillFrame DEF KillInv, KillHeld, Live, Unborn
<1>2. CASE EndFatally(t)
  <2>1. /\ \A x \in Threads :
             /\ x \in Live \ {Main} => status'[x] \in {"KILLED", "TO_KILL"}
             /\ x \notin Live => status'[x] \in {"KILLED", status[x]}
             /\ x \in Live => status'[x] # Unborn
        /\ UNCHANGED <<terminating, last>>
        /\ status'[t] = "KILLED" /\ \A x \in Threads \ {t} : at'[x] = at[x]
    BY <1>2, ReadiedType DEF EndFatally, Cleanup, EnterSchedule, Unborn
  <2>2. QED
    BY <2>1, KillFrame DEF Live, Unborn
<1>3. CASE EndDelegating(t)
  <2>1. /\ status'[t] = "KILLED" /\ UNCHANGED <<terminating, last>>
        /\ status'[Main] \in {"KILLED", "RUNNABLE", "TO_KILL"}
        /\ \A x \in Threads \ {t, Main} : status'[x] = status[x] /\ at'[x] = at[x]
    BY <1>3, ReadiedType, MainAssumption DEF EndDelegating, Throw
  <2>2. QED
    BY <2>1, KillFrame DEF KillInv, KillHeld, Live, Unborn
<1>4. QED
  BY <1>1, <1>2, <1>3 DEF Ends

LEMMA KillActs ==
  ASSUME KillKept, ListInv, KillInv, NEW t \in Threads, Acts(t)
  PROVE  KillInv'
<1>1. InCode(t) /\ curr = t /\ phase = "run" /\ TypeOK
  BY DEF Acts, rb_thread_start_0, rb_thread_wakeup, rb_thread_run, rb_thread_kill,
         rb_thread_raise, rb_thread_priority_set, rb_thread_pass,
         rb_thread_critical_set, rb_f_raise, Rescue, Calls, InCode, ListInv
<1>2. \A x \in Threads : x = t /\ x # Main /\ terminating[x] => status[x] = "TO_KILL"
  BY <1>1, KillRunner
<1>3. ASSUME NEW may, Yield(t, may)
      PROVE  at'[t] = "code" /\ \A x \in Threads \ {t} : at'[x] = at[x]
  BY <1>1, <1>3 DEF Yield, EnterSchedule, InCode, TypeOK
<1>4. ASSUME NEW u \in Threads, NEW s \in {"RUNNABLE", "TO_KILL"},
             s = "RUNNABLE" => status[u] # "TO_KILL",
             u \in Live, status' = [status EXCEPT ![u] = s],
             UNCHANGED <<terminating, last>>,
             at'[t] = "code" /\ \A x \in Threads \ {t} : at'[x] = at[x]
      PROVE  KillInv'
  <2>1. /\ status'[u] = s /\ s # Unborn
        /\ \A x \in Threads \ {u} : status'[x] = status[x]
    BY <1>1, <1>4 DEF TypeOK, Unborn
  <2>2. QED
    BY <1>2, <1>4, <2>1, KillFrame DEF KillInv, KillHeld, Live
<1>5. ASSUME NEW u \in Threads, NEW may, Wake(t, u, may)
      PROVE  KillInv'
  <2>1. CASE Fails(t)
    BY <1>1, <2>1, KillStay DEF Fails, flagVars
  <2>2. CASE ~Fails(t)
    BY <1>3, <1>4, <1>5, <2>2 DEF Wake, Readied, flagVars
  <2>3. QED
    BY <2>1, <2>2
<1>6. ASSUME NEW u \in Threads, rb_thread_kill(t, u)
      PROVE  KillInv'
  <2>1. CASE u = Main
    BY <1>1, <1>6, <2>1, KillStay DEF rb_thread_kill, flagVars
  <2>2. CASE u # Main
    <3>1. u \in Live
      BY <1>6 DEF rb_thread_kill, Live, Unborn
    <3>2. QED
      BY <1>3, <1>4, <1>6, <2>2, <3>1 DEF rb_thread_kill, flagVars
  <2>3. QED
    BY <2>1, <2>2
<1>7. ASSUME NEW u \in Threads, rb_thread_start_0(t, u)
      PROVE  KillInv'
  <2>1. /\ status[u] = Unborn /\ status'[u] = "RUNNABLE" /\ UNCHANGED <<terminating, at, last>>
        /\ \A x \in Threads \ {u} : status'[x] = status[x]
    BY <1>1, <1>7 DEF rb_thread_start_0, TypeOK
  <2>2. QED
    BY <2>1, KillFrame DEF KillInv, KillHeld, UnbornClear, Live, Unborn
<1>8. CASE \/ \E u \in Threads, p \in Priorities : rb_thread_priority_set(t, u, p)
           \/ rb_thread_pass(t)
  BY <1>1, <1>8, KillStay DEF rb_thread_priority_set, rb_thread_pass, EnterSchedule,
                              flagVars, TypeOK
<1>9. CASE \/ (\E e \in {"error", "exit"} : rb_f_raise(t, e)) \/ Rescue(t)
           \/ (\E v \in BOOLEAN : rb_thread_critical_set(t, v))
  BY <1>1, <1>9, KillStay DEF rb_f_raise, Rescue, rb_thread_critical_set, flagVars, stackVars
<1>10. \A u \in Threads : ~rb_thread_raise(t, u)
  BY DEF KillKept, rb_thread_raise, Calls
<1>11. QED
  BY <1>5, <1>6, <1>7, <1>8, <1>9, <1>10 DEF Acts, rb_thread_wakeup, rb_thread_run

LEMMA KillStep ==
  ASSUME KillKept, ListInv, WakeInv, KillInv, [Next]_vars
  PROVE  KillInv'
<1>1. ASSUME UNCHANGED <<status, terminating, at, last>>
      PROVE  KillInv'
  BY <1>1 DEF KillInv, KillHeld, UnbornClear, Live
<1>2. \A x \in Threads : /\ status[x] = "TO_KILL" => StatusNow(x) = "TO_KILL"
                         /\ StatusNow(x) = Unborn => status[x] = Unborn
                         /\ StatusNow(x) \notin {Unborn, "KILLED"} <=> x \in Live
  <2>1. \A x \in Threads : status[x] = "TO_KILL" => waitFor[x] = {}
    BY DEF WakeInv, KilledIdle
  <2>2. \A x \in Threads : status[x] = "TO_KILL" => ~Woken(x)
    BY <2>1 DEF Woken, JoinDone, Expired, FdWoken, FdWaiting, SelectExpired, Stopped
  <2>3. QED
    BY <2>2, ListWalk DEF StatusNow, Unborn
<1>3. ASSUME NEW t \in Threads, Runs(t)
      PROVE  KillInv'
  <2>1. CASE AfterStop(t)
    <3>1. /\ status'[t] = last[t] /\ last[t] # Unborn /\ UNCHANGED <<terminating, last>>
          /\ at[t] \in {"stop", "join"} /\ at'[t] = "code"
          /\ \A x \in Threads \ {t} : status'[x] = status[x] /\ at'[x] = at[x]
          /\ t \in Live
      BY <2>1, RunnerLive DEF AfterStop, flagVars, ListInv, TypeOK, Unborn
    <3>2. t # Main /\ terminating[t] => last[t] = "TO_KILL"
      BY <3>1 DEF KillInv, KillHeld
    <3>3. QED
      BY <3>1, <3>2, KillFrame DEF Live
  <2>2. CASE rb_thread_wait_other_threads(t)
    <3>1. UNCHANGED <<status, terminating, last>>
      BY <2>2 DEF rb_thread_wait_other_threads, flagVars
    <3>2. at' = at
      BY <2>2 DEF rb_thread_wait_other_threads, EnterSchedule, ListInv, TypeOK
    <3>3. QED
      BY <1>1, <3>1, <3>2
  <2>3. CASE CHECK_INTS(t)
    BY <2>3, KillStay DEF CHECK_INTS, EnterSchedule, flagVars, ListInv, TypeOK
  <2>4. CASE ScheduleTo(t)
    <3>1. (\A x \in Threads : status'[x] = StatusNow(x)) /\ last' = last
      BY <2>4 DEF ScheduleTo
    <3>2. \A x \in Threads \ {t} : terminating'[x] = terminating[x] /\ at'[x] = at[x]
      BY <2>4 DEF ScheduleTo, Throw, ListInv, TypeOK
    <3>3. CASE StatusNow(t) = "TO_KILL" /\ ~terminating[t]
      <4>1. t # Main => at'[t] \notin {"stop", "join"}
        BY <2>4, <3>3 DEF ScheduleTo, Throw, Unwound, ListInv, TypeOK
      <4>2. QED
        BY <1>2, <3>1, <3>2, <3>3, <4>1, KillFrame DEF Live, Unborn
    <3>4. CASE ~(StatusNow(t) = "TO_KILL" /\ ~terminating[t])
      <4>1. terminating' = terminating /\ at' = at
        BY <2>4, <3>4 DEF ScheduleTo
      <4>2. QED
        BY <1>2, <3>1, <4>1, KillFrame DEF Live
    <3>5. QED
      BY <3>3, <3>4
  <2>5. QED
    BY <1>3, <2>1, <2>2, <2>3, <2>4 DEF Runs
<1>4. ASSUME NEW t \in Threads, ruby_cleanup(t)
      PROVE  KillInv'
  <2>1. /\ \A x \in Threads :
             /\ x \in Live \ {Main} => status'[x] = "TO_KILL"
             /\ x \in Live => status'[x] # Unborn
             /\ x \notin Live => status'[x] = status[x]
        /\ UNCHANGED <<terminating, last>>
        /\ t = Main /\ \A x \in Threads \ {Main} : at'[x] = at[x]
    BY <1>4, ReadiedType DEF ruby_cleanup, Cleanup, Unborn, ListInv, TypeOK
  <2>2. QED
    BY <2>1, KillFrame DEF Live
<1>5. CASE ScheduleDeadlock
  <2>1. /\ \A x \in Threads : status'[x] = IF x = Main THEN "TO_KILL" ELSE StatusNow(x)
        /\ UNCHANGED <<terminating, last>>
        /\ \A x \in Threads \ {Main} : at'[x] = at[x]
    BY <1>5 DEF ScheduleDeadlock, Throw, ListInv, TypeOK
  <2>2. QED
    BY <1>2, <2>1, KillFrame DEF Live, Unborn
<1>6. CASE ScheduleAlone \/ catch_timer \/ Tick \/ (\E fs \in SUBSET Fds : Ready(fs))
           \/ UNCHANGED vars
  BY <1>1, <1>6 DEF ScheduleAlone, catch_timer, Tick, Ready, vars, flagVars, stackVars
<1>7. QED
  BY <1>3, <1>4, <1>5, <1>6, KillEnds, KillWaits, KillActs DEF Next

\* Programs that neither raise in other threads nor poll, nor join in critical
\* sections: a thread that was killed and unwound never turns into a runnable
\* one, whatever wakes it and whatever its ensure clauses call.
THEOREM KillsStick ==
  ASSUME KillKept
  PROVE  Spec => []KillSticks
<1> DEFINE Both == SchedInv /\ KillInv
<1>1. Init => Both
  BY SchedInit, KillInit
<1>2. Both /\ [Next]_vars => Both'
  BY SchedStep, KillStep DEF KillKept, SchedInv
<1>3. Both => KillSticks
  BY DEF KillInv, KillHeld, KillSticks
<1>4. QED
  BY <1>1, <1>2, <1>3, PTL DEF Spec

\* A thread killed in its own critical section goes on until the section ends,
\* and Thread#raise gives the processor to a thread that is to be killed.
KillPrompt == "critical" \notin Ops /\ "raise" \notin Ops

\* THREAD_TO_KILL comes back from rb_thread_stop and rb_thread_join only to a
\* thread that has been unwound.
LastKilled == \A t \in Threads \ {Main} :
                at[t] \in {"stop", "join"} /\ last[t] = "TO_KILL" => terminating[t]

PromptInv == KilledStops /\ LastKilled

LEMMA PromptInit == Init => PromptInv
<1> SUFFICES ASSUME Init PROVE PromptInv
  OBVIOUS
<1>1. curr = Main /\ \A t \in Threads : at[t] = "code"
  BY DEF Init
<1>2. QED
  BY <1>1 DEF PromptInv, KilledStops, LastKilled

\* The running thread does not go on, or is another one than a thread that has
\* been killed just now.
LEMMA PromptFrame ==
  ASSUME PromptInv,
         \A t \in Threads : terminating[t] => terminating'[t],
         \/ phase' # "run" \/ curr' = Main \/ status'[curr'] # "TO_KILL"
         \/ phase = "run" /\ curr' = curr /\ curr \in Threads /\ status[curr] = "TO_KILL",
         \A t \in Threads \ {Main} :
           \/ at'[t] \notin {"stop", "join"}
           \/ last'[t] # "TO_KILL"
           \/ at'[t] = at[t] /\ last'[t] = last[t]
           \/ terminating[t]
  PROVE  PromptInv'
BY DEF PromptInv, KilledStops, LastKilled

LEMMA PromptWaits ==
  ASSUME KillPrompt, ListInv, WakeInv, PromptInv, NEW t \in Threads, Waits(t)
  PROVE  PromptInv'
<1> USE DEF flagVars, Calls, InCode
<1>1. t # Main /\ InCode(t) /\ status[t] = "TO_KILL" => terminating[t]
  BY DEF PromptInv, KilledStops
<1>2. ASSUME NEW w, NEW p, Sleep(t, w, p), InCode(t),
             (last' = last /\ p = "code") \/ last' = [last EXCEPT ![t] = Readied(t)]
      PROVE  PromptInv'
  <2>1. /\ phase' = "sched" /\ terminating' = terminating
        /\ at'[t] = p /\ (p = "code" \/ last'[t] = Readied(t))
        /\ \A x \in Threads \ {t} : at'[x] = at[x] /\ last'[x] = last[x]
    BY <1>2 DEF Sleep, EnterSchedule, ListInv, TypeOK
  <2>2. Readied(t) = "TO_KILL" /\ t # Main => terminating[t]
    BY <1>1, <1>2 DEF Readied
  <2>3. QED
    BY <2>1, <2>2, PromptFrame
<1>3. ASSUME UNCHANGED <<status, terminating, at, last, curr>>, InCode(t)
      PROVE  PromptInv'
  BY <1>3, PromptFrame
<1>4. CASE rb_thread_stop(t)
  BY <1>2, <1>3, <1>4 DEF rb_thread_stop
<1>5. ASSUME NEW u \in Threads, NEW d \in Limits \cup {INFTY}, rb_thread_join(t, u, d)
      PROVE  PromptInv'
  BY <1>2, <1>3, <1>5 DEF rb_thread_join, Fails
<1>6. ASSUME NEW d \in Limits, rb_thread_wait_for(t, d)
      PROVE  PromptInv'
  BY <1>2, <1>6 DEF rb_thread_wait_for
<1>7. ASSUME NEW f \in Fds, rb_thread_wait_fd(t, f)
      PROVE  PromptInv'
  BY <1>2, <1>7 DEF rb_thread_wait_fd
<1>8. ASSUME NEW fs \in (SUBSET Fds) \ {{}}, NEW d \in Limits \cup {INFTY},
             rb_thread_select(t, fs, d)
      PROVE  PromptInv'
  BY <1>2, <1>8 DEF rb_thread_select
<1>9. CASE rb_thread_polling(t)
  BY <1>2, <1>9 DEF rb_thread_polling
<1>10. CASE rb_thread_sleep_forever(t)
  BY <1>2, <1>3, <1>10 DEF rb_thread_sleep_forever, stackVars
<1>11. ~rb_thread_join_critical(t)
  BY DEF KillPrompt, WakeInv, CriticalUsed, rb_thread_join_critical
<1>12. QED
  BY <1>4, <1>5, <1>6, <1>7, <1>8, <1>9, <1>10, <1>11 DEF Waits

LEMMA PromptActs ==
  ASSUME KillPrompt, ListInv, WakeInv, PromptInv, NEW t \in Threads, Acts(t)
  PROVE  PromptInv'
<1> USE DEF flagVars
<1>1. /\ InCode(t) /\ curr = t /\ phase = "run" /\ at[t] = "code" /\ TypeOK
      /\ critical = FALSE /\ "raise" \notin Ops
  BY DEF Acts, rb_thread_start_0, rb_thread_wakeup, rb_thread_run, rb_thread_kill,
         rb_thread_raise, rb_thread_priority_set, rb_thread_pass,
         rb_thread_critical_set, rb_f_raise, Rescue, Calls, InCode, ListInv, TypeOK,
         KillPrompt, WakeInv, CriticalUsed
<1>2. ASSUME UNCHANGED <<status, terminating, at, last, curr>>
      PROVE  PromptInv'
  BY <1>1, <1>2, PromptFrame DEF TypeOK
<1>3. ASSUME EnterSchedule(t, "code"), UNCHANGED <<terminating, last>>
      PROVE  PromptInv'
  BY <1>1, <1>3, PromptFrame DEF EnterSchedule, TypeOK
<1>4. ASSUME NEW u \in Threads, NEW may \in BOOLEAN, Wake(t, u, may)
      PROVE  PromptInv'
  <2>1. CASE Fails(t)
    BY <1>2, <2>1 DEF Fails
  <2>2. CASE ~Fails(t)
    <3>1. /\ status' = [status EXCEPT ![u] = Readied(u)]
          /\ UNCHANGED <<terminating, last, curr>> /\ Yield(t, may)
      BY <1>4, <2>2 DEF Wake
    <3>2. CASE may
      BY <1>3, <3>1, <3>2 DEF Yield
    <3>3. CASE ~may
      <4>1. status'[t] = "TO_KILL" => status[t] = "TO_KILL"
        BY <1>1, <3>1 DEF Readied, TypeOK
      <4>2. QED
        BY <1>1, <3>1, <3>3, <4>1, PromptFrame DEF Yield
    <3>4. QED
      BY <3>2, <3>3
  <2>3. QED
    BY <2>1, <2>2
<1>5. ASSUME NEW u \in Threads, rb_thread_kill(t, u)
      PROVE  PromptInv'
  BY <1>1, <1>2, <1>3, <1>5 DEF rb_thread_kill, Yield
<1>6. ASSUME NEW u \in Threads, rb_thread_start_0(t, u)
      PROVE  PromptInv'
  BY <1>1, <1>6, PromptFrame DEF rb_thread_start_0, Transfer, TypeOK
<1>7. CASE \/ \E u \in Threads, p \in Priorities : rb_thread_priority_set(t, u, p)
           \/ rb_thread_pass(t)
  BY <1>3, <1>7 DEF rb_thread_priority_set, rb_thread_pass
<1>8. CASE \/ (\E e \in {"error", "exit"} : rb_f_raise(t, e)) \/ Rescue(t)
           \/ (\E v \in BOOLEAN : rb_thread_critical_set(t, v))
  BY <1>2, <1>8 DEF rb_f_raise, Rescue, rb_thread_critical_set, stackVars
<1>9. \A u \in Threads : ~rb_thread_raise(t, u)
  BY <1>1 DEF rb_thread_raise, Calls
<1>10. (~critical) \in BOOLEAN
  BY <1>1
<1>11. QED
  BY <1>4, <1>5, <1>6, <1>7, <1>8, <1>9, <1>10 DEF Acts, rb_thread_wakeup, rb_thread_run

LEMMA PromptStep ==
  ASSUME KillPrompt, ListInv, WakeInv, PromptInv, [Next]_vars
  PROVE  PromptInv'
<1> USE DEF flagVars, ListInv
<1>1. ASSUME UNCHANGED <<status, terminating, at, last, curr>>,
             phase' = phase \/ phase' # "run"
      PROVE  PromptInv'
  BY <1>1 DEF PromptInv, KilledStops, LastKilled
<1>2. ASSUME NEW t \in Threads, Ends(t)
      PROVE  PromptInv'
  <2>1. /\ phase' = "sched" \/ curr' = Main
        /\ UNCHANGED <<terminating, last>>
    BY <1>2 DEF Ends, EndQuietly, EndFatally, EndDelegating, ThreadEnds, EnterSchedule
  <2>2. \A x \in Threads \ {Main} : at'[x] = at[x] \/ at'[x] = "code"
    BY <1>2 DEF Ends, EndQuietly, EndFatally, EndDelegating, EnterSchedule, Throw, TypeOK
  <2>3. QED
    BY <2>1, <2>2, PromptFrame
<1>3. ASSUME NEW t \in Threads, Runs(t)
      PROVE  PromptInv'
  <2>1. CASE AfterStop(t)
    <3>1. /\ status'[t] = last[t] /\ UNCHANGED <<terminating, last, curr>>
          /\ curr = t /\ at[t] \in {"stop", "join"} /\ at'[t] = "code"
          /\ \A x \in Threads \ {t} : at'[x] = at[x]
      BY <2>1 DEF AfterStop, TypeOK
    <3>2. QED
      BY <3>1 DEF PromptInv, KilledStops, LastKilled
  <2>2. CASE rb_thread_wait_other_threads(t)
    <3>1. at' = at
      BY <2>2 DEF rb_thread_wait_other_threads, EnterSchedule, TypeOK
    <3>2. QED
      BY <1>1, <2>2, <3>1 DEF rb_thread_wait_other_threads, EnterSchedule
  <2>3. CASE CHECK_INTS(t)
    BY <2>3, PromptFrame DEF CHECK_INTS, EnterSchedule, TypeOK
  <2>4. CASE ScheduleTo(t)
    <3>1. /\ status'[t] = StatusNow(t) /\ last' = last /\ curr' = t
          /\ \A x \in Threads \ {t} : terminating'[x] = terminating[x] /\ at'[x] = at[x]
      BY <2>4 DEF ScheduleTo, Transfer, Throw, TypeOK
    <3>2. CASE StatusNow(t) = "TO_KILL" /\ ~terminating[t]
      <4>1. terminating'[t] = TRUE /\ at'[t] \in {"code", "exit"}
        BY <2>4, <3>2 DEF ScheduleTo, Throw, Unwound, TypeOK
      <4>2. QED
        BY <3>1, <4>1 DEF PromptInv, KilledStops, LastKilled
    <3>3. CASE ~(StatusNow(t) = "TO_KILL" /\ ~terminating[t])
      <4>1. terminating' = terminating /\ at' = at
        BY <2>4, <3>3 DEF ScheduleTo
      <4>2. QED
        BY <3>1, <3>3, <4>1 DEF PromptInv, KilledStops, LastKilled
    <3>4. QED
      BY <3>2, <3>3
  <2>5. QED
    BY <1>3, <2>1, <2>2, <2>3, <2>4 DEF Runs
<1>4. ASSUME NEW t \in Threads, ruby_cleanup(t)
      PROVE  PromptInv'
  BY <1>4, PromptFrame DEF ruby_cleanup, InCode, TypeOK
<1>5. CASE ScheduleDeadlock
  BY <1>5, PromptFrame DEF ScheduleDeadlock, Transfer, Throw, TypeOK
<1>6. CASE ScheduleAlone
  BY <1>6, PromptFrame DEF ScheduleAlone, stackVars
<1>7. CASE catch_timer \/ Tick \/ (\E fs \in SUBSET Fds : Ready(fs)) \/ UNCHANGED vars
  BY <1>1, <1>7 DEF catch_timer, Tick, Ready, vars, stackVars
<1>8. QED
  BY <1>2, <1>3, <1>4, <1>5, <1>6, <1>7, PromptWaits, PromptActs DEF Next

\* Programs without critical sections and without Thread#raise: the processor is
\* only ever with a live thread that waits for nothing, and that executes ensure
\* clauses only once it has been killed.
THEOREM RunnerIsSound ==
  ASSUME KillPrompt
  PROVE  Spec => []RunnerSound
<1> DEFINE Both == SchedInv /\ PromptInv
<1>1. Init => Both
  BY SchedInit, PromptInit
<1>2. Uncritical
  BY DEF KillPrompt, Uncritical
<1>3. Both /\ [Next]_vars => Both'
  BY <1>2, SchedStep, PromptStep DEF SchedInv
<1>4. Both => RunnerSound
  BY DEF SchedInv, WakeInv, PromptInv, RunnerSound
<1>5. QED
  BY <1>1, <1>3, <1>4, PTL DEF Spec

-----------------------------------------------------------------------------
(* The order of the walks.  Nth is a recursive function, which exists because *)
(* its finite prefixes do; the walk meets every live thread within Size steps *)
(* because the links make one ring (RingWhole) and the first Size + 1 threads *)
(* it meets cannot all differ.  So Before is a strict total order of the live *)
(* threads, and a pass that finds a thread ready chooses one.                 *)

LEMMA LeastNumber ==
  ASSUME NEW S \in SUBSET Nat, S # {}
  PROVE  \E n \in S : \A m \in S : n <= m
<1>1. PICK n \in S : \A m \in S : <<m, n>> \notin OpToRel(<, Nat)
  BY NatLessThanWellFounded, WFMin
<1>2. n \in Nat /\ \A m \in S : m \in Nat /\ ~(m < n)
  BY <1>1 DEF OpToRel
<1>3. \A m \in S : n <= m
  BY <1>2
<1>4. QED
  BY <1>3

Prefix(c, n, g) == /\ g \in [0..n -> Threads]
                   /\ g[0] = c
                   /\ \A i \in 1..n : g[i] = next[g[i - 1]]

LEMMA PrefixExists ==
  ASSUME next \in [Threads -> Threads], NEW c \in Threads, NEW n \in Nat
  PROVE  \E g : Prefix(c, n, g)
<1> DEFINE S == {m \in Nat : \A g : ~Prefix(c, m, g)}
<1> SUFFICES ASSUME S # {} PROVE FALSE
  OBVIOUS
<1>1. PICK m \in S : \A k \in S : m <= k
  BY LeastNumber
<1>2. Prefix(c, 0, [i \in 0..0 |-> c])
  BY DEF Prefix
<1>3. m # 0
  BY <1>1, <1>2
<1>4. m - 1 \in Nat /\ m - 1 \notin S
  BY <1>1, <1>3
<1>5. PICK g : Prefix(c, m - 1, g)
  BY <1>4
<1>6. Prefix(c, m, [i \in 0..m |-> IF i = m THEN next[g[m - 1]] ELSE g[i]])
  BY <1>3, <1>4, <1>5 DEF Prefix
<1>7. QED
  BY <1>1, <1>6

LEMMA PrefixUnique ==
  ASSUME NEW c, NEW n \in Nat, NEW m \in Nat, n <= m,
         NEW f, Prefix(c, n, f), NEW g, Prefix(c, m, g)
  PROVE  \A i \in 0..n : f[i] = g[i]
<1> DEFINE S == {i \in 0..n : f[i] # g[i]}
<1> SUFFICES ASSUME S # {} PROVE FALSE
  OBVIOUS
<1>1. PICK i \in S : \A k \in S : i <= k
  <2>1. S \in SUBSET Nat
    OBVIOUS
  <2>2. QED
    BY <2>1, LeastNumber
<1>2. i # 0
  BY <1>1 DEF Prefix
<1>3. i \in 1..n /\ i \in 1..m /\ i - 1 \in 0..n /\ i - 1 \notin S
  BY <1>1, <1>2
<1>4. QED
  BY <1>1, <1>3 DEF Prefix

LEMMA NthSteps ==
  ASSUME next \in [Threads -> Threads], NEW c \in Threads
  PROVE  /\ Nth(c, 0) = c
         /\ \A n \in Nat : Nth(c, n) \in Threads /\ Nth(c, n + 1) = next[Nth(c, n)]
<1> DEFINE P(n) == CHOOSE g : Prefix(c, n, g)
           h == [n \in Nat |-> P(n)[n]]
           hop == CHOOSE f : f = [i \in Nat |-> IF i = 0 THEN c ELSE next[f[i - 1]]]
<1>1. \A n \in Nat : Prefix(c, n, P(n))
  BY PrefixExists
<1> HIDE DEF P
<1>2. h[0] = c /\ \A n \in Nat : h[n] = P(n)[n]
  <2>1. Prefix(c, 0, P(0))
    BY <1>1
  <2>2. QED
    BY <2>1 DEF Prefix
<1>3. ASSUME NEW n \in Nat \ {0}
      PROVE  h[n] = next[h[n - 1]]
  <2>1. n - 1 \in Nat /\ n \in 1..n /\ n - 1 <= n /\ n - 1 \in 0..(n - 1)
    OBVIOUS
  <2>2. P(n)[n] = next[P(n)[n - 1]]
    BY <1>1, <2>1 DEF Prefix
  <2>3. P(n - 1)[n - 1] = P(n)[n - 1]
    BY <1>1, <2>1, PrefixUnique
  <2>4. QED
    BY <1>2, <2>1, <2>2, <2>3
<1>4. h = [i \in Nat |-> IF i = 0 THEN c ELSE next[h[i - 1]]]
  <2>1. h = [i \in Nat |-> h[i]]
    OBVIOUS
  <2> HIDE DEF h
  <2>2. \A i \in Nat : h[i] = IF i = 0 THEN c ELSE next[h[i - 1]]
    BY <1>2, <1>3
  <2>3. QED
    BY <2>1, <2>2
<1> HIDE DEF h
<1>5. hop = [i \in Nat |-> IF i = 0 THEN c ELSE next[hop[i - 1]]]
  BY <1>4
<1>6. \A n \in Nat : Nth(c, n) = hop[n]
  BY DEF Nth
<1> HIDE DEF hop
<1> DEFINE S == {n \in Nat : hop[n] \notin Threads}
<1>7. S = {}
  <2> SUFFICES ASSUME S # {} PROVE FALSE
    OBVIOUS
  <2>1. PICK n \in S : \A k \in S : n <= k
    BY LeastNumber
  <2>2. n # 0
    BY <1>5, <2>1
  <2>3. n - 1 \in Nat /\ hop[n - 1] \in Threads
    BY <2>1, <2>2
  <2>4. QED
    BY <1>5, <2>1, <2>2, <2>3
<1>8. \A n \in Nat : hop[n + 1] = next[hop[n]]
  <2>1. ASSUME NEW n \in Nat
        PROVE  hop[n + 1] = next[hop[n]]
    <3>1. n + 1 \in Nat /\ n + 1 # 0 /\ (n + 1) - 1 = n
      OBVIOUS
    <3>2. hop[n + 1] = next[hop[(n + 1) - 1]]
      BY <1>5, <3>1
    <3>3. QED
      BY <3>1, <3>2
  <2>2. QED
    BY <2>1
<1>9. hop[0] = c
  BY <1>5
<1>10. \A n \in Nat : hop[n] \in Threads
  BY <1>7
<1>11. QED
  BY <1>6, <1>8, <1>9, <1>10

\* Once the walk repeats a thread it repeats all that follows.
LEMMA NthShift ==
  ASSUME next \in [Threads -> Threads], NEW c \in Threads, NEW i \in Nat, NEW j \in Nat,
         Nth(c, i) = Nth(c, j), NEW k \in Nat
  PROVE  Nth(c, i + k) = Nth(c, j + k)
<1> DEFINE S == {m \in Nat : Nth(c, i + m) # Nth(c, j + m)}
<1> SUFFICES ASSUME S # {} PROVE FALSE
  OBVIOUS
<1>1. PICK m \in S : \A n \in S : m <= n
  BY LeastNumber
<1>2. m # 0
  BY <1>1
<1>3. m - 1 \in Nat /\ Nth(c, i + (m - 1)) = Nth(c, j + (m - 1))
  BY <1>1, <1>2
<1>4. /\ i + (m - 1) \in Nat /\ j + (m - 1) \in Nat
      /\ (i + (m - 1)) + 1 = i + m /\ (j + (m - 1)) + 1 = j + m
  BY <1>3
<1>5. Nth(c, i + m) = Nth(c, j + m)
  BY <1>3, <1>4, NthSteps
<1>6. QED
  BY <1>1, <1>5

\* The walk meets every live thread, and no other.
LEMMA WalkMeetsAll ==
  ASSUME TypeOK, ListOK, RingWhole, NEW c \in Live
  PROVE  {Nth(c, n) : n \in Nat \ {0}} = Live
<1> DEFINE W == {Nth(c, n) : n \in Nat \ {0}}
           S == {n \in Nat : Nth(c, n) \notin Live}
<1>1. next \in [Threads -> Threads] /\ c \in Threads
  BY DEF TypeOK, Live
<1>2. S = {}
  <2> SUFFICES ASSUME S # {} PROVE FALSE
    OBVIOUS
  <2>1. PICK n \in S : \A m \in S : n <= m
    BY LeastNumber
  <2>2. n # 0
    BY <1>1, <2>1, NthSteps
  <2>3. n - 1 \in Nat /\ (n - 1) + 1 = n /\ Nth(c, n - 1) \in Live
    BY <2>1, <2>2
  <2>4. Nth(c, n) = next[Nth(c, n - 1)]
    BY <1>1, <2>3, NthSteps
  <2>5. QED
    BY <2>1, <2>3, <2>4 DEF ListOK
<1>3. W \subseteq Live
  BY <1>2
<1>4. Nth(c, 1) \in W
  OBVIOUS
<1>5. ASSUME NEW t \in W PROVE next[t] \in W
  <2>1. PICK n \in Nat \ {0} : t = Nth(c, n)
    OBVIOUS
  <2>2. n + 1 \in Nat \ {0} /\ next[t] = Nth(c, n + 1)
    BY <1>1, <2>1, NthSteps
  <2>3. QED
    BY <2>2
<1>6. W \in (SUBSET Live) \ {{}}
  BY <1>3, <1>4
<1> HIDE DEF W
<1>7. W = Live
  BY <1>5, <1>6 DEF RingWhole
<1>8. QED
  BY <1>7 DEF W

LEMMA PositionSound ==
  ASSUME TypeOK, ListOK, RingWhole, NEW c \in Live, NEW t \in Live
  PROVE  Position(c, t) \in Nat /\ Nth(c, Position(c, t)) = t
<1> DEFINE S == {n \in Nat \ {0} : Nth(c, n) = t}
<1>1. next \in [Threads -> Threads] /\ c \in Threads
  BY DEF TypeOK, Live
<1>2. S # {} /\ S \in SUBSET Nat
  BY WalkMeetsAll
<1>3. PICK n \in S : \A m \in S : n <= m
  BY <1>2, LeastNumber
<1>4. Size \in Nat
  BY FiniteAssumption, FS_CardinalityType DEF Size
<1>5. n <= Size
  <2> SUFFICES ASSUME Size < n PROVE FALSE
    BY <1>3, <1>4
  <2> DEFINE f == [i \in 1..n |-> Nth(c, i)]
  <2>1. n \in Nat /\ f \in [1..n -> Threads]
    BY <1>1, <1>3, NthSteps
  <2>2. IsFiniteSet(1..n) /\ Cardinality(1..n) = n
    BY <1>3, <2>1, FS_Interval
  <2>3. PICK x, y \in 1..n : x # y /\ f[x] = f[y]
    <3> HIDE DEF f
    <3>1. Cardinality(Threads) < Cardinality(1..n)
      BY <2>2 DEF Size
    <3>2. QED
      BY <2>1, <2>2, <3>1, FiniteAssumption, FS_PigeonHole
  <2>4. PICK i, j \in 1..n : i < j /\ Nth(c, i) = Nth(c, j)
    <3>1. x < y \/ y < x
      BY <2>3
    <3>2. Nth(c, x) = Nth(c, y)
      BY <2>3
    <3>3. QED
      BY <3>1, <3>2
  <2> DEFINE k == n - j
  <2>5. /\ i \in Nat /\ j \in Nat /\ k \in Nat /\ j + k = n /\ i + k \in Nat \ {0}
        /\ ~(n <= i + k)
    BY <2>1, <2>4
  <2>6. Nth(c, i + k) = Nth(c, n)
    BY <1>1, <2>4, <2>5, NthShift
  <2>7. i + k \in S
    BY <1>3, <2>5, <2>6
  <2>8. QED
    BY <1>3, <2>5, <2>7
<1>6. n \in 1..Size /\ Nth(c, n) = t
  BY <1>3, <1>4, <1>5
<1>7. \A m \in 1..(n - 1) : Nth(c, m) # t
  BY <1>3, <1>6
<1>8. QED
  BY <1>4, <1>6, <1>7 DEF Position

\* Of the live threads in S the walk meets one first.
LEMMA FirstMet ==
  ASSUME TypeOK, ListOK, RingWhole, NEW c \in Live, NEW S \in SUBSET Live, S # {}
  PROVE  \E t \in S : \A u \in S : u = t \/ Before(c, t, u)
<1> DEFINE N == {Position(c, t) : t \in S}
<1>1. N \in SUBSET Nat /\ N # {}
  BY PositionSound
<1>2. PICK n \in N : \A m \in N : n <= m
  BY <1>1, LeastNumber
<1>3. PICK t \in S : n = Position(c, t)
  OBVIOUS
<1>4. ASSUME NEW u \in S PROVE u = t \/ Before(c, t, u)
  <2>1. Position(c, t) \in Nat /\ Position(c, u) \in Nat /\ Position(c, t) <= Position(c, u)
    BY <1>2, <1>3, PositionSound
  <2>2. Position(c, t) = Position(c, u) => t = u
    BY PositionSound
  <2>3. QED
    BY <2>1, <2>2 DEF Before
<1>5. QED
  BY <1>3, <1>4

\* Of the threads in S one has the highest priority.
LEMMA HighestPriority ==
  ASSUME TypeOK, NEW S \in SUBSET Threads, S # {}
  PROVE  \E t \in S : \A u \in S : priority[u] <= priority[t]
<1> DEFINE Higher(t) == {u \in S : priority[u] > priority[t]}
           N == {Cardinality(Higher(t)) : t \in S}
<1>1. IsFiniteSet(S)
  BY FiniteAssumption, FS_Subset
<1>2. \A t \in S : IsFiniteSet(Higher(t)) /\ Cardinality(Higher(t)) \in Nat
  BY <1>1, FS_Subset, FS_CardinalityType
<1>3. N \in SUBSET Nat /\ N # {}
  BY <1>2
<1>4. PICK n \in N : \A m \in N : n <= m
  BY <1>3, LeastNumber
<1>5. PICK t \in S : n = Cardinality(Higher(t))
  OBVIOUS
<1>6. ASSUME NEW u \in S PROVE priority[u] <= priority[t]
  <2> SUFFICES ASSUME priority[u] > priority[t] PROVE FALSE
    BY DEF TypeOK
  <2>1. Higher(u) \subseteq Higher(t) /\ u \in Higher(t) /\ u \notin Higher(u)
    BY DEF TypeOK
  <2>2. Cardinality(Higher(t)) <= Cardinality(Higher(u))
    BY <1>4, <1>5
  <2> HIDE DEF Higher
  <2>3. /\ Cardinality(Higher(u)) <= Cardinality(Higher(t))
        /\ Cardinality(Higher(t)) = Cardinality(Higher(u)) => Higher(t) = Higher(u)
    <3>1. IsFiniteSet(Higher(t)) /\ Higher(u) \in SUBSET Higher(t)
      BY <1>2, <2>1
    <3>2. QED
      BY <3>1, FS_Subset
  <2>4. Cardinality(Higher(t)) \in Nat /\ Cardinality(Higher(u)) \in Nat
    BY <1>2
  <2>5. Cardinality(Higher(t)) = Cardinality(Higher(u))
    BY <2>2, <2>3, <2>4
  <2>6. QED
    BY <2>1, <2>3, <2>5
<1>7. QED
  BY <1>6

\* A pass that finds a thread to kill, or a runnable one, chooses a thread.
LEMMA SomeoneChosen ==
  ASSUME ListInv, NEW x \in Threads,
         \/ StatusNow(x) = "TO_KILL"
         \/ StatusNow(x) = "RUNNABLE" /\ context[x] # "none"
  PROVE  \E t \in Threads : Chosen(t)
<1> DEFINE K == {t \in Threads : StatusNow(t) = "TO_KILL"}
           R == {t \in Threads : StatusNow(t) = "RUNNABLE" /\ context[t] # "none"}
           H == {t \in R : \A u \in R : priority[u] <= priority[t]}
<1>1. TypeOK /\ ListOK /\ RingWhole /\ Start \in Live
  BY DEF ListInv, ListOK
<1>2. K \in SUBSET Live /\ R \in SUBSET Live
  BY ListWalk DEF Unborn
<1>3. CASE K # {}
  <2>1. PICK t \in K : \A u \in K : u = t \/ Before(Start, t, u)
    BY <1>1, <1>2, <1>3, FirstMet
  <2>2. Chosen(t)
    BY <2>1 DEF Chosen
  <2>3. QED
    BY <2>2
<1>4. CASE K = {}
  <2>1. x \in R
    BY <1>4
  <2>2. R \in SUBSET Threads /\ R # {}
    BY <2>1
  <2>3. H \in SUBSET Live /\ H # {}
    BY <1>1, <1>2, <2>2, HighestPriority
  <2>4. PICK t \in H : \A u \in H : u = t \/ Before(Start, t, u)
    BY <1>1, <2>3, FirstMet
  <2>5. ASSUME NEW u \in R, u # t
        PROVE  \/ priority[u] < priority[t]
               \/ priority[u] = priority[t] /\ Before(Start, t, u)
    <3>1. priority[u] \in Nat /\ priority[t] \in Nat /\ priority[u] <= priority[t]
      BY <1>1, <2>4, <2>5 DEF TypeOK
    <3>2. CASE priority[u] = priority[t]
      <4>1. u \in H
        BY <2>4, <3>2
      <4>2. QED
        BY <2>4, <2>5, <3>2, <4>1
    <3>3. QED
      BY <3>1, <3>2
  <2>6. /\ t \in Threads /\ StatusNow(t) = "RUNNABLE" /\ context[t] # "none"
        /\ \A u \in Threads : StatusNow(u) # "TO_KILL"
    BY <1>4, <2>4
  <2>7. Chosen(t)
    BY <2>5, <2>6 DEF Chosen
  <2>8. QED
    BY <2>6, <2>7
<1>5. QED
  BY <1>3, <1>4

-----------------------------------------------------------------------------
(* Descriptor events.                                                        *)

\* A stopped thread that waits for descriptors without a limit becomes runnable
\* in a pass of the scheduler only for an event the threads before it left.
LEMMA WokenForFd ==
  ASSUME TypeOK, Next, phase = "sched", NEW t \in Threads, Stopped(t), FdWaiting(t),
         "time" \notin waitFor[t], status'[t] = "RUNNABLE"
  PROVE  FdWoken(t)
<1>1. status'[t] # status[t]
  BY DEF Stopped
<1>2. status'[t] = StatusNow(t)
  <2>1. CASE \E u \in Threads : ScheduleTo(u)
    BY <2>1 DEF ScheduleTo
  <2>2. CASE ScheduleDeadlock
    BY <2>2 DEF ScheduleDeadlock
  <2>3. CASE ScheduleAlone \/ catch_timer \/ Tick \/ \E fs \in SUBSET Fds : Ready(fs)
    BY <1>1, <2>3 DEF ScheduleAlone, catch_timer, Tick, Ready
  <2>4. \A u \in Threads : ~(Ends(u) \/ Waits(u) \/ Acts(u) \/ ruby_cleanup(u))
    BY DEF Ends, EndQuietly, EndFatally, EndDelegating, ThreadEnds, Waits, Acts,
           rb_thread_stop, rb_thread_join, rb_thread_join_critical, rb_thread_wait_for,
           rb_thread_wait_fd, rb_thread_select, rb_thread_polling,
           rb_thread_sleep_forever, rb_thread_start_0, rb_thread_wakeup, rb_thread_run,
           rb_thread_kill, rb_thread_raise, rb_thread_priority_set, rb_thread_pass,
           rb_thread_critical_set, rb_f_raise, Rescue, ruby_cleanup, Calls, InCode
  <2>5. \A u \in Threads : ~(AfterStop(u) \/ rb_thread_wait_other_threads(u) \/ CHECK_INTS(u))
    BY DEF AfterStop, rb_thread_wait_other_threads, CHECK_INTS, InCode
  <2>6. QED
    BY <2>1, <2>2, <2>3, <2>4, <2>5 DEF Next, Runs
<1>3. Woken(t)
  BY <1>1, <1>2 DEF StatusNow
<1>4. "join" \notin waitFor[t]
  <2>1. waitFor[t] \in WaitKinds
    BY DEF TypeOK
  <2>2. QED
    BY <2>1 DEF FdWaiting, WaitKinds
<1>5. QED
  BY <1>3, <1>4 DEF Woken, JoinDone, Expired, SelectExpired

LEMMA OneEach ==
  ASSUME ListInv, Next, phase = "sched", NEW f \in Fds,
         NEW t \in Live, Stopped(t), FdWaiting(t), "time" \notin waitFor[t],
         fds[t] \cap ready = {f}, status'[t] = "RUNNABLE",
         NEW u \in Live, Stopped(u), FdWaiting(u), "time" \notin waitFor[u],
         fds[u] \cap ready = {f}, status'[u] = "RUNNABLE"
  PROVE  t = u
<1>1. /\ t \in Threads /\ u \in Threads /\ TypeOK /\ ListOK /\ RingWhole /\ Start \in Live
  BY DEF ListInv, ListOK, Live
<1>2. FdWoken(t) /\ FdWoken(u)
  BY <1>1, WokenForFd
<1>3. f \in Left(t) /\ f \in Left(u)
  BY <1>2 DEF FdWoken, Left, Selected
<1>4. f \in fds[t] /\ f \in fds[u]
  OBVIOUS
<1>5. ~Before(Start, t, u) /\ ~Before(Start, u, t)
  BY <1>1, <1>3, <1>4 DEF Left
<1>6. /\ Position(Start, t) \in Nat /\ Nth(Start, Position(Start, t)) = t
      /\ Position(Start, u) \in Nat /\ Nth(Start, Position(Start, u)) = u
  BY <1>1, PositionSound
<1>7. Position(Start, t) = Position(Start, u)
  BY <1>5, <1>6 DEF Before
<1>8. QED
  BY <1>6, <1>7

\* A pass of rb_thread_schedule wakes at most one thread for each descriptor
\* event, whatever else happens to the threads.
THEOREM OneThreadPerEvent == Spec => OnePerFd
<1> DEFINE S(f) == {t \in Live : /\ Stopped(t) /\ FdWaiting(t)
                                 /\ "time" \notin waitFor[t]
                                 /\ fds[t] \cap ready = {f}
                                 /\ status'[t] = "RUNNABLE"}
<1>1. ASSUME ListInv, Next, phase = "sched", NEW f \in Fds
      PROVE  Cardinality(S(f)) <= 1
  <2>1. \A t, u \in S(f) : t = u
    BY <1>1, OneEach
  <2>2. S(f) = {} \/ \E t \in S(f) : S(f) = {t}
    BY <2>1
  <2> HIDE DEF S
  <2>3. CASE S(f) = {}
    BY <2>3, FS_EmptySet
  <2>4. ASSUME NEW t \in S(f), S(f) = {t}
        PROVE  Cardinality(S(f)) = 1
    BY <2>4, FS_Singleton
  <2>5. QED
    BY <2>2, <2>3, <2>4
<1>2. ListInv /\ [Next]_vars =>
        [phase = "sched" => \A f \in Fds : Cardinality(S(f)) <= 1]_vars
  BY <1>1
<1>3. QED
  BY ListInit, ListStep, <1>2, PTL DEF Spec, OnePerFd

-----------------------------------------------------------------------------
(* The report of a deadlock.  It happens when nothing can run; a thread that  *)
(* could run but has no saved context would be passed over, so the argument   *)
(* needs that a stopped thread has been switched away from.                   *)

StoppedSaved == \A t \in Threads : status[t] = "STOPPED" => context[t] # "none"

\* Only the running thread stops, and only in company.
LEMMA StopsInCompany ==
  ASSUME ListInv, Next, NEW x \in Threads, status'[x] = "STOPPED", status[x] # "STOPPED"
  PROVE  x \in Live /\ Live # {x} /\ context' = context
<1> USE DEF ListInv
<1>1. ASSUME NEW t \in Threads, NEW w, NEW p, InCode(t), Sleep(t, w, p),
             ~Alone \/ \E u \in Live : u # t
      PROVE  x \in Live /\ Live # {x} /\ context' = context
  <2>1. x = t /\ t = curr /\ context' = context
    BY <1>1 DEF Sleep, InCode, TypeOK
  <2>2. x \in Live
    BY <1>1, <2>1 DEF InCode, CurrLive
  <2>3. QED
    BY <1>1, <2>1, <2>2 DEF Alone, ListOK
<1>2. ASSUME NEW t \in Threads, Waits(t)
      PROVE  x \in Live /\ Live # {x} /\ context' = context
  <2>1. CASE rb_thread_stop(t)
    BY <1>1, <2>1 DEF rb_thread_stop, Calls
  <2>2. ASSUME NEW u \in Threads, NEW d \in Limits \cup {INFTY}, rb_thread_join(t, u, d)
        PROVE  x \in Live /\ Live # {x} /\ context' = context
    BY <1>1, <2>2 DEF rb_thread_join, Calls, Fails
  <2>3. ~rb_thread_join_critical(t)
    BY DEF rb_thread_join_critical
  <2>4. ASSUME NEW d \in Limits, rb_thread_wait_for(t, d)
        PROVE  x \in Live /\ Live # {x} /\ context' = context
    BY <1>1, <2>4 DEF rb_thread_wait_for, Calls, MaySwitch
  <2>5. ASSUME NEW f \in Fds, rb_thread_wait_fd(t, f)
        PROVE  x \in Live /\ Live # {x} /\ context' = context
    BY <1>1, <2>5 DEF rb_thread_wait_fd, Calls, MaySwitch
  <2>6. ASSUME NEW fs \in (SUBSET Fds) \ {{}}, NEW d \in Limits \cup {INFTY},
               rb_thread_select(t, fs, d)
        PROVE  x \in Live /\ Live # {x} /\ context' = context
    BY <1>1, <2>6 DEF rb_thread_select, Calls, MaySwitch
  <2>7. CASE rb_thread_polling(t)
    BY <1>1, <2>7 DEF rb_thread_polling, Calls
  <2>8. CASE rb_thread_sleep_forever(t)
    BY <1>1, <2>8 DEF rb_thread_sleep_forever, Calls
  <2>9. QED
    BY <1>2, <2>1, <2>2, <2>3, <2>4, <2>5, <2>6, <2>7, <2>8 DEF Waits
<1>3. ASSUME NEW t \in Threads, Ends(t)
      PROVE  FALSE
  <2>1. ~EndQuietly(t)
    BY DEF EndQuietly, TypeOK
  <2>2. ~EndFatally(t)
    BY ReadiedType DEF EndFatally, Cleanup
  <2>3. ~EndDelegating(t)
    BY ReadiedType, MainAssumption DEF EndDelegating, TypeOK
  <2>4. QED
    BY <1>3, <2>1, <2>2, <2>3 DEF Ends
<1>4. ASSUME NEW t \in Threads, Acts(t)
      PROVE  FALSE
  <2>1. \A u \in Threads : ~rb_thread_start_0(t, u) /\ ~rb_thread_raise(t, u)
    BY ReadiedType DEF rb_thread_start_0, rb_thread_raise, TypeOK
  <2>2. \A u \in Threads, may \in BOOLEAN : ~Wake(t, u, may)
    BY ReadiedType DEF Wake, Fails, TypeOK
  <2>3. \A u \in Threads : ~rb_thread_wakeup(t, u) /\ ~rb_thread_run(t, u)
    <3>1. (~critical) \in BOOLEAN
      OBVIOUS
    <3>2. QED
      BY <2>2, <3>1 DEF rb_thread_wakeup, rb_thread_run
  <2>4. \A u \in Threads : ~rb_thread_kill(t, u)
    BY DEF rb_thread_kill, TypeOK
  <2>5. UNCHANGED status
    BY <1>4, <2>1, <2>3, <2>4
       DEF Acts, rb_thread_priority_set, rb_thread_pass, rb_thread_critical_set,
           rb_f_raise, Rescue
  <2>6. QED
    BY <2>5
<1>5. ASSUME NEW t \in Threads, Runs(t) \/ ruby_cleanup(t)
      PROVE  FALSE
  <2>1. ~AfterStop(t)
    BY DEF AfterStop, TypeOK
  <2>2. ~rb_thread_wait_other_threads(t) /\ ~CHECK_INTS(t)
    BY DEF rb_thread_wait_other_threads, CHECK_INTS
  <2>3. ~ScheduleTo(t)
    BY DEF ScheduleTo, StatusNow
  <2>4. ~ruby_cleanup(t)
    BY ReadiedType DEF ruby_cleanup, Cleanup
  <2>5. QED
    BY <1>5, <2>1, <2>2, <2>3, <2>4 DEF Runs
<1>6. ~ScheduleAlone /\ ~catch_timer /\ ~Tick /\ ~\E fs \in SUBSET Fds : Ready(fs)
  BY DEF ScheduleAlone, catch_timer, Tick, Ready
<1>7. ~ScheduleDeadlock
  BY DEF ScheduleDeadlock, StatusNow
<1>8. QED
  BY <1>2, <1>3, <1>4, <1>5, <1>6, <1>7 DEF Next

\* A context is dropped only with the thread.
LEMMA ContextKept ==
  ASSUME ListInv, Next, NEW x \in Threads, status'[x] # "KILLED", context'[x] = "none"
  PROVE  context[x] = "none"
<1> USE DEF ListInv
<1>1. CASE UNCHANGED context
  BY <1>1
<1>2. ASSUME NEW S, NEW t \in Threads, Transfer(S, t)
      PROVE  context[x] = "none"
  BY <1>2 DEF Transfer, TypeOK
<1>3. ASSUME NEW t \in Threads, Ends(t)
      PROVE  context[x] = "none"
  <2>1. x # t /\ x # Main => context'[x] = context[x]
    BY <1>3 DEF Ends, EndQuietly, EndFatally, EndDelegating, TypeOK
  <2>2. x # t
    BY <1>3 DEF Ends, EndQuietly, EndFatally, EndDelegating, ThreadEnds, Cleanup, TypeOK
  <2>3. x = Main => context'[x] \in {context[x], "obsolete"}
    BY <1>3, <2>2 DEF Ends, EndQuietly, EndFatally, EndDelegating, TypeOK
  <2>4. QED
    BY <2>1, <2>2, <2>3
<1>4. ASSUME NEW t \in Threads, Waits(t)
      PROVE  context[x] = "none"
  BY <1>1, <1>2, <1>4, MainAssumption
     DEF Waits, rb_thread_stop, rb_thread_join, rb_thread_join_critical,
         rb_thread_wait_for, rb_thread_wait_fd, rb_thread_select, rb_thread_polling,
         rb_thread_sleep_forever, Sleep, Fails, stackVars
<1>5. ASSUME NEW t \in Threads, Acts(t)
      PROVE  context[x] = "none"
  <2>1. CASE \E u \in Threads : rb_thread_start_0(t, u) \/ rb_thread_raise(t, u)
    BY <1>2, <2>1 DEF rb_thread_start_0, rb_thread_raise
  <2>2. CASE \E u \in Threads : rb_thread_wakeup(t, u) \/ rb_thread_run(t, u)
    BY <1>1, <2>2 DEF rb_thread_wakeup, rb_thread_run, Wake, Fails
  <2>3. CASE \E u \in Threads : rb_thread_kill(t, u)
    BY <1>1, <2>3 DEF rb_thread_kill
  <2>4. CASE \E u \in Threads, p \in Priorities : rb_thread_priority_set(t, u, p)
    BY <1>1, <2>4 DEF rb_thread_priority_set
  <2>5. CASE \/ rb_thread_pass(t) \/ (\E v \in BOOLEAN : rb_thread_critical_set(t, v))
             \/ (\E e \in {"error", "exit"} : rb_f_raise(t, e)) \/ Rescue(t)
    BY <1>1, <2>5 DEF rb_thread_pass, rb_thread_critical_set, rb_f_raise, Rescue, stackVars
  <2>6. QED
    BY <1>5, <2>1, <2>2, <2>3, <2>4, <2>5 DEF Acts
<1>6. ASSUME NEW t \in Threads, Runs(t) \/ ruby_cleanup(t)
      PROVE  context[x] = "none"
  BY <1>1, <1>2, <1>6
     DEF Runs, AfterStop, rb_thread_wait_other_threads, CHECK_INTS, ScheduleTo,
         ruby_cleanup
<1>7. CASE ScheduleDeadlock
  BY <1>2, <1>7, MainAssumption DEF ScheduleDeadlock
<1>8. CASE ScheduleAlone \/ catch_timer \/ Tick \/ \E fs \in SUBSET Fds : Ready(fs)
  BY <1>1, <1>8 DEF ScheduleAlone, catch_timer, Tick, Ready, stackVars
<1>9. QED
  BY <1>3, <1>4, <1>5, <1>6, <1>7, <1>8 DEF Next

LEMMA SavedStep ==
  ASSUME ListInv, ContextInv, StoppedSaved, [Next]_vars
  PROVE  StoppedSaved'
<1>1. CASE UNCHANGED vars
  BY <1>1 DEF vars, stackVars, StoppedSaved
<1>2. CASE Next
  <2> SUFFICES ASSUME NEW x \in Threads, status'[x] = "STOPPED", context'[x] = "none"
               PROVE  FALSE
    BY DEF StoppedSaved
  <2>1. context[x] = "none"
    BY <1>2, ContextKept
  <2>2. status[x] # "STOPPED"
    BY <2>1 DEF StoppedSaved
  <2>3. x \in Live /\ Live # {x}
    BY <1>2, <2>2, StopsInCompany
  <2>4. QED
    BY <2>1, <2>3 DEF ContextInv, NoContext
<1>3. QED
  BY <1>1, <1>2

\* When rb_thread_schedule finds a deadlock every live thread is stopped, and
\* none of them has been woken.
LEMMA AllStopped ==
  ASSUME SchedInv, StoppedSaved, ScheduleDeadlock, NEW t \in Live
  PROVE  Stopped(t) /\ ~Woken(t)
<1> USE DEF SchedInv
<1>1. t \in Threads /\ status[t] \in {"TO_KILL", "RUNNABLE", "STOPPED"}
  BY DEF ListInv, TypeOK, Live, Unborn
<1>2. /\ StatusNow(t) # "TO_KILL"
      /\ StatusNow(t) = "RUNNABLE" => context[t] = "none"
  BY <1>1, SomeoneChosen DEF ScheduleDeadlock
<1>3. status[t] # "TO_KILL"
  BY <1>1, <1>2 DEF StatusNow, WakeInv, KilledIdle, Woken, JoinDone, Expired, FdWoken,
                    FdWaiting, SelectExpired
<1>4. status[t] # "RUNNABLE"
  <2> SUFFICES ASSUME status[t] = "RUNNABLE" PROVE FALSE
    OBVIOUS
  <2>1. context[t] = "none"
    BY <1>2 DEF StatusNow
  <2>2. Live = {t} /\ curr = t
    BY <2>1 DEF ContextInv, NoContext
  <2>3. Alone
    BY <2>2 DEF ListInv, ListOK, Alone
  <2>4. QED
    BY <2>2, <2>3 DEF ScheduleDeadlock
<1>5. Stopped(t)
  BY <1>1, <1>3, <1>4 DEF Stopped
<1>6. QED
  BY <1>1, <1>2, <1>5 DEF StoppedSaved, Stopped, StatusNow

LEMMA HonestReport ==
  ASSUME SchedInv, StoppedSaved, ScheduleDeadlock, NEW t \in Live
  PROVE  \/ at[t] = "stop"
         \/ at[t] = "join" /\ join[t] \in Live /\ "time" \notin waitFor[t]
<1> USE DEF SchedInv
<1>1. t \in Threads /\ Stopped(t) /\ ~Woken(t)
  BY AllStopped DEF Live
<1>2. waitFor[t] \in WaitKinds
  BY <1>1 DEF ListInv, TypeOK
<1>3. ~FdWaiting(t) /\ ~("time" \in waitFor[t] /\ delay[t] > now)
  BY <1>1 DEF ScheduleDeadlock, NeedSelect
<1>4. "time" \notin waitFor[t]
  <2>1. ~("time" \in waitFor[t] /\ delay[t] <= now)
    BY <1>1 DEF Woken, Expired
  <2>2. delay[t] \in Nat /\ now \in Nat
    BY <1>1 DEF ListInv, TypeOK
  <2>3. QED
    BY <1>3, <2>1, <2>2
<1>5. waitFor[t] \in {{}, {"join"}}
  BY <1>2, <1>3, <1>4 DEF FdWaiting, WaitKinds
<1>6. CASE waitFor[t] = {}
  BY <1>1, <1>6 DEF Stopped, JoinInv, StopPoints
<1>7. CASE waitFor[t] = {"join"}
  <2>1. at[t] = "join" /\ status[join[t]] # Unborn
    BY <1>1, <1>7 DEF Stopped, JoinInv, StopPoints, Joined
  <2>2. status[join[t]] # "KILLED"
    BY <1>1, <1>7 DEF Woken, JoinDone
  <2>3. join[t] \in Threads
    BY <1>1 DEF ListInv, TypeOK
  <2>4. QED
    BY <1>4, <2>1, <2>2, <2>3 DEF Live
<1>8. QED
  BY <1>5, <1>6, <1>7

\* Programs that do not join in critical sections: rb_thread_schedule reports a
\* deadlock only when every live thread is inside Thread.stop or an unlimited
\* join of a live thread.
THEOREM DeadlocksHonest ==
  ASSUME Uncritical
  PROVE  Spec => DeadlockHonest
<1> DEFINE Both == SchedInv /\ StoppedSaved
           Reported == phase = "sched" /\ unwind'[Main] = "deadlock" /\ unwind[Main] # "deadlock"
           Honest == \A t \in Live : \/ at[t] = "stop"
                                     \/ /\ at[t] = "join" /\ join[t] \in Live
                                        /\ "time" \notin waitFor[t]
<1>1. Init => Both
  <2>1. Init => StoppedSaved
    BY DEF Init, StoppedSaved, Unborn
  <2>2. QED
    BY <2>1, SchedInit
<1>2. Both /\ [Next]_vars => Both'
  BY SchedStep, SavedStep DEF SchedInv
<1>3. ASSUME Both, Next, Reported PROVE Honest
  <2>1. ScheduleDeadlock
    <3>1. TypeOK
      BY <1>3 DEF SchedInv, ListInv
    <3>2. \A u \in Threads : ~(Ends(u) \/ Waits(u) \/ Acts(u) \/ ruby_cleanup(u))
      BY <1>3
         DEF Ends, EndQuietly, EndFatally, EndDelegating, ThreadEnds, Waits, Acts,
             rb_thread_stop, rb_thread_join, rb_thread_join_critical, rb_thread_wait_for,
             rb_thread_wait_fd, rb_thread_select, rb_thread_polling,
             rb_thread_sleep_forever, rb_thread_start_0, rb_thread_wakeup, rb_thread_run,
             rb_thread_kill, rb_thread_raise, rb_thread_priority_set, rb_thread_pass,
             rb_thread_critical_set, rb_f_raise, Rescue, ruby_cleanup, Calls, InCode
    <3>3. \A u \in Threads : ~Runs(u)
      BY <1>3, <3>1, MainAssumption
         DEF Runs, AfterStop, rb_thread_wait_other_threads, CHECK_INTS, InCode,
             ScheduleTo, Throw, TypeOK
    <3>4. ~ScheduleAlone /\ ~catch_timer /\ ~Tick /\ ~\E fs \in SUBSET Fds : Ready(fs)
      BY <1>3 DEF ScheduleAlone, catch_timer, Tick, Ready, stackVars
    <3>5. QED
      BY <1>3, <3>2, <3>3, <3>4 DEF Next
  <2>2. QED
    BY <1>3, <2>1, HonestReport
<1>4. Both /\ [Next]_vars => [Reported => Honest]_vars
  BY <1>3
<1>5. QED
  BY <1>1, <1>2, <1>4, PTL DEF Spec, DeadlockHonest
=============================================================================
