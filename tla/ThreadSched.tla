----------------------------- MODULE ThreadSched -----------------------------
(***************************************************************************)
(* The green-thread scheduler of the interpreter: struct thread, the      *)
(* circular list of threads, rb_thread_schedule and the operations of     *)
(* class Thread that change scheduling state (ruby/eval.c).               *)
(*                                                                         *)
(* Exactly one thread, curr, executes.  It calls operations of Thread; an  *)
(* operation that gives up the processor enters rb_thread_schedule, which  *)
(* is phase "sched" here.  A pass over the thread list that finds nothing  *)
(* to run sleeps in select(2): the pass is then not enabled until time     *)
(* passes or a descriptor becomes ready.                                   *)
(*                                                                         *)
(* The program is the most general one: a thread may call any operation    *)
(* named in Ops or return at any point; the ensure clauses of a thread     *)
(* that is being unwound are what it calls while unwind is not "none".     *)
(* Signals, $SAFE, ThreadGroup, fork and closed descriptors are left out.  *)
(***************************************************************************)
EXTENDS Naturals, FiniteSets

CONSTANTS Threads,    \* every struct thread that may be allocated
          Main,       \* main_thread
          Fds,        \* descriptor events (a descriptor readable, or writable)
          Priorities, \* priorities given to Thread#priority=
          Limits,     \* time limits given to sleep, join and select
          MaxTime,    \* bound on the clock
          INFTY,      \* DELAY_INFTY, beyond every deadline
          Ops         \* the operations the program uses

ASSUME MainAssumption == Main \in Threads
ASSUME FiniteAssumption == IsFiniteSet(Threads)
ASSUME NumberAssumption == /\ Priorities \subseteq Nat /\ MaxTime \in Nat
                           /\ INFTY \in Nat /\ MaxTime + 1 < INFTY
ASSUME LimitAssumption == \A d \in Limits : d \in Nat /\ MaxTime + d < INFTY

Unborn == "unborn"    \* no struct thread allocated yet

VARIABLES
  next, prev,   \* the links of the circular list
  status,       \* enum thread_status, or Unborn
  waitFor,      \* wait_for: subset of {"fd", "select", "time", "join"}
  join,         \* the thread waited for
  delay,        \* the deadline of a timed wait
  fds,          \* the descriptors of WAIT_FD and WAIT_SELECT
  priority,
  terminating,  \* flag THREAD_TERMINATING
  raised,       \* flag THREAD_RAISED with an errinfo
  unwind,       \* the non-local exit the thread's stack is being unwound with
  at,           \* the code that follows the call of rb_thread_schedule
  last,         \* last_status of rb_thread_stop and rb_thread_join
  context,      \* stk_ptr: "none" (0), "latest" (saved since the thread last
                \* ran) or "obsolete" (the thread has run since)
  curr, critical, pending,   \* curr_thread, rb_thread_critical, rb_thread_pending
  phase,        \* "run", "sched", "pause" (in pause(2)) or "exited"
  now, ready    \* the clock and the descriptor events select(2) would report

listVars == <<next, prev>>
waitVars == <<waitFor, join, delay, fds>>
flagVars == <<priority, terminating, raised>>
stackVars == <<unwind, at, last, context>>
envVars == <<now, ready>>
vars == <<listVars, status, waitVars, flagVars, stackVars, curr, critical,
          pending, phase, envVars>>

Live == {t \in Threads : status[t] \notin {Unborn, "KILLED"}}
Alone == next[curr] = curr

-----------------------------------------------------------------------------
(* The order of FOREACH_THREAD_FROM(c, th): the successors of c, c last.   *)

Nth(c, n) ==
  LET hop[i \in Nat] == IF i = 0 THEN c ELSE next[hop[i - 1]] IN hop[n]

Size == Cardinality(Threads)

Position(c, t) ==
  CHOOSE n \in 1..Size : /\ Nth(c, n) = t
                         /\ \A m \in 1..(n - 1) : Nth(c, m) # t

Before(c, t, u) == Position(c, t) < Position(c, u)

-----------------------------------------------------------------------------
(* Helpers shared by the operations.                                       *)

\* Mutant: rb_thread_ready makes every thread runnable.
ReadiedAlways(t) == "RUNNABLE"

\* rb_thread_ready: a thread being killed stays THREAD_TO_KILL.
Readied(t) == IF status[t] # "TO_KILL" THEN "RUNNABLE" ELSE "TO_KILL"

\* An exception raised in t discards the frames below its handler, the rest
\* of rb_thread_stop or rb_thread_join included; ruby_cleanup catches it.
Unwound(t) == IF at[t] = "exit" THEN "exit" ELSE "code"

\* Mutant: the context of the thread that gives up the processor is not saved.
TransferUnsaved(saved, t) ==
  /\ context' = [context EXCEPT ![t] = "obsolete"]
  /\ curr' = t
  /\ phase' = "run"

\* The processor goes from curr to t: THREAD_SAVE_CONTEXT for the threads in
\* saved, rb_thread_restore_context for t.
Transfer(saved, t) ==
  /\ context' = [u \in Threads |-> IF u = t THEN "obsolete"
                                   ELSE IF u \in saved THEN "latest"
                                   ELSE context[u]]
  /\ curr' = t
  /\ phase' = "run"

\* rb_thread_schedule is entered, to return into the code named point.
EnterSchedule(t, point) == /\ phase' = "sched"
                           /\ pending' = FALSE
                           /\ at' = [at EXCEPT ![t] = point]

\* t is unwound with exception e.
Throw(t, e) == /\ unwind' = [unwind EXCEPT ![t] = e]
               /\ at' = [at EXCEPT ![t] = Unwound(t)]

\* The running thread t is in Ruby code.
InCode(t) == phase = "run" /\ curr = t /\ at[t] = "code"

Calls(t, op) == InCode(t) /\ op \in Ops

\* t's call raises ThreadError (or another exception) without any effect.
Fails(t) ==
  /\ unwind' = [unwind EXCEPT ![t] = "error"]
  /\ UNCHANGED <<listVars, status, waitVars, flagVars, at, last, context, curr,
                 critical, pending, phase, envVars>>

Init ==
  /\ next = [t \in Threads |-> Main]
  /\ prev = [t \in Threads |-> Main]
  /\ status = [t \in Threads |-> IF t = Main THEN "RUNNABLE" ELSE Unborn]
  /\ waitFor = [t \in Threads |-> {}]
  /\ join = [t \in Threads |-> Main]
  /\ delay = [t \in Threads |-> 0]
  /\ fds = [t \in Threads |-> {}]
  /\ priority = [t \in Threads |-> 0]
  /\ terminating = [t \in Threads |-> FALSE]
  /\ raised = [t \in Threads |-> FALSE]
  /\ unwind = [t \in Threads |-> "none"]
  /\ at = [t \in Threads |-> "code"]
  /\ last = [t \in Threads |-> "RUNNABLE"]
  /\ context = [t \in Threads |-> "none"]
  /\ curr = Main
  /\ critical = FALSE
  /\ pending = FALSE
  /\ phase = "run"
  /\ now = 0
  /\ ready = {}

-----------------------------------------------------------------------------
(* Creation and end of threads.                                            *)

\* Thread.new: u is linked behind the caller and starts to run at once.
rb_thread_start_0(t, u) ==
  /\ Calls(t, "new")
  /\ status[u] = Unborn
  /\ next' = [next EXCEPT ![u] = next[t], ![t] = u]
  /\ prev' = [prev EXCEPT ![next[t]] = u, ![u] = t]
  /\ status' = [status EXCEPT ![u] = "RUNNABLE"]
  /\ priority' = [priority EXCEPT ![u] = priority[t]]
  /\ Transfer({t}, u)
  /\ UNCHANGED <<waitVars, terminating, raised, unwind, at, last, critical,
                 pending, envVars>>

\* Mutant: the backward link is not mended.
RemoveForward(t) == next' = [next EXCEPT ![prev[t]] = next[t]] /\ UNCHANGED prev

\* rb_thread_remove and rb_thread_die, the statuses apart.
Remove(t) == /\ next' = [next EXCEPT ![prev[t]] = next[t]]
             /\ prev' = [prev EXCEPT ![next[t]] = prev[t]]

\* rb_thread_cleanup: every thread still in the list is made ready, and every
\* one but the main thread is to be killed; gone is the set of ended threads.
Cleanup(gone) ==
  LET left == Live \ gone IN
  /\ status' = [t \in Threads |-> IF t \in gone THEN "KILLED"
                                  ELSE IF t \notin left THEN status[t]
                                  ELSE IF t = Main THEN Readied(t)
                                  ELSE "TO_KILL"]
  /\ waitFor' = [t \in Threads |-> IF t \in left \cup gone THEN {} ELSE waitFor[t]]
  /\ priority' = [t \in Threads |-> IF t \in left THEN 0 ELSE priority[t]]

\* The exception of an ended thread is of interest to nobody: it has none, or
\* it was killed (an unwinding by kill usually carries no exception object).
Silent(t) == unwind[t] \in {"none", "kill"} \/ status[t] = "TO_KILL"

\* The tail of rb_thread_start_0: t leaves the list, its stack is freed, ...
ThreadEnds(t) ==
  /\ InCode(t)
  /\ t # Main
  /\ Remove(t)
  /\ UNCHANGED <<join, delay, fds, terminating, last, critical, envVars>>

\* ... and another thread is scheduled; an exception is kept for Thread#join.
EndQuietly(t) ==
  /\ ThreadEnds(t)
  /\ Silent(t) \/ unwind[t] \in {"error", "deadlock"}
  /\ raised' = [raised EXCEPT ![t] = ~Silent(t)]
  /\ status' = [status EXCEPT ![t] = "KILLED"]
  /\ waitFor' = [waitFor EXCEPT ![t] = {}]
  /\ context' = [context EXCEPT ![t] = "none"]
  /\ EnterSchedule(t, "code")
  /\ UNCHANGED <<priority, unwind, curr>>

\* ... or TAG_FATAL arrives with an exception in a thread that is not, or no
\* longer, THREAD_TO_KILL: the whole script is stopped, ...
EndFatally(t) ==
  /\ ThreadEnds(t)
  /\ unwind[t] = "kill" /\ status[t] # "TO_KILL"
  /\ \E r \in BOOLEAN : raised' = [raised EXCEPT ![t] = r]
  /\ Cleanup({t})
  /\ context' = [context EXCEPT ![t] = "none"]
  /\ EnterSchedule(t, "code")
  /\ UNCHANGED <<unwind, curr>>

\* ... or SystemExit, or any exception under abort_on_exception, is raised in
\* the main thread.  The saved errinfo of t decides what a join would see.
EndDelegating(t) ==
  /\ ThreadEnds(t)
  /\ ~Silent(t)
  /\ unwind[t] = "exit" \/ "abort" \in Ops
  /\ \E r \in BOOLEAN : raised' = [raised EXCEPT ![t] = r]
  /\ status' = [status EXCEPT ![t] = "KILLED", ![Main] = Readied(Main)]
  /\ waitFor' = [waitFor EXCEPT ![t] = {}, ![Main] = {}]
  /\ Throw(Main, "exit")
  /\ context' = [context EXCEPT ![t] = "none", ![Main] = "obsolete"]
  /\ curr' = Main
  /\ UNCHANGED <<priority, pending, phase>>

\* The main program ends, in whatever way: ruby_cleanup kills every thread...
ruby_cleanup(t) ==
  /\ InCode(t)
  /\ t = Main
  /\ Cleanup({})
  /\ unwind' = [unwind EXCEPT ![t] = "none"]
  /\ at' = [at EXCEPT ![t] = "exit"]
  /\ UNCHANGED <<listVars, join, delay, fds, terminating, raised, last, context,
                 curr, critical, pending, phase, envVars>>

\* Mutant: the main thread counts itself among the others.
OthersBusyAll(t) == \E u \in Live : status[u] # "STOPPED"

OthersBusy(t) == \E u \in Live \ {t} : status[u] # "STOPPED"

\* ... and waits for the ones that are not stopped, unless it is interrupted.
rb_thread_wait_other_threads(t) ==
  /\ phase = "run" /\ curr = t /\ at[t] = "exit"
  /\ \/ /\ unwind[t] # "none" \/ ~OthersBusy(t)
        /\ phase' = "exited"
        /\ UNCHANGED <<pending, at>>
     \/ /\ unwind[t] = "none" /\ OthersBusy(t)
        /\ EnterSchedule(t, "exit")
  /\ UNCHANGED <<listVars, status, waitVars, flagVars, unwind, last, context,
                 curr, critical, envVars>>

-----------------------------------------------------------------------------
(* Operations that stop the calling thread.                                *)

\* The caller stops, waiting for the conditions in w, and schedules.
Sleep(t, w, point) ==
  /\ status' = [status EXCEPT ![t] = "STOPPED"]
  /\ waitFor' = [waitFor EXCEPT ![t] = w]
  /\ EnterSchedule(t, point)
  /\ UNCHANGED <<listVars, flagVars, unwind, context, curr, envVars>>

\* Thread.stop; wait_for is left as it is, which is empty.
rb_thread_stop(t) ==
  /\ Calls(t, "stop")
  /\ critical' = FALSE
  /\ \/ /\ Alone
        /\ unwind' = [unwind EXCEPT ![t] = "error"]
        /\ UNCHANGED <<listVars, status, waitVars, flagVars, at, last, context,
                       curr, pending, phase, envVars>>
     \/ /\ ~Alone
        /\ last' = [last EXCEPT ![t] = Readied(t)]
        /\ Sleep(t, waitFor[t], "stop")
        /\ UNCHANGED <<join, delay, fds>>

\* The rest of rb_thread_stop and of rb_thread_join.
AfterStop(t) ==
  /\ phase = "run" /\ curr = t /\ at[t] \in {"stop", "join"}
  /\ status' = [status EXCEPT ![t] = last[t]]
  /\ at' = [at EXCEPT ![t] = "code"]
  /\ unwind' = [unwind EXCEPT ![t] =
                  IF /\ at[t] = "join"
                     /\ status[join[t]] = "KILLED"
                     /\ raised[join[t]]
                  THEN "error" ELSE @]
  /\ UNCHANGED <<listVars, waitVars, flagVars, last, context, curr, critical,
                 pending, phase, envVars>>

\* Mutants: no check for a mutual join; a deadline past DELAY_INFTY.
MutualNever(t, u) == FALSE
DeadlineSum(d) == now + d

\* u waits for t already.
Mutual(t, u) == "join" \in waitFor[u] /\ join[u] = t

\* timeofday() + limit, in doubles: DELAY_INFTY absorbs the time of day.
Deadline(d) == IF d = INFTY THEN INFTY ELSE now + d

\* rb_thread_join of u outside a critical section; d is a limit or INFTY.
rb_thread_join(t, u, d) ==
  /\ Calls(t, "join")
  /\ ~critical
  /\ status[u] # Unborn
  /\ d > 0
  /\ \/ /\ \/ status[u] = "KILLED" /\ raised[u]
           \/ u = t
           \/ status[u] # "KILLED" /\ Mutual(t, u)
        /\ Fails(t)
     \/ /\ u \in Live \ {t}
        /\ ~Mutual(t, u)
        /\ last' = [last EXCEPT ![t] = Readied(t)]
        /\ join' = [join EXCEPT ![t] = u]
        /\ delay' = [delay EXCEPT ![t] = Deadline(d)]
        /\ Sleep(t, IF d = INFTY THEN {"join"} ELSE {"join", "time"}, "join")
        /\ UNCHANGED <<fds, critical>>

\* rb_thread_join in a critical section: rb_thread_deadlock, which goes to the
\* main thread as it is and does not save the caller's context.
rb_thread_join_critical(t) ==
  /\ Calls(t, "join")
  /\ critical
  /\ Throw(Main, "deadlock")
  /\ Transfer({}, Main)
  /\ UNCHANGED <<listVars, status, waitVars, flagVars, last, critical, pending,
                 envVars>>

\* rb_thread_wait_for, rb_thread_wait_fd, rb_thread_fd_writable and
\* rb_thread_select call select(2) or return when they may not switch threads.
MaySwitch(t) == ~critical /\ ~Alone /\ status[t] # "TO_KILL"

rb_thread_wait_for(t, d) ==
  /\ Calls(t, "sleep")
  /\ MaySwitch(t)
  /\ delay' = [delay EXCEPT ![t] = now + d]
  /\ Sleep(t, {"time"}, "code")
  /\ UNCHANGED <<join, fds, last, critical>>

rb_thread_wait_fd(t, f) ==
  /\ Calls(t, "wait_fd")
  /\ MaySwitch(t)
  /\ fds' = [fds EXCEPT ![t] = {f}]
  /\ Sleep(t, {"fd"}, "code")
  /\ UNCHANGED <<join, delay, last, critical>>

\* Also rb_thread_fd_writable, which waits for one event without a limit.
rb_thread_select(t, fs, d) ==
  /\ Calls(t, "select")
  /\ MaySwitch(t)
  /\ fds' = [fds EXCEPT ![t] = fs]
  /\ delay' = [delay EXCEPT ![t] = IF d = INFTY THEN @ ELSE now + d]
  /\ Sleep(t, IF d = INFTY THEN {"select"} ELSE {"select", "time"}, "code")
  /\ UNCHANGED <<join, last, critical>>

\* rb_thread_polling does not look at critical, nor at its own status.
rb_thread_polling(t) ==
  /\ Calls(t, "polling")
  /\ ~Alone
  /\ delay' = [delay EXCEPT ![t] = now + 1]
  /\ Sleep(t, {"time"}, "code")
  /\ UNCHANGED <<join, fds, last, critical>>

rb_thread_sleep_forever(t) ==
  /\ Calls(t, "sleep_forever")
  /\ \/ /\ Alone \/ status[t] = "TO_KILL"
        /\ phase' = "pause"
        /\ UNCHANGED <<listVars, status, waitVars, flagVars, stackVars, curr,
                       critical, pending, envVars>>
     \/ /\ ~Alone /\ status[t] # "TO_KILL"
        /\ delay' = [delay EXCEPT ![t] = INFTY]
        /\ Sleep(t, {"time"}, "code")
        /\ UNCHANGED <<join, fds, last, critical>>

-----------------------------------------------------------------------------
(* Operations on other threads.                                            *)

\* Mutant: the caller goes on.
YieldNever(t, may) == UNCHANGED <<phase, pending, at>>

\* The caller schedules, or goes on where it may not.
Yield(t, may) == IF may THEN EnterSchedule(t, "code")
                 ELSE UNCHANGED <<phase, pending, at>>

\* Thread#wakeup, and Thread#run, which schedules outside critical sections.
Wake(t, u, may) ==
  \/ status[u] = "KILLED" /\ Fails(t)
  \/ /\ u \in Live
     /\ status' = [status EXCEPT ![u] = Readied(u)]
     /\ waitFor' = [waitFor EXCEPT ![u] = {}]
     /\ Yield(t, may)
     /\ UNCHANGED <<listVars, join, delay, fds, flagVars, unwind, last, context,
                    curr, critical, envVars>>

rb_thread_wakeup(t, u) == Calls(t, "wakeup") /\ Wake(t, u, FALSE)

rb_thread_run(t, u) == Calls(t, "run") /\ Wake(t, u, ~critical)

\* Thread#kill and Thread.exit; a thread killed already is left alone.
rb_thread_kill(t, u) ==
  /\ Calls(t, "kill")
  /\ status[u] \in {"RUNNABLE", "STOPPED"}
  /\ \/ /\ u = Main
        /\ unwind' = [unwind EXCEPT ![t] = "exit"]
        /\ UNCHANGED <<status, waitFor, phase, pending, at>>
     \/ /\ u # Main
        /\ status' = [status EXCEPT ![u] = "TO_KILL"]
        /\ waitFor' = [waitFor EXCEPT ![u] = {}]
        /\ Yield(t, ~critical)
        /\ UNCHANGED unwind
  /\ UNCHANGED <<listVars, join, delay, fds, flagVars, last, context, curr,
                 critical, envVars>>

\* Thread#raise switches to the thread at once, critical or not.
rb_thread_raise(t, u) ==
  /\ Calls(t, "raise")
  /\ u \in Live \ {t}
  /\ status' = [status EXCEPT ![u] = Readied(u)]
  /\ waitFor' = [waitFor EXCEPT ![u] = {}]
  /\ Throw(u, "error")
  /\ Transfer({t}, u)
  /\ UNCHANGED <<listVars, join, delay, fds, flagVars, last, critical, pending,
                 envVars>>

rb_thread_pass(t) ==
  /\ Calls(t, "pass")
  /\ EnterSchedule(t, "code")
  /\ UNCHANGED <<listVars, status, waitVars, flagVars, unwind, last, context,
                 curr, critical, envVars>>

\* Thread#priority= schedules even in a critical section.
rb_thread_priority_set(t, u, p) ==
  /\ Calls(t, "priority")
  /\ status[u] # Unborn
  /\ priority' = [priority EXCEPT ![u] = p]
  /\ EnterSchedule(t, "code")
  /\ UNCHANGED <<listVars, status, waitVars, terminating, raised, unwind, last,
                 context, curr, critical, envVars>>

rb_thread_critical_set(t, v) ==
  /\ Calls(t, "critical")
  /\ critical' = v
  /\ UNCHANGED <<listVars, status, waitVars, flagVars, stackVars, curr, pending,
                 phase, envVars>>

-----------------------------------------------------------------------------
(* The program's own control flow, and preemption.                         *)

rb_f_raise(t, e) ==
  /\ Calls(t, e)
  /\ unwind' = [unwind EXCEPT ![t] = e]
  /\ UNCHANGED <<listVars, status, waitVars, flagVars, at, last, context, curr,
                 critical, pending, phase, envVars>>

\* A rescue clause; TAG_FATAL cannot be rescued.
Rescue(t) ==
  /\ Calls(t, "rescue")
  /\ unwind[t] \in {"error", "exit", "deadlock"}
  /\ unwind' = [unwind EXCEPT ![t] = "none"]
  /\ UNCHANGED <<listVars, status, waitVars, flagVars, at, last, context, curr,
                 critical, pending, phase, envVars>>

\* SIGVTALRM every 10ms of processor time.
catch_timer ==
  /\ phase = "run"
  /\ ~critical
  /\ ~pending
  /\ pending' = TRUE
  /\ UNCHANGED <<listVars, status, waitVars, flagVars, stackVars, curr, critical,
                 phase, envVars>>

CHECK_INTS(t) ==
  /\ InCode(t)
  /\ pending /\ ~critical
  /\ EnterSchedule(t, "code")
  /\ UNCHANGED <<listVars, status, waitVars, flagVars, unwind, last, context,
                 curr, critical, envVars>>

-----------------------------------------------------------------------------
(* rb_thread_schedule.                                                     *)

\* Mutant: the walks always start from the main thread.
StartMain == Main

\* The thread the walks over the list start from: curr, or the thread before
\* it when it has just ended.
Start == IF status[curr] = "KILLED" THEN prev[curr] ELSE curr

Stopped(t) == status[t] = "STOPPED"

\* Mutant: the end of the joined thread is not noticed.
JoinDoneNever(t) == FALSE

JoinDone(t) == /\ Stopped(t)
               /\ "join" \in waitFor[t]
               /\ status[join[t]] = "KILLED"

Expired(t) == Stopped(t) /\ "time" \in waitFor[t] /\ delay[t] <= now

FdWaiting(t) == t \in Live /\ waitFor[t] \cap {"fd", "select"} # {}

NeedSelect == \E t \in Threads : /\ Stopped(t)
                                 /\ \/ FdWaiting(t)
                                    \/ "time" \in waitFor[t] /\ delay[t] > now

\* What select(2) reports, and what of it the threads before t leave for t.
Selected == ready \cap UNION {fds[t] : t \in {u \in Threads : Stopped(u) /\ FdWaiting(u)}}

\* Mutant: the event is not cleared once a thread has been woken for it.
LeftAll(t) == Selected

Left(t) ==
  Selected \ UNION {fds[u] : u \in {v \in Threads : FdWaiting(v) /\ Before(Start, v, t)}}

FdWoken(t) == FdWaiting(t) /\ fds[t] \cap Left(t) # {}

\* select(2) reported nothing, and the limit of t's own select has passed.
SelectExpired(t) ==
  /\ Selected = {}
  /\ {"select", "time"} \subseteq waitFor[t]
  /\ delay[t] <= now
  /\ \E u \in Threads : Stopped(u) /\ {"select", "time"} \subseteq waitFor[u]

Woken(t) == JoinDone(t) \/ Expired(t) \/ FdWoken(t) \/ SelectExpired(t)

\* status and wait_for after the two walks and the select.
StatusNow(t) == IF Woken(t) THEN "RUNNABLE" ELSE status[t]
WaitNow(t) == IF FdWoken(t) \/ SelectExpired(t) THEN {} ELSE waitFor[t]

\* wait_for of u when t gets the processor.
WaitAfter(t, u) == IF u = t THEN {} ELSE WaitNow(u)

\* The first thread to be killed, or else the first of the highest priority.
Chosen(t) ==
  \/ /\ StatusNow(t) = "TO_KILL"
     /\ \A u \in Threads : StatusNow(u) = "TO_KILL" => u = t \/ Before(Start, t, u)
  \/ /\ StatusNow(t) = "RUNNABLE" /\ context[t] # "none"
     /\ \A u \in Threads :
          /\ StatusNow(u) # "TO_KILL"
          /\ StatusNow(u) = "RUNNABLE" /\ context[u] # "none" /\ u # t
             => \/ priority[u] < priority[t]
                \/ priority[u] = priority[t] /\ Before(Start, t, u)

\* The early return: the only thread goes on.
ScheduleAlone ==
  /\ phase = "sched"
  /\ Alone /\ status[curr] = "RUNNABLE"
  /\ phase' = "run"
  /\ UNCHANGED <<listVars, status, waitVars, flagVars, stackVars, curr, critical,
                 pending, envVars>>

\* The context switch; the first time a killed thread is given the processor
\* it is unwound with TAG_FATAL.
ScheduleTo(t) ==
  /\ phase = "sched"
  /\ ~(Alone /\ status[curr] = "RUNNABLE")
  /\ Chosen(t)
  /\ status' = [u \in Threads |-> StatusNow(u)]
  /\ waitFor' = [u \in Threads |-> WaitAfter(t, u)]
  /\ Transfer({curr} \cap Live, t)
  /\ \/ /\ StatusNow(t) = "TO_KILL" /\ ~terminating[t]
        /\ terminating' = [terminating EXCEPT ![t] = TRUE]
        /\ Throw(t, "kill")
     \/ /\ StatusNow(t) # "TO_KILL" \/ terminating[t]
        /\ UNCHANGED <<terminating, unwind, at>>
  /\ UNCHANGED <<listVars, join, delay, fds, priority, raised, last, critical,
                 pending, envVars>>

\* Nothing can run and nothing is waited for: a fatal error is raised in the
\* main thread.  The context of curr is saved, even when curr has ended.
ScheduleDeadlock ==
  /\ phase = "sched"
  /\ ~(Alone /\ status[curr] = "RUNNABLE")
  /\ ~NeedSelect
  /\ \A t \in Threads : ~Chosen(t)
  /\ status' = [t \in Threads |-> IF t = Main THEN "TO_KILL" ELSE StatusNow(t)]
  /\ waitFor' = [t \in Threads |-> WaitAfter(Main, t)]
  /\ raised' = [raised EXCEPT ![curr] = FALSE]
  /\ Throw(Main, "deadlock")
  /\ Transfer({curr}, Main)
  /\ UNCHANGED <<listVars, join, delay, fds, priority, terminating, last,
                 critical, pending, envVars>>

-----------------------------------------------------------------------------
(* The environment: time passes, descriptors become ready or are drained.  *)

Tick ==
  /\ now < MaxTime
  /\ now' = now + 1
  /\ UNCHANGED <<listVars, status, waitVars, flagVars, stackVars, curr, critical,
                 pending, phase, ready>>

Ready(fs) ==
  /\ ready' = fs
  /\ UNCHANGED <<listVars, status, waitVars, flagVars, stackVars, curr, critical,
                 pending, phase, now>>

-----------------------------------------------------------------------------
Ends(t) == EndQuietly(t) \/ EndFatally(t) \/ EndDelegating(t)

Waits(t) ==
  \/ rb_thread_stop(t)
  \/ \E u \in Threads, d \in Limits \cup {INFTY} : rb_thread_join(t, u, d)
  \/ rb_thread_join_critical(t)
  \/ \E d \in Limits : rb_thread_wait_for(t, d)
  \/ \E f \in Fds : rb_thread_wait_fd(t, f)
  \/ \E fs \in (SUBSET Fds) \ {{}}, d \in Limits \cup {INFTY} : rb_thread_select(t, fs, d)
  \/ rb_thread_polling(t)
  \/ rb_thread_sleep_forever(t)

Acts(t) ==
  \/ \E u \in Threads : \/ rb_thread_start_0(t, u)
                        \/ rb_thread_wakeup(t, u)
                        \/ rb_thread_run(t, u)
                        \/ rb_thread_kill(t, u)
                        \/ rb_thread_raise(t, u)
  \/ \E u \in Threads, p \in Priorities : rb_thread_priority_set(t, u, p)
  \/ rb_thread_pass(t)
  \/ \E v \in BOOLEAN : rb_thread_critical_set(t, v)
  \/ \E e \in {"error", "exit"} : rb_f_raise(t, e)
  \/ Rescue(t)

\* What the interpreter does without the program asking for it.
Runs(t) ==
  \/ AfterStop(t)
  \/ rb_thread_wait_other_threads(t)
  \/ CHECK_INTS(t)
  \/ ScheduleTo(t)

Next ==
  \/ \E t \in Threads : Ends(t) \/ Waits(t) \/ Acts(t) \/ Runs(t) \/ ruby_cleanup(t)
  \/ ScheduleAlone
  \/ ScheduleDeadlock
  \/ catch_timer
  \/ Tick
  \/ \E fs \in SUBSET Fds : Ready(fs)

Spec == Init /\ [][Next]_vars

-----------------------------------------------------------------------------
(* Properties.                                                             *)

WaitKinds == {{}, {"fd"}, {"select"}, {"select", "time"}, {"time"}, {"join"},
           {"join", "time"}}

\* Every field holds a value of its C type that the code really stores: a
\* wait_for combination some call sets, a deadline no later than DELAY_INFTY.
TypeOK ==
  /\ next \in [Threads -> Threads]
  /\ prev \in [Threads -> Threads]
  /\ status \in [Threads -> {Unborn, "TO_KILL", "RUNNABLE", "STOPPED", "KILLED"}]
  /\ waitFor \in [Threads -> WaitKinds]
  /\ join \in [Threads -> Threads]
  /\ delay \in [Threads -> 0..INFTY]
  /\ fds \in [Threads -> SUBSET Fds]
  /\ priority \in [Threads -> Nat]
  /\ terminating \in [Threads -> BOOLEAN]
  /\ raised \in [Threads -> BOOLEAN]
  /\ unwind \in [Threads -> {"none", "error", "exit", "kill", "deadlock"}]
  /\ at \in [Threads -> {"code", "stop", "join", "exit"}]
  /\ last \in [Threads -> {"RUNNABLE", "TO_KILL"}]
  /\ context \in [Threads -> {"none", "latest", "obsolete"}]
  /\ curr \in Threads
  /\ critical \in BOOLEAN
  /\ pending \in BOOLEAN
  /\ phase \in {"run", "sched", "pause", "exited"}
  /\ now \in 0..MaxTime
  /\ ready \in SUBSET Fds

\* The links of the live threads are inverse to each other and stay among the
\* live threads; a thread linked to itself is alone, as rb_thread_alone takes
\* for granted; the main thread never leaves the list; and the walk of
\* rb_thread_schedule starts at a live thread even when curr has just ended.
ListOK ==
  /\ Main \in Live
  /\ \A t \in Live : /\ next[t] \in Live /\ prev[next[t]] = t
                     /\ prev[t] \in Live /\ next[prev[t]] = t
                     /\ next[t] = t => Live = {t}
  /\ Start \in Live

\* The links make one ring of all the live threads: among the sets of live
\* threads only the whole is closed under next, so FOREACH_THREAD from any of
\* them reaches every live thread and no other, and neither insertion nor
\* removal ever cuts a thread off from the scheduler.
RingWhole ==
  \A S \in (SUBSET Live) \ {{}} : (\A t \in S : next[t] \in S) <=> S = Live

\* The thread that executes is alive, is not stopped and waits for nothing, so
\* no wake-up is spent on it and nobody takes it for a thread in a join.
RunnerAwake ==
  phase \in {"run", "pause"} => /\ curr \in Live
                                /\ status[curr] # "STOPPED"
                                /\ waitFor[curr] = {}

\* The saved context of every live thread that is not executing is its latest
\* point of execution: a switch to it never repeats what it has done
\* (ChangeLog 7406: saved context for current thread might be obsolete).
ContextFresh == \A t \in Live \ {curr} : context[t] = "latest"

\* A thread that has been unwound with TAG_FATAL stays THREAD_TO_KILL until it
\* ends, or gets that status back from rb_thread_stop or rb_thread_join
\* (ChangeLog 3236: THREAD_TO_KILL threads should not turn into
\* THREAD_RUNNABLE on wakeup; 9332: should preserve last thread status).
KillSticks ==
  \A t \in Live \ {Main} : terminating[t] =>
     status[t] = "TO_KILL" \/ (at[t] \in {"stop", "join"} /\ last[t] = "TO_KILL")

\* A killed thread executes ensure clauses only: it is never given the
\* processor without being unwound.
KilledStops ==
  phase = "run" /\ curr # Main /\ status[curr] = "TO_KILL" => terminating[curr]

\* Nothing else is ever given the processor, in particular after wakeup and kill.
RunnerSound == RunnerAwake /\ KilledStops

\* Thread#join never lets two threads wait for each other.
NoMutualJoin ==
  \A t, u \in Live : ~ /\ Stopped(t) /\ "join" \in waitFor[t] /\ join[t] = u
                       /\ Stopped(u) /\ "join" \in waitFor[u] /\ join[u] = t

\* The scheduler reports a deadlock only when every live thread is inside
\* Thread.stop or an unlimited Thread#join of a live thread: no thread that
\* sleeps or waits for a descriptor is taken for deadlocked (ChangeLog 7601).
DeadlockHonest ==
  [][phase = "sched" /\ unwind'[Main] = "deadlock" /\ unwind[Main] # "deadlock" =>
       \A t \in Live : \/ at[t] = "stop"
                       \/ /\ at[t] = "join" /\ join[t] \in Live
                          /\ "time" \notin waitFor[t]]_vars

\* A pass of the scheduler wakes at most one thread for each descriptor event,
\* as the comment in rb_thread_schedule says: of the threads for which f is the
\* only ready event, one at most becomes runnable.
OnePerFd ==
  [][phase = "sched" =>
       \A f \in Fds :
         Cardinality({t \in Live : /\ Stopped(t) /\ FdWaiting(t)
                                   /\ "time" \notin waitFor[t]
                                   /\ fds[t] \cap ready = {f}
                                   /\ status'[t] = "RUNNABLE"}) <= 1]_vars

-----------------------------------------------------------------------------
(* Liveness.  The timer is periodic and the interpreter calls CHECK_INTS in *)
(* every loop and call, so both are weakly fair, as is the C code between   *)
(* two of them; nothing is assumed of what the program itself does.         *)

Fairness == /\ WF_vars(catch_timer)
            /\ WF_vars(\E t \in Threads : Runs(t))
            /\ WF_vars(ScheduleAlone)
            /\ WF_vars(ScheduleDeadlock)

FairSpec == Spec /\ Fairness

\* A program whose threads do not loop for ever: one that gets the processor
\* again and again ends at last.
FiniteSpec == FairSpec /\ \A t \in Threads : SF_vars(Ends(t))

Over == phase \in {"exited", "pause"}

\* Among threads of one priority the scheduler is a round robin: a runnable
\* thread gets the processor, whatever the others do, unless a thread is being
\* killed (those have precedence) or the interpreter exits.
NoStarvation ==
  \A t \in Threads : status[t] = "RUNNABLE" ~>
    \/ curr = t \/ status[t] # "RUNNABLE" \/ Over
    \/ \E u \in Threads : status[u] = "TO_KILL"

\* A killed thread is unwound with TAG_FATAL, even while other killed threads
\* execute ensure clauses that do not end.
KillDelivered ==
  \A t \in Threads \ {Main} : status[t] = "TO_KILL" ~>
                                terminating[t] \/ status[t] = "KILLED" \/ Over

\* The interpreter exits once the main program has ended: the threads that
\* end are waited for, and threads that stop in an ensure clause are not.  A
\* reported deadlock is excepted: it leaves the main thread THREAD_TO_KILL.
ExitEnds == at[Main] = "exit" /\ status[Main] = "RUNNABLE" ~> Over

\* The two together: whoever is to run, or to be unwound, gets the processor.
ThreadsServed == NoStarvation /\ KillDelivered
=============================================================================
