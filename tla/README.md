# The Ruby interpreter of 2002: a TLA+ verification project

The repository is the CVS tree of the Ruby interpreter around the end of 2002
(version 1.7), with the Rubicon tests, Oniguruma, eruby and mod_ruby beside it.
This project models what in that tree keeps state that is hard to get right:
the green threads of `ruby/eval.c` and the synchronisation classes that
`ruby/lib` builds on them, and those parts of the interpreter whose state is
changed by callbacks, signals, other threads, other processes or by their own
special cases while an operation is half done.

## 1. Inventory

| Component | State | Operations | What is hard |
|---|---|---|---|
| Green-thread scheduler (`eval.c`, `rubysig.h`) | circular list of `struct thread` (`next`, `prev`, `status`, `wait_for`, `join`, `delay`, descriptors, `priority`, flags, saved stack), `curr_thread`, `rb_thread_critical`, `rb_thread_pending` | Thread.new, stop, pass, join, sleep, wakeup, run, kill, raise, priority=, critical=, waits for descriptors, preemption, exit | ordering of creation, end, kill and raise; stale contexts; pending kills; deadlock detection; starvation |
| Mutex, ConditionVariable (`lib/thread.rb`) | `@locked`, `@waiting`, `@waiters` | try_lock, lock, unlock, synchronize, wait, signal, broadcast | late wake-ups, stale list entries, killed threads |
| Queue, SizedQueue (`lib/thread.rb`) | `@que`, `@waiting`, `@max`, `@queue_wait` | push, pop, clear, max= | the same, and two critical sections in one call |
| Mutex_m (`lib/mutex_m.rb`) | `@mu_locked`, `@mu_waiting` | mu_lock, mu_try_lock, mu_unlock, mu_synchronize | ensure clauses of killed threads |
| Monitor (`lib/monitor.rb`) | owner, count, entering and waiting queues, waiters | mon_enter, mon_exit, wait with timeout, signal, broadcast | a timeout races a signal and a hand-over |
| Sync_m (`lib/sync.rb`) | mode, lockers with counts, upgrade queue | lock, try_lock, unlock in two modes | upgrades, nesting of both modes |
| PStore (`lib/pstore.rb`) | file, backup, table, lock | transaction, commit, abort | crashes and failures between copy, write and close; several processes |
| Signals and traps (`signal.c`, `rubysig.h`) | `trap_list`, `trap_pending_list`, `rb_trap_pending`, `rb_trap_immediate`, masks | sighandler, rb_trap_exec, trap, system calls | a handler at any instruction; traps cross threads |
| Garbage collector (`gc.c`) | heaps, marks, mark stack, free list, finalizer table | rb_gc_mark, gc_mark_all, gc_sweep, finalizers, rb_newobj | mark stack overflow; finalizers that collect; pages given back |
| Hash tables (`st.c`, `hash.c`) | bins, chains, count, `iter_lev` | store, delete, shift, clear, rehash, each | changes during iterations |
| Arrays (`array.c`) | pointer, length, capacity or shared array | element and range assignment, push, pop, shift, replace, collect!, ... | buffers shared by arrays |
| Sorting (`util.c`) | region, groups, stack of regions | ruby_qsort | no bounds check but the comparison |
| Integers (`numeric.c`, `bignum.c`) | Fixnum, Bignum | arithmetic, bit operations, shifts, comparison | carries, estimates of quotient digits, change of representation |
| Marshal (`marshal.c`) | tables of symbols and objects | dump, load | both sides number objects independently |
| Loading (`eval.c`, `variable.c`) | `$"`, loading_tbl, autoload table | require, autoload | threads that require the same file, exceptions |
| Methods (`eval.c`, `class.c`) | method tables, chains of classes and iclasses, method cache | define, undef, remove, alias, visibility, include, calls | a cached entry that is stale |
| Global variables (`variable.c`) | entries, aliases, traces | trace_var, untrace_var, alias, assignment | tracers that change the list walked |
| END procedures (`eval.c`) | two lists | END, at_exit, exit | END in END |
| timeout, WeakRef, singletons, parser, evaluator, regular expressions, strings, input and output, extensions, platforms, tests, eruby, mod_ruby | | | not modelled, section 7 |

The scheduler is what the library classes run on: exactly one thread executes,
and it gives up the processor in `rb_thread_schedule`, which it enters by calling
a blocking operation, or because the interval timer (`catch_timer`) has set
`rb_thread_pending` and the interpreter passes a `CHECK_INTS`.  Ruby code excludes
preemption with `Thread.critical = true`, and `Thread.stop` ends such a section
and sleeps in one step.  The classes in `lib/` are written in terms of
`critical`, `stop`, `wakeup` and `run` and nothing else; PStore meets other
processes only through the file and its lock.  Signals enter through
`CHECK_INTS` as well and run their traps on the main thread.  The collector, the
hash tables, the method cache and the other C components call back into Ruby code
(finalizers, blocks, tracers, END procedures, files being loaded), and that code
may call the same component again: this is where their interleavings come from.

## 2. Modules

| Module | Models | Variables and the code they stand for |
|---|---|---|
| `ThreadSched` | the scheduler | one function per field of `struct thread`, and the globals.  `context` abstracts the saved stack: *none* (`stk_ptr` is 0), *latest* (saved since the thread last ran), *obsolete* (it has run since).  `unwind` is the exception the stack is unwound with, `at` the code after the call of `rb_thread_schedule`, `last` the local `last_status`. |
| `ThreadMutex` | Mutex, ConditionVariable | the instance variables, a program counter per thread, `sleeping` (inside `Thread.stop`), `todo` (the local `t` or `waiters0`), `holds` (what callers believe) |
| `ThreadQueue` | Queue, SizedQueue | the same, with the length of `@que` and `crit`, the thread that left `Thread.critical` true |
| `MutexM` | Mutex_m | the same for `@mu_locked` and `@mu_waiting` |
| `LockHolders`, `LibraryCalls`, `MutexWaits` | what these promise | the variables and constants that the classes share, mutual exclusion, and that no wake-up of Mutex or Mutex_m is lost |
| `Monitor`, `MonitorState` | MonitorMixin, and what it promises | owner, count, both queues, the waiters, `timer` (a live timeout thread), `depth` (nesting the caller believes in) |
| `Sync`, `SyncState` | Sync_m, and what it promises | mode, lockers and counts, both queues, `held` (the modes asked for) |
| `PStore` | transactions of processes | names and inodes of file and backup, contents, descriptors, locks, tables.  `TxStore` is the atomic store it implements. |
| `Signals`, `SignalState` | signals and traps, and what they promise | the globals of `signal.c`, the kernel's mask and kept signals, a stack of frames per thread |
| `GcMark` | the mark phase | marks, mark stack, overflow flag; the machine stack is a number of levels of recursion that are left |
| `Collector` | pages, sweep, finalizers | the pages and slots, free list, the locals of the sweep that goes over the slots (`sweep`, `final_list`), the final list of each nested sweep (`sweeps`) |
| `HashTable` | hash tables | bins of chains, count, iterators with the entry they stand on.  `HashMap` is the map it implements. |
| `RubyArray` | arrays and their buffers | a heap of buffers; `ArrayValues` says what each operation does to the values, without buffers |
| `QuickSort` | ruby_qsort | the local variables and labels |
| `RubyInteger` | Fixnum, Bignum | sign, digits in base 2^BITSPERDIG; `exact` is the number meant |
| `Marshal`, `MarshalNumbers` | dump and load | graphs, token streams, the tables of both sides; encodings of integers |
| `Loading`, `LoadState` | require, autoload, and what they promise | `rb_features`, `loading_tbl`, a stack of files per thread |
| `MethodTables`, `MethodCache` | methods | chains, tables, cache slots; `MethodTables` has the search and what the cache promises of it, `MethodCache` the operations |
| `GlobalVars`, `GvarState` | global variables, and what is promised of them | entries, traces, the walks of `trace_ev`.  A list of traces has its latest first and traces are numbered as they are allocated, so a list is the set of its members. |
| `EndProcs` | END, at_exit | the two lists and the loop of `rb_exec_end_proc` |
| `ThreadSchedProofs`, `ThreadMutexProofs`, `LibraryProofs`, `MonitorProofs`, `GcProofs`, `SortProofs`, `StorageProofs`, `InterpreterProofs` | | theorems and their proofs; `LibraryProofs` is about `ThreadQueue` and `MutexM`, `MonitorProofs` about `Monitor` and `Sync`, `GcProofs` about `GcMark` and `Collector`, `StorageProofs` about `PStore` and `RubyArray`, `InterpreterProofs` about `Loading`, `Signals`, `EndProcs`, `GlobalVars` and `MethodCache` |
| `MCThreadSched`, `MCHashTable` | | one component for TLC |
| `MCThreadLib`, `MCProgress`, `MCStorage`, `MCInterpreter` | | several components for TLC |

The last four put components that share no state into one specification: the
variable `object`, chosen in the initial state, says which component the behaviour
exercises; the variables of the others have a fixed value, mostly `Unused`.  The
states are the disjoint union of the components' states, so nothing is gained or
lost by checking them together.  A property of component C is stated as
`object = "C" => C!P`, unless a theorem is about it: then the MC module EXTENDS the
module that states it and TLC checks the very definition that is proved.  Those are
`Exclusion`, `MutexWakes`, `QueueWakes`, `BoundKept`, `MonitorOwned`, `MonitorWakes`
and `SyncSound` in `MCThreadLib`, `RequireSound`, `NotedSignalSeen`,
`ImmediateInSystemCall`, `EndProcsRunOnce`, `GvarSound` and `MethodsCurrent` in
`MCInterpreter`, `GrayAccounted`, `NothingReachableSwept`, `SortSound` and `SortEnds`
in `MCProgress`, and every property of `MCStorage`.  In the behaviours of other components the variables of these keep values, mostly those of
Init, in which the property says nothing.  `MonitorState`, `SyncState`,
`SignalState`, `LoadState`, `GvarState` and `MethodTables` exist for this: they hold a
component's variables and what it promises, and the component's own module EXTENDS them with the actions.

### 2.1 ThreadSched

One action per function of `eval.c`.  The program is the most general one: the
running thread may call any operation named in the constant `Ops`, raise,
rescue, or end, at any point.  A thread that is being unwound by a kill
(`unwind[t] = "kill"`) executes ensure clauses, so it may call operations too.

`rb_thread_schedule` is split where the code can be observed: entering it
(`EnterSchedule`, phase *sched*), and its outcome (`ScheduleAlone`,
`ScheduleTo(t)`, `ScheduleDeadlock`).  The walk over the list, the `select(2)`
and the second walk are the operators `Woken`, `StatusNow`, `WaitNow`; the
choice of the next thread is `Chosen`, in the order of `FOREACH_THREAD_FROM`
that `Before(Start, t, u)` computes by following `next`.  When nothing can run
and something is waited for, neither outcome is enabled: the process sleeps in
`select(2)` until `Tick` or `Ready` changes what it would return.  Spurious
passes (EINTR, `goto again`) are stuttering.

`rb_thread_stop` and `rb_thread_join` overwrite the caller's status and restore
it after the switch; the restoring is the action `AfterStop`, and a
`Thread#raise` that discards the frame skips it, as in C.
`Transfer` is the context switch: `rb_thread_save_context` of the thread that
leaves, where the code has it, and `rb_thread_restore_context`.

Left out of this module: `rb_thread_fd_close`, `ThreadGroup`, `$SAFE`, `fork`,
thread-local variables, and `select(2)` errors; signals are in `Signals`.

### 2.2 The library classes

Between `Thread.critical = true` and the `Thread.critical = false` or
`Thread.stop` that ends the section nothing else runs, so a section is one
step; everything outside one (`return unless @locked`, the `t.run` after a
section, `@waiters.shift` in `signal`, the loop of `max=`, the `w.run` of
`sync_unlock`) is a step of its own.  `Thread#wakeup` and `#run` of a dead thread
raise ThreadError; the `rescue ... retry` around them is `DropDead`.  A killed
thread executes the ensure clauses of the blocks it is in, and ends elsewhere.
`misfired` of Mutex records that a wake-up went to an entry whose thread was not
asleep in that list's call; `lost` of the queues that too, or that a wake-up died
with the thread that had it, or that `clear` made room without one.  Properties about wake-ups are stated up to that, since the code
does lose such wake-ups (section 6).  In `Monitor` the thread that
`wait(timeout)` creates is the element of `timer`; it may run the sleeper at any
moment until it is killed.

### 2.3 Callbacks

Where C code calls Ruby code, the call is a point at which any other action may
take place, with the C function's locals kept in a variable until it goes on:
the iterators of `HashTable`, the nested sweeps of `Collector` (`sweeps`), the
walks of `GlobalVars` (`running`), the loop of `EndProcs` (`link`), the stack of
files in `Loading`, the frames in `Signals`.  `RubyInteger`, `Marshal`,
`MarshalNumbers` and `RubyArray` have one step per operation; `QuickSort` has one
per label, `GcMark` one per object, and the sweep of `Collector` one per slot, one
at the end of each page, and one from the last page to the first finalizer.

### 2.4 Abstract specifications

| Detailed | Abstract | How |
|---|---|---|
| `HashTable` | `HashMap`, a function from keys to values | `MapSpec`: `INSTANCE HashMap` with the map of the entries in the bins; store, delete, shift and clear are its steps, growing, rehash and iteration stutter |
| `PStore` | `TxStore`, one table that transactions read and replace in one step | `StoreAtomic`: the table is what the name of the file, or of the backup if the file is broken, refers to, and what a process has read that rewrites the file behind a failed copy; the views are the tables that processes have read |
| `RubyArray` | `ArrayValues`, operations on sequences | part of `ArraySound`: an operation on one array has the value of `ArrayValues` and leaves every other one as it was, whatever they share |
| `RubyInteger` | TLA+'s integers | `ArithmeticExact`: the value of the digits is the integer, and its representation is the only one |
| `Marshal` | equality of graphs | `RoundTrip`: what is loaded is isomorphic to what was dumped |

## 3. Runs

| Run | Bounds | Shows |
|---|---|---|
| `sched_kill` | 3 threads; new, stop, pass, kill, run, wakeup, priority= | `RingWhole`: the list is one ring of the live threads. `ContextFresh`: no thread is resumed at an old point. `KillSticks`: a kill is not lost in a blocking call of an ensure clause. `RunnerSound`: what executes is neither asleep nor past its kill. |
| `sched_join` | 3 threads, clock 0..1, limit 1; join, stop, sleep, errors | `NoMutualJoin`; `DeadlockHonest`: a deadlock is reported only when nothing can go on |
| `sched_raise` | 2 threads, 1 descriptor event, limit 1; raise, kill, join, critical, exit, abort_on_exception, wait_fd, select, polling | `TypeOK`; `OnePerFd`: one event wakes one thread |
| `sched_fair` | 3 threads; new, stop, kill, pass, rescue; `FairSpec` | `ThreadsServed`: every runnable thread gets the processor and every killed one is unwound |
| `sched_exit` | 3 threads; new, stop, kill, wakeup; `FiniteSpec` | `ExitEnds`: the interpreter exits |
| `threadlib` | 3 threads for each class; lists of 3; maximum 1 or 2; monitor depth 2, Sync nesting 3; a mutex with 2 users of its condition variable and one killable thread; queues and monitors whose threads are all killable | `Exclusion` of Mutex and Mutex_m; `MutexWakes` (Mutex and Mutex_m), `QueueWakes` and `MonitorWakes`: who sleeps is listed and will be woken; `BoundKept`, `MonitorOwned`, and `SyncSound`: what a caller believes to hold it holds |
| `hash` | 3 keys of which two or all collide, 2 nested iterators, bins 1 and 3, density 1 | `TableSound`, `EachVisitsAll`: an entry that stays is visited once; `MapSpec` |
| `progress` | every graph of 4 objects with at most 2 references, mark stack of 1, recursion 0 or 1; all arrays up to 6 of 3 values and of 9 of 2, arrays compared inconsistently, thresholds for medians lowered to 5 and 9; 2 threads, 3 files | `GrayAccounted`: no marked object with unmarked children is forgotten; `NothingReachableSwept`, `SortSound`, and that marking, sorting and waiting for a file end (`MarkingEnded`, `SortEnds`, `RequireReturns`) |
| `storage` | pages of 2 slots, 3 pages, 11 operations; 2 arrays of up to 3 elements, 4 operations; 3 processes, 2 entries, 4 inodes | `HeapSound`, `FinalizersSound`, `ArraySound`, `SnapshotCurrent`, `StoreAtomic` |
| `interpreter` | 2 classes, 2 modules, 4 iclasses, 2 names, 4 changes; 2 loaders with 2 calls each; 2 signals on 2 threads; 3 global variables, 3 traces; 5 END procedures; digits of 3 bits, results of up to 3 digits; graphs of dumped objects with cycles, links, extensions, defaults and user-defined types | `MethodsCurrent`, `IncludeLocal`, `RequireSound`, `NotedSignalSeen`, `ImmediateInSystemCall`, `GvarSound`, `EndProcsRunOnce`, `ArithmeticExact`, `RoundTrip` |

Two runs end in a violation, each a disagreement between the code and what the
repository says of it (`findings` in `PROJECT.json` quotes the lines):

| Run | Property | What happens |
|---|---|---|
| `sized_critical` | `CriticalReleased` | `SizedQueue#pop` returns with `Thread.critical` true if the queue was filled again, or `max` lowered, between its two sections |
| `gc_page` | `NoSlotOfFreedPage` | the "freeing page mark" (gc.c 966) is set on the end of the page instead of on the slots of its final list, so the slots of a page given back get into the free list after their finalizers |

Bounds.  Two threads beside the main one are enough for the list (a predecessor,
a successor and the removed thread), for a mutual join with a bystander, and for a
killer, a victim and a thread that competes with both.  A clock of 0..1 has
limits that have passed, are passing and are to come (`INFTY` is beyond them
all).  Of the descriptors only "ready or not" matters to a waiting thread, so one
event shared by two threads is the contended case.  Three threads around a lock
are one holder, one sleeper and one with a stale entry, or two upgrades and an
exclusive locker.  `MaxWaiting` bounds the lists: a thread with stale entries may
occur in one several times.  Two iterators give a nested iteration whose outer
one stands on what the inner one deletes; growing needs one more entry than
bins.  A mark stack of one overflows at the second object, and four objects are
enough for an overflow during the scan that answers an overflow.  Nine elements
reach the median of nine after the thresholds are lowered; the threshold
constants are the only thing changed in `QuickSort`.  Digits of three bits reach
all corrections of a quotient digit.  Three processes are one that commits, one
that reads, and one that finds the remains of a crash.  Deadlock checking is off
where the most general program may really end (all threads dead, the process
exited, the array sorted) or where a bound stops it.

Fairness.  `FairSpec` of `ThreadSched` assumes that the interval timer fires again
and again, that the interpreter passes `CHECK_INTS` (it does in every loop and
call), and that C code between two observable points goes on: weak fairness of
`catch_timer`, of the interpreter's own steps (`Runs`), of `ScheduleAlone` and of
`ScheduleDeadlock`.  Nothing is assumed of the program: a thread may loop or stop
for ever.  `FiniteSpec` adds, for the exit of the interpreter only, that a thread
which gets the processor again and again ends.  `MCFairSpec` assumes that
sequential C code goes on (marking, sorting) and that a thread which loads or
waits for a file is scheduled again and again, as `ThreadsServed` shows, and that
a file's code ends.

## 4. Theorems

The proofs are for every value of the constants: any set of threads, files,
processes, objects, signals or limits.  They use the named assumptions that the
modules make of their constants, and TLC evaluates these on every run.  Where a
theorem needs more, its hypothesis is an operator named below, and section 6 says
what the code does without it.  Each theorem rests on an inductive invariant, which
is named with it; the runs check its last consequence on a small instance.

**Scheduler** (`ThreadSchedProofs`; `MainAssumption`, `FiniteAssumption`,
`NumberAssumption`, `LimitAssumption`).  There is one lemma per invariant and group
of actions (`Ends`, `Waits`, `Acts`, `Runs`).

| Theorem | Property | Hypothesis | Argument |
|---|---|---|---|
| `SchedulerTypes` | `TypeOK` | | DELAY_INFTY lies beyond every sum of a time and a limit |
| `ThreadListSound` | `ListOK`, `RingWhole` | | `ListInv` adds that the running thread is live (`CurrLive`: insertion and removal happen at a thread of the ring) and that a thread outside the list waits for nothing (`DeadIdle`: otherwise the time-out of `rb_thread_schedule`, which sets THREAD_RUNNABLE without looking at the status, would revive it). `RingWhole` says that no proper part of the live threads is closed under `next`; in this form insertion and removal need no induction along the list. |
| `RunnerIsAwake`, `ContextsFresh`, `JoinsNotMutual` | `RunnerAwake`, `ContextFresh`, `NoMutualJoin` | `Uncritical` | `SchedInv` = `ListInv`, `WakeInv`, `ContextInv` and `JoinInv` together: a stopped thread is at the call that stopped it, a joined thread was created, a thread without a context has always been alone, a thread to be killed waits for nothing |
| `KillsStick` | `KillSticks` | `KillKept` | `KillHeld`: a thread that was killed is THREAD_TO_KILL, or its status is in the `last_status` of a blocking call |
| `RunnerIsSound` | `RunnerSound` | `KillPrompt` | `last_status` holds THREAD_TO_KILL only for a thread that is being unwound |
| `OneThreadPerEvent` | `OnePerFd` | | the positions along `next` from the start of the walk are distinct, so of the threads that wait for a descriptor one comes first (`LeastIndex`, by well-foundedness of the natural numbers) |
| `DeadlocksHonest` | `DeadlockHonest` | `Uncritical` | a stopped thread has a saved context, so that `Chosen` is empty only if nobody can run |

`Uncritical`: the program does not use both `critical=` and `join`.  A join in a
critical section goes to the main thread through `rb_thread_deadlock` without
saving the caller's context.  `KillKept`: moreover no polling and no
`Thread#raise`; both lose THREAD_TO_KILL.  `KillPrompt`: neither `critical=` nor
`Thread#raise`; the first lets a killed thread run on, the second unwinds a thread
that was not killed.

**Mutex, ConditionVariable, queues, Mutex_m.**

| Theorem | Property | Hypothesis | Argument |
|---|---|---|---|
| `ThreadMutexProofs!MutexExcludes` | `Exclusion` | no user of the condition variable is killable | a holder is the only one, `@locked` is true then, and the program counters at which a thread believes to hold the mutex imply that it does |
| `ThreadMutexProofs!WakeupsKept` | `MutexWakes` | | `WaitInv`: who sleeps is in a call that sleeps (`Asleep`), and the threads about to be run have been taken from a list (`Running`); one lemma for each way in which an action changes the lists |
| `LibraryProofs!SizedQueueBound` | `BoundKept` | | from the types of the counters |
| `LibraryProofs!QueueWakeupsKept` | `QueueWakes` | | `QueueInv`, see below |
| `LibraryProofs!MutexMExcludes` | `Exclusion` | no user of `mu_synchronize` is killable | as for Mutex |
| `LibraryProofs!MuWakeupsKept` | `MutexWakes` | | `Listed`: while nobody has died, a sleeper is in `@mu_waiting` or about to be run; `Awaited`: the list is empty when the object is free |

`QueueInv` counts.  A consumer asleep is listed, or about to be run (`SleeperListed`).
While consumers are listed there are no more objects than consumers that are awake
(`ConsumerServed`, with `Takers`).  While a producer is listed that sleeps in `push`, the
room that is free is spoken for: `RoomPromised` says max <= length + |`Way`|, where `Way`
holds the producers that are awake, the threads between the two sections of
`SizedQueue#pop`, and one element for each iteration that is left to a thread in
`max=`.  Each step takes at most as many elements out of `Way` as it takes room away.
That the bound needs `lost` was found in this proof: a thread may be twice in
`@queue_wait`, and two threads in `max=` then take both entries and wake it once; a
thread killed between taking an entry and running it takes the wake-up with it; and
`clear` empties `@que` without waking a producer.

**Monitor** (`MonitorProofs`).  `MonitorTypes`, `MonitorsOwned` (`MonitorOwned`) and
`MonitorWakeupsKept` (`MonitorWakes`) follow from one invariant: the owner is a thread
inside (`Owner`), the count is its depth (`Counts`), sleepers are where they sleep
(`Asleep`), a live timer belongs to a sleeper (`Timers`), the queues list exactly
the sleepers, each once (`QueuesMatch`), and a free monitor with sleepers has been
handed to a thread that is awake (`HandedOver`).  The hypothesis `MonitorUse` allows
kills outside the monitor, inside, and in `wait`; a thread killed while it sleeps
in `mon_enter` leaves its entry in the queue.

**Sync_m** (`MonitorProofs`).  `SyncIsSound` (`SyncSound`; `SyncUse` says that the value
for nobody is not a thread and that the nesting is bounded by a number).  `SyncInv`
relates the lock to what callers believe: for each thread the modes it has asked
for, read from the outside in, are as many SH as it has shared locks, counting those
it gave up for an upgrade and will take back, and then EX if it has exclusive ones
(`SyncCounts`).  `SyncModes` says who may hold what in which mode, `SyncListed` and
`SyncAsleep` that sleepers are listed or about to be run, each once, and
`SyncHandedOver` that somebody awake will run them.

**Garbage collector** (`GcProofs`; `HeapAssumption`, `MarkStackAssumption`,
`PageAssumption`).
`UnfinishedRemembered` is `GrayAccounted`: a marked object with an unmarked child is
in the C recursion, on the mark stack, in the part of the heap still to be scanned,
or the overflow flag is set.  With it go `RootsMarked`, `Behind` (the
children an active call has passed are marked) and `Swept` (the sweep begins with
all of these places empty).  `ReachableKept`,
`NothingReachableSwept`, follows when the sweep begins: nothing is unfinished then,
so the marked objects are closed under references and contain what is reachable
from the roots.

`HeapIsSound` (`HeapSound`) and `FinalizersAreSound` (`FinalizersSound`) hold for any
page size, number of pages and FREE_MIN, at every step of the sweep and however deep
sweeps are nested through finalizers; `HeapSound` up to the step at which a page is
given up with slots that a finalizer still waits for (`released`, section 6).
`HeapInv` says that no slot is in two final lists or twice in one (`ListsApart`), that
a finalizer that is still to run has not run and one that waits has no reference to
its object left (`FinalsDue`), and, until `released`: that pages and slots are where
they should be, so that a slot that waits, in whatever list, is of a page in use and
is `"final"` (`PagesSound`, `SlotsSound`), and where the sweep is (`SweepAt`): the free
list is that of the beginning of the page, with slots of earlier pages only, plus
slots of this page before `k`; and if `n` has counted every slot before `k`, none of
them is alive or on an outer sweep's list.  `HeapSound` alone is not inductive:
it does not say that a waiting slot belongs to a page in use, nor that a page of
which all slots were cleared has none that an outer sweep waits for (`CountStep`), on
which giving up the page rests.  `AddHeapSound`, `NextPageSound`, `KeptSound` and
`CompactSound` say what a new page, the end of a page and the release of pages do
to a sound heap; the pages kept are a recursive function, which
exists and gives what `KeptSound` says by least counterexamples.

**Sorting** (`SortProofs`; `SortInputsAssumption`, `SortLimitsAssumption`).  `ArraySorted` is
`SortSound` for every array and every choice of median: at the end the array is a
permutation of the input and in order, and before that, also when the comparison
contradicts itself, nothing outside the array is read and no more regions are on the
stack than it has room for.  `Inv` says that regions on the stack and the current
one have no element in common (`Regions`), that two elements out of order are in one
region (`Outside`), where the groups of the current region end and that a group
found unequal has two elements (`Groups`), how they compare with the median
(`Values`, if the comparison is an order), that each number occurs as often as in
the input (`Same`), and that a region on the stack is at most half as long as the
one it was cut from (`Deep`, which gives the logarithm).  Rearrangements are
bijections of the positions; that neighbours in order make a region in order, and
the powers of two, rest on least counterexamples (`WFMin`) and on cardinalities.

**PStore** (`StorageProofs`; `InodeAssumption`, `TableAssumption`; hypotheses
`~SharedFaults` and `~CopyFaults`, the three faults of section 6).  `StoreInv` says which inode the name
of the file and that of the backup denote (`Names`), what a descriptor is open on
(`FileOpen`), that a store is created by a process that is alone (`Creating`) and
found by it as it was left (`Fresh`), which locks are held at which point
(`LockPoints`) and exclude each other (`Exclusive`), what a transaction has made of
its snapshot (`Worked`), and that at every point at which a process may crash the
file or the backup has the table (`Recoverable`).  A copy may fail at any time: then the
backup is broken, and between the write and the close the table is nowhere but in the
process (`Unsaved`), which without `CopyFaults` goes on to close the file
(`OthersSaved`: no other process is so at the time).  `Committed`, the table of the refinement mapping, is
therefore the one stored or that of an unsaved process.  From it `StoreTypes`, `SnapshotsCurrent` (`SnapshotCurrent`) and the
refinement `StoreIsAtomic` (`Spec => StoreAtomic`): each action is a step of `TxStore`
under the mapping of section 2.4, or a stutter.

**Arrays** (`StorageProofs`; `ArrayAssumption`, `NilAssumption`: the elements of literals
are elements, ARY_DEFAULT_SIZE is not 0, and `Nil`, the contents of a freed buffer, is neither a number
nor a sequence; hypothesis `~BlockShares`, see section 6).  `ArraysSound` is
`ArraySound` for any number of arrays, elements and buffers.  A heap is `Sound` when
each array lies in its buffer (`Holds`), a buffer of an array that is not shared is
nobody else's (`Alone`), a shared array's buffer is that of its hidden array, no two
hidden arrays have the same buffer (`RootHolds`), and every allocated buffer is
somebody's (`Reached`).  `ArrayInv` adds that each array shows its value and that the
array of a running block has its buffer to itself, with `delete_if` writing no
further than it has read (`Looping`).  The invariant is needed because `ArraySound`
does not say that hidden arrays have buffers of their own, which the collector
relies on, nor that an array in `map!` is unshared.  Every operation is a function from
heaps to heaps, so there is one lemma for each (`StoreBecomes`, `SpliceBecomes`, ...): in a
sound heap with room it gives the array what `ArrayValues` says, leaves the elements of
all others as they were, and leaves the heap sound.  They rest on five changes of a heap:
an array gets a buffer of its own (`RenewedOwns`), is written in it (`WrittenOwns`),
shows part of a shared one (`ShowsSound`), has its buffer hidden (`HiddenSound`), or is
collected with others (`SweptCollects`).

**Interpreter** (`InterpreterProofs`).  `RequiresSound` (`RequireSound`, from
`LoadAssumption`): a file is in `loading_tbl` for a thread exactly while it is on
that thread's stack, where it is once, and a file of `$"` that nobody loads is
over.  `NotedSignalsSeen` (`NotedSignalSeen`) and `ImmediateOnlyInCalls`
(`ImmediateInSystemCall`), from `SignalAssumption`: `LoopsPassed` says of every loop
of `rb_trap_exec` on any stack which signals it has passed, and `CallsNested` that a
handler's frame is above a system call and that system calls begin with
`rb_trap_immediate` off.  `EndProcsOnce` (`EndProcsRunOnce`): the lists are disjoint
and without repetition (`ListsApart`), and each loop still runs what it has promised
(`FirstLoopRuns`, `SecondLoopRuns`, `LoopsOver`): a procedure in `end_procs` is run or
still to run if and only if it was registered before the second loop, so that at the
end exactly the `Forgotten` ones have not been run.

`GvarIsSound` (`GvarSound`; `GvarUse`: finitely many names, and variables, traces and
the value for neither are distinct).  `GvarInv` adds to `GvarSound` that lists have
disjoint, unfreed members (`Lists`), and that `block_trace` is set exactly while
`trace_ev` is in a trace (`Blocked`).  The counts are cardinalities of the sets of
names, which an alias changes by one on both sides.

`MethodsAreCurrent` (`MethodsCurrent`; `ClassAssumption`, `NilAssumption`).  `CacheInv`
says that `super` of what is in use is in use (`Chains`), that iclasses belong to
modules, that from a module the chain leads to iclasses only, so that a class which
is freed has its table in nobody else's chain (`ModuleSet`), and that an entry of the cache is of a class in
use or of one whose address was freed (`CachedKnown`).  The argument is local: an
operation that changes what the search finds for some class and name clears the
entries with that name, or those of the class and of all classes below it; for
`rb_include_module`, whose loop inserts iclasses one at a time, a loop invariant says
which chain has been built.

Only model-checked:

* liveness (`ThreadsServed`, `ExitEnds`, `MarkingEnded`, `SortEnds`, `RequireReturns`),
  which is out of this prover's reach;
* `RubyInteger`, `Marshal`, `MarshalNumbers` (`ArithmeticExact`, `RoundTrip`): recursive
  over data, or with Bitwise;
* `TableSound`, `EachVisitsAll`, `MapSpec` and `IncludeLocal`: their operations are
  folds and selections over chains in one step, for each of which an induction over the data would be needed.

## 5. Files for TLC

Each run has a `.cfg` of its name.  `tlc -config sched_kill.cfg MCThreadSched` and
likewise for the others; the modules are listed under `runs` in `PROJECT.json`.
For every property the file also lists a mutant: an operator beside the mapped
one that changes it as a plausible mistake would, and with which TLC finds the
property violated.

## 6. What the code does not guarantee

`hazards` in `PROJECT.json` lists these with their lines.  Each is part of the
model; the properties are stated so as to except exactly it.

Threads and the library:

* A wake-up can go to a stale entry.  `unlock` and `push` run the thread they
  have woken once more after their critical section; a thread that sleeps again
  by then is woken for nothing and enters the list twice.  A later wake-up spent
  on the old entry is lost.  Hence `misfired`.
* A kill in `ConditionVariable#wait` inside `synchronize`, or of a waiting thread
  in `mu_synchronize`, unlocks a lock that somebody else holds.
* `rb_thread_polling`, and a `Thread#raise` that discards the frame of a blocking
  call, forget that the thread is to be killed: `KillSticks` is checked without
  them.
* `Thread#join` in a critical section leaves without saving the caller's context
  (ChangeLog 7406): `ContextFresh` is checked without it.
* A reported deadlock leaves the main thread THREAD_TO_KILL.  If its program
  goes on to exit while other killed threads have not ended, and it precedes
  them in the ring, it is always chosen and spins.  `ExitEnds` excepts this.  The
  deadlock branch also saves the context of a thread that has ended, into a freed
  buffer.
* In Mutex_m a dead thread among the waiting ones ends the loop that wakes them.
* `sync_try_lock` asks for the mode the lock is in, whatever its argument says.
* Two threads that require each other's files wait for ever.

Signals: a signal that arrives at an index which the loop of `rb_trap_exec` has
passed is forgotten until the next one (`behind`); a trap that switches to a main
thread which is itself in a system call leaves `rb_trap_immediate` set under the
command (`crossed`).

Data:

* `SharedFaults`: two processes that both create a store, and a failed write that
  renames the backup under the locks of others, break PStore's atomicity.
* `CopyFaults`: `File.copy` rescues errors of reading and writing (ftools.rb 31), and
  PStore ignores its result (pstore.rb 125).  Behind a copy that has failed the file is
  rewritten although the backup is broken.  A crash then, or a failed write, which
  even renames that backup over the file (pstore.rb 131), loses the table.  The failed
  copy is always a step of the model; what the constant admits is such a crash or failure
  behind it, and with it TLC finds `StoreAtomic` violated.
* `AddressesReused`: `rb_hash_foreach_iter` compares the addresses of the table and its
  bins after the block (hash.c 137).  Two rehashes in one block free the first new
  table (hash.c 279) and may get the old addresses back; the iteration is then not
  aborted and follows a freed entry.  With it TLC finds `TableSound` violated; what the
  iteration does from the freed entry on is not followed.
* `released`: a page without marked objects is given back although finalizers are still
  to run for some of its slots (gc.c 966, run `gc_page`).
* `BlockOps`: shift, clear and delete_if inside an iteration free entries under an
  outer iterator.
* `BlockShares`: `collect!` whose block makes the array shared (array.c 1138) writes
  into the shared buffer.
* `Exceptional`: the complement of a Bignum that needs another digit (bignum.c 931)
  and right shifts by all digits lose bits.  A Bignum is divided by 0 in C (bignum.c
  1142), for `rb_int2big(0)` has one digit and the test for none (1128) does not find it;
  any result is then admitted.  A Fixnum raises ZeroDivisionError and nothing changes.
* `Marshal.dump` keeps the address of what `_dump_data` returns, which nothing marks
  (marshal.c 548).  The model's objects are permanent, so a link to a collected one is
  not shown.
* The method cache keeps the visibility of a method found through an iclass or an
  alias (ChangeLog 2511), and entries of a class whose address is used again
  (ChangeLog 4380); `CachedNoexCurrent` and `reused` say so.
* An END procedure put into `end_procs` while the second or the third loop of
  `rb_exec_end_proc` runs is never executed (ChangeLog 5690 wants END within END).  In
  the third loop it comes from a file that an ephemeral procedure requires, which is
  loaded without `ruby_wrapper` (eval.c 5408), or from a procedure called there that was
  made without one.  Nor is one executed that a finalizer registers at exit.
  `Forgotten` is exactly these.

## 7. Not modelled

The parser, the evaluator's walk over syntax trees, the regular expression engines,
strings, floats, time and ranges are sequential processing of data that is too
large for a model checker, for which unit tests exist.  `io.c` and `file.c` reach
the scheduler only through `rb_thread_wait_fd`, `rb_thread_fd_writable` and
`rb_thread_select`, which are modelled.  `timeout` is a `Thread#raise` and a
`Thread#kill`, both actions of `ThreadSched`; WeakRef relies on object ids that the
library does not protect; singletons are one critical section.  Extension
libraries, platform code (win32, bcc32, djgpp, vms, x68), eruby, mod_ruby and
third-party code are left aside.  By lines these are most of the repository: what
is modelled is the part with state that several actors change.

## 8. Plan

1. Done: the modules of section 2, the runs of section 3, the theorems of
   section 4.
2. Theorems to come: the steps of `HashTable` that implement `HashMap`, for which
   rehash and the walk of `st_foreach` are to be made one step per entry.
3. Composition: `Signals` over the thread list of `ThreadSched`, with
   `rb_thread_fd_close`.
