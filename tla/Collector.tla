------------------------------ MODULE Collector ------------------------------
(***************************************************************************)
(* The heap of the collector: the free list, the sweep, the release of     *)
(* empty pages and finalizers (ruby/gc.c).                                 *)
(*                                                                         *)
(* What the mark phase marks is what the program holds (GcMark shows that  *)
(* it is).  gc_sweep runs finalizers, which are Ruby code: they allocate,  *)
(* drop objects and start nested collections while the sweep that called   *)
(* them still has finalizers to run and pages to release.                  *)
(***************************************************************************)
EXTENDS Naturals, Sequences, SequencesExt

CONSTANTS PageSize,    \* slots of a page (heaps_limits of a page in use)
          MaxPages,    \* bound on the pages the system gives
          FREE_MIN,
          MaxHeapSteps \* bound on the operations of the program

ASSUME PageAssumption == PageSize \in Nat \ {0} /\ MaxPages \in Nat \ {0} /\ FREE_MIN \in Nat

Pages == 1..MaxPages
Slots == Pages \X (1..PageSize)

VARIABLES
  heaps,       \* the pages, in order
  limit,       \* heaps_limits: 0 when the page is to be released
  flags,       \* of a slot: "free" (0), "live", "final" (FL_MARK only), "none"
  freelist,
  fl_finalize, \* slots with FL_FINALIZE
  finalizer_table,
  ran,         \* how often the finalizer of the object in a slot has run
  deferred,    \* deferred_final_list
  sweeps,      \* the final_list of each sweep that runs finalizers, innermost
               \* first; its first slot is the one whose finalizer runs
  sweep,       \* locals of the gc_sweep that goes over the slots: i (0 when there
               \* is none), k of p, n, freed, free
  final_list,  \* and its final_list
  prohibited,  \* rb_prohibit_interrupt || ruby_in_compile for that gc_sweep
  held,        \* objects the program refers to
  released,    \* a page was given up with slots that a final_list still holds
  exited,
  heap_steps

slotVars == <<heaps, limit, flags, freelist>>
finalVars == <<fl_finalize, finalizer_table, ran>>
sweepVars == <<sweep, final_list, prohibited>>
heapVars == <<slotVars, finalVars, deferred, sweeps, sweepVars, held, released, exited, heap_steps>>

NoSweep == [i |-> 0, k |-> 0, n |-> 0, freed |-> 0, free |-> <<>>]

\* The slots of page p in the order in which add_heap leaves them.
NewSlots(p) == [k \in 1..PageSize |-> <<p, PageSize + 1 - k>>]

HeapInit ==
  /\ heaps = <<1>>
  /\ limit = [p \in Pages |-> IF p = 1 THEN PageSize ELSE 0]
  /\ flags = [s \in Slots |-> IF s[1] = 1 THEN "free" ELSE "none"]
  /\ freelist = NewSlots(1)
  /\ fl_finalize = {} /\ finalizer_table = {}
  /\ ran = [s \in Slots |-> 0]
  /\ deferred = <<>> /\ sweeps = <<>>
  /\ sweep = NoSweep /\ final_list = <<>> /\ prohibited = FALSE
  /\ held = {}
  /\ released = FALSE /\ exited = FALSE
  /\ heap_steps = 0

\* add_heap, in a heap h
add_heap(h) ==
  LET p == CHOOSE p \in Pages : p \notin Range(h.heaps)
  IN IF Range(h.heaps) = Pages THEN h
     ELSE [heaps |-> Append(h.heaps, p),
           limit |-> [h.limit EXCEPT ![p] = PageSize],
           flags |-> [s \in Slots |-> IF s[1] = p THEN "free" ELSE h.flags[s]],
           freelist |-> NewSlots(p) \o h.freelist]

\* The pages that the last loop of gc_sweep gives back, never the first one, and
\* those that it keeps.
EmptyPages(hs, lim) == {p \in Range(hs) : p # hs[1] /\ lim[p] = 0}

KeptPages(hs, lim) ==
  LET kept[i \in 0..Len(hs)] == IF i = 0 THEN <<>>
                                ELSE IF hs[i] \in EmptyPages(hs, lim) THEN kept[i - 1]
                                ELSE Append(kept[i - 1], hs[i])
  IN kept[Len(hs)]

\* The rest of gc_sweep in a heap h, when no finalizer is left to be run.
Compact(h) ==
  /\ heaps' = KeptPages(h.heaps, h.limit)
  /\ limit' = h.limit
  /\ flags' = [s \in Slots |-> IF s[1] \in EmptyPages(h.heaps, h.limit) THEN "none"
                               ELSE h.flags[s]]
  /\ freelist' = h.freelist

-----------------------------------------------------------------------------
(* Operations of the program, also inside a finalizer; not while gc_sweep  *)
(* goes over the slots.                                                    *)

Sweeping == sweep.i # 0

HeapOperation == /\ ~exited /\ ~released /\ ~Sweeping
                 /\ heap_steps < MaxHeapSteps
                 /\ heap_steps' = heap_steps + 1

\* rb_newobj with a slot at hand.
rb_newobj ==
  /\ HeapOperation
  /\ freelist # <<>>
  /\ LET s == Head(freelist) IN
     /\ flags' = [flags EXCEPT ![s] = "live"]
     /\ held' = held \cup {s}
     /\ fl_finalize' = fl_finalize \ {s}
     /\ ran' = [ran EXCEPT ![s] = 0]
  /\ freelist' = Tail(freelist)
  /\ UNCHANGED <<heaps, limit, finalizer_table, deferred, sweeps, sweepVars, released, exited>>

\* GC.disable: rb_newobj only asks for a page.
NewPage ==
  /\ HeapOperation
  /\ freelist = <<>>
  /\ LET h == add_heap([heaps |-> heaps, limit |-> limit, flags |-> flags,
                        freelist |-> freelist]) IN
     /\ heaps' = h.heaps /\ limit' = h.limit /\ flags' = h.flags
     /\ freelist' = h.freelist
  /\ UNCHANGED <<finalVars, deferred, sweeps, sweepVars, held, released, exited>>

\* The last reference to an object is dropped.
Drop(s) ==
  /\ HeapOperation
  /\ s \in held
  /\ held' = held \ {s}
  /\ UNCHANGED <<slotVars, finalVars, deferred, sweeps, sweepVars, released, exited>>

define_final(s) ==
  /\ HeapOperation
  /\ s \in held
  /\ fl_finalize' = fl_finalize \cup {s}
  /\ finalizer_table' = finalizer_table \cup {s}
  /\ UNCHANGED <<slotVars, ran, deferred, sweeps, sweepVars, held, released, exited>>

\* FL_FINALIZE stays.
undefine_final(s) ==
  /\ HeapOperation
  /\ s \in held
  /\ finalizer_table' = finalizer_table \ {s}
  /\ UNCHANGED <<slotVars, fl_finalize, ran, deferred, sweeps, sweepVars, held, released,
                 exited>>

-----------------------------------------------------------------------------
(* gc_sweep.                                                               *)

\* A collection begins, also because rb_newobj is without a slot.
rb_gc_start ==
  /\ HeapOperation
  /\ sweep' = [NoSweep EXCEPT !.i = 1, !.k = 1]
  /\ prohibited' \in BOOLEAN
  /\ freelist' = <<>>
  /\ final_list' = deferred
  /\ deferred' = <<>>
  /\ UNCHANGED <<heaps, limit, flags, finalVars, sweeps, held, released, exited>>

Page == heaps[sweep.i]
Slot == <<Page, sweep.k>>

\* A slot whose object is marked, or waits for its finalizer, is passed; the
\* object of another one is freed, or kept for its finalizer.
SweepSlot ==
  /\ Sweeping /\ sweep.i <= Len(heaps) /\ sweep.k <= limit[Page]
  /\ \/ /\ Slot \in held \/ flags[Slot] = "final"
        /\ sweep' = [sweep EXCEPT !.k = @ + 1]
        /\ UNCHANGED <<flags, freelist, final_list>>
     \/ /\ Slot \notin held /\ flags[Slot] # "final"
        /\ sweep' = [sweep EXCEPT !.k = @ + 1, !.n = @ + 1]
        /\ IF Slot \in fl_finalize /\ flags[Slot] = "live"
           THEN /\ flags' = [flags EXCEPT ![Slot] = "final"]
                /\ final_list' = <<Slot>> \o final_list
                /\ UNCHANGED freelist
           ELSE /\ flags' = [flags EXCEPT ![Slot] = "free"]
                /\ freelist' = <<Slot>> \o freelist
                /\ UNCHANGED final_list
  /\ UNCHANGED <<heaps, limit, finalVars, deferred, sweeps, prohibited, held, released,
                 exited, heap_steps>>

\* A page without marked objects is given up when enough is free.
GivenUp == sweep.n = limit[Page] /\ sweep.freed + sweep.n > FREE_MIN

\* The sweep goes on to the next page.
NextPage(freed) ==
  sweep' = [sweep EXCEPT !.i = @ + 1, !.k = 1, !.n = 0, !.freed = freed, !.free = freelist']

\* Mutant: the slots of a page that is given up stay in the free list.
SweepPageKept ==
  /\ Sweeping /\ sweep.i <= Len(heaps) /\ sweep.k > limit[Page]
  /\ \/ /\ GivenUp
        /\ limit' = [limit EXCEPT ![Page] = 0]
        /\ UNCHANGED freelist
        /\ NextPage(sweep.freed)
     \/ /\ ~GivenUp
        /\ UNCHANGED <<limit, freelist>>
        /\ NextPage(sweep.freed + sweep.n)
  /\ UNCHANGED <<heaps, flags, finalVars, deferred, sweeps, final_list, prohibited, held,
                 released, exited, heap_steps>>

\* The end of a page: the slots of one that is given up are taken off the free
\* list again.
SweepPage ==
  /\ Sweeping /\ sweep.i <= Len(heaps) /\ sweep.k > limit[Page]
  /\ \/ /\ GivenUp
        /\ limit' = [limit EXCEPT ![Page] = 0]
        /\ freelist' = sweep.free
        /\ NextPage(sweep.freed)
     \/ /\ ~GivenUp
        /\ UNCHANGED <<limit, freelist>>
        /\ NextPage(sweep.freed + sweep.n)
  /\ UNCHANGED <<heaps, flags, finalVars, deferred, sweeps, final_list, prohibited, held,
                 released, exited, heap_steps>>

\* The heap after the loop over the pages.
SweptHeap ==
  LET h == [heaps |-> heaps, limit |-> limit, flags |-> flags, freelist |-> freelist]
  IN IF sweep.freed < FREE_MIN THEN add_heap(h) ELSE h

\* The end of the loop over the pages, up to the first finalizer.  With
\* interrupts prohibited the finalizers are left to the next collection.
SweepEnd ==
  /\ Sweeping /\ sweep.i > Len(heaps)
  /\ sweep' = NoSweep /\ final_list' = <<>> /\ prohibited' = FALSE
  /\ released' = \E s \in Range(final_list) : limit[s[1]] = 0
  /\ \/ /\ final_list = <<>>
        /\ Compact(SweptHeap)
        /\ UNCHANGED <<deferred, sweeps>>
     \/ /\ final_list # <<>>
        /\ heaps' = SweptHeap.heaps /\ limit' = SweptHeap.limit /\ flags' = SweptHeap.flags
        /\ freelist' = SweptHeap.freelist
        /\ \/ prohibited /\ deferred' = final_list /\ UNCHANGED sweeps
           \/ ~prohibited /\ sweeps' = <<final_list>> \o sweeps /\ UNCHANGED deferred
  /\ UNCHANGED <<finalVars, held, exited, heap_steps>>

\* Mutant: the entry of the table stays.
RunFinalKept(slots) ==
  /\ ran' = [s \in Slots |-> IF s \in slots \cap finalizer_table THEN ran[s] + 1 ELSE ran[s]]
  /\ UNCHANGED finalizer_table

\* run_final: the entry of the table goes first.
run_final(slots) ==
  /\ ran' = [s \in Slots |-> IF s \in slots \cap finalizer_table THEN ran[s] + 1 ELSE ran[s]]
  /\ finalizer_table' = finalizer_table \ slots

\* The finalizer of the innermost sweep's first object ends; the slot is put
\* into the free list, and the next one's turn comes, or the pages are released.
FinalEnds ==
  LET s == Head(Head(sweeps))
      others == Tail(Head(sweeps))
      h == [heaps |-> heaps, limit |-> limit, flags |-> [flags EXCEPT ![s] = "free"],
            freelist |-> <<s>> \o freelist]
  IN /\ sweeps # <<>> /\ ~Sweeping
     /\ run_final({s})
     /\ \/ /\ others # <<>>
           /\ sweeps' = <<others>> \o Tail(sweeps)
           /\ flags' = h.flags /\ freelist' = h.freelist
           /\ UNCHANGED <<heaps, limit>>
        \/ /\ others = <<>>
           /\ sweeps' = Tail(sweeps)
           /\ Compact(h)
     /\ UNCHANGED <<fl_finalize, deferred, sweepVars, held, released, exited, heap_steps>>

\* rb_gc_call_finalizer_at_exit: the deferred objects, then the live ones.
rb_gc_call_finalizer_at_exit ==
  /\ ~exited /\ ~released /\ ~Sweeping /\ sweeps = <<>>
  /\ exited' = TRUE
  /\ run_final(Range(deferred) \cup {s \in fl_finalize : flags[s] = "live"})
  /\ UNCHANGED <<slotVars, fl_finalize, deferred, sweeps, sweepVars, held, released,
                 heap_steps>>

HeapNext ==
  \/ rb_newobj \/ NewPage
  \/ \E s \in Slots : Drop(s) \/ define_final(s) \/ undefine_final(s)
  \/ rb_gc_start \/ SweepSlot \/ SweepPage \/ SweepEnd \/ FinalEnds
  \/ rb_gc_call_finalizer_at_exit

HeapSpec == HeapInit /\ [][HeapNext]_heapVars

-----------------------------------------------------------------------------
(* Properties.                                                             *)

\* The slots that wait for a finalizer, in any list.
Pending == Range(deferred) \cup Range(final_list)
           \cup UNION {Range(sweeps[i]) : i \in 1..Len(sweeps)}

\* What rb_newobj will hand out next is never something the program holds, nor
\* a slot whose finalizer is still to run, nor a slot twice, nor one of a page
\* that has been given up: also when a finalizer starts a collection while the
\* sweep that called it has more to do.
FreelistSound ==
  ~released =>
    /\ \A s \in Range(freelist) : flags[s] = "free" /\ s \notin held \cup Pending
    /\ \A i, j \in 1..Len(freelist) : freelist[i] = freelist[j] => i = j

\* What the program holds is an object in a page in use.
HeldAlive == ~released => \A s \in held : flags[s] = "live" /\ limit[s[1]] > 0

\* A finalizer runs once for an object, and only after the last reference is
\* gone, or at exit; an object waiting for it is in one final list only.
FinalizerOnce ==
  /\ \A s \in Slots : ran[s] <= 1
  /\ \A s \in held : ran[s] = 0 \/ exited
  /\ \A i \in 1..Len(sweeps) :
       /\ Range(sweeps[i]) \cap (Range(deferred) \cup Range(final_list)) = {}
       /\ \A j \in 1..(i - 1) : Range(sweeps[i]) \cap Range(sweeps[j]) = {}

\* Every finalizer that was defined and not undefined has run at exit.
FinalizersRunAtExit == exited => finalizer_table = {}

\* What is free is free, what is held is alive.
HeapSound == FreelistSound /\ HeldAlive

\* Finalizers run once, and all of them.
FinalizersSound == FinalizerOnce /\ FinalizersRunAtExit

\* rb_newobj never finds a slot of a page that was given back to the system:
\* gc_sweep puts the slot of a finalized object into the free list if it is of a
\* page that stays ("not freeing page", gc.c 993), which it knows from a mark
\* that the sweep of the page sets.
NoSlotOfFreedPage == \A s \in Range(freelist) : flags[s] # "none"
=============================================================================
