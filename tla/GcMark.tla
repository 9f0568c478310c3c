------------------------------- MODULE GcMark --------------------------------
(***************************************************************************)
(* The mark phase of the collector (rb_gc_mark and rb_gc of ruby/gc.c).    *)
(*                                                                         *)
(* rb_gc_mark recurses until the machine stack is nearly full.  Then it    *)
(* puts the object on mark_stack; when that is full too it only sets       *)
(* mark_stack_overflow, and gc_mark_all has to look for marked objects     *)
(* through the whole heap.                                                 *)
(***************************************************************************)
EXTENDS Naturals, Sequences, SequencesExt

CONSTANTS NumObjs,         \* the heap is 1..NumObjs, in the order of addresses
          Graphs,          \* the graphs of references
          RootSets,        \* the sets of roots
          MARK_STACK_MAX,
          MaxRoom          \* bound on the calls the machine stack has room for

Objs == 1..NumObjs

ASSUME HeapAssumption == /\ NumObjs \in Nat
                         /\ Graphs \subseteq [Objs -> SUBSET Objs]
                         /\ RootSets \subseteq SUBSET Objs
ASSUME MarkStackAssumption == MARK_STACK_MAX \in Nat \ {0} /\ MaxRoom \in Nat

VARIABLES
  refs,        \* the objects that rb_gc_mark_children of an object marks
  roots,       \* what the stack, the registers and the globals refer to
  ahead,       \* the roots that are still to be marked
  room,        \* how many calls of rb_gc_mark CHECK_STACK lets through
  marked,      \* FL_MARK
  calls,       \* active calls of rb_gc_mark_children, innermost first: the
               \* object and the references still to be marked
  mark_stack,
  overflow,    \* mark_stack_overflow
  rest,        \* tmp_arry of gc_mark_rest
  scan,        \* next address of gc_mark_all, 0 outside of it
  sweeping     \* marking has ended

vars == <<refs, roots, ahead, room, marked, calls, mark_stack, overflow, rest, scan, sweeping>>
graphVars == <<refs, roots, room>>

Init ==
  /\ refs \in Graphs
  /\ roots \in RootSets
  /\ ahead = roots
  /\ room \in 0..MaxRoom
  /\ marked = {}
  /\ calls = <<>>
  /\ mark_stack = <<>>
  /\ overflow = FALSE
  /\ rest = <<>>
  /\ scan = 0
  /\ sweeping = FALSE

-----------------------------------------------------------------------------
Min1(s) == CHOOSE x \in s : \A y \in s : x <= y

\* rb_gc_mark_children: a call is entered.
Children(o) == [obj |-> o, todo |-> refs[o]]

\* Mutant: an object that the mark stack has no room for is forgotten.
PushForgets(o) ==
  IF Len(mark_stack) < MARK_STACK_MAX
  THEN mark_stack' = Append(mark_stack, o) /\ UNCHANGED overflow
  ELSE UNCHANGED <<mark_stack, overflow>>

\* rb_gc_mark without room on the machine stack.
PushMarkStack(o) ==
  IF overflow THEN UNCHANGED <<mark_stack, overflow>>
  ELSE IF Len(mark_stack) < MARK_STACK_MAX
  THEN mark_stack' = Append(mark_stack, o) /\ UNCHANGED overflow
  ELSE overflow' = TRUE /\ UNCHANGED mark_stack

\* rb_gc_mark, called with the active calls in below.
rb_gc_mark(o, below) ==
  \/ /\ o \in marked
     /\ calls' = below
     /\ UNCHANGED <<marked, mark_stack, overflow>>
  \/ /\ o \notin marked
     /\ marked' = marked \cup {o}
     /\ \/ /\ Len(below) < room
           /\ calls' = <<Children(o)>> \o below
           /\ UNCHANGED <<mark_stack, overflow>>
        \/ /\ Len(below) >= room
           /\ calls' = below
           /\ PushMarkStack(o)

\* The innermost call marks its next reference, or returns.
rb_gc_mark_children ==
  /\ calls # <<>>
  /\ LET top == Head(calls) IN
     \/ /\ top.todo # {}
        /\ LET o == Min1(top.todo) IN
           rb_gc_mark(o, <<[top EXCEPT !.todo = @ \ {o}]>> \o Tail(calls))
     \/ /\ top.todo = {}
        /\ calls' = Tail(calls)
        /\ UNCHANGED <<marked, mark_stack, overflow>>
  /\ UNCHANGED <<graphVars, ahead, rest, scan, sweeping>>

Between == calls = <<>> /\ ~sweeping

\* rb_gc marks its next root: the first use of mark_stack is behind
\* init_mark_stack.
MarkRoot ==
  /\ Between /\ ahead # {}
  /\ rb_gc_mark(Min1(ahead), <<>>)
  /\ ahead' = ahead \ {Min1(ahead)}
  /\ UNCHANGED <<graphVars, rest, scan, sweeping>>

\* The loop of rb_gc over the objects whose marking is not completed.
Idle == Between /\ ahead = {} /\ rest = <<>> /\ scan = 0

\* Mutant: gc_mark_rest without init_mark_stack.
MarkRestKept ==
  /\ Idle /\ mark_stack # <<>> /\ ~overflow
  /\ rest' = mark_stack
  /\ UNCHANGED <<graphVars, ahead, marked, calls, mark_stack, overflow, scan, sweeping>>

\* gc_mark_rest and gc_mark_all begin with init_mark_stack.
MarkRest ==
  /\ Idle /\ mark_stack # <<>> /\ ~overflow
  /\ rest' = mark_stack
  /\ mark_stack' = <<>>
  /\ UNCHANGED <<graphVars, ahead, marked, calls, overflow, scan, sweeping>>

MarkAll ==
  /\ Idle /\ mark_stack # <<>> /\ overflow
  /\ scan' = 1
  /\ mark_stack' = <<>>
  /\ overflow' = FALSE
  /\ UNCHANGED <<graphVars, ahead, marked, calls, rest, sweeping>>

\* The next turn of gc_mark_rest, from the end of tmp_arry.
gc_mark_rest ==
  /\ Between /\ rest # <<>>
  /\ calls' = <<Children(Last(rest))>>
  /\ rest' = Front(rest)
  /\ UNCHANGED <<graphVars, ahead, marked, mark_stack, overflow, scan, sweeping>>

\* The next turn of gc_mark_all.
gc_mark_all ==
  /\ Between /\ scan # 0
  /\ calls' = IF scan \in marked THEN <<Children(scan)>> ELSE <<>>
  /\ scan' = IF scan = NumObjs THEN 0 ELSE scan + 1
  /\ UNCHANGED <<graphVars, ahead, marked, mark_stack, overflow, rest, sweeping>>

\* Mutant: objects left over by the last turn are forgotten.
SweepEarly ==
  /\ Idle
  /\ sweeping' = TRUE
  /\ UNCHANGED <<graphVars, ahead, marked, calls, mark_stack, overflow, rest, scan>>

\* The mark stack is empty: gc_sweep follows.
gc_sweep ==
  /\ Idle /\ mark_stack = <<>>
  /\ sweeping' = TRUE
  /\ UNCHANGED <<graphVars, ahead, marked, calls, mark_stack, overflow, rest, scan>>

Next == \/ rb_gc_mark_children \/ MarkRoot \/ MarkRest \/ MarkAll
        \/ gc_mark_rest \/ gc_mark_all \/ gc_sweep

Spec == Init /\ [][Next]_vars

-----------------------------------------------------------------------------
(* Properties.                                                             *)

\* The objects whose children are still to be marked by someone.
Unfinished ==
  {calls[i].obj : i \in 1..Len(calls)} \cup Range(mark_stack) \cup Range(rest)
    \cup (IF overflow THEN Objs ELSE {})
    \cup (IF scan # 0 THEN scan..NumObjs ELSE {})

\* Nothing that is reachable is swept: the sweep begins only when every root and
\* every object that a marked object refers to is marked, however shallow the
\* machine stack and however small the mark stack.
NothingReachableSwept ==
  sweeping => roots \subseteq marked /\ \A o \in marked : refs[o] \subseteq marked

\* On the way there, a marked object with an unmarked reference is the object
\* of an active call, or on the mark stack or in its copy, or ahead of the scan
\* of the heap, or the overflow flag stands for it; and the flag is set only
\* with a full mark stack, so that the loop of rb_gc, which only looks whether
\* the stack is empty, does not miss it.
GrayAccounted ==
  /\ \A o \in marked : refs[o] \subseteq marked \/ o \in Unfinished
  /\ overflow => Len(mark_stack) = MARK_STACK_MAX

\* The loop ends: every turn that overflows has marked at least one object.
MarkingEnds == <>sweeping
=============================================================================
