------------------------------ MODULE GcProofs -------------------------------
(* Marking reaches all that is reachable, for every heap, every mark stack   *)
(* and every depth of the machine stack; and the sweep, finalizers and the   *)
(* release of pages leave a sound heap, for any pages and any nesting of     *)
(* collections in finalizers.                                                *)
EXTENDS GcMark, Collector, SequenceTheorems, WellFoundedInduction, TLAPS

(* Marking (GcMark).                                                         *)

Calls == [obj : Objs, todo : SUBSET Objs]

Types == /\ refs \in [Objs -> SUBSET Objs]
         /\ roots \subseteq Objs /\ ahead \subseteq Objs /\ marked \subseteq Objs
         /\ calls \in Seq(Calls)
         /\ mark_stack \in Seq(Objs) /\ Len(mark_stack) <= MARK_STACK_MAX
         /\ rest \in Seq(Objs)
         /\ overflow \in BOOLEAN /\ sweeping \in BOOLEAN
         /\ scan \in 0..NumObjs

\* A root is marked or still ahead; what an active call has behind it is marked;
\* and the sweep begins with nothing left in any of the places of Unfinished.
RootsMarked == roots \ ahead \subseteq marked
Behind(s, done) == \A i \in 1..Len(s) : refs[s[i].obj] \ s[i].todo \subseteq done
Swept == sweeping => /\ ahead = {} /\ calls = <<>> /\ rest = <<>> /\ scan = 0
                     /\ mark_stack = <<>>

Inv == Types /\ RootsMarked /\ Behind(calls, marked) /\ GrayAccounted /\ Swept

Active(s, o) == \E i \in 1..Len(s) : s[i].obj = o

-----------------------------------------------------------------------------
(* Sequences.                                                              *)

LEMMA Pushed ==
  ASSUME NEW S, NEW c \in S, NEW s \in Seq(S)
  PROVE  /\ <<c>> \o s \in Seq(S)
         /\ Len(<<c>> \o s) = Len(s) + 1
         /\ (<<c>> \o s)[1] = c
         /\ \A i \in 1..Len(s) : (<<c>> \o s)[i + 1] = s[i]
         /\ \A i \in 2..Len(s) + 1 : (<<c>> \o s)[i] = s[i - 1]
OBVIOUS

LEMMA TailOf ==
  ASSUME NEW S, NEW s \in Seq(S), s # <<>>
  PROVE  /\ Head(s) = s[1] /\ Head(s) \in S
         /\ Tail(s) \in Seq(S) /\ Len(Tail(s)) = Len(s) - 1
         /\ \A i \in 1..Len(s) - 1 : Tail(s)[i] = s[i + 1]
OBVIOUS

LEMMA FrontOf ==
  ASSUME NEW S, NEW s \in Seq(S), s # <<>>
  PROVE  /\ Last(s) \in S /\ Front(s) \in Seq(S)
         /\ Range(s) = Range(Front(s)) \cup {Last(s)}
<1>1. Len(s) \in Nat \ {0} /\ DOMAIN s = 1..Len(s)
  OBVIOUS
<1>2. Last(s) = s[Len(s)]
  BY DEF Last
<1>3. /\ Front(s) \in Seq(S)
      /\ DOMAIN Front(s) = 1..Len(s) - 1
      /\ \A i \in 1..Len(s) - 1 : Front(s)[i] = s[i]
  BY <1>1 DEF Front
<1>4. QED
  BY <1>1, <1>2, <1>3 DEF Range

LEMMA AppendRange ==
  ASSUME NEW S, NEW s \in Seq(S), NEW e \in S
  PROVE  /\ Append(s, e) \in Seq(S) /\ Len(Append(s, e)) = Len(s) + 1
         /\ Range(Append(s, e)) = Range(s) \cup {e}
BY SMTT(20) DEF Range

LEMMA EmptyRange == Range(<<>>) = {}
BY DEF Range

LEMMA RangeIn ==
  ASSUME NEW S, NEW s \in Seq(S)
  PROVE  Range(s) \subseteq S
BY DEF Range

\* A set of addresses has a first one.
LEMMA FirstObject ==
  ASSUME NEW s, s \subseteq Objs, s # {}
  PROVE  Min1(s) \in s
<1>1. s \subseteq Nat
  BY HeapAssumption DEF Objs
<1>2. PICK x \in s : \A y \in s : ~(<<y, x>> \in OpToRel(<, Nat))
  BY <1>1, NatLessThanWellFounded, WFMin, Zenon
<1>3. \A y \in s : ~(y < x)
  BY <1>1, <1>2 DEF OpToRel
<1>4. \A y \in s : x <= y
  BY <1>1, <1>3
<1>5. QED
  BY <1>4 DEF Min1

-----------------------------------------------------------------------------
(* The steps.                                                              *)

\* The mark stack without room on the machine stack.
LEMMA PushSound ==
  ASSUME Types, GrayAccounted, NEW o \in Objs, PushMarkStack(o)
  PROVE  /\ mark_stack' \in Seq(Objs) /\ Len(mark_stack') <= MARK_STACK_MAX
         /\ overflow' \in BOOLEAN
         /\ Range(mark_stack) \subseteq Range(mark_stack')
         /\ overflow => overflow'
         /\ overflow' \/ o \in Range(mark_stack')
         /\ overflow' => Len(mark_stack') = MARK_STACK_MAX
<1> USE MarkStackAssumption DEF Types, GrayAccounted, PushMarkStack
<1>1. CASE overflow
  BY <1>1
<1>2. CASE ~overflow /\ Len(mark_stack) < MARK_STACK_MAX
  <2>1. mark_stack' = Append(mark_stack, o) /\ overflow' = overflow
    BY <1>2
  <2>2. QED
    BY <1>2, <2>1, AppendRange
<1>3. CASE ~overflow /\ ~(Len(mark_stack) < MARK_STACK_MAX)
  <2>1. mark_stack' = mark_stack /\ overflow' = TRUE
    BY <1>3
  <2>2. QED
    BY <1>3, <2>1
<1>4. QED
  BY <1>1, <1>2, <1>3

\* rb_gc_mark accounts for the object it marks: in a call, on the mark stack or
\* by the overflow.
LEMMA MarkSound ==
  ASSUME Types, GrayAccounted,
         NEW o \in Objs, NEW below \in Seq(Calls),
         Behind(below, marked \cup {o}),
         \A x \in Objs : Active(calls, x) => Active(below, x),
         rb_gc_mark(o, below), UNCHANGED <<refs, rest, scan>>
  PROVE  /\ marked' = marked \cup {o}
         /\ calls' \in Seq(Calls)
         /\ mark_stack' \in Seq(Objs) /\ Len(mark_stack') <= MARK_STACK_MAX
         /\ overflow' \in BOOLEAN
         /\ Behind(calls, marked)'
         /\ GrayAccounted'
<1> USE MarkStackAssumption DEF Types
<1> DEFINE grown == <<Children(o)>> \o below
<1>1. /\ grown \in Seq(Calls)
      /\ Len(grown) = Len(below) + 1
      /\ grown[1] = Children(o)
      /\ \A i \in 1..Len(below) : grown[i + 1] = below[i]
      /\ \A i \in 2..Len(below) + 1 : grown[i] = below[i - 1]
  <2>1. Children(o) \in Calls
    BY DEF Children, Calls
  <2>2. QED
    BY <2>1, Pushed
<1>2. marked' = marked \cup {o} /\ (calls' = below \/ calls' = grown)
  BY DEF rb_gc_mark
<1>3. UNCHANGED <<mark_stack, overflow>> \/ PushMarkStack(o)
  BY DEF rb_gc_mark
<1>4. /\ mark_stack' \in Seq(Objs) /\ Len(mark_stack') <= MARK_STACK_MAX
      /\ overflow' \in BOOLEAN
      /\ Range(mark_stack) \subseteq Range(mark_stack')
      /\ overflow => overflow'
      /\ overflow' => Len(mark_stack') = MARK_STACK_MAX
  <2>1. CASE UNCHANGED <<mark_stack, overflow>>
    BY <2>1 DEF GrayAccounted
  <2>2. CASE PushMarkStack(o)
    BY <2>2, PushSound, Zenon
  <2>3. QED
    BY <1>3, <2>1, <2>2
<1>5. Behind(calls, marked)'
  <2>1. CASE calls' = below
    BY <1>2, <2>1 DEF Behind
  <2>2. CASE calls' = grown
    <3> SUFFICES ASSUME NEW i \in 1..Len(grown)
                 PROVE  refs[grown[i].obj] \ grown[i].todo \subseteq marked'
      BY <2>2 DEF Behind
    <3>1. CASE i = 1
      BY <3>1, <1>1 DEF Children
    <3>2. CASE i # 1
      <4>1. i - 1 \in 1..Len(below) /\ grown[i] = below[i - 1]
        BY <3>2, <1>1
      <4>2. QED
        BY <4>1, <1>2 DEF Behind
    <3>3. QED
      BY <3>1, <3>2
  <2>3. QED
    BY <1>2, <2>1, <2>2
<1>6. \A x \in Objs : Active(below, x) => Active(calls', x)
  <2>1. CASE calls' = below
    BY <2>1
  <2>2. CASE calls' = grown
    <3> SUFFICES ASSUME NEW x \in Objs, NEW i \in 1..Len(below), below[i].obj = x
                 PROVE  Active(grown, x)
      BY <2>2 DEF Active
    <3>1. i + 1 \in 1..Len(grown) /\ grown[i + 1].obj = x
      BY <1>1
    <3>2. QED
      BY <3>1 DEF Active
  <2>3. QED
    BY <1>2, <2>1, <2>2
<1>7. \A x \in Objs : x \in Unfinished => x \in Unfinished'
  <2> SUFFICES ASSUME NEW x \in Objs, x \in Unfinished
               PROVE  x \in Unfinished'
    OBVIOUS
  <2>1. CASE Active(calls, x)
    BY <2>1, <1>6 DEF Unfinished, Active
  <2>2. CASE x \in Range(mark_stack) \/ x \in Range(rest)
    BY <2>2, <1>4 DEF Unfinished
  <2>3. CASE overflow
    BY <2>3, <1>4 DEF Unfinished
  <2>4. CASE scan # 0 /\ x \in scan..NumObjs
    BY <2>4 DEF Unfinished
  <2>5. QED
    BY <2>1, <2>2, <2>3, <2>4 DEF Unfinished, Active
<1>8. o \in marked \/ o \in Unfinished'
  <2>1. CASE calls' = grown
    BY <2>1, <1>1 DEF Unfinished, Children
  <2>2. CASE o \notin marked /\ PushMarkStack(o)
    <3>1. overflow' \/ o \in Range(mark_stack')
      BY <2>2, PushSound, Zenon
    <3>2. QED
      BY <3>1 DEF Unfinished
  <2>3. QED
    BY <2>1, <2>2 DEF rb_gc_mark
<1>9. \A x \in marked' : (refs[x] \subseteq marked)' \/ x \in Unfinished'
  BY <1>2, <1>7, <1>8 DEF GrayAccounted
<1>10. GrayAccounted'
  BY <1>4, <1>9 DEF GrayAccounted
<1>11. calls' \in Seq(Calls)
  BY <1>1, <1>2
<1>12. QED
  BY <1>2, <1>4, <1>5, <1>10, <1>11

\* A reference of the innermost call, or its return.
LEMMA ChildrenPreserve ==
  ASSUME Inv, rb_gc_mark_children
  PROVE  Inv'
<1> USE DEF Inv, Types, graphVars
<1> DEFINE top == Head(calls)
           s == Tail(calls)
<1>1. /\ top = calls[1] /\ top \in Calls
      /\ s \in Seq(Calls) /\ Len(s) = Len(calls) - 1
      /\ \A i \in 1..Len(calls) - 1 : s[i] = calls[i + 1]
      /\ Len(calls) \in Nat \ {0}
  BY TailOf DEF rb_gc_mark_children
<1>2. \A i \in 1..Len(s) : i + 1 \in 1..Len(calls) /\ s[i] = calls[i + 1]
  BY <1>1
<1>3. \A i \in 2..Len(calls) : i - 1 \in 1..Len(s) /\ calls[i] = s[i - 1]
  BY <1>1
<1>4. Behind(s, marked)
  BY <1>2 DEF Behind
<1>5. refs[top.obj] \ top.todo \subseteq marked
  BY <1>1 DEF Behind
<1>6. top.obj \in Objs /\ top.todo \subseteq Objs
  BY <1>1 DEF Calls
<1>7. UNCHANGED <<refs, roots, room, ahead, rest, scan, sweeping>> /\ ~sweeping
  BY DEF rb_gc_mark_children, Swept
<1>8. CASE /\ top.todo = {} /\ calls' = s
           /\ UNCHANGED <<marked, mark_stack, overflow>>
  <2>1. \A x \in marked : x \in Unfinished /\ x # top.obj => x \in Unfinished'
    <3> SUFFICES ASSUME NEW x \in marked, x \in Unfinished, x # top.obj
                 PROVE  x \in Unfinished'
      OBVIOUS
    <3>1. CASE \E i \in 1..Len(calls) : calls[i].obj = x
      <4>1. PICK i \in 1..Len(calls) : calls[i].obj = x
        BY <3>1
      <4>2. i \in 2..Len(calls)
        BY <4>1, <1>1
      <4>3. i - 1 \in 1..Len(s) /\ s[i - 1].obj = x
        BY <4>1, <4>2, <1>3
      <4>4. QED
        BY <4>3, <1>8 DEF Unfinished
    <3>2. CASE ~\E i \in 1..Len(calls) : calls[i].obj = x
      BY <3>2, <1>8, <1>7 DEF Unfinished
    <3>3. QED
      BY <3>1, <3>2
  <2>2. GrayAccounted'
    BY <2>1, <1>5, <1>7, <1>8 DEF GrayAccounted
  <2>3. QED
    BY <2>2, <1>1, <1>4, <1>7, <1>8 DEF RootsMarked, Behind, Swept
<1>9. CASE /\ top.todo # {}
           /\ LET o == Min1(top.todo)
              IN  rb_gc_mark(o, <<[top EXCEPT !.todo = @ \ {o}]>> \o Tail(calls))
  <2> DEFINE o == Min1(top.todo)
             c == [top EXCEPT !.todo = @ \ {o}]
             below == <<c>> \o s
  <2>1. o \in top.todo /\ o \in Objs
    BY <1>6, <1>9, FirstObject
  <2>2. c \in Calls /\ c.obj = top.obj /\ c.todo = top.todo \ {o}
    BY <1>1 DEF Calls
  <2> HIDE DEF o, c, s, top
  <2>3. /\ below \in Seq(Calls) /\ Len(below) = Len(s) + 1 /\ below[1] = c
        /\ \A i \in 1..Len(s) : below[i + 1] = s[i]
        /\ \A i \in 2..Len(s) + 1 : below[i] = s[i - 1]
    BY <1>1, <2>2, Pushed
  <2> HIDE DEF below
  <2>4. Behind(below, marked \cup {o})
    <3> SUFFICES ASSUME NEW i \in 1..Len(below)
                 PROVE  refs[below[i].obj] \ below[i].todo \subseteq marked \cup {o}
      BY DEF Behind
    <3>1. CASE i = 1
      BY <3>1, <2>2, <2>3, <1>5
    <3>2. CASE i # 1
      <4>1. i - 1 \in 1..Len(s) /\ below[i] = s[i - 1]
        BY <3>2, <2>3, <1>1
      <4>2. QED
        BY <4>1, <1>4 DEF Behind
    <3>3. QED
      BY <3>1, <3>2
  <2>5. \A x \in Objs : Active(calls, x) => Active(below, x)
    <3> SUFFICES ASSUME NEW x \in Objs, NEW i \in 1..Len(calls), calls[i].obj = x
                 PROVE  Active(below, x)
      BY DEF Active
    <3>1. CASE i = 1
      BY <3>1, <2>2, <2>3, <1>1 DEF Active
    <3>2. CASE i # 1
      <4>1. i \in 2..Len(calls)
        BY <3>2
      <4>2. i - 1 \in 1..Len(s) /\ calls[i] = s[i - 1] /\ below[i] = s[i - 1]
        BY <4>1, <1>1, <1>3, <2>3
      <4>3. i \in 1..Len(below) /\ below[i].obj = x
        BY <4>2, <2>3, <1>1
      <4>4. QED
        BY <4>3 DEF Active
    <3>3. QED
      BY <3>1, <3>2
  <2>6. rb_gc_mark(o, below)
    BY <1>9 DEF o, c, s, top, below
  <2>7. /\ marked' = marked \cup {o}
        /\ calls' \in Seq(Calls)
        /\ mark_stack' \in Seq(Objs) /\ Len(mark_stack') <= MARK_STACK_MAX
        /\ overflow' \in BOOLEAN
        /\ Behind(calls, marked)'
        /\ GrayAccounted'
    BY <2>1, <2>3, <2>4, <2>5, <2>6, <1>7, MarkSound
  <2>8. QED
    BY <2>7, <2>1, <1>7 DEF RootsMarked, Swept
<1>10. QED
  BY <1>8, <1>9 DEF rb_gc_mark_children

\* A root.
LEMMA RootPreserves ==
  ASSUME Inv, MarkRoot
  PROVE  Inv'
<1> USE DEF Inv, Types, graphVars
<1> DEFINE o == Min1(ahead)
<1>1. o \in ahead /\ o \in Objs
  BY FirstObject DEF MarkRoot
<1> HIDE DEF o
<1>2. /\ UNCHANGED <<refs, roots, room, rest, scan, sweeping>> /\ ~sweeping
      /\ ahead' = ahead \ {o} /\ calls = <<>> /\ rb_gc_mark(o, <<>>)
  BY DEF MarkRoot, Between, o
<1>3. /\ <<>> \in Seq(Calls)
      /\ Behind(<<>>, marked \cup {o})
      /\ \A x \in Objs : Active(calls, x) => Active(<<>>, x)
  BY <1>2 DEF Behind
<1>4. /\ marked' = marked \cup {o}
      /\ calls' \in Seq(Calls)
      /\ mark_stack' \in Seq(Objs) /\ Len(mark_stack') <= MARK_STACK_MAX
      /\ overflow' \in BOOLEAN
      /\ Behind(calls, marked)'
      /\ GrayAccounted'
  BY <1>1, <1>2, <1>3, MarkSound
<1>5. QED
  BY <1>1, <1>2, <1>4 DEF RootsMarked, Swept

\* The loop of rb_gc takes the mark stack over, or begins to scan the heap.
LEMMA LoopPreserves ==
  ASSUME Inv, MarkRest \/ MarkAll
  PROVE  Inv'
<1> USE HeapAssumption, MarkStackAssumption
    DEF Inv, Types, graphVars, Idle, Between, Objs, RootsMarked, Behind, Swept
<1>1. CASE MarkRest
  <2>1. rest' = mark_stack /\ mark_stack' = <<>> /\ calls' = <<>> /\ ~overflow
    BY <1>1 DEF MarkRest
  <2>2. Unfinished' = Unfinished
    BY <1>1, EmptyRange DEF MarkRest, Unfinished
  <2>3. GrayAccounted'
    BY <1>1, <2>1, <2>2 DEF MarkRest, GrayAccounted
  <2>4. QED
    BY <1>1, <2>3 DEF MarkRest
<1>2. CASE MarkAll
  <2>1. 1 <= NumObjs
    <3>1. mark_stack # <<>> /\ mark_stack[1] \in Objs
      BY <1>2 DEF MarkAll
    <3>2. QED
      BY <3>1
  <2>2. Unfinished' = Objs
    BY <1>2, EmptyRange DEF MarkAll, Unfinished
  <2>3. GrayAccounted'
    BY <1>2, <2>2 DEF MarkAll, GrayAccounted
  <2>4. Types'
    <3>1. scan' \in 0..NumObjs
      BY <1>2, <2>1 DEF MarkAll
    <3>2. mark_stack' = <<>> /\ Len(mark_stack') <= MARK_STACK_MAX
      BY <1>2 DEF MarkAll
    <3>3. QED
      BY <1>2, <3>1, <3>2 DEF MarkAll
  <2>5. QED
    BY <1>2, <2>3, <2>4 DEF MarkAll
<1>3. QED
  BY <1>1, <1>2

\* An object of the copied mark stack, or the next object of the heap.
LEMMA TurnPreserves ==
  ASSUME Inv, gc_mark_rest \/ gc_mark_all
  PROVE  Inv'
<1> USE HeapAssumption DEF Inv, Types, graphVars, Between, Swept
<1>1. \A o \in Objs : /\ <<Children(o)>> \in Seq(Calls)
                      /\ Len(<<Children(o)>>) = 1
                      /\ <<Children(o)>>[1] = Children(o)
                      /\ Children(o).obj = o /\ Children(o).todo = refs[o]
  BY DEF Children, Calls
<1>2. ASSUME NEW o \in Objs, calls' = <<Children(o)>>, refs' = refs
      PROVE  Behind(calls, marked)' /\ o \in Unfinished'
  BY <1>1, <1>2 DEF Behind, Unfinished
<1>3. CASE gc_mark_rest
  <2> DEFINE o == Last(rest)
  <2>1. /\ o \in Objs /\ rest' \in Seq(Objs)
        /\ Range(rest) = Range(rest') \cup {o}
    BY <1>3, FrontOf DEF gc_mark_rest
  <2>2. calls' = <<Children(o)>> /\ refs' = refs /\ calls = <<>>
    BY <1>3 DEF gc_mark_rest
  <2> HIDE DEF o
  <2>3. Behind(calls, marked)' /\ o \in Unfinished'
    BY <2>1, <2>2, <1>2
  <2>4. \A x \in marked : x \in Unfinished => x \in Unfinished'
    BY <1>3, <2>1, <2>2, <2>3 DEF gc_mark_rest, Unfinished
  <2>5. GrayAccounted'
    BY <1>3, <2>4 DEF gc_mark_rest, GrayAccounted
  <2>6. QED
    BY <1>1, <1>3, <2>1, <2>2, <2>3, <2>5 DEF gc_mark_rest, RootsMarked
<1>4. CASE gc_mark_all
  <2>1. /\ scan \in Objs /\ calls = <<>> /\ ~sweeping
        /\ UNCHANGED <<refs, roots, ahead, marked, mark_stack, overflow, rest, sweeping>>
        /\ scan' \in 0..NumObjs
    BY <1>4 DEF gc_mark_all, Objs
  <2>2. calls' \in Seq(Calls) /\ Behind(calls, marked)'
    <3>1. CASE scan \in marked
      BY <3>1, <1>4, <1>1, <1>2, <2>1 DEF gc_mark_all
    <3>2. CASE scan \notin marked
      BY <3>2, <1>4, <2>1 DEF gc_mark_all, Behind
    <3>3. QED
      BY <3>1, <3>2
  <2>3. scan \in marked => scan \in Unfinished'
    BY <1>4, <1>2, <2>1 DEF gc_mark_all
  <2>4. \A x \in scan..NumObjs : x = scan \/ (scan' # 0 /\ x \in scan'..NumObjs)
    BY <1>4, <2>1 DEF gc_mark_all, Objs
  <2>5. \A x \in marked : x \in Unfinished => x \in Unfinished'
    <3> SUFFICES ASSUME NEW x \in marked, x \in Unfinished
                 PROVE  x \in Unfinished'
      OBVIOUS
    <3>1. CASE x \in scan..NumObjs
      <4>1. CASE x = scan
        BY <4>1, <2>3
      <4>2. CASE scan' # 0 /\ x \in scan'..NumObjs
        BY <4>2 DEF Unfinished
      <4>3. QED
        BY <4>1, <4>2, <3>1, <2>4
    <3>2. CASE x \notin scan..NumObjs
      BY <3>2, <2>1 DEF Unfinished
    <3>3. QED
      BY <3>1, <3>2
  <2>6. GrayAccounted'
    BY <2>1, <2>5 DEF GrayAccounted
  <2>7. QED
    BY <2>1, <2>2, <2>6 DEF RootsMarked
<1>5. QED
  BY <1>3, <1>4

\* The sweep: an empty mark stack rules the overflow out.
LEMMA SweepPreserves ==
  ASSUME Inv, gc_sweep
  PROVE  Inv'
BY DEF Inv, Types, graphVars, Idle, Between, gc_sweep, RootsMarked, Behind,
       Swept, GrayAccounted, Unfinished

LEMMA Initially == Init => Inv
<1> USE HeapAssumption, MarkStackAssumption
<1> HAVE Init
<1>1. Types
  <2>1. /\ refs \in [Objs -> SUBSET Objs]
        /\ roots \subseteq Objs /\ ahead \subseteq Objs /\ marked \subseteq Objs
    BY DEF Init
  <2>2. /\ calls = <<>> /\ mark_stack = <<>> /\ Len(mark_stack) = 0 /\ rest = <<>>
        /\ scan \in 0..NumObjs /\ Len(mark_stack) <= MARK_STACK_MAX
    BY DEF Init
  <2>3. overflow = FALSE /\ sweeping = FALSE
    BY DEF Init
  <2>4. calls \in Seq(Calls) /\ mark_stack \in Seq(Objs) /\ rest \in Seq(Objs)
    BY <2>2
  <2>5. QED
    BY <2>1, <2>2, <2>3, <2>4, Zenon DEF Types
<1>2. RootsMarked /\ Behind(calls, marked) /\ GrayAccounted /\ Swept
  BY DEF Init, RootsMarked, Behind, GrayAccounted, Swept
<1>3. QED
  BY <1>1, <1>2 DEF Inv

LEMMA StepPreserves == Inv /\ [Next]_vars => Inv'
<1>1. CASE Inv /\ Next
  BY <1>1, ChildrenPreserve, RootPreserves, LoopPreserves, TurnPreserves,
     SweepPreserves DEF Next
<1>2. CASE Inv /\ UNCHANGED vars
  BY <1>2 DEF vars, Inv, Types, RootsMarked, Behind, GrayAccounted, Unfinished, Swept
<1>3. QED
  BY <1>1, <1>2

\* In every state of marking, a marked object whose children are not all marked
\* is one that a call, the mark stack, its copy, the scan of the heap or the
\* overflow flag still stands for, and the flag is set only with a full stack:
\* for every heap, every size of the mark stack and every depth of recursion.
THEOREM UnfinishedRemembered == Spec => []GrayAccounted
<1>1. Inv => GrayAccounted
  BY DEF Inv
<1>2. QED
  BY <1>1, Initially, StepPreserves, PTL DEF Spec

\* The sweep begins only when the marked objects hold every root and are closed
\* under reference, so that rb_gc frees nothing that the program can reach.
THEOREM ReachableKept == Spec => []NothingReachableSwept
<1>1. Inv => NothingReachableSwept
  <2> SUFFICES ASSUME Inv, sweeping
               PROVE  roots \subseteq marked /\ \A o \in marked : refs[o] \subseteq marked
    BY DEF NothingReachableSwept
  <2>1. /\ ahead = {} /\ calls = <<>> /\ rest = <<>> /\ scan = 0 /\ mark_stack = <<>>
    BY DEF Inv, Swept
  <2>2. ~overflow
    BY <2>1, MarkStackAssumption DEF Inv, GrayAccounted
  <2>3. Unfinished = {}
    BY <2>1, <2>2, EmptyRange DEF Unfinished
  <2>4. QED
    BY <2>1, <2>3 DEF Inv, RootsMarked, GrayAccounted
<1>2. QED
  BY <1>1, Initially, StepPreserves, PTL DEF Spec

-----------------------------------------------------------------------------
(* The heap and its finalizers (Collector).                                *)

Locals == [i : Nat, k : Nat, n : Nat, freed : Nat, free : Seq(Slots)]

\* A list without repetition, and the slots in a list of lists.
Once(s) == \A i, j \in 1..Len(s) : s[i] = s[j] => i = j
InLists(ss) == UNION {Range(ss[i]) : i \in 1..Len(ss)}
Apart(ss) == \A i, j \in 1..Len(ss) : i # j => Range(ss[i]) \cap Range(ss[j]) = {}

HeapTyped(h) == /\ h.heaps \in Seq(Pages) /\ h.heaps # <<>> /\ Once(h.heaps)
                /\ h.limit \in [Pages -> {0, PageSize}]
                /\ h.flags \in [Slots -> {"free", "live", "final", "none"}]
                /\ h.freelist \in Seq(Slots)

HeapTypes == /\ heaps \in Seq(Pages) /\ heaps # <<>> /\ Once(heaps)
             /\ limit \in [Pages -> {0, PageSize}]
             /\ flags \in [Slots -> {"free", "live", "final", "none"}]
             /\ freelist \in Seq(Slots)
             /\ fl_finalize \subseteq Slots /\ finalizer_table \subseteq Slots
             /\ ran \in [Slots -> Nat]
             /\ deferred \in Seq(Slots) /\ final_list \in Seq(Slots)
             /\ sweeps \in Seq(Seq(Slots) \ {<<>>})
             /\ sweep \in Locals /\ prohibited \in BOOLEAN
             /\ held \subseteq Slots /\ released \in BOOLEAN /\ exited \in BOOLEAN

\* A slot waits for its finalizer once, in one list; the lists are where the
\* sweep has them.
ListsApart ==
  /\ Once(deferred) /\ Once(final_list) /\ \A i \in 1..Len(sweeps) : Once(sweeps[i])
  /\ Apart(sweeps)
  /\ InLists(sweeps) \cap (Range(deferred) \cup Range(final_list)) = {}
  /\ Sweeping => deferred = <<>> /\ ~released /\ ~exited
  /\ ~Sweeping => final_list = <<>>

\* The finalizers that are still to run.
FinalsDue ==
  /\ \A s \in Slots : ran[s] <= 1 /\ (s \in finalizer_table => ran[s] = 0)
  /\ \A s \in held : ran[s] = 0 \/ exited
  /\ held \cap Pending = {}
  /\ exited => finalizer_table = {}
  /\ ~released => \A s \in finalizer_table : s \in Pending \/ (s \in fl_finalize /\ flags[s] = "live")

\* The pages in use are in heaps, what is free or alive is in a page in use.
PagesSound(h) ==
  /\ \A p \in Pages : h.limit[p] # 0 => p \in Range(h.heaps)
  /\ \A s \in Range(h.freelist) : h.flags[s] = "free" /\ h.limit[s[1]] # 0
  /\ Once(h.freelist)
  /\ \A s \in Slots : h.flags[s] = "live" => h.limit[s[1]] # 0

Heap == [heaps |-> heaps, limit |-> limit, flags |-> flags, freelist |-> freelist]

SlotsSound ==
  /\ PagesSound(Heap)
  /\ \A s \in held : flags[s] = "live"
  /\ \A s \in Pending : flags[s] = "final"
  /\ \A s \in Range(deferred) \cup InLists(sweeps) : limit[s[1]] # 0
  /\ \A s \in Range(final_list) : s[1] \in Range(heaps)

\* Slot m of the page is neither alive nor does an outer sweep have it.
Cleared(m) == flags[<<Page, m>>] # "live" /\ <<Page, m>> \notin InLists(sweeps)

\* Where the sweep is, and what it has done.
SweepAt ==
  /\ sweep.i \in 1..Len(heaps) + 1 /\ sweep.k # 0
  /\ Once(sweep.free) /\ Range(sweep.free) \subseteq Range(freelist)
  /\ \A s \in Range(sweep.free) : \E j \in 1..(sweep.i - 1) : s[1] = heaps[j]
  /\ \A s \in Range(freelist) \ Range(sweep.free) :
       sweep.i <= Len(heaps) /\ s[1] = Page /\ s[2] < sweep.k
  /\ sweep.i <= Len(heaps) =>
       /\ sweep.n <= sweep.k - 1 /\ sweep.k <= limit[Page] + 1
       /\ sweep.n = sweep.k - 1 => \A m \in 1..(sweep.k - 1) : Cleared(m)

HeapInv == /\ HeapTypes /\ ListsApart /\ FinalsDue
           /\ ~released => SlotsSound
           /\ Sweeping => SweepAt

-----------------------------------------------------------------------------
(* Lists.                                                                  *)

LEMMA PushedOnce ==
  ASSUME NEW S, NEW c \in S, NEW s \in Seq(S)
  PROVE  /\ Range(<<c>> \o s) = {c} \cup Range(s)
         /\ Once(s) /\ c \notin Range(s) => Once(<<c>> \o s)
<1> DEFINE t == <<c>> \o s
<1>1. /\ t \in Seq(S) /\ Len(t) = Len(s) + 1 /\ t[1] = c
      /\ \A i \in 1..Len(s) : t[i + 1] = s[i]
      /\ \A i \in 2..Len(s) + 1 : t[i] = s[i - 1]
  BY Pushed
<1>2. Len(s) \in Nat /\ DOMAIN s = 1..Len(s) /\ DOMAIN t = 1..Len(s) + 1
  BY <1>1
<1> HIDE DEF t
<1>3. Range(t) \subseteq {c} \cup Range(s)
  <2>1. SUFFICES ASSUME NEW i \in 1..Len(s) + 1 PROVE t[i] = c \/ t[i] \in Range(s)
    BY <1>2 DEF Range
  <2>2. CASE i = 1
    BY <1>1, <2>2
  <2>3. CASE i # 1
    <3>1. t[i] = s[i - 1] /\ i - 1 \in 1..Len(s)
      BY <1>1, <1>2, <2>3
    <3>2. QED
      BY <1>2, <3>1 DEF Range
  <2>4. QED
    BY <2>2, <2>3
<1>4. {c} \cup Range(s) \subseteq Range(t)
  <2>1. c \in Range(t)
    BY <1>1, <1>2 DEF Range
  <2>2. ASSUME NEW i \in 1..Len(s) PROVE s[i] \in Range(t)
    <3>1. t[i + 1] = s[i] /\ i + 1 \in 1..Len(s) + 1
      BY <1>1, <1>2
    <3>2. QED
      BY <1>2, <3>1 DEF Range
  <2>3. QED
    BY <1>2, <2>1, <2>2 DEF Range
<1>5. ASSUME Once(s), c \notin Range(s) PROVE Once(t)
  <2>1. SUFFICES ASSUME NEW i \in 1..Len(t), NEW j \in 1..Len(t), t[i] = t[j] PROVE i = j
    BY DEF Once
  <2>2. ASSUME NEW m \in 2..Len(s) + 1 PROVE t[m] \in Range(s) /\ t[m] = s[m - 1] /\ m - 1 \in 1..Len(s)
    BY <1>1, <1>2 DEF Range
  <2>3. CASE i = 1 \/ j = 1
    BY <1>1, <1>2, <1>5, <2>1, <2>2, <2>3
  <2>4. CASE i # 1 /\ j # 1
    <3>1. i \in 2..Len(s) + 1 /\ j \in 2..Len(s) + 1
      BY <1>1, <1>2, <2>4
    <3>2. i - 1 = j - 1
      BY <1>5, <2>1, <2>2, <3>1 DEF Once
    <3>3. QED
      BY <3>1, <3>2
  <2>5. QED
    BY <2>3, <2>4
<1>6. QED
  BY <1>3, <1>4, <1>5 DEF t

LEMMA TailOnce ==
  ASSUME NEW S, NEW s \in Seq(S), s # <<>>
  PROVE  /\ Range(s) = {Head(s)} \cup Range(Tail(s))
         /\ Once(s) => Once(Tail(s)) /\ Head(s) \notin Range(Tail(s))
<1> DEFINE t == Tail(s)
<1>1. /\ Head(s) = s[1] /\ t \in Seq(S) /\ Len(t) = Len(s) - 1
      /\ \A i \in 1..Len(s) - 1 : t[i] = s[i + 1]
  BY TailOf
<1>2. Len(s) \in Nat \ {0} /\ DOMAIN s = 1..Len(s) /\ DOMAIN t = 1..Len(s) - 1
  BY <1>1
<1> HIDE DEF t
<1>3. ASSUME NEW i \in 1..Len(s) PROVE s[i] = Head(s) \/ s[i] \in Range(t)
  <2>1. CASE i = 1
    BY <1>1, <2>1
  <2>2. CASE i # 1
    <3>1. i - 1 \in 1..Len(s) - 1 /\ t[i - 1] = s[i]
      BY <1>1, <1>2, <2>2
    <3>2. QED
      BY <1>2, <3>1 DEF Range
  <2>3. QED
    BY <2>1, <2>2
<1>4. ASSUME NEW i \in 1..Len(s) - 1 PROVE t[i] \in Range(s)
  <2>1. i + 1 \in 1..Len(s)
    BY <1>2
  <2>2. QED
    BY <1>1, <1>2, <2>1 DEF Range
<1>5. Range(s) = {Head(s)} \cup Range(t)
  <2>1. Head(s) \in Range(s)
    BY <1>1, <1>2 DEF Range
  <2>2. QED
    BY <1>2, <1>3, <1>4, <2>1 DEF Range
<1>6. ASSUME Once(s) PROVE Once(t) /\ Head(s) \notin Range(t)
  <2>1. ASSUME NEW i \in 1..Len(s) - 1 PROVE t[i] = s[i + 1] /\ i + 1 \in 1..Len(s) /\ i + 1 # 1
    BY <1>1, <1>2
  <2>2. Once(t)
    <3>1. SUFFICES ASSUME NEW i \in 1..Len(t), NEW j \in 1..Len(t), t[i] = t[j] PROVE i = j
      BY DEF Once
    <3>2. i + 1 = j + 1
      BY <1>1, <1>6, <2>1, <3>1 DEF Once
    <3>3. QED
      BY <1>1, <1>2, <3>2
  <2>3. ASSUME NEW i \in 1..Len(s) - 1 PROVE t[i] # Head(s)
    <3>1. 1 \in 1..Len(s)
      BY <1>2
    <3>2. QED
      BY <1>1, <1>6, <2>1, <3>1 DEF Once
  <2>4. QED
    BY <1>2, <2>2, <2>3 DEF Range
<1>7. QED
  BY <1>5, <1>6 DEF t

\* A list is put in front of the lists of the sweeps, or taken off again.
LEMMA PushedLists ==
  ASSUME NEW S, NEW l \in S, NEW ss \in Seq(S)
  PROVE  /\ InLists(<<l>> \o ss) = Range(l) \cup InLists(ss)
         /\ Apart(ss) /\ Range(l) \cap InLists(ss) = {} => Apart(<<l>> \o ss)
         /\ Once(l) /\ (\A i \in 1..Len(ss) : Once(ss[i])) =>
              \A i \in 1..Len(<<l>> \o ss) : Once((<<l>> \o ss)[i])
<1> DEFINE t == <<l>> \o ss
<1>1. /\ t \in Seq(S) /\ Len(t) = Len(ss) + 1 /\ t[1] = l
      /\ \A i \in 1..Len(ss) : t[i + 1] = ss[i]
      /\ \A i \in 2..Len(ss) + 1 : t[i] = ss[i - 1]
  BY Pushed
<1>2. Len(ss) \in Nat
  OBVIOUS
<1> HIDE DEF t
<1>3. ASSUME NEW i \in 1..Len(t), i # 1 PROVE t[i] = ss[i - 1] /\ i - 1 \in 1..Len(ss)
  BY <1>1, <1>2, <1>3
<1>4. ASSUME NEW i \in 1..Len(ss) PROVE t[i + 1] = ss[i] /\ i + 1 \in 1..Len(t)
  BY <1>1, <1>2
<1>5. 1 \in 1..Len(t) /\ t[1] = l
  BY <1>1, <1>2
<1>6. InLists(t) = Range(l) \cup InLists(ss)
  <2>1. ASSUME NEW x \in InLists(t) PROVE x \in Range(l) \cup InLists(ss)
    <3>1. PICK i \in 1..Len(t) : x \in Range(t[i])
      BY <2>1 DEF InLists
    <3>2. CASE i = 1
      BY <1>5, <3>1, <3>2
    <3>3. CASE i # 1
      BY <1>3, <3>1, <3>3 DEF InLists
    <3>4. QED
      BY <3>2, <3>3
  <2>2. Range(l) \subseteq InLists(t)
    BY <1>5 DEF InLists
  <2>3. InLists(ss) \subseteq InLists(t)
    BY <1>4 DEF InLists
  <2>4. QED
    BY <2>1, <2>2, <2>3
<1>7. ASSUME Apart(ss), Range(l) \cap InLists(ss) = {} PROVE Apart(t)
  <2>1. ASSUME NEW i \in 1..Len(t), i # 1 PROVE Range(t[i]) \cap Range(l) = {}
    BY <1>3, <1>7, <2>1 DEF InLists
  <2>2. ASSUME NEW i \in 1..Len(t), NEW j \in 1..Len(t), i # 1, j # 1, i # j
        PROVE  Range(t[i]) \cap Range(t[j]) = {}
    <3>1. i - 1 # j - 1
      BY <2>2
    <3>2. QED
      BY <1>3, <1>7, <2>2, <3>1 DEF Apart
  <2>3. QED
    BY <1>5, <2>1, <2>2 DEF Apart
<1>8. ASSUME Once(l), \A i \in 1..Len(ss) : Once(ss[i]) PROVE \A i \in 1..Len(t) : Once(t[i])
  BY <1>3, <1>5, <1>8
<1>9. QED
  BY <1>6, <1>7, <1>8 DEF t

LEMMA TailLists ==
  ASSUME NEW S, NEW ss \in Seq(S), ss # <<>>
  PROVE  /\ InLists(ss) = Range(Head(ss)) \cup InLists(Tail(ss))
         /\ Apart(ss) => Apart(Tail(ss)) /\ Range(Head(ss)) \cap InLists(Tail(ss)) = {}
         /\ (\A i \in 1..Len(ss) : Once(ss[i])) =>
              Once(Head(ss)) /\ \A i \in 1..Len(Tail(ss)) : Once(Tail(ss)[i])
<1> DEFINE t == Tail(ss)
<1>1. /\ Head(ss) = ss[1] /\ t \in Seq(S) /\ Len(t) = Len(ss) - 1
      /\ \A i \in 1..Len(ss) - 1 : t[i] = ss[i + 1]
  BY TailOf
<1>2. Len(ss) \in Nat \ {0}
  OBVIOUS
<1> HIDE DEF t
<1>3. ASSUME NEW i \in 1..Len(t) PROVE t[i] = ss[i + 1] /\ i + 1 \in 1..Len(ss)
  BY <1>1, <1>2
<1>4. ASSUME NEW i \in 1..Len(ss), i # 1 PROVE ss[i] = t[i - 1] /\ i - 1 \in 1..Len(t)
  <2>1. i - 1 \in 1..Len(ss) - 1 /\ (i - 1) + 1 = i
    BY <1>2, <1>4
  <2>2. QED
    BY <1>1, <2>1
<1>5. 1 \in 1..Len(ss) /\ ss[1] = Head(ss)
  BY <1>1, <1>2
<1>6. InLists(ss) = Range(Head(ss)) \cup InLists(t)
  <2>1. ASSUME NEW x \in InLists(ss) PROVE x \in Range(Head(ss)) \cup InLists(t)
    <3>1. PICK i \in 1..Len(ss) : x \in Range(ss[i])
      BY <2>1 DEF InLists
    <3>2. CASE i = 1
      BY <1>5, <3>1, <3>2
    <3>3. CASE i # 1
      BY <1>4, <3>1, <3>3 DEF InLists
    <3>4. QED
      BY <3>2, <3>3
  <2>2. Range(Head(ss)) \subseteq InLists(ss)
    BY <1>5 DEF InLists
  <2>3. InLists(t) \subseteq InLists(ss)
    BY <1>3 DEF InLists
  <2>4. QED
    BY <2>1, <2>2, <2>3
<1>7. ASSUME Apart(ss) PROVE Apart(t) /\ Range(Head(ss)) \cap InLists(t) = {}
  <2>1. ASSUME NEW i \in 1..Len(t), NEW j \in 1..Len(t), i # j PROVE Range(t[i]) \cap Range(t[j]) = {}
    <3>1. i + 1 # j + 1
      BY <2>1
    <3>2. QED
      BY <1>3, <1>7, <3>1 DEF Apart
  <2>2. ASSUME NEW i \in 1..Len(t) PROVE Range(Head(ss)) \cap Range(t[i]) = {}
    <3>1. i + 1 # 1
      BY <1>1, <1>2
    <3>2. QED
      BY <1>3, <1>5, <1>7, <3>1 DEF Apart
  <2>3. Apart(t)
    BY <2>1 DEF Apart
  <2>4. QED
    BY <2>2, <2>3 DEF InLists
<1>8. ASSUME \A i \in 1..Len(ss) : Once(ss[i]) PROVE Once(Head(ss)) /\ \A i \in 1..Len(t) : Once(t[i])
  BY <1>3, <1>5, <1>8
<1>9. QED
  BY <1>6, <1>7, <1>8 DEF t

-----------------------------------------------------------------------------
(* The pages that are kept.                                                *)

\* kept of KeptPages, defined up to n.
KeepLoop(s, gone, f, n) ==
  f = [i \in 0..n |-> IF i = 0 THEN <<>> ELSE IF s[i] \in gone THEN f[i - 1] ELSE Append(f[i - 1], s[i])]

LEMMA KeepStep ==
  ASSUME NEW s, NEW gone, NEW n \in Nat, n # 0, NEW f, KeepLoop(s, gone, f, n - 1)
  PROVE  \E g : KeepLoop(s, gone, g, n)
<1> DEFINE e == IF s[n] \in gone THEN f[n - 1] ELSE Append(f[n - 1], s[n])
           g == [i \in 0..n |-> IF i = n THEN e ELSE f[i]]
           At(u, i) == IF i = 0 THEN <<>> ELSE IF s[i] \in gone THEN u[i - 1] ELSE Append(u[i - 1], s[i])
<1>1. f = [i \in 0..(n - 1) |-> At(f, i)]
  BY DEF KeepLoop
<1>2. ASSUME NEW i \in 0..n PROVE g[i] = At(g, i)
  <2>1. CASE i = n
    <3>1. g[i] = e /\ n - 1 \in 0..n /\ n - 1 # n
      BY <2>1
    <3> HIDE DEF e
    <3>2. g[n - 1] = f[n - 1]
      BY <3>1
    <3> HIDE DEF g
    <3>3. QED
      BY <2>1, <3>1, <3>2 DEF e
  <2>2. CASE i = 0
    <3>1. 0 \in 0..(n - 1) /\ i # n
      BY <2>2
    <3>2. f[0] = <<>>
      BY <1>1, <3>1, Zenon
    <3>3. QED
      BY <2>2, <3>1, <3>2
  <2>3. CASE i # n /\ i # 0
    <3>1. i \in 0..(n - 1) /\ i - 1 \in 0..n /\ i - 1 # n
      BY <2>3
    <3>2. f[i] = At(f, i)
      BY <1>1, <3>1, Zenon
    <3> HIDE DEF e
    <3>3. g[i] = f[i] /\ g[i - 1] = f[i - 1]
      BY <2>3, <3>1
    <3> HIDE DEF g
    <3>4. QED
      BY <2>3, <3>2, <3>3
  <2>4. QED
    BY <2>1, <2>2, <2>3
<1>3. g = [i \in 0..n |-> At(g, i)]
  <2>1. g = [i \in 0..n |-> g[i]]
    OBVIOUS
  <2> HIDE DEF g, At
  <2>2. QED
    BY <1>2, <2>1, Zenon
<1> HIDE DEF g
<1>4. KeepLoop(s, gone, g, n)
  BY <1>3 DEF KeepLoop
<1>5. QED
  BY <1>4

\* By induction on the number of pages looked at.
LEMMA KeepExists ==
  ASSUME NEW s, NEW gone, NEW n \in Nat
  PROVE  \E f : KeepLoop(s, gone, f, n)
<1> DEFINE Bad == {k \in Nat : ~\E f : KeepLoop(s, gone, f, k)}
<1>1. SUFFICES ASSUME n \in Bad PROVE FALSE
  OBVIOUS
<1>2. PICK k \in Bad : \A j \in Bad : <<j, k>> \notin OpToRel(<, Nat)
  BY <1>1, NatLessThanWellFounded, WFMin
<1>3. k # 0
  <2>1. SUFFICES ASSUME k = 0 PROVE \E f : KeepLoop(s, gone, f, 0)
    BY <1>2
  <2> DEFINE f == [i \in 0..0 |-> <<>>]
  <2>2. f = [i \in 0..0 |-> IF i = 0 THEN <<>>
                            ELSE IF s[i] \in gone THEN f[i - 1] ELSE Append(f[i - 1], s[i])]
    OBVIOUS
  <2> HIDE DEF f
  <2>3. KeepLoop(s, gone, f, 0)
    BY <2>2 DEF KeepLoop
  <2>4. QED
    BY <2>3
<1>4. k - 1 \in Nat /\ <<k - 1, k>> \in OpToRel(<, Nat)
  BY <1>2, <1>3 DEF OpToRel
<1>5. k - 1 \notin Bad
  BY <1>2, <1>4
<1>6. \E f : KeepLoop(s, gone, f, k - 1)
  BY <1>4, <1>5
<1>7. \E f : KeepLoop(s, gone, f, k)
  BY <1>2, <1>3, <1>6, KeepStep
<1>8. QED
  BY <1>2, <1>7

LEMMA AppendOnce ==
  ASSUME NEW p \in Seq(Pages), NEW e \in Pages
  PROVE  /\ Append(p, e) \in Seq(Pages) /\ Range(Append(p, e)) = Range(p) \cup {e}
         /\ Once(p) /\ e \notin Range(p) => Once(Append(p, e))
<1> DEFINE t == Append(p, e)
<1>1. /\ t \in Seq(Pages) /\ Len(t) = Len(p) + 1 /\ t[Len(p) + 1] = e
      /\ \A i \in 1..Len(p) : t[i] = p[i]
  OBVIOUS
<1>2. Len(p) \in Nat /\ DOMAIN p = 1..Len(p) /\ DOMAIN t = 1..Len(p) + 1
  BY <1>1
<1> HIDE DEF t
<1>3. ASSUME NEW i \in 1..Len(p) + 1 PROVE i \in 1..Len(p) \/ i = Len(p) + 1
  BY <1>2
<1>4. ASSUME NEW i \in 1..Len(p) PROVE i \in 1..Len(p) + 1 /\ p[i] \in Range(p) /\ t[i] = p[i]
  BY <1>1, <1>2 DEF Range
<1>5. Len(p) + 1 \in 1..Len(p) + 1
  BY <1>2
<1>6. Range(t) = Range(p) \cup {e}
  BY <1>1, <1>2, <1>3, <1>4, <1>5 DEF Range
<1>7. ASSUME Once(p), e \notin Range(p) PROVE Once(t)
  BY <1>1, <1>3, <1>4, <1>7 DEF Once
<1>8. QED
  BY <1>1, <1>6, <1>7 DEF t

\* What the last loop of gc_sweep leaves in heaps.
LEMMA KeptSound ==
  ASSUME NEW h, HeapTyped(h)
  PROVE  LET t == KeptPages(h.heaps, h.limit) IN
         /\ t \in Seq(Pages) /\ t # <<>> /\ Once(t)
         /\ Range(t) = Range(h.heaps) \ EmptyPages(h.heaps, h.limit)
<1> DEFINE s == h.heaps
           gone == EmptyPages(h.heaps, h.limit)
           K == CHOOSE f : KeepLoop(s, gone, f, Len(s))
           Kept(i) == /\ K[i] \in Seq(Pages) /\ Once(K[i])
                      /\ Range(K[i]) = {s[j] : j \in 1..i} \ gone
           Bad == {i \in 0..Len(s) : ~Kept(i)}
<1>1. KeptPages(h.heaps, h.limit) = K[Len(s)]
  BY DEF KeptPages, KeepLoop
<1>2. s \in Seq(Pages) /\ s # <<>> /\ Once(s) /\ Len(s) \in Nat \ {0} /\ DOMAIN s = 1..Len(s)
  BY DEF HeapTyped
<1>3. KeepLoop(s, gone, K, Len(s))
  BY <1>2, KeepExists
<1> HIDE DEF K, s, gone
<1>4. ASSUME NEW i \in 0..Len(s)
      PROVE  K[i] = IF i = 0 THEN <<>> ELSE IF s[i] \in gone THEN K[i - 1] ELSE Append(K[i - 1], s[i])
  BY <1>3, Zenon DEF KeepLoop
<1>5. Bad = {}
  <2>1. SUFFICES ASSUME Bad # {} PROVE FALSE
    OBVIOUS
  <2>2. Bad \subseteq Nat
    BY <1>2
  <2>3. PICK k \in Bad : \A j \in Bad : <<j, k>> \notin OpToRel(<, Nat)
    BY <2>1, <2>2, NatLessThanWellFounded, WFMin
  <2>4. k \in 0..Len(s) /\ ~Kept(k)
    BY <2>3
  <2>5. CASE k = 0
    <3>1. K[k] = <<>>
      BY <1>4, <2>4, <2>5
    <3>2. Range(K[k]) = {} /\ {s[j] : j \in 1..k} = {} /\ Once(K[k]) /\ K[k] \in Seq(Pages)
      BY <2>5, <3>1, EmptyRange DEF Once
    <3>3. QED
      BY <2>4, <3>2
  <2>6. CASE k # 0
    <3>1. k - 1 \in 0..Len(s) /\ k \in 1..Len(s) /\ k \in Nat
      BY <1>2, <2>4, <2>6
    <3>2. Kept(k - 1)
      <4>1. <<k - 1, k>> \in OpToRel(<, Nat)
        BY <1>2, <3>1 DEF OpToRel
      <4>2. QED
        BY <2>3, <3>1, <4>1
    <3> DEFINE p == K[k - 1]
               before == {s[j] : j \in 1..(k - 1)}
    <3>3. p \in Seq(Pages) /\ Once(p) /\ Range(p) = before \ gone
      BY <3>2
    <3>4. K[k] = IF s[k] \in gone THEN p ELSE Append(p, s[k])
      BY <1>4, <2>4, <2>6
    <3> HIDE DEF p
    <3>5. {s[j] : j \in 1..k} = before \cup {s[k]}
      BY <3>1
    <3>6. s[k] \notin before
      <4>1. \A j \in 1..(k - 1) : j \in 1..Len(s) /\ j # k
        BY <1>2, <3>1
      <4>2. QED
        BY <1>2, <3>1, <4>1 DEF Once
    <3>7. s[k] \in Pages
      BY <1>2, <3>1
    <3> HIDE DEF before
    <3>8. CASE s[k] \in gone
      <4>1. K[k] = p
        BY <3>4, <3>8
      <4>2. QED
        BY <2>4, <3>3, <3>5, <3>8, <4>1
    <3>9. CASE s[k] \notin gone
      <4>1. K[k] = Append(p, s[k])
        BY <3>4, <3>9
      <4>2. K[k] \in Seq(Pages) /\ Once(K[k]) /\ Range(K[k]) = Range(p) \cup {s[k]}
        BY <3>3, <3>6, <3>7, <4>1, AppendOnce
      <4>3. QED
        BY <2>4, <3>3, <3>5, <3>9, <4>2
    <3>10. QED
      BY <3>8, <3>9
  <2>7. QED
    BY <2>5, <2>6
<1>6. Kept(Len(s))
  <2>1. Len(s) \in 0..Len(s)
    BY <1>2
  <2> HIDE DEF Kept
  <2>2. QED
    BY <1>5, <2>1
<1>7. {s[j] : j \in 1..Len(s)} = Range(s)
  BY <1>2 DEF Range
<1>8. s[1] \in Range(s) \ gone
  <2>1. s[1] \in Range(s)
    BY <1>2 DEF Range
  <2>2. QED
    BY <2>1 DEF s, gone, EmptyPages
<1>9. K[Len(s)] # <<>>
  BY <1>6, <1>7, <1>8, EmptyRange
<1>10. QED
  BY <1>1, <1>6, <1>7, <1>9 DEF s, gone

\* The release of pages keeps what is in use.
LEMMA CompactSound ==
  ASSUME NEW h, HeapTyped(h), Compact(h)
  PROVE  /\ HeapTyped(Heap') /\ limit' = h.limit /\ freelist' = h.freelist
         /\ PagesSound(h) => PagesSound(Heap')
         /\ \A s \in Slots : h.limit[s[1]] # 0 => flags'[s] = h.flags[s]
         /\ \A p \in Range(h.heaps) : h.limit[p] # 0 => p \in Range(heaps')
<1> DEFINE gone == EmptyPages(h.heaps, h.limit)
<1>1. /\ heaps' \in Seq(Pages) /\ heaps' # <<>> /\ Once(heaps')
      /\ Range(heaps') = Range(h.heaps) \ gone
  BY KeptSound DEF Compact
<1>2. \A p \in gone : h.limit[p] = 0
  BY DEF EmptyPages
<1>3. limit' = h.limit /\ freelist' = h.freelist
      /\ flags' = [s \in Slots |-> IF s[1] \in gone THEN "none" ELSE h.flags[s]]
  BY DEF Compact
<1>4. flags' \in [Slots -> {"free", "live", "final", "none"}]
  BY <1>3 DEF HeapTyped
<1>5. \A s \in Slots : flags'[s] = IF s[1] \in gone THEN "none" ELSE h.flags[s]
  BY <1>3
<1>6. HeapTyped(Heap')
  BY <1>1, <1>3, <1>4 DEF HeapTyped, Heap
<1>7. ASSUME PagesSound(h) PROVE PagesSound(Heap')
  <2>1. \A p \in Pages : limit'[p] # 0 => p \in Range(heaps')
    BY <1>1, <1>2, <1>3, <1>7 DEF PagesSound
  <2>2. Range(freelist') \subseteq Slots
    BY <1>3, RangeIn DEF HeapTyped
  <2>3. \A s \in Range(freelist') : flags'[s] = "free" /\ limit'[s[1]] # 0
    BY <1>2, <1>3, <1>5, <1>7, <2>2 DEF PagesSound
  <2>4. \A s \in Slots : flags'[s] = "live" => limit'[s[1]] # 0
    BY <1>3, <1>5, <1>7 DEF PagesSound
  <2>5. QED
    BY <1>3, <1>7, <2>1, <2>3, <2>4 DEF PagesSound, Heap
<1>8. QED
  BY <1>1, <1>2, <1>3, <1>5, <1>6, <1>7

-----------------------------------------------------------------------------
(* A new page.                                                             *)

LEMMA NewSlotsOnce ==
  ASSUME NEW p \in Pages
  PROVE  /\ NewSlots(p) \in Seq(Slots) /\ Once(NewSlots(p))
         /\ Range(NewSlots(p)) = {s \in Slots : s[1] = p}
<1> DEFINE t == NewSlots(p)
<1>1. PageSize \in Nat
  BY PageAssumption
<1>2. t = [k \in 1..PageSize |-> <<p, PageSize + 1 - k>>]
  BY DEF NewSlots
<1> HIDE DEF t
<1>3. ASSUME NEW k \in 1..PageSize
      PROVE  PageSize + 1 - k \in 1..PageSize /\ t[k] = <<p, PageSize + 1 - k>> /\ t[k] \in Slots
  BY <1>1, <1>2 DEF Slots
<1>4. t \in Seq(Slots) /\ Len(t) = PageSize /\ DOMAIN t = 1..PageSize
  <2>1. t \in [1..PageSize -> Slots]
    BY <1>2, <1>3, Zenon
  <2>2. QED
    BY <1>1, <2>1
<1>5. Once(t)
  <2>1. SUFFICES ASSUME NEW i \in 1..PageSize, NEW j \in 1..PageSize, t[i] = t[j] PROVE i = j
    BY <1>4 DEF Once
  <2>2. PageSize + 1 - i = PageSize + 1 - j
    BY <1>3, <2>1
  <2>3. QED
    BY <1>1, <2>2
<1>6. Range(t) \subseteq {s \in Slots : s[1] = p}
  BY <1>3, <1>4 DEF Range
<1>7. ASSUME NEW s \in Slots, s[1] = p PROVE s \in Range(t)
  <2>1. s[2] \in 1..PageSize /\ s = <<p, s[2]>>
    BY <1>7 DEF Slots
  <2> DEFINE k == PageSize + 1 - s[2]
  <2>2. k \in 1..PageSize /\ PageSize + 1 - k = s[2]
    BY <1>1, <2>1
  <2>3. t[k] = s
    BY <1>3, <2>1, <2>2
  <2>4. QED
    BY <1>4, <2>2, <2>3 DEF Range
<1>8. QED
  BY <1>4, <1>5, <1>6, <1>7 DEF t

LEMMA ConcatOnce ==
  ASSUME NEW S, NEW a \in Seq(S), NEW b \in Seq(S), Once(a), Once(b), Range(a) \cap Range(b) = {}
  PROVE  /\ a \o b \in Seq(S) /\ Once(a \o b)
         /\ Range(a \o b) = Range(a) \cup Range(b)
<1> DEFINE t == a \o b
<1>1. /\ t \in Seq(S) /\ Len(t) = Len(a) + Len(b)
      /\ \A i \in 1..Len(t) : t[i] = IF i <= Len(a) THEN a[i] ELSE b[i - Len(a)]
  BY ConcatProperties
<1>2. Len(a) \in Nat /\ Len(b) \in Nat /\ DOMAIN a = 1..Len(a) /\ DOMAIN b = 1..Len(b)
      /\ DOMAIN t = 1..Len(t)
  BY <1>1
<1> HIDE DEF t
<1>3. ASSUME NEW i \in 1..Len(t), i <= Len(a)
      PROVE  t[i] = a[i] /\ i \in 1..Len(a) /\ t[i] \in Range(a)
  BY <1>1, <1>2, <1>3 DEF Range
<1>4. ASSUME NEW i \in 1..Len(t), ~(i <= Len(a))
      PROVE  t[i] = b[i - Len(a)] /\ i - Len(a) \in 1..Len(b) /\ t[i] \in Range(b)
  BY <1>1, <1>2, <1>4 DEF Range
<1>5. Once(t)
  <2>1. SUFFICES ASSUME NEW i \in 1..Len(t), NEW j \in 1..Len(t), t[i] = t[j] PROVE i = j
    BY DEF Once
  <2>2. CASE i <= Len(a) /\ j <= Len(a)
    BY <1>3, <2>1, <2>2 DEF Once
  <2>3. CASE ~(i <= Len(a)) /\ ~(j <= Len(a))
    <3>1. i - Len(a) = j - Len(a)
      BY <1>4, <2>1, <2>3 DEF Once
    <3>2. QED
      BY <1>2, <3>1
  <2>4. CASE i <= Len(a) <=> ~(j <= Len(a))
    BY <1>3, <1>4, <2>1, <2>4
  <2>5. QED
    BY <2>2, <2>3, <2>4
<1>6. Range(t) = Range(a) \cup Range(b)
  BY RangeConcatenation DEF t
<1>7. QED
  BY <1>1, <1>5, <1>6 DEF t

\* add_heap keeps what is in use.
LEMMA AddHeapSound ==
  ASSUME NEW h, HeapTyped(h), PagesSound(h)
  PROVE  /\ HeapTyped(add_heap(h)) /\ PagesSound(add_heap(h))
         /\ \A p \in Range(h.heaps) : p \in Range(add_heap(h).heaps) /\ add_heap(h).limit[p] = h.limit[p]
         /\ \A s \in Slots : s[1] \in Range(h.heaps) => add_heap(h).flags[s] = h.flags[s]
<1>1. CASE Range(h.heaps) = Pages
  BY <1>1 DEF add_heap
<1>2. CASE Range(h.heaps) # Pages
  <2> DEFINE p == CHOOSE p \in Pages : p \notin Range(h.heaps)
             g == add_heap(h)
  <2>1. Range(h.heaps) \subseteq Pages
    BY RangeIn DEF HeapTyped
  <2>2. p \in Pages /\ p \notin Range(h.heaps)
    BY <1>2, <2>1
  <2>3. g = [heaps |-> Append(h.heaps, p),
             limit |-> [h.limit EXCEPT ![p] = PageSize],
             flags |-> [s \in Slots |-> IF s[1] = p THEN "free" ELSE h.flags[s]],
             freelist |-> NewSlots(p) \o h.freelist]
    BY <1>2 DEF add_heap
  <2> HIDE DEF p, g
  <2>4. /\ g.heaps = Append(h.heaps, p) /\ g.limit = [h.limit EXCEPT ![p] = PageSize]
        /\ g.flags = [s \in Slots |-> IF s[1] = p THEN "free" ELSE h.flags[s]]
        /\ g.freelist = NewSlots(p) \o h.freelist
    BY <2>3
  <2>5. /\ g.heaps \in Seq(Pages) /\ Range(g.heaps) = Range(h.heaps) \cup {p} /\ Once(g.heaps)
    BY <2>2, <2>4, AppendOnce DEF HeapTyped
  <2>6. g.heaps # <<>>
    BY <2>5, EmptyRange
  <2>7. PageSize # 0 /\ g.limit \in [Pages -> {0, PageSize}]
        /\ g.limit[p] = PageSize /\ \A q \in Pages \ {p} : g.limit[q] = h.limit[q]
    BY <2>2, <2>4, PageAssumption DEF HeapTyped
  <2>8. g.flags \in [Slots -> {"free", "live", "final", "none"}]
        /\ \A s \in Slots : g.flags[s] = IF s[1] = p THEN "free" ELSE h.flags[s]
    BY <2>4 DEF HeapTyped
  <2>9. h.limit[p] = 0
    BY <2>2 DEF PagesSound
  <2>10. h.freelist \in Seq(Slots) /\ Range(h.freelist) \subseteq Slots
    BY RangeIn DEF HeapTyped
  <2>11. ASSUME NEW s \in Range(h.freelist) PROVE s[1] # p /\ s[1] \in Pages
    <3>1. s \in Slots /\ s[1] \in Pages
      BY <2>10 DEF Slots
    <3>2. QED
      BY <2>9, <3>1 DEF PagesSound
  <2>12. Range(NewSlots(p)) \cap Range(h.freelist) = {}
    BY <2>2, <2>11, NewSlotsOnce
  <2>13. /\ g.freelist \in Seq(Slots) /\ Once(g.freelist)
         /\ Range(g.freelist) = {s \in Slots : s[1] = p} \cup Range(h.freelist)
    <3>1. Once(h.freelist)
      BY DEF PagesSound
    <3>2. NewSlots(p) \in Seq(Slots) /\ Once(NewSlots(p)) /\ Range(NewSlots(p)) = {s \in Slots : s[1] = p}
      BY <2>2, NewSlotsOnce
    <3>3. QED
      BY <2>4, <2>10, <2>12, <3>1, <3>2, ConcatOnce
  <2>14. HeapTyped(g)
    BY <2>5, <2>6, <2>7, <2>8, <2>13 DEF HeapTyped
  <2>15. \A s \in Slots : s[1] \in Pages
    BY DEF Slots
  <2>16. PagesSound(g)
    <3>1. \A q \in Pages : g.limit[q] # 0 => q \in Range(g.heaps)
      BY <2>5, <2>7 DEF PagesSound
    <3>2. \A s \in Range(g.freelist) : g.flags[s] = "free" /\ g.limit[s[1]] # 0
      BY <2>7, <2>8, <2>10, <2>11, <2>13 DEF PagesSound
    <3>3. \A s \in Slots : g.flags[s] = "live" => g.limit[s[1]] # 0
      BY <2>7, <2>8, <2>15 DEF PagesSound
    <3>4. QED
      BY <2>13, <3>1, <3>2, <3>3 DEF PagesSound
  <2>17. \A q \in Range(h.heaps) : q \in Range(g.heaps) /\ g.limit[q] = h.limit[q]
    BY <2>1, <2>2, <2>5, <2>7
  <2>18. \A s \in Slots : s[1] \in Range(h.heaps) => g.flags[s] = h.flags[s]
    BY <2>2, <2>8
  <2>19. QED
    BY <2>14, <2>16, <2>17, <2>18 DEF g
<1>3. QED
  BY <1>1, <1>2

-----------------------------------------------------------------------------
(* The operations of the program.                                          *)

LEMMA SlotParts ==
  ASSUME NEW s \in Slots
  PROVE  s[1] \in Pages /\ s[2] \in 1..PageSize /\ s = <<s[1], s[2]>>
BY DEF Slots

LEMMA PendingSlots ==
  ASSUME HeapTypes
  PROVE  /\ Pending = Range(deferred) \cup Range(final_list) \cup InLists(sweeps)
         /\ Pending \subseteq Slots
<1>1. Range(deferred) \subseteq Slots /\ Range(final_list) \subseteq Slots
  BY RangeIn DEF HeapTypes
<1>2. ASSUME NEW i \in 1..Len(sweeps) PROVE Range(sweeps[i]) \subseteq Slots
  <2>1. sweeps[i] \in Seq(Slots)
    BY DEF HeapTypes
  <2>2. QED
    BY <2>1, RangeIn
<1>3. QED
  BY <1>1, <1>2 DEF Pending, InLists

LEMMA ListsKept ==
  ASSUME ListsApart, UNCHANGED <<deferred, sweeps, final_list, sweep, released, exited>>
  PROVE  ListsApart' /\ Pending' = Pending /\ Sweeping' = Sweeping
BY DEF ListsApart, Pending, Sweeping

LEMMA DropStep ==
  ASSUME HeapInv, NEW s \in Slots, Drop(s)
  PROVE  HeapInv'
<1> USE DEF HeapInv
<1>1. ~released /\ ~exited /\ ~Sweeping /\ held' = held \ {s}
      /\ UNCHANGED <<slotVars, finalVars, deferred, sweeps, sweepVars, released, exited>>
  BY DEF Drop, HeapOperation
<1>2. ListsApart' /\ Pending' = Pending /\ ~Sweeping'
  BY <1>1, ListsKept DEF sweepVars
<1>3. HeapTypes'
  BY <1>1 DEF HeapTypes, slotVars, finalVars, sweepVars
<1>4. FinalsDue'
  BY <1>1, <1>2 DEF FinalsDue, slotVars, finalVars
<1>5. SlotsSound'
  <2>1. Heap' = Heap
    BY <1>1 DEF Heap, slotVars
  <2>2. PagesSound(Heap)'
    BY <1>1, <2>1 DEF SlotsSound, PagesSound
  <2>3. QED
    BY <1>1, <1>2, <2>2 DEF SlotsSound, slotVars, sweepVars
<1>6. QED
  BY <1>2, <1>3, <1>4, <1>5

LEMMA DefineStep ==
  ASSUME HeapInv, NEW s \in Slots, define_final(s) \/ undefine_final(s)
  PROVE  HeapInv'
<1> USE DEF HeapInv
<1>1. /\ ~released /\ ~exited /\ ~Sweeping /\ s \in held
      /\ UNCHANGED <<slotVars, ran, deferred, sweeps, sweepVars, held, released, exited>>
      /\ \/ /\ fl_finalize' = fl_finalize \cup {s}
            /\ finalizer_table' = finalizer_table \cup {s}
         \/ fl_finalize' = fl_finalize /\ finalizer_table' = finalizer_table \ {s}
  BY DEF define_final, undefine_final, HeapOperation
<1>2. ListsApart' /\ Pending' = Pending /\ ~Sweeping'
  BY <1>1, ListsKept DEF sweepVars
<1>3. HeapTypes'
  BY <1>1 DEF HeapTypes, slotVars, sweepVars
<1>4. Heap' = Heap
  BY <1>1 DEF Heap, slotVars
<1>5. SlotsSound'
  <2>1. PagesSound(Heap)'
    BY <1>1, <1>4 DEF SlotsSound, PagesSound
  <2>2. QED
    BY <1>1, <1>2, <2>1 DEF SlotsSound, slotVars, sweepVars
<1>6. FinalsDue'
  <2>1. flags[s] = "live" /\ ran[s] = 0
    BY <1>1 DEF SlotsSound, FinalsDue
  <2>2. flags' = flags /\ ran' = ran /\ held' = held /\ exited' = exited /\ released' = released
    BY <1>1 DEF slotVars
  <2>3. \A x \in finalizer_table' : x = s \/ x \in finalizer_table
    BY <1>1
  <2>4. fl_finalize \subseteq fl_finalize' /\ (s \in finalizer_table' => s \in fl_finalize')
    BY <1>1
  <2>5. QED
    BY <1>1, <1>2, <2>1, <2>2, <2>3, <2>4 DEF FinalsDue
<1>7. QED
  BY <1>2, <1>3, <1>5, <1>6

LEMMA NewObjStep ==
  ASSUME HeapInv, rb_newobj
  PROVE  HeapInv'
<1> USE DEF HeapInv
<1> DEFINE s == Head(freelist)
<1>1. /\ ~released /\ ~exited /\ ~Sweeping /\ freelist # <<>>
      /\ flags' = [flags EXCEPT ![s] = "live"] /\ held' = held \cup {s}
      /\ fl_finalize' = fl_finalize \ {s} /\ ran' = [ran EXCEPT ![s] = 0]
      /\ freelist' = Tail(freelist)
      /\ UNCHANGED <<heaps, limit, finalizer_table, deferred, sweeps, sweepVars, released, exited>>
  BY DEF rb_newobj, HeapOperation
<1>2. ListsApart' /\ Pending' = Pending /\ ~Sweeping'
  BY <1>1, ListsKept DEF sweepVars
<1>3. freelist \in Seq(Slots)
  BY DEF HeapTypes
<1>4. /\ s \in Slots /\ freelist' \in Seq(Slots)
      /\ Range(freelist) = {s} \cup Range(freelist')
      /\ Once(freelist) => Once(freelist') /\ s \notin Range(freelist')
  BY <1>1, <1>3, TailOf, TailOnce
<1> HIDE DEF s
<1>5. SlotsSound /\ PagesSound(Heap)
  BY <1>1 DEF SlotsSound
<1>6. /\ \A p \in Pages : limit[p] # 0 => p \in Range(heaps)
      /\ \A x \in Range(freelist) : flags[x] = "free" /\ limit[x[1]] # 0
      /\ Once(freelist)
      /\ \A x \in Slots : flags[x] = "live" => limit[x[1]] # 0
  BY <1>5 DEF PagesSound, Heap
<1>7. flags[s] = "free" /\ limit[s[1]] # 0 /\ s \notin Range(freelist') /\ Once(freelist')
  BY <1>4, <1>6
<1>8. s \notin held /\ s \notin Pending
  BY <1>5, <1>7 DEF SlotsSound
<1>9. s \notin finalizer_table
  BY <1>1, <1>7, <1>8 DEF FinalsDue
<1>10. flags \in [Slots -> {"free", "live", "final", "none"}] /\ ran \in [Slots -> Nat]
  BY DEF HeapTypes
<1>11. /\ flags'[s] = "live" /\ \A x \in Slots \ {s} : flags'[x] = flags[x]
       /\ ran'[s] = 0 /\ \A x \in Slots \ {s} : ran'[x] = ran[x]
       /\ flags' \in [Slots -> {"free", "live", "final", "none"}] /\ ran' \in [Slots -> Nat]
  BY <1>1, <1>4, <1>10
<1>12. HeapTypes'
  BY <1>1, <1>4, <1>11 DEF HeapTypes, sweepVars
<1>13. Pending \subseteq Slots /\ held \subseteq Slots /\ finalizer_table \subseteq Slots
       /\ Range(freelist') \subseteq Slots
  BY <1>4, PendingSlots, RangeIn DEF HeapTypes
<1>14. FinalsDue'
  <2>1. \A x \in Slots : ran'[x] <= 1 /\ (x \in finalizer_table' => ran'[x] = 0)
    BY <1>1, <1>11 DEF FinalsDue
  <2>2. \A x \in held' : ran'[x] = 0 \/ exited'
    BY <1>1, <1>4, <1>11, <1>13 DEF FinalsDue
  <2>3. held' \cap Pending' = {}
    BY <1>1, <1>2, <1>8 DEF FinalsDue
  <2>4. \A x \in finalizer_table' : x \in Pending' \/ (x \in fl_finalize' /\ flags'[x] = "live")
    BY <1>1, <1>2, <1>9, <1>11, <1>13 DEF FinalsDue
  <2>5. QED
    BY <1>1, <2>1, <2>2, <2>3, <2>4 DEF FinalsDue
<1>15. SlotsSound'
  <2>1. PagesSound(Heap')
    <3>1. \A x \in Range(freelist') : flags'[x] = "free" /\ limit'[x[1]] # 0
      BY <1>1, <1>4, <1>6, <1>7, <1>11, <1>13
    <3>2. \A x \in Slots : flags'[x] = "live" => limit'[x[1]] # 0
      BY <1>1, <1>6, <1>7, <1>11
    <3>3. QED
      BY <1>1, <1>6, <1>7, <3>1, <3>2 DEF PagesSound, Heap
  <2>2. \A x \in held' : flags'[x] = "live"
    BY <1>1, <1>5, <1>11, <1>13 DEF SlotsSound
  <2>3. \A x \in Pending' : flags'[x] = "final"
    BY <1>2, <1>5, <1>8, <1>11, <1>13 DEF SlotsSound
  <2>4. QED
    BY <1>1, <1>5, <2>1, <2>2, <2>3 DEF SlotsSound, PagesSound, sweepVars
<1>16. QED
  BY <1>1, <1>2, <1>12, <1>14, <1>15

LEMMA HeapTypedNow ==
  ASSUME HeapTypes
  PROVE  HeapTyped(Heap)
BY DEF HeapTypes, HeapTyped, Heap

LEMMA NewPageStep ==
  ASSUME HeapInv, NewPage
  PROVE  HeapInv'
<1> USE DEF HeapInv
<1> DEFINE h == add_heap(Heap)
<1>1. /\ ~released /\ ~exited /\ ~Sweeping
      /\ heaps' = h.heaps /\ limit' = h.limit /\ flags' = h.flags /\ freelist' = h.freelist
      /\ UNCHANGED <<finalVars, deferred, sweeps, sweepVars, held, released, exited>>
  BY DEF NewPage, HeapOperation, Heap
<1>2. ListsApart' /\ Pending' = Pending /\ ~Sweeping'
  BY <1>1, ListsKept DEF sweepVars
<1>3. SlotsSound /\ PagesSound(Heap) /\ HeapTyped(Heap)
  BY <1>1, HeapTypedNow DEF SlotsSound
<1>4. /\ HeapTyped(h) /\ PagesSound(h)
      /\ \A p \in Range(heaps) : p \in Range(h.heaps) /\ h.limit[p] = limit[p]
      /\ \A s \in Slots : s[1] \in Range(heaps) => h.flags[s] = flags[s]
  BY <1>3, AddHeapSound DEF Heap
<1> HIDE DEF h
<1>5. HeapTypes'
  BY <1>1, <1>4 DEF HeapTypes, HeapTyped, finalVars, sweepVars
<1>6. \A s \in Slots : limit[s[1]] # 0 => s[1] \in Range(heaps) /\ limit'[s[1]] # 0 /\ flags'[s] = flags[s]
  BY <1>1, <1>3, <1>4, SlotParts DEF PagesSound, Heap
<1>7. Pending = Range(deferred) \cup InLists(sweeps) /\ Pending \subseteq Slots /\ final_list = <<>>
  BY <1>1, PendingSlots, EmptyRange DEF ListsApart
<1>8. \A s \in Pending : flags'[s] = "final" /\ limit'[s[1]] # 0
  BY <1>3, <1>6, <1>7 DEF SlotsSound
<1>9. \A s \in Slots : flags[s] = "live" => flags'[s] = "live"
  BY <1>3, <1>6 DEF PagesSound, Heap
<1>10. held \subseteq Slots /\ finalizer_table \subseteq Slots
  BY DEF HeapTypes
<1>11. SlotsSound'
  <2>1. PagesSound(Heap')
    BY <1>1, <1>4 DEF PagesSound, Heap
  <2>2. \A s \in held' : flags'[s] = "live"
    BY <1>1, <1>3, <1>9, <1>10 DEF SlotsSound
  <2>3. Range(final_list') = {}
    BY <1>1, <1>7, EmptyRange DEF sweepVars
  <2>4. QED
    BY <1>1, <1>2, <1>7, <1>8, <2>1, <2>2, <2>3 DEF SlotsSound, PagesSound
<1>12. FinalsDue'
  <2>1. \A s \in finalizer_table' : s \in Pending' \/ (s \in fl_finalize' /\ flags'[s] = "live")
    BY <1>1, <1>2, <1>9, <1>10 DEF FinalsDue, finalVars
  <2>2. QED
    BY <1>1, <1>2, <2>1 DEF FinalsDue, finalVars
<1>13. QED
  BY <1>2, <1>5, <1>11, <1>12

-----------------------------------------------------------------------------
(* The sweep.                                                              *)

LEMMA StartStep ==
  ASSUME HeapInv, rb_gc_start
  PROVE  HeapInv'
<1> USE DEF HeapInv
<1>1. /\ ~released /\ ~exited /\ ~Sweeping
      /\ sweep' = [i |-> 1, k |-> 1, n |-> 0, freed |-> 0, free |-> <<>>]
      /\ prohibited' \in BOOLEAN /\ freelist' = <<>> /\ final_list' = deferred /\ deferred' = <<>>
      /\ UNCHANGED <<heaps, limit, flags, finalVars, sweeps, held, released, exited>>
  BY DEF rb_gc_start, HeapOperation, NoSweep
<1>2. sweep' \in Locals
  BY <1>1 DEF Locals
<1>3. HeapTypes'
  BY <1>1, <1>2 DEF HeapTypes, finalVars
<1>4. SlotsSound /\ PagesSound(Heap) /\ final_list = <<>>
  BY <1>1 DEF SlotsSound, ListsApart
<1>5. Sweeping'
  BY <1>1 DEF Sweeping
<1>6. Range(freelist') = {} /\ Range(deferred') = {} /\ Range(final_list) = {}
  BY <1>1, <1>4, EmptyRange
<1>7. ListsApart'
  <2>1. Once(deferred')
    BY <1>1 DEF Once
  <2>2. QED
    BY <1>1, <1>5, <1>6, <2>1 DEF ListsApart
<1>8. Pending' = Pending /\ Pending \subseteq Slots
      /\ Pending = Range(deferred) \cup InLists(sweeps)
  BY <1>1, <1>6, PendingSlots DEF Pending
<1>9. FinalsDue'
  BY <1>1, <1>8 DEF FinalsDue, finalVars
<1>10. \A s \in Slots : limit[s[1]] # 0 => s[1] \in Range(heaps)
  BY <1>4, SlotParts DEF PagesSound, Heap
<1>11. SlotsSound'
  <2>1. PagesSound(Heap')
    <3>1. Once(freelist')
      BY <1>1 DEF Once
    <3>2. QED
      BY <1>1, <1>4, <1>6, <3>1 DEF PagesSound, Heap
  <2>2. \A s \in Range(final_list') : s[1] \in Range(heaps')
    BY <1>1, <1>4, <1>8, <1>10 DEF SlotsSound
  <2>3. QED
    BY <1>1, <1>4, <1>6, <1>8, <2>1, <2>2 DEF SlotsSound, PagesSound
<1>12. SweepAt'
  <2>1. Len(heaps) \in Nat \ {0} /\ heaps[1] \in Pages
    BY DEF HeapTypes
  <2>2. limit[heaps[1]] \in Nat
    BY <2>1, PageAssumption DEF HeapTypes
  <2>3. Once(<<>>) /\ Range(<<>>) = {}
    BY EmptyRange DEF Once
  <2>4. QED
    BY <1>1, <1>6, <2>1, <2>2, <2>3 DEF SweepAt, Page
<1>13. QED
  BY <1>3, <1>5, <1>7, <1>9, <1>11, <1>12

\* What is known of the slot that the sweep is at.
LEMMA SlotKnown ==
  ASSUME HeapInv, Sweeping, sweep.i <= Len(heaps), sweep.k <= limit[Page]
  PROVE  /\ Slot \in Slots /\ Slot[1] = Page /\ Slot[2] = sweep.k
         /\ Page \in Pages /\ limit[Page] # 0 /\ limit[Page] \in Nat
         /\ Slot \notin Range(freelist)
         /\ sweep.i \in 1..Len(heaps) /\ sweep.k \in Nat \ {0} /\ sweep.n \in Nat
<1> USE DEF HeapInv
<1>1. SweepAt /\ sweep \in Locals /\ heaps \in Seq(Pages) /\ Once(heaps)
  BY DEF HeapTypes
<1>2. sweep.i \in 1..Len(heaps) /\ sweep.k \in Nat \ {0} /\ sweep.n \in Nat
  BY <1>1 DEF SweepAt, Locals
<1>3. Page \in Pages
  BY <1>1, <1>2 DEF Page
<1>4. limit[Page] \in {0, PageSize} /\ PageSize \in Nat
  BY <1>3, PageAssumption DEF HeapTypes
<1>5. sweep.k \in 1..PageSize /\ limit[Page] # 0 /\ limit[Page] \in Nat
  BY <1>2, <1>4
<1>6. Slot \in Slots /\ Slot[1] = Page /\ Slot[2] = sweep.k
  BY <1>3, <1>5 DEF Slot, Slots
<1>7. ASSUME Slot \in Range(freelist) PROVE FALSE
  <2>1. CASE Slot \in Range(sweep.free)
    <3>1. PICK j \in 1..(sweep.i - 1) : Page = heaps[j]
      BY <1>1, <1>6, <2>1 DEF SweepAt
    <3>2. j \in 1..Len(heaps) /\ j # sweep.i
      BY <1>2
    <3>3. QED
      BY <1>1, <1>2, <3>1, <3>2 DEF Once, Page
  <2>2. CASE Slot \notin Range(sweep.free)
    <3>1. Slot[2] < sweep.k
      BY <1>1, <1>7, <2>2 DEF SweepAt
    <3>2. QED
      BY <1>2, <1>6, <3>1
  <2>3. QED
    BY <2>1, <2>2
<1>8. QED
  BY <1>2, <1>3, <1>5, <1>6, <1>7

\* The slot is passed.
LEMMA PassStep ==
  ASSUME HeapInv, Sweeping, sweep.i <= Len(heaps), sweep.k <= limit[Page],
         sweep' = [sweep EXCEPT !.k = @ + 1],
         UNCHANGED <<slotVars, finalVars, deferred, sweeps, final_list, prohibited, held, released, exited>>
  PROVE  HeapInv'
<1> USE DEF HeapInv
<1>1. /\ sweep.i \in 1..Len(heaps) /\ sweep.k \in Nat \ {0} /\ sweep.n \in Nat
      /\ Page \in Pages
  BY SlotKnown
<1>2. SweepAt /\ SlotsSound /\ ~released /\ sweep \in Locals
  BY DEF ListsApart, HeapTypes
<1>3. /\ sweep'.i = sweep.i /\ sweep'.k = sweep.k + 1 /\ sweep'.n = sweep.n
      /\ sweep'.free = sweep.free /\ sweep' \in Locals
  BY <1>2 DEF Locals
<1>4. Sweeping' /\ Page' = Page /\ Pending' = Pending /\ Heap' = Heap
  BY <1>3 DEF Sweeping, Page, Pending, Heap, slotVars
<1>5. HeapTypes'
  BY <1>3 DEF HeapTypes, slotVars, finalVars
<1>6. ListsApart'
  BY <1>4 DEF ListsApart
<1>7. FinalsDue'
  BY <1>4 DEF FinalsDue, slotVars, finalVars
<1>8. SlotsSound'
  <2>1. PagesSound(Heap)'
    BY <1>2, <1>4 DEF SlotsSound, PagesSound
  <2>2. QED
    BY <1>2, <1>4, <2>1 DEF SlotsSound, slotVars
<1>9. SweepAt'
  <2>1. heaps' = heaps /\ limit' = limit /\ freelist' = freelist
    BY DEF slotVars
  <2>2. /\ Once(sweep'.free) /\ Range(sweep'.free) \subseteq Range(freelist')
        /\ \A s \in Range(sweep'.free) : \E j \in 1..(sweep'.i - 1) : s[1] = heaps'[j]
    BY <1>2, <1>3, <2>1 DEF SweepAt
  <2>3. ASSUME NEW s \in Range(freelist') \ Range(sweep'.free)
        PROVE  sweep'.i <= Len(heaps') /\ s[1] = Page' /\ s[2] < sweep'.k
    <3>1. s \in Slots
      BY <2>1, RangeIn DEF HeapTypes
    <3>2. s[2] < sweep.k /\ s[1] = Page
      BY <1>2, <1>3, <2>1, <2>3 DEF SweepAt
    <3>3. s[2] \in Nat
      BY <3>1, SlotParts
    <3>4. QED
      BY <1>1, <1>3, <1>4, <2>1, <3>2, <3>3
  <2>4. limit[Page] \in Nat
    BY SlotKnown
  <2>5. sweep'.n <= sweep'.k - 1 /\ sweep'.k <= limit'[Page'] + 1 /\ sweep'.n # sweep'.k - 1
    BY <1>1, <1>2, <1>3, <1>4, <2>1, <2>4 DEF SweepAt
  <2>6. sweep'.i \in 1..Len(heaps') + 1 /\ sweep'.k # 0
    BY <1>1, <1>3, <2>1
  <2>7. QED
    BY <2>2, <2>3, <2>5, <2>6 DEF SweepAt
<1>10. QED
  BY <1>4, <1>5, <1>6, <1>7, <1>8, <1>9

\* The slot is counted: what holds of it and the ones before.
LEMMA CountStep ==
  ASSUME HeapInv, Sweeping, sweep.i <= Len(heaps), sweep.k <= limit[Page],
         sweep' = [sweep EXCEPT !.k = @ + 1, !.n = @ + 1],
         UNCHANGED <<heaps, limit, sweeps>>,
         freelist' \in Seq(Slots), Range(freelist) \subseteq Range(freelist'),
         Range(freelist') \subseteq Range(freelist) \cup {Slot},
         Slot \notin InLists(sweeps),
         flags'[Slot] # "live", \A s \in Slots \ {Slot} : flags'[s] = flags[s]
  PROVE  SweepAt' /\ Sweeping' /\ sweep' \in Locals
<1> USE DEF HeapInv
<1>1. /\ sweep.i \in 1..Len(heaps) /\ sweep.k \in Nat \ {0} /\ sweep.n \in Nat
      /\ Page \in Pages /\ Slot \in Slots /\ Slot[1] = Page /\ Slot[2] = sweep.k
  BY SlotKnown
<1>2. SweepAt /\ sweep \in Locals
  BY DEF HeapTypes
<1>3. /\ sweep'.i = sweep.i /\ sweep'.k = sweep.k + 1 /\ sweep'.n = sweep.n + 1
      /\ sweep'.free = sweep.free /\ sweep' \in Locals
  <2>1. sweep = [i |-> sweep.i, k |-> sweep.k, n |-> sweep.n, freed |-> sweep.freed,
                 free |-> sweep.free]
        /\ sweep.freed \in Nat /\ sweep.free \in Seq(Slots)
    BY <1>2 DEF Locals
  <2>2. sweep' = [i |-> sweep.i, k |-> sweep.k + 1, n |-> sweep.n + 1, freed |-> sweep.freed,
                  free |-> sweep.free]
    BY <2>1
  <2>3. QED
    BY <1>1, <2>1, <2>2 DEF Locals
<1>4. Sweeping' /\ Page' = Page
  BY <1>3 DEF Sweeping, Page
<1>5. /\ Once(sweep'.free) /\ Range(sweep'.free) \subseteq Range(freelist')
      /\ \A s \in Range(sweep'.free) : \E j \in 1..(sweep'.i - 1) : s[1] = heaps'[j]
  BY <1>2, <1>3 DEF SweepAt
<1>6. ASSUME NEW s \in Range(freelist') \ Range(sweep'.free)
      PROVE  sweep'.i <= Len(heaps') /\ s[1] = Page' /\ s[2] < sweep'.k
  <2>1. s \in Slots
    BY RangeIn
  <2>2. s[2] \in Nat
    BY <2>1, SlotParts
  <2>3. CASE s = Slot
    BY <1>1, <1>3, <1>4, <2>3
  <2>4. CASE s # Slot
    <3>1. s[2] < sweep.k /\ s[1] = Page
      BY <1>2, <1>3, <1>6, <2>4 DEF SweepAt
    <3>2. QED
      BY <1>1, <1>3, <1>4, <2>2, <3>1
  <2>5. QED
    BY <2>3, <2>4
<1>7. limit[Page] \in Nat
  BY SlotKnown
<1>8. sweep'.n <= sweep'.k - 1 /\ sweep'.k <= limit'[Page'] + 1
  BY <1>1, <1>2, <1>3, <1>4, <1>7 DEF SweepAt
<1>9. ASSUME sweep'.n = sweep'.k - 1, NEW m \in 1..(sweep'.k - 1) PROVE Cleared(m)'
  <2>1. <<Page, m>> \in Slots
    BY <1>1, <1>3, <1>7, PageAssumption DEF Slots, HeapTypes
  <2>2. CASE m = sweep.k
    <3>1. <<Page, m>> = Slot
      BY <2>2 DEF Slot
    <3>2. QED
      BY <1>4, <3>1 DEF Cleared
  <2>3. CASE m # sweep.k
    <3>1. sweep.n = sweep.k - 1 /\ m \in 1..(sweep.k - 1)
      BY <1>1, <1>3, <1>9, <2>3
    <3>2. Cleared(m)
      BY <1>2, <3>1 DEF SweepAt
    <3>3. <<Page, m>> # Slot
      BY <2>3 DEF Slot
    <3>4. QED
      BY <1>4, <2>1, <3>2, <3>3 DEF Cleared
  <2>4. QED
    BY <2>2, <2>3
<1>10. sweep'.i \in 1..Len(heaps') + 1 /\ sweep'.k # 0
  BY <1>1, <1>3
<1>11. QED
  BY <1>3, <1>4, <1>5, <1>6, <1>8, <1>9, <1>10 DEF SweepAt

\* The object is kept for its finalizer.
LEMMA FinalSlotStep ==
  ASSUME HeapInv, Sweeping, sweep.i <= Len(heaps), sweep.k <= limit[Page],
         Slot \notin held, flags[Slot] = "live",
         sweep' = [sweep EXCEPT !.k = @ + 1, !.n = @ + 1],
         flags' = [flags EXCEPT ![Slot] = "final"],
         final_list' = <<Slot>> \o final_list,
         UNCHANGED <<heaps, limit, freelist, finalVars, deferred, sweeps, prohibited, held,
                     released, exited>>
  PROVE  HeapInv'
<1> USE DEF HeapInv
<1>1. Slot \in Slots /\ Slot[1] = Page /\ Page \in Pages /\ limit[Page] # 0
  BY SlotKnown
<1>2. SlotsSound /\ PagesSound(Heap) /\ ~released /\ ~exited
  BY DEF ListsApart, SlotsSound
<1>3. flags \in [Slots -> {"free", "live", "final", "none"}]
      /\ freelist \in Seq(Slots) /\ final_list \in Seq(Slots)
  BY DEF HeapTypes
<1>4. /\ flags'[Slot] = "final" /\ \A s \in Slots \ {Slot} : flags'[s] = flags[s]
      /\ flags' \in [Slots -> {"free", "live", "final", "none"}]
  BY <1>1, <1>3
<1>5. Slot \notin Pending
  BY <1>2 DEF SlotsSound
<1>6. Pending = Range(deferred) \cup Range(final_list) \cup InLists(sweeps)
      /\ Pending \subseteq Slots /\ Range(freelist) \subseteq Slots /\ held \subseteq Slots
      /\ finalizer_table \subseteq Slots
  BY <1>3, PendingSlots, RangeIn DEF HeapTypes
<1>7. /\ final_list' \in Seq(Slots) /\ Range(final_list') = {Slot} \cup Range(final_list)
      /\ Once(final_list) => Once(final_list')
  BY <1>1, <1>3, <1>5, <1>6, Pushed, PushedOnce
<1>8. SweepAt' /\ Sweeping' /\ sweep' \in Locals
  BY <1>1, <1>3, <1>4, <1>5, <1>6, CountStep
<1>9. HeapTypes'
  BY <1>4, <1>7, <1>8 DEF HeapTypes, finalVars
<1>10. Pending' = Pending \cup {Slot}
  <2>1. Pending' = Range(deferred') \cup Range(final_list') \cup InLists(sweeps')
    BY DEF Pending, InLists
  <2>2. QED
    BY <1>6, <1>7, <2>1
<1>11. ListsApart'
  BY <1>5, <1>6, <1>7, <1>8 DEF ListsApart
<1>12. FinalsDue'
  <2>1. \A s \in finalizer_table' : s \in Pending' \/ (s \in fl_finalize' /\ flags'[s] = "live")
    BY <1>2, <1>4, <1>6, <1>10 DEF FinalsDue, finalVars
  <2>2. QED
    BY <1>2, <1>10, <2>1 DEF FinalsDue, finalVars
<1>13. SlotsSound'
  <2>1. PagesSound(Heap')
    <3>1. \A s \in Range(freelist') : flags'[s] = "free" /\ limit'[s[1]] # 0
      BY <1>2, <1>4, <1>6 DEF PagesSound, Heap
    <3>2. \A s \in Slots : flags'[s] = "live" => limit'[s[1]] # 0
      BY <1>2, <1>4 DEF PagesSound, Heap
    <3>3. QED
      BY <1>2, <3>1, <3>2 DEF PagesSound, Heap
  <2>2. \A s \in held' : flags'[s] = "live"
    BY <1>2, <1>4, <1>6 DEF SlotsSound
  <2>3. \A s \in Pending' : flags'[s] = "final"
    BY <1>2, <1>4, <1>6, <1>10 DEF SlotsSound
  <2>4. Page \in Range(heaps)
    BY <1>1, <1>2 DEF PagesSound, Heap
  <2>5. QED
    BY <1>1, <1>2, <1>7, <2>1, <2>2, <2>3, <2>4 DEF SlotsSound, PagesSound
<1>14. QED
  BY <1>8, <1>9, <1>11, <1>12, <1>13

\* The object is freed.
LEMMA FreeSlotStep ==
  ASSUME HeapInv, Sweeping, sweep.i <= Len(heaps), sweep.k <= limit[Page],
         Slot \notin held, flags[Slot] # "final", ~(Slot \in fl_finalize /\ flags[Slot] = "live"),
         sweep' = [sweep EXCEPT !.k = @ + 1, !.n = @ + 1],
         flags' = [flags EXCEPT ![Slot] = "free"],
         freelist' = <<Slot>> \o freelist,
         UNCHANGED <<heaps, limit, final_list, finalVars, deferred, sweeps, prohibited, held,
                     released, exited>>
  PROVE  HeapInv'
<1> USE DEF HeapInv
<1>1. Slot \in Slots /\ Slot[1] = Page /\ Page \in Pages /\ limit[Page] # 0 /\ Slot \notin Range(freelist)
  BY SlotKnown
<1>2. SlotsSound /\ PagesSound(Heap) /\ ~released /\ ~exited
  BY DEF ListsApart, SlotsSound
<1>3. flags \in [Slots -> {"free", "live", "final", "none"}] /\ freelist \in Seq(Slots)
  BY DEF HeapTypes
<1>4. /\ flags'[Slot] = "free" /\ \A s \in Slots \ {Slot} : flags'[s] = flags[s]
      /\ flags' \in [Slots -> {"free", "live", "final", "none"}]
  BY <1>1, <1>3
<1>5. Slot \notin Pending
  BY <1>2 DEF SlotsSound
<1>6. Pending = Range(deferred) \cup Range(final_list) \cup InLists(sweeps)
      /\ Pending \subseteq Slots /\ Range(freelist) \subseteq Slots /\ held \subseteq Slots
      /\ finalizer_table \subseteq Slots /\ Once(freelist)
  BY <1>2, <1>3, PendingSlots, RangeIn DEF HeapTypes, PagesSound, Heap
<1>7. /\ freelist' \in Seq(Slots) /\ Range(freelist') = {Slot} \cup Range(freelist)
      /\ Once(freelist')
  BY <1>1, <1>3, <1>6, Pushed, PushedOnce
<1>8. SweepAt' /\ Sweeping' /\ sweep' \in Locals
  BY <1>1, <1>4, <1>5, <1>6, <1>7, CountStep
<1>9. HeapTypes'
  BY <1>4, <1>7, <1>8 DEF HeapTypes, finalVars
<1>10. Pending' = Pending
  BY DEF Pending
<1>11. ListsApart'
  BY <1>8 DEF ListsApart
<1>12. FinalsDue'
  <2>1. \A s \in finalizer_table' : s \in Pending' \/ (s \in fl_finalize' /\ flags'[s] = "live")
    BY <1>2, <1>4, <1>5, <1>6, <1>10 DEF FinalsDue, finalVars
  <2>2. QED
    BY <1>2, <1>10, <2>1 DEF FinalsDue, finalVars
<1>13. SlotsSound'
  <2>1. PagesSound(Heap')
    <3>1. \A s \in Range(freelist') : flags'[s] = "free" /\ limit'[s[1]] # 0
      BY <1>1, <1>2, <1>4, <1>6, <1>7 DEF PagesSound, Heap
    <3>2. \A s \in Slots : flags'[s] = "live" => limit'[s[1]] # 0
      BY <1>2, <1>4 DEF PagesSound, Heap
    <3>3. QED
      BY <1>2, <1>7, <3>1, <3>2 DEF PagesSound, Heap
  <2>2. \A s \in held' : flags'[s] = "live"
    BY <1>2, <1>4, <1>6 DEF SlotsSound
  <2>3. \A s \in Pending' : flags'[s] = "final"
    BY <1>2, <1>4, <1>5, <1>6, <1>10 DEF SlotsSound
  <2>4. QED
    BY <1>2, <2>1, <2>2, <2>3 DEF SlotsSound, PagesSound
<1>14. QED
  BY <1>8, <1>9, <1>11, <1>12, <1>13

LEMMA SweepSlotStep ==
  ASSUME HeapInv, SweepSlot
  PROVE  HeapInv'
<1>1. CASE sweep' = [sweep EXCEPT !.k = @ + 1] /\ UNCHANGED <<flags, freelist, final_list>>
  BY <1>1, PassStep DEF SweepSlot, slotVars
<1>2. CASE /\ Slot \notin held /\ flags[Slot] # "final"
           /\ sweep' = [sweep EXCEPT !.k = @ + 1, !.n = @ + 1]
           /\ IF Slot \in fl_finalize /\ flags[Slot] = "live"
              THEN /\ flags' = [flags EXCEPT ![Slot] = "final"]
                   /\ final_list' = <<Slot>> \o final_list
                   /\ UNCHANGED freelist
              ELSE /\ flags' = [flags EXCEPT ![Slot] = "free"]
                   /\ freelist' = <<Slot>> \o freelist
                   /\ UNCHANGED final_list
  <2>1. CASE Slot \in fl_finalize /\ flags[Slot] = "live"
    BY <1>2, <2>1, FinalSlotStep DEF SweepSlot
  <2>2. CASE ~(Slot \in fl_finalize /\ flags[Slot] = "live")
    BY <1>2, <2>2, FreeSlotStep DEF SweepSlot
  <2>3. QED
    BY <2>1, <2>2
<1>3. QED
  BY <1>1, <1>2 DEF SweepSlot

\* The sweep goes on to the next page.
LEMMA NextPageSound ==
  ASSUME HeapInv, Sweeping, sweep.i <= Len(heaps), NEW freed \in Nat, NextPage(freed),
         heaps' = heaps, limit' \in [Pages -> {0, PageSize}],
         freelist' \in Seq(Slots), Once(freelist'),
         \A s \in Range(freelist') : \E j \in 1..sweep.i : s[1] = heaps[j]
  PROVE  SweepAt' /\ Sweeping' /\ sweep' \in Locals
<1> USE DEF HeapInv
<1>1. sweep.i \in 1..Len(heaps) /\ sweep \in Locals /\ heaps \in Seq(Pages)
  BY DEF HeapTypes, SweepAt
<1>2. sweep' = [i |-> sweep.i + 1, k |-> 1, n |-> 0, freed |-> freed, free |-> freelist']
  BY <1>1 DEF NextPage, Locals
<1>3. sweep' \in Locals /\ Sweeping'
  BY <1>1, <1>2 DEF Locals, Sweeping
<1>4. \A s \in Range(sweep'.free) : \E j \in 1..(sweep'.i - 1) : s[1] = heaps'[j]
  <2>1. sweep'.i - 1 = sweep.i
    BY <1>1, <1>2
  <2>2. QED
    BY <1>2, <2>1
<1>5. sweep'.i <= Len(heaps') => /\ sweep'.n <= sweep'.k - 1 /\ sweep'.k <= limit'[Page'] + 1
                                /\ 1..(sweep'.k - 1) = {}
  <2>1. SUFFICES ASSUME sweep.i + 1 <= Len(heaps) PROVE 1 <= limit'[heaps[sweep.i + 1]] + 1
    BY <1>2 DEF Page
  <2>2. heaps[sweep.i + 1] \in Pages
    BY <1>1, <2>1
  <2>3. limit'[heaps[sweep.i + 1]] \in Nat
    BY <2>2, PageAssumption
  <2>4. QED
    BY <2>3
<1>6. sweep'.i \in 1..Len(heaps') + 1 /\ sweep'.k # 0
  BY <1>1, <1>2
<1>7. QED
  BY <1>2, <1>3, <1>4, <1>5, <1>6 DEF SweepAt

LEMMA SweepPageStep ==
  ASSUME HeapInv, SweepPage
  PROVE  HeapInv'
<1> USE DEF HeapInv
<1>1. /\ Sweeping /\ sweep.i <= Len(heaps) /\ sweep.k > limit[Page]
      /\ UNCHANGED <<heaps, flags, finalVars, deferred, sweeps, final_list, prohibited, held,
                     released, exited>>
  BY DEF SweepPage
<1>2. SlotsSound /\ PagesSound(Heap) /\ SweepAt /\ ~released /\ ~exited /\ deferred = <<>>
  BY <1>1 DEF ListsApart, SlotsSound
<1>3. sweep \in Locals /\ heaps \in Seq(Pages) /\ Once(heaps) /\ freelist \in Seq(Slots)
      /\ limit \in [Pages -> {0, PageSize}]
  BY DEF HeapTypes
<1>4. sweep.i \in 1..Len(heaps) /\ sweep.k \in Nat \ {0} /\ sweep.n \in Nat /\ sweep.freed \in Nat
      /\ sweep.free \in Seq(Slots)
  BY <1>1, <1>2, <1>3 DEF SweepAt, Locals
<1>5. Page \in Pages
  BY <1>3, <1>4 DEF Page
<1>6. Range(freelist) \subseteq Slots /\ Range(sweep.free) \subseteq Range(freelist) /\ Once(sweep.free)
  BY <1>2, <1>3, RangeIn DEF SweepAt
<1>7. ASSUME NEW s \in Range(sweep.free) PROVE s[1] # Page /\ \E j \in 1..sweep.i : s[1] = heaps[j]
  <2>1. PICK j \in 1..(sweep.i - 1) : s[1] = heaps[j]
    BY <1>2 DEF SweepAt
  <2>2. j \in 1..Len(heaps) /\ j # sweep.i /\ j \in 1..sweep.i
    BY <1>4
  <2>3. QED
    BY <1>3, <1>4, <2>1, <2>2 DEF Once, Page
<1>8. Pending' = Pending
  BY <1>1 DEF Pending
<1>9. FinalsDue'
  BY <1>1, <1>8 DEF FinalsDue, finalVars
<1>10. CASE GivenUp /\ limit' = [limit EXCEPT ![Page] = 0] /\ freelist' = sweep.free
            /\ NextPage(sweep.freed)
  <2>1. limit' \in [Pages -> {0, PageSize}] /\ limit'[Page] = 0
        /\ \A p \in Pages \ {Page} : limit'[p] = limit[p]
    BY <1>3, <1>5, <1>10
  <2>2. ASSUME NEW s \in Slots, s[1] = Page PROVE flags[s] # "live" /\ s \notin InLists(sweeps)
    <3>1. CASE limit[Page] = 0
      BY <1>2, <2>2, <3>1 DEF PagesSound, SlotsSound, Heap
    <3>2. CASE limit[Page] # 0
      <4>1. limit[Page] = PageSize /\ PageSize \in Nat
        BY <1>3, <1>5, <3>2, PageAssumption
      <4>2. sweep.n = sweep.k - 1 /\ sweep.k = PageSize + 1
        BY <1>1, <1>2, <1>4, <1>10, <4>1 DEF SweepAt, GivenUp
      <4>3. s[2] \in 1..(sweep.k - 1) /\ s = <<Page, s[2]>>
        BY <2>2, <4>1, <4>2, SlotParts
      <4>4. Cleared(s[2])
        BY <1>1, <1>2, <4>2, <4>3 DEF SweepAt
      <4>5. QED
        BY <4>3, <4>4 DEF Cleared
    <3>3. QED
      BY <3>1, <3>2
  <2>3. SweepAt' /\ Sweeping' /\ sweep' \in Locals
    BY <1>1, <1>4, <1>6, <1>7, <1>10, <2>1, NextPageSound
  <2>4. HeapTypes'
    BY <1>1, <1>4, <1>10, <2>1, <2>3 DEF HeapTypes, finalVars
  <2>5. ListsApart'
    BY <1>1, <2>3 DEF ListsApart
  <2>6. PagesSound(Heap')
    <3>1. \A p \in Pages : limit'[p] # 0 => p \in Range(heaps')
      BY <1>1, <1>2, <2>1 DEF PagesSound, Heap
    <3>2. \A s \in Range(freelist') : flags'[s] = "free" /\ limit'[s[1]] # 0
      BY <1>1, <1>2, <1>6, <1>7, <1>10, <2>1, SlotParts DEF PagesSound, Heap
    <3>3. \A s \in Slots : flags'[s] = "live" => limit'[s[1]] # 0
      BY <1>1, <1>2, <2>1, <2>2, SlotParts DEF PagesSound, Heap
    <3>4. QED
      BY <1>6, <1>10, <3>1, <3>2, <3>3 DEF PagesSound, Heap
  <2>7. SlotsSound'
    <3>1. InLists(sweeps) \subseteq Slots
      BY PendingSlots
    <3>2. \A s \in InLists(sweeps) : limit'[s[1]] # 0
      BY <1>2, <2>1, <2>2, <3>1, SlotParts DEF SlotsSound
    <3>3. Range(deferred') = {}
      BY <1>1, <1>2, EmptyRange
    <3>4. QED
      BY <1>1, <1>2, <1>8, <2>6, <3>2, <3>3 DEF SlotsSound, PagesSound
  <2>8. QED
    BY <1>9, <2>3, <2>4, <2>5, <2>7
<1>11. CASE UNCHANGED <<limit, freelist>> /\ NextPage(sweep.freed + sweep.n)
  <2>1. ASSUME NEW s \in Range(freelist') PROVE \E j \in 1..sweep.i : s[1] = heaps[j]
    <3>1. CASE s \in Range(sweep.free)
      BY <1>7, <3>1
    <3>2. CASE s \notin Range(sweep.free)
      <4>1. s[1] = heaps[sweep.i] /\ sweep.i \in 1..sweep.i
        BY <1>2, <1>4, <1>11, <2>1, <3>2 DEF SweepAt, Page
      <4>2. QED
        BY <4>1
    <3>3. QED
      BY <3>1, <3>2
  <2>2. Once(freelist')
    BY <1>2, <1>11 DEF PagesSound, Heap
  <2>3. sweep.freed + sweep.n \in Nat
    BY <1>4
  <2>4. SweepAt' /\ Sweeping' /\ sweep' \in Locals
    BY <1>1, <1>3, <1>11, <2>1, <2>2, <2>3, NextPageSound
  <2>5. HeapTypes'
    BY <1>1, <1>11, <2>4 DEF HeapTypes, finalVars
  <2>6. ListsApart'
    BY <1>1, <2>4 DEF ListsApart
  <2>7. SlotsSound'
    <3>1. PagesSound(Heap')
      BY <1>1, <1>2, <1>11 DEF PagesSound, Heap
    <3>2. QED
      BY <1>1, <1>2, <1>8, <1>11, <3>1 DEF SlotsSound, PagesSound
  <2>8. QED
    BY <1>9, <2>4, <2>5, <2>6, <2>7
<1>12. QED
  BY <1>10, <1>11 DEF SweepPage

\* The heap after the loop over the pages.
LEMMA SweptHeapSound ==
  ASSUME HeapTypes, PagesSound(Heap)
  PROVE  /\ HeapTyped(SweptHeap) /\ PagesSound(SweptHeap)
         /\ \A p \in Range(heaps) : p \in Range(SweptHeap.heaps) /\ SweptHeap.limit[p] = limit[p]
         /\ \A s \in Slots : s[1] \in Range(heaps) => SweptHeap.flags[s] = flags[s]
<1>1. SweptHeap = IF sweep.freed < FREE_MIN THEN add_heap(Heap) ELSE Heap
  BY DEF SweptHeap, Heap
<1>2. HeapTyped(Heap)
  BY HeapTypedNow
<1>3. Heap.heaps = heaps /\ Heap.limit = limit /\ Heap.flags = flags
  BY DEF Heap
<1>4. CASE sweep.freed < FREE_MIN
  BY <1>1, <1>2, <1>3, <1>4, AddHeapSound
<1>5. CASE ~(sweep.freed < FREE_MIN)
  BY <1>1, <1>2, <1>3, <1>5
<1>6. QED
  BY <1>4, <1>5

LEMMA SweepEndStep ==
  ASSUME HeapInv, SweepEnd
  PROVE  HeapInv'
<1> USE DEF HeapInv
<1> DEFINE g == SweptHeap
<1>1. /\ Sweeping /\ sweep' = NoSweep /\ final_list' = <<>> /\ prohibited' = FALSE
      /\ released' = \E s \in Range(final_list) : limit[s[1]] = 0
      /\ UNCHANGED <<finalVars, held, exited>>
  BY DEF SweepEnd
<1>2. SlotsSound /\ PagesSound(Heap) /\ ~released /\ ~exited /\ deferred = <<>>
  BY <1>1 DEF ListsApart, SlotsSound
<1>3. /\ HeapTyped(g) /\ PagesSound(g)
      /\ \A p \in Range(heaps) : p \in Range(g.heaps) /\ g.limit[p] = limit[p]
      /\ \A s \in Slots : s[1] \in Range(heaps) => g.flags[s] = flags[s]
  BY <1>2, SweptHeapSound
<1> HIDE DEF g
<1>4. Range(deferred) = {} /\ Range(final_list') = {}
  BY <1>1, <1>2, EmptyRange
<1>5. Pending = Range(final_list) \cup InLists(sweeps) /\ Pending \subseteq Slots
  BY <1>4, PendingSlots
<1>6. /\ sweep' \in Locals /\ ~Sweeping' /\ released' \in BOOLEAN /\ prohibited' \in BOOLEAN
  <2>1. <<>> \in Seq(Slots)
    OBVIOUS
  <2>2. sweep' \in Locals /\ ~Sweeping'
    BY <1>1, <2>1 DEF NoSweep, Locals, Sweeping
  <2>3. released' \in BOOLEAN
    BY <1>1
  <2>4. QED
    BY <1>1, <2>2, <2>3
<1>7. ASSUME NEW s \in Slots, limit[s[1]] # 0 PROVE s[1] \in Range(heaps) /\ g.flags[s] = flags[s] /\ g.limit[s[1]] # 0
  BY <1>2, <1>3, <1>7, SlotParts DEF PagesSound, Heap
<1>8. \A s \in Slots : flags[s] = "live" => limit[s[1]] # 0
  BY <1>2 DEF PagesSound, Heap
<1>9. \A s \in Pending : flags[s] = "final" /\ (~released' => limit[s[1]] # 0)
  BY <1>1, <1>2, <1>5 DEF SlotsSound
<1>10. finalizer_table \subseteq Slots /\ held \subseteq Slots /\ final_list \in Seq(Slots)
       /\ sweeps \in Seq(Seq(Slots) \ {<<>>})
  BY DEF HeapTypes
\* What is left to be shown when the new heap and the new lists are known.
<1>11. ASSUME HeapTyped(Heap'), PagesSound(Heap'), Pending' = Pending,
              \A s \in Slots : limit[s[1]] # 0 => flags'[s] = flags[s] /\ limit'[s[1]] # 0,
              deferred' \in Seq(Slots), sweeps' \in Seq(Seq(Slots) \ {<<>>}), ListsApart'
       PROVE  HeapInv'
  <2>1. HeapTypes'
    BY <1>1, <1>6, <1>11 DEF HeapTypes, HeapTyped, Heap, finalVars
  <2>2. FinalsDue'
    <3>1. \A s \in finalizer_table' : s \in Pending' \/ (s \in fl_finalize' /\ flags'[s] = "live")
      BY <1>1, <1>2, <1>8, <1>10, <1>11 DEF FinalsDue, finalVars
    <3>2. QED
      BY <1>1, <1>2, <1>11, <3>1 DEF FinalsDue, finalVars
  <2>3. ASSUME ~released' PROVE SlotsSound'
    <3>1. \A s \in held' : flags'[s] = "live"
      BY <1>1, <1>2, <1>8, <1>10, <1>11 DEF SlotsSound
    <3>2. \A s \in Pending' : flags'[s] = "final" /\ limit'[s[1]] # 0
      BY <1>5, <1>9, <1>11, <2>3
    <3>3. Range(deferred') \cup InLists(sweeps') \subseteq Pending'
      BY DEF Pending, InLists
    <3>4. QED
      BY <1>4, <1>11, <3>1, <3>2, <3>3 DEF SlotsSound, PagesSound
  <2>4. QED
    BY <1>6, <2>1, <2>2, <2>3, <1>11
<1>12. CASE final_list = <<>> /\ Compact(g) /\ UNCHANGED <<deferred, sweeps>>
  <2>1. /\ HeapTyped(Heap') /\ PagesSound(Heap') /\ limit' = g.limit
        /\ \A s \in Slots : g.limit[s[1]] # 0 => flags'[s] = g.flags[s]
    BY <1>3, <1>12, CompactSound
  <2>2. Pending' = Pending
    BY <1>1, <1>12 DEF Pending
  <2>3. ListsApart'
    BY <1>1, <1>6, <1>12 DEF ListsApart
  <2>4. \A s \in Slots : limit[s[1]] # 0 => flags'[s] = flags[s] /\ limit'[s[1]] # 0
    BY <1>7, <2>1
  <2>5. deferred' \in Seq(Slots) /\ sweeps' \in Seq(Seq(Slots) \ {<<>>})
    BY <1>2, <1>10, <1>12
  <2>6. QED
    BY <1>11, <2>1, <2>2, <2>3, <2>4, <2>5
<1>13. CASE /\ final_list # <<>>
            /\ heaps' = g.heaps /\ limit' = g.limit /\ flags' = g.flags /\ freelist' = g.freelist
            /\ \/ prohibited /\ deferred' = final_list /\ UNCHANGED sweeps
               \/ ~prohibited /\ sweeps' = <<final_list>> \o sweeps /\ UNCHANGED deferred
  <2>1. HeapTyped(Heap') /\ PagesSound(Heap')
    BY <1>3, <1>13 DEF HeapTyped, PagesSound, Heap
  <2>2. \A s \in Slots : limit[s[1]] # 0 => flags'[s] = flags[s] /\ limit'[s[1]] # 0
    BY <1>7, <1>13
  <2>3. Pending' = Range(deferred') \cup InLists(sweeps')
    BY <1>4 DEF Pending, InLists
  <2>4. Once(<<>>)
    BY DEF Once
  <2>5. CASE prohibited /\ deferred' = final_list /\ UNCHANGED sweeps
    <3>1. Pending' = Pending
      BY <1>5, <2>3, <2>5
    <3>2. ListsApart'
      BY <1>1, <1>4, <1>6, <2>4, <2>5 DEF ListsApart
    <3>3. QED
      BY <1>10, <1>11, <2>1, <2>2, <2>5, <3>1, <3>2
  <2>6. CASE ~prohibited /\ sweeps' = <<final_list>> \o sweeps /\ UNCHANGED deferred
    <3>1. final_list \in Seq(Slots) \ {<<>>}
      BY <1>10, <1>13
    <3>2. /\ InLists(sweeps') = Range(final_list) \cup InLists(sweeps)
          /\ Apart(sweeps) /\ Range(final_list) \cap InLists(sweeps) = {} => Apart(sweeps')
          /\ Once(final_list) /\ (\A i \in 1..Len(sweeps) : Once(sweeps[i])) =>
               \A i \in 1..Len(sweeps') : Once(sweeps'[i])
      BY <1>10, <2>6, <3>1, PushedLists
    <3>3. sweeps' \in Seq(Seq(Slots) \ {<<>>})
      BY <1>10, <2>6, <3>1, Pushed
    <3>4. Pending' = Pending
      BY <1>4, <1>5, <2>3, <2>6, <3>2
    <3>5. ListsApart'
      BY <1>1, <1>2, <1>4, <1>6, <2>4, <2>6, <3>2 DEF ListsApart
    <3>6. QED
      BY <1>2, <1>11, <2>1, <2>2, <2>6, <3>3, <3>4, <3>5
  <2>7. QED
    BY <1>13, <2>5, <2>6
<1>14. QED
  BY <1>12, <1>13 DEF SweepEnd, g

-----------------------------------------------------------------------------
(* The finalizers.                                                         *)

\* The lists without the object whose finalizer has ended.
LEMMA FinalLists ==
  ASSUME HeapTypes, ListsApart, sweeps # <<>>, ~Sweeping,
         LET others == Tail(Head(sweeps)) IN
           \/ others # <<>> /\ sweeps' = <<others>> \o Tail(sweeps)
           \/ others = <<>> /\ sweeps' = Tail(sweeps),
         UNCHANGED <<deferred, sweepVars, released, exited>>
  PROVE  /\ Head(Head(sweeps)) \in InLists(sweeps) /\ Head(Head(sweeps)) \in Slots
         /\ sweeps' \in Seq(Seq(Slots) \ {<<>>})
         /\ InLists(sweeps') = InLists(sweeps) \ {Head(Head(sweeps))}
         /\ Pending' = Pending \ {Head(Head(sweeps))}
         /\ ListsApart'
<1> DEFINE l == Head(sweeps)
           ss == Tail(sweeps)
           s == Head(l)
           others == Tail(l)
<1>1. sweeps \in Seq(Seq(Slots) \ {<<>>})
  BY DEF HeapTypes
<1>2. l \in Seq(Slots) \ {<<>>} /\ ss \in Seq(Seq(Slots) \ {<<>>})
  BY <1>1, TailOf
<1>3. /\ InLists(sweeps) = Range(l) \cup InLists(ss)
      /\ Apart(ss) /\ Range(l) \cap InLists(ss) = {}
      /\ Once(l) /\ \A i \in 1..Len(ss) : Once(ss[i])
  BY <1>1, TailLists DEF ListsApart
<1>4. /\ (others # <<>> /\ sweeps' = <<others>> \o ss) \/ (others = <<>> /\ sweeps' = ss)
  OBVIOUS
<1> HIDE DEF l, ss
<1>5. s \in Slots /\ others \in Seq(Slots)
  BY <1>2, TailOf
<1>6. Range(l) = {s} \cup Range(others) /\ Once(others) /\ s \notin Range(others)
  BY <1>2, <1>3, TailOnce
<1> HIDE DEF s, others
<1>7. /\ sweeps' \in Seq(Seq(Slots) \ {<<>>})
      /\ InLists(sweeps') = Range(others) \cup InLists(ss)
      /\ Apart(sweeps') /\ \A i \in 1..Len(sweeps') : Once(sweeps'[i])
  <2>1. CASE others # <<>> /\ sweeps' = <<others>> \o ss
    <3>1. others \in Seq(Slots) \ {<<>>} /\ Range(others) \cap InLists(ss) = {}
      BY <1>3, <1>5, <1>6, <2>1
    <3>2. sweeps' \in Seq(Seq(Slots) \ {<<>>})
      BY <1>2, <2>1, <3>1, Pushed
    <3>3. /\ InLists(sweeps') = Range(others) \cup InLists(ss)
          /\ Apart(ss) /\ Range(others) \cap InLists(ss) = {} => Apart(sweeps')
          /\ Once(others) /\ (\A i \in 1..Len(ss) : Once(ss[i])) =>
               \A i \in 1..Len(sweeps') : Once(sweeps'[i])
      BY <1>2, <2>1, <3>1, PushedLists
    <3>4. QED
      BY <1>3, <1>6, <3>1, <3>2, <3>3
  <2>2. CASE others = <<>> /\ sweeps' = ss
    BY <1>2, <1>3, <2>2, EmptyRange
  <2>3. QED
    BY <1>4, <2>1, <2>2
<1>8. InLists(sweeps') = InLists(sweeps) \ {s} /\ s \in InLists(sweeps)
  BY <1>3, <1>6, <1>7
<1>9. Sweeping' = Sweeping /\ final_list' = final_list /\ final_list = <<>> /\ deferred' = deferred
  BY DEF sweepVars, Sweeping, ListsApart
<1>10. ListsApart'
  BY <1>7, <1>8, <1>9 DEF ListsApart
<1>11. s \notin Range(deferred) \cup Range(final_list)
  BY <1>8 DEF ListsApart
<1>12. Pending' = Pending \ {s}
  <2>1. Pending' = Range(deferred) \cup Range(final_list) \cup InLists(sweeps')
    BY <1>9 DEF Pending, InLists
  <2>2. QED
    BY <1>8, <1>11, <2>1, PendingSlots
<1>13. QED
  BY <1>5, <1>7, <1>8, <1>10, <1>12 DEF s, l

LEMMA FinalEndsStep ==
  ASSUME HeapInv, FinalEnds
  PROVE  HeapInv'
<1> USE DEF HeapInv
<1> DEFINE s == Head(Head(sweeps))
           h == [heaps |-> heaps, limit |-> limit, flags |-> [flags EXCEPT ![s] = "free"],
                 freelist |-> <<s>> \o freelist]
<1>1. /\ sweeps # <<>> /\ ~Sweeping /\ run_final({s})
      /\ \/ flags' = h.flags /\ freelist' = h.freelist /\ UNCHANGED <<heaps, limit>>
         \/ Compact(h)
      /\ UNCHANGED <<fl_finalize, deferred, sweepVars, held, released, exited>>
  BY DEF FinalEnds
<1>2. LET others == Tail(Head(sweeps)) IN
        \/ others # <<>> /\ sweeps' = <<others>> \o Tail(sweeps)
        \/ others = <<>> /\ sweeps' = Tail(sweeps)
  BY DEF FinalEnds
<1>3. /\ s \in InLists(sweeps) /\ s \in Slots
      /\ sweeps' \in Seq(Seq(Slots) \ {<<>>})
      /\ InLists(sweeps') = InLists(sweeps) \ {s}
      /\ Pending' = Pending \ {s} /\ ListsApart'
  BY <1>1, <1>2, FinalLists
<1> HIDE DEF s
<1>4. s \in Pending /\ Pending \subseteq Slots /\ InLists(sweeps) \subseteq Slots
      /\ finalizer_table \subseteq Slots /\ held \subseteq Slots
  BY <1>3, PendingSlots DEF HeapTypes
<1>5. flags \in [Slots -> {"free", "live", "final", "none"}] /\ freelist \in Seq(Slots)
      /\ ran \in [Slots -> Nat]
  BY DEF HeapTypes
<1>6. /\ h.heaps = heaps /\ h.limit = limit /\ h.flags = [flags EXCEPT ![s] = "free"]
      /\ h.freelist = <<s>> \o freelist
  OBVIOUS
<1> HIDE DEF h
<1>7. /\ h.flags[s] = "free" /\ \A x \in Slots \ {s} : h.flags[x] = flags[x]
      /\ h.flags \in [Slots -> {"free", "live", "final", "none"}]
      /\ h.freelist \in Seq(Slots) /\ Range(h.freelist) = {s} \cup Range(freelist)
      /\ Once(freelist) /\ s \notin Range(freelist) => Once(h.freelist)
  BY <1>3, <1>5, <1>6, Pushed, PushedOnce
<1>8. HeapTyped(h)
  BY <1>6, <1>7 DEF HeapTypes, HeapTyped
<1>9. ASSUME ~released PROVE SlotsSound /\ PagesSound(Heap) /\ PagesSound(h)
  <2>1. SlotsSound /\ PagesSound(Heap)
    BY <1>9 DEF SlotsSound
  <2>2. flags[s] = "final" /\ limit[s[1]] # 0
    BY <1>3, <1>4, <2>1 DEF SlotsSound
  <2>3. s \notin Range(freelist) /\ Once(freelist) /\ Range(freelist) \subseteq Slots
    BY <1>5, <2>1, <2>2, RangeIn DEF PagesSound, Heap
  <2>4. \A x \in Range(h.freelist) : h.flags[x] = "free" /\ h.limit[x[1]] # 0
    BY <1>6, <1>7, <2>1, <2>2, <2>3 DEF PagesSound, Heap
  <2>5. \A x \in Slots : h.flags[x] = "live" => h.limit[x[1]] # 0
    BY <1>6, <1>7, <2>1 DEF PagesSound, Heap
  <2>6. QED
    BY <1>6, <1>7, <2>1, <2>3, <2>4, <2>5 DEF PagesSound, Heap
<1>10. /\ HeapTyped(Heap') /\ limit' = limit
       /\ PagesSound(h) => PagesSound(Heap')
       /\ \A x \in Slots : limit[x[1]] # 0 => flags'[x] = h.flags[x]
  <2>1. CASE Compact(h)
    BY <1>6, <1>8, <2>1, CompactSound
  <2>2. CASE flags' = h.flags /\ freelist' = h.freelist /\ UNCHANGED <<heaps, limit>>
    BY <1>6, <1>8, <2>2 DEF HeapTyped, PagesSound, Heap
  <2>3. QED
    BY <1>1, <2>1, <2>2
<1>11. /\ finalizer_table' = finalizer_table \ {s}
       /\ ran' \in [Slots -> Nat]
       /\ \A x \in Slots \ {s} : ran'[x] = ran[x]
       /\ ran'[s] = IF s \in finalizer_table THEN ran[s] + 1 ELSE ran[s]
  BY <1>1, <1>3, <1>5 DEF run_final
<1>12. HeapTypes'
  BY <1>1, <1>3, <1>10, <1>11 DEF HeapTypes, HeapTyped, Heap, sweepVars
<1>13. s \notin held
  BY <1>4 DEF FinalsDue
<1>14. FinalsDue'
  <2>1. \A x \in Slots : ran'[x] <= 1 /\ (x \in finalizer_table' => ran'[x] = 0)
    BY <1>3, <1>5, <1>11 DEF FinalsDue
  <2>2. \A x \in held' : ran'[x] = 0 \/ exited'
    BY <1>1, <1>4, <1>11, <1>13 DEF FinalsDue
  <2>3. held' \cap Pending' = {} /\ (exited' => finalizer_table' = {})
    BY <1>1, <1>3, <1>11 DEF FinalsDue
  <2>4. ASSUME ~released', NEW x \in finalizer_table'
        PROVE  x \in Pending' \/ (x \in fl_finalize' /\ flags'[x] = "live")
    <3>1. x \in Slots \ {s} /\ x \in finalizer_table /\ ~released
      BY <1>1, <1>4, <1>11, <2>4
    <3>2. x \in Pending \/ (x \in fl_finalize /\ flags[x] = "live")
      BY <3>1 DEF FinalsDue
    <3>3. CASE x \in Pending
      BY <1>3, <3>1, <3>3
    <3>4. CASE x \in fl_finalize /\ flags[x] = "live"
      <4>1. limit[x[1]] # 0
        BY <1>9, <3>1, <3>4 DEF PagesSound, Heap
      <4>2. QED
        BY <1>1, <1>7, <1>10, <3>1, <3>4, <4>1
    <3>5. QED
      BY <3>2, <3>3, <3>4
  <2>5. QED
    BY <2>1, <2>2, <2>3, <2>4 DEF FinalsDue
<1>15. ASSUME ~released' PROVE SlotsSound'
  <2>1. SlotsSound /\ PagesSound(Heap) /\ PagesSound(Heap') /\ ~released
    BY <1>1, <1>9, <1>10, <1>15
  <2>2. \A x \in held' : flags'[x] = "live"
    <3>1. \A x \in held : flags[x] = "live" /\ x \in Slots /\ x # s /\ limit[x[1]] # 0
      BY <1>4, <1>13, <2>1 DEF SlotsSound, PagesSound, Heap
    <3>2. QED
      BY <1>1, <1>7, <1>10, <3>1
  <2>3. final_list' = final_list /\ Range(final_list) = {} /\ deferred' = deferred
    BY <1>1, EmptyRange DEF sweepVars, ListsApart
  <2>4. Pending = Range(deferred) \cup InLists(sweeps)
    BY <2>3, PendingSlots
  <2>5. \A x \in Pending' : flags'[x] = "final" /\ limit'[x[1]] # 0
    <3>1. \A x \in Pending : flags[x] = "final" /\ limit[x[1]] # 0
      BY <2>1, <2>4 DEF SlotsSound
    <3>2. QED
      BY <1>3, <1>4, <1>7, <1>10, <3>1
  <2>6. Range(deferred') \cup InLists(sweeps') \subseteq Pending'
    BY DEF Pending, InLists
  <2>7. QED
    BY <2>1, <2>2, <2>3, <2>5, <2>6 DEF SlotsSound, PagesSound
<1>16. ~Sweeping'
  BY <1>1 DEF Sweeping, sweepVars
<1>17. QED
  BY <1>3, <1>12, <1>14, <1>15, <1>16

LEMMA AtExitStep ==
  ASSUME HeapInv, rb_gc_call_finalizer_at_exit
  PROVE  HeapInv'
<1> USE DEF HeapInv
<1> DEFINE called == Range(deferred) \cup {s \in fl_finalize : flags[s] = "live"}
<1>1. /\ ~released /\ ~exited /\ ~Sweeping /\ sweeps = <<>> /\ exited' = TRUE
      /\ finalizer_table' = finalizer_table \ called
      /\ ran' = [s \in Slots |-> IF s \in called \cap finalizer_table THEN ran[s] + 1 ELSE ran[s]]
      /\ UNCHANGED <<slotVars, fl_finalize, deferred, sweeps, sweepVars, held, released>>
  BY DEF rb_gc_call_finalizer_at_exit, run_final
<1>2. InLists(sweeps) = {} /\ Range(final_list) = {}
  BY <1>1, EmptyRange DEF InLists, ListsApart
<1>3. Pending' = Pending /\ Pending = Range(deferred)
  <2>1. Pending' = Pending
    BY <1>1 DEF Pending, sweepVars
  <2>2. QED
    BY <1>2, <2>1, PendingSlots
<1>4. finalizer_table' = {}
  BY <1>1, <1>3 DEF FinalsDue
<1>5. ~Sweeping' /\ ListsApart'
  BY <1>1 DEF ListsApart, Sweeping, sweepVars
<1>6. ran \in [Slots -> Nat]
  BY DEF HeapTypes
<1> HIDE DEF called
<1>7. ran' \in [Slots -> Nat] /\ \A s \in Slots : ran'[s] <= 1
  BY <1>1, <1>6 DEF FinalsDue
<1>8. HeapTypes'
  BY <1>1, <1>4, <1>7 DEF HeapTypes, slotVars, sweepVars
<1>9. FinalsDue'
  BY <1>1, <1>3, <1>4, <1>7 DEF FinalsDue
<1>10. SlotsSound'
  <2>1. SlotsSound /\ Heap' = Heap
    BY <1>1 DEF Heap, slotVars
  <2>2. PagesSound(Heap)'
    BY <1>1, <2>1 DEF SlotsSound, PagesSound
  <2>3. QED
    BY <1>1, <1>3, <2>1, <2>2 DEF SlotsSound, slotVars, sweepVars
<1>11. QED
  BY <1>5, <1>8, <1>9, <1>10

-----------------------------------------------------------------------------
LEMMA HeapInvInit == HeapInit => HeapInv
<1> SUFFICES ASSUME HeapInit PROVE HeapInv
  OBVIOUS
<1> USE DEF HeapInit
<1>1. 1 \in Pages /\ PageSize \in Nat \ {0} /\ <<>> \in Seq(Slots)
  BY PageAssumption DEF Pages
<1>2. heaps \in Seq(Pages) /\ Len(heaps) = 1 /\ heaps # <<>> /\ Once(heaps) /\ 1 \in Range(heaps)
  <2>1. heaps = <<1>>
    OBVIOUS
  <2>2. QED
    BY <1>1, <2>1 DEF Once, Range
<1>3. freelist \in Seq(Slots) /\ Once(freelist) /\ Range(freelist) = {s \in Slots : s[1] = 1}
  BY <1>1, NewSlotsOnce
<1>4. Range(<<>>) = {} /\ Once(<<>>) /\ InLists(<<>>) = {} /\ Apart(<<>>)
  BY EmptyRange DEF Once, InLists, Apart
<1>5. sweep \in Locals /\ ~Sweeping
  BY <1>1 DEF NoSweep, Locals, Sweeping
<1>6. flags \in [Slots -> {"free", "live", "final", "none"}] /\ limit \in [Pages -> {0, PageSize}]
      /\ ran \in [Slots -> Nat]
  OBVIOUS
<1>7. HeapTypes
  <2>1. <<>> \in Seq(Seq(Slots) \ {<<>>}) /\ {} \subseteq Slots
    OBVIOUS
  <2>2. deferred = <<>> /\ final_list = <<>> /\ sweeps = <<>> /\ held = {} /\ fl_finalize = {}
        /\ finalizer_table = {} /\ released = FALSE /\ exited = FALSE /\ prohibited = FALSE
    OBVIOUS
  <2> HIDE DEF HeapInit
  <2>3. QED
    BY <1>1, <1>2, <1>3, <1>5, <1>6, <2>1, <2>2 DEF HeapTypes
<1>8. ListsApart
  BY <1>4, <1>5 DEF ListsApart
<1>9. Pending = {}
  BY <1>4, <1>7, PendingSlots
<1>10. FinalsDue
  BY <1>9 DEF FinalsDue
<1>11. PagesSound(Heap)
  <2>1. \A p \in Pages : limit[p] # 0 => p \in Range(heaps)
    BY <1>2
  <2>2. \A s \in Range(freelist) : flags[s] = "free" /\ limit[s[1]] # 0
    BY <1>1, <1>3
  <2>3. \A s \in Slots : flags[s] # "live"
    OBVIOUS
  <2>4. QED
    BY <1>3, <2>1, <2>2, <2>3 DEF PagesSound, Heap
<1>12. SlotsSound
  BY <1>4, <1>9, <1>11 DEF SlotsSound
<1>13. QED
  BY <1>5, <1>7, <1>8, <1>10, <1>12 DEF HeapInv

LEMMA HeapInvStep == HeapInv /\ [HeapNext]_heapVars => HeapInv'
<1> SUFFICES ASSUME HeapInv, [HeapNext]_heapVars PROVE HeapInv'
  OBVIOUS
<1>1. CASE rb_newobj
  BY <1>1, NewObjStep
<1>2. CASE NewPage
  BY <1>2, NewPageStep
<1>3. ASSUME NEW s \in Slots, Drop(s) PROVE HeapInv'
  BY <1>3, DropStep
<1>4. ASSUME NEW s \in Slots, define_final(s) \/ undefine_final(s) PROVE HeapInv'
  BY <1>4, DefineStep
<1>5. CASE rb_gc_start
  BY <1>5, StartStep
<1>6. CASE SweepSlot
  BY <1>6, SweepSlotStep
<1>7. CASE SweepPage
  BY <1>7, SweepPageStep
<1>8. CASE SweepEnd
  BY <1>8, SweepEndStep
<1>9. CASE FinalEnds
  BY <1>9, FinalEndsStep
<1>10. CASE rb_gc_call_finalizer_at_exit
  BY <1>10, AtExitStep
<1>11. CASE UNCHANGED heapVars
  <2>1. UNCHANGED <<slotVars, finalVars, deferred, sweeps, sweepVars, held, released, exited>>
    BY <1>11 DEF heapVars
  <2>2. HeapTypes'
    BY <2>1 DEF HeapInv, HeapTypes, slotVars, finalVars, sweepVars
  <2>3. ListsApart' /\ Pending' = Pending /\ Sweeping' = Sweeping
    BY <2>1, ListsKept DEF HeapInv, sweepVars
  <2>4. FinalsDue'
    BY <2>1, <2>3 DEF HeapInv, FinalsDue, slotVars, finalVars
  <2>5. ~released' => SlotsSound'
    <3>1. Heap' = Heap
      BY <2>1 DEF Heap, slotVars
    <3>2. PagesSound(Heap) => PagesSound(Heap)'
      BY <3>1 DEF PagesSound
    <3>3. QED
      BY <2>1, <2>3, <3>2 DEF HeapInv, SlotsSound, slotVars, sweepVars
  <2>6. Sweeping' => SweepAt'
    BY <2>1, <2>3 DEF HeapInv, SweepAt, Cleared, Page, slotVars, sweepVars
  <2>7. QED
    BY <2>2, <2>3, <2>4, <2>5, <2>6 DEF HeapInv
<1>12. QED
  BY <1>1, <1>2, <1>3, <1>4, <1>5, <1>6, <1>7, <1>8, <1>9, <1>10, <1>11 DEF HeapNext

\* rb_newobj hands out nothing that the program holds, that waits for its
\* finalizer or that is of a page given up, and nothing twice, for any pages and
\* any nesting of collections (HeapSound).
THEOREM HeapIsSound == HeapSpec => []HeapSound
<1>1. HeapInv => HeapSound
  <2> SUFFICES ASSUME HeapInv, ~released PROVE HeapSound
    BY DEF HeapSound, FreelistSound, HeldAlive
  <2>1. SlotsSound /\ PagesSound(Heap)
    BY DEF HeapInv, SlotsSound
  <2>2. held \subseteq Slots /\ limit \in [Pages -> {0, PageSize}] /\ PageSize \in Nat \ {0}
    BY PageAssumption DEF HeapInv, HeapTypes
  <2>3. ASSUME NEW s \in Range(freelist) PROVE flags[s] = "free" /\ s \notin held \cup Pending
    BY <2>1, <2>3 DEF SlotsSound, PagesSound, Heap
  <2>4. Once(freelist)
    BY <2>1 DEF PagesSound, Heap
  <2>5. ASSUME NEW s \in held PROVE flags[s] = "live" /\ limit[s[1]] > 0
    <3>1. flags[s] = "live" /\ limit[s[1]] # 0 /\ s[1] \in Pages
      BY <2>1, <2>2, SlotParts DEF SlotsSound, PagesSound, Heap
    <3>2. QED
      BY <2>2, <3>1
  <2>6. QED
    BY <2>3, <2>4, <2>5 DEF HeapSound, FreelistSound, HeldAlive, Once
<1>2. QED
  BY <1>1, HeapInvInit, HeapInvStep, PTL DEF HeapSpec

\* A finalizer runs once, after the last reference to its object is gone or at
\* exit, and all have run at exit (FinalizersSound).
THEOREM FinalizersAreSound == HeapSpec => []FinalizersSound
<1>1. HeapInv => FinalizersSound
  <2> SUFFICES ASSUME HeapInv PROVE FinalizersSound
    OBVIOUS
  <2>1. Len(sweeps) \in Nat
    BY DEF HeapInv, HeapTypes
  <2>2. ASSUME NEW i \in 1..Len(sweeps)
        PROVE  /\ Range(sweeps[i]) \cap (Range(deferred) \cup Range(final_list)) = {}
               /\ \A j \in 1..(i - 1) : Range(sweeps[i]) \cap Range(sweeps[j]) = {}
    <3>1. Range(sweeps[i]) \subseteq InLists(sweeps)
      BY DEF InLists
    <3>2. ASSUME NEW j \in 1..(i - 1) PROVE j \in 1..Len(sweeps) /\ i # j
      BY <2>1
    <3>3. QED
      BY <3>1, <3>2 DEF HeapInv, ListsApart, Apart
  <2>3. QED
    BY <2>2 DEF HeapInv, FinalsDue, FinalizersSound, FinalizerOnce, FinalizersRunAtExit
<1>2. QED
  BY <1>1, HeapInvInit, HeapInvStep, PTL DEF HeapSpec
=============================================================================
