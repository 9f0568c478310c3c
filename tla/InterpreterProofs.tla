-------------------------- MODULE InterpreterProofs --------------------------
(***************************************************************************)
(* Proofs about parts of the interpreter that share no state: the procs of *)
(* END and at_exit (EndProcs), require and autoload (Loading), signals     *)
(* (Signals), global variables (GlobalVars) and the method cache           *)
(* (MethodCache).                                                          *)
(***************************************************************************)
EXTENDS LoadState, SignalState, GvarState, MethodTables, EndProcs,
        FiniteSetTheorems, WellFoundedInduction, TLAPS

CONSTANTS Names, Cmds, Variables, Traces, MaxSteps
VARIABLES data, steps

Load == INSTANCE Loading
Sig == INSTANCE Signals
Gvar == INSTANCE GlobalVars
Cache == INSTANCE MethodCache

-----------------------------------------------------------------------------
(* Sequences without repetition.                                           *)

Distinct(s) == \A i, j \in DOMAIN s : s[i] = s[j] => i = j

\* An element put in front of a list (NEW in ruby/eval.c's link lists).
LEMMA Prepended ==
  ASSUME NEW T, NEW s \in Seq(T), NEW p \in T
  PROVE  /\ <<p>> \o s \in Seq(T)
         /\ Len(<<p>> \o s) = Len(s) + 1
         /\ (<<p>> \o s)[1] = p
         /\ \A i \in 1..Len(s) : (<<p>> \o s)[i + 1] = s[i]
         /\ \A i \in 1..(Len(s) + 1) : i = 1 \/ (i - 1 \in 1..Len(s) /\ (<<p>> \o s)[i] = s[i - 1])
         /\ Elements(<<p>> \o s) = {p} \cup Elements(s)
         /\ p \notin Elements(s) /\ Distinct(s) => Distinct(<<p>> \o s)
<1> DEFINE q == <<p>> \o s
<1>1. /\ q \in Seq(T) /\ Len(q) = Len(s) + 1
      /\ DOMAIN q = 1..(Len(s) + 1) /\ DOMAIN s = 1..Len(s) /\ Len(s) \in Nat
  OBVIOUS
<1>2. /\ q[1] = p
      /\ \A i \in 1..(Len(s) + 1) : i # 1 => q[i] = s[i - 1]
  OBVIOUS
<1>3. \A i \in 1..Len(s) : q[i + 1] = s[i]
  BY <1>1, <1>2
<1>4. \A i \in 1..(Len(s) + 1) : i = 1 \/ (i - 1 \in 1..Len(s) /\ q[i] = s[i - 1])
  BY <1>1, <1>2
<1> HIDE DEF q
<1>5. Elements(q) = {p} \cup Elements(s)
  <2>1. ASSUME NEW x \in Elements(q) PROVE x \in {p} \cup Elements(s)
    BY <2>1, <1>1, <1>2, <1>4 DEF Elements
  <2>2. ASSUME NEW x \in {p} \cup Elements(s) PROVE x \in Elements(q)
    <3>1. CASE x = p
      BY <3>1, <1>1, <1>2 DEF Elements
    <3>2. CASE x \in Elements(s)
      <4>1. PICK i \in 1..Len(s) : x = s[i]
        BY <3>2, <1>1 DEF Elements
      <4>2. i + 1 \in DOMAIN q /\ q[i + 1] = x
        BY <4>1, <1>1, <1>3
      <4>3. QED
        BY <4>2 DEF Elements
    <3>3. QED
      BY <2>2, <3>1, <3>2
  <2>3. QED
    BY <2>1, <2>2
<1>6. ASSUME p \notin Elements(s), Distinct(s) PROVE Distinct(q)
  <2>1. SUFFICES ASSUME NEW i \in 1..(Len(s) + 1), NEW j \in 1..(Len(s) + 1), q[i] = q[j]
                 PROVE  i = j
    BY <1>1 DEF Distinct
  <2>2. \A k \in 1..Len(s) : s[k] # p
    BY <1>6, <1>1 DEF Elements
  <2>3. i = 1 <=> j = 1
    BY <2>1, <2>2, <1>2, <1>4
  <2>4. CASE i # 1
    <3>1. /\ i - 1 \in DOMAIN s /\ j - 1 \in DOMAIN s
          /\ s[i - 1] = s[j - 1]
      BY <2>1, <2>3, <2>4, <1>1, <1>4
    <3>2. i - 1 = j - 1
      BY <3>1, <1>6 DEF Distinct
    <3>3. QED
      BY <3>2, <1>1
  <2>5. QED
    BY <2>3, <2>4
<1>7. QED
  BY <1>1, <1>2, <1>3, <1>4, <1>5, <1>6 DEF q

\* The head of a list is taken off.
LEMMA HeadTaken ==
  ASSUME NEW T, NEW s \in Seq(T), s # <<>>, Distinct(s)
  PROVE  /\ Tail(s) \in Seq(T) /\ Head(s) \in T
         /\ Elements(s) = {Head(s)} \cup Elements(Tail(s))
         /\ Head(s) \notin Elements(Tail(s))
         /\ Distinct(Tail(s))
<1> DEFINE q == Tail(s)
<1>1. /\ q \in Seq(T) /\ Head(s) = s[1] /\ 1 \in DOMAIN s /\ s[1] \in T
      /\ DOMAIN s = 1..Len(s) /\ Len(s) \in Nat
      /\ Len(q) = Len(s) - 1 /\ DOMAIN q = 1..(Len(s) - 1)
      /\ \A i \in 1..(Len(s) - 1) : q[i] = s[i + 1]
  OBVIOUS
<1> HIDE DEF q
<1>2. \A i \in DOMAIN s : i = 1 \/ (i - 1 \in DOMAIN q /\ q[i - 1] = s[i])
  BY <1>1
<1>3. \A i \in DOMAIN q : i + 1 \in DOMAIN s /\ q[i] = s[i + 1] /\ i + 1 # 1
  BY <1>1
<1>4. Elements(s) = {Head(s)} \cup Elements(q)
  <2>1. ASSUME NEW x \in Elements(s) PROVE x \in {Head(s)} \cup Elements(q)
    BY <2>1, <1>1, <1>2 DEF Elements
  <2>2. ASSUME NEW x \in {Head(s)} \cup Elements(q) PROVE x \in Elements(s)
    BY <2>2, <1>1, <1>3 DEF Elements
  <2>3. QED
    BY <2>1, <2>2
<1>5. Head(s) \notin Elements(q)
  BY <1>1, <1>3 DEF Elements, Distinct
<1>6. Distinct(q)
  BY <1>1, <1>3 DEF Distinct
<1>7. QED
  BY <1>1, <1>4, <1>5, <1>6 DEF q

\* An element is added at the end.
LEMMA Appended ==
  ASSUME NEW T, NEW s \in Seq(T), NEW p \in T
  PROVE  /\ Append(s, p) \in Seq(T)
         /\ Elements(Append(s, p)) = Elements(s) \cup {p}
         /\ Distinct(s) /\ p \notin Elements(s) => Distinct(Append(s, p))
<1> DEFINE q == Append(s, p)
<1>1. /\ q \in Seq(T) /\ DOMAIN s = 1..Len(s) /\ Len(s) \in Nat
      /\ DOMAIN q = 1..(Len(s) + 1)
      /\ \A i \in 1..Len(s) : q[i] = s[i]
      /\ q[Len(s) + 1] = p
  OBVIOUS
<1> HIDE DEF q
<1>2. \A i \in DOMAIN q : i = Len(s) + 1 \/ (i \in DOMAIN s /\ q[i] = s[i])
  BY <1>1
<1>3. Len(s) + 1 \in DOMAIN q /\ \A i \in DOMAIN s : i \in DOMAIN q
  BY <1>1
<1>4. Elements(q) = Elements(s) \cup {p}
  <2>1. ASSUME NEW x \in Elements(q) PROVE x \in Elements(s) \cup {p}
    BY <2>1, <1>1, <1>2 DEF Elements
  <2>2. ASSUME NEW x \in Elements(s) \cup {p} PROVE x \in Elements(q)
    BY <2>2, <1>1, <1>3 DEF Elements
  <2>3. QED
    BY <2>1, <2>2
<1>5. ASSUME Distinct(s), p \notin Elements(s) PROVE Distinct(q)
  BY <1>5, <1>1, <1>2 DEF Distinct, Elements
<1>6. QED
  BY <1>1, <1>4, <1>5 DEF q

-----------------------------------------------------------------------------
(* END and at_exit.  The lists have no proc twice and share none.  What a  *)
(* loop has still to run has not been run; what the first loop leaves in   *)
(* front of save are procs that have been registered meanwhile, and by the *)
(* end of the second loop exactly those of end_procs have been run that    *)
(* were registered before it.                                              *)

\* The phases that have been when a phase is on.
Past == [run |-> {"run"}, first |-> {"run", "first"},
         second |-> {"run", "first", "second"},
         third |-> {"run", "first", "second", "third"},
         done |-> {"run", "first", "second", "third", "done"}]

EndTypes ==
  /\ end_procs \in Seq(Procs) /\ ephemeral_end_procs \in Seq(Procs)
  /\ link \in Seq(Procs) /\ ran \in Seq(Procs)
  /\ phase \in {"run", "first", "second", "third", "done"}
  /\ save \in Nat
  /\ since \in [Procs -> Past[phase]]
  /\ call \subseteq Procs

ListsApart ==
  /\ Distinct(end_procs) /\ Distinct(ephemeral_end_procs)
  /\ Distinct(link) /\ Distinct(ran)
  /\ Elements(end_procs) \cap Elements(ephemeral_end_procs) = {}
  /\ Elements(ephemeral_end_procs) \cap Elements(ran) = {}
  /\ Elements(link) \cap Elements(ran) = {}
  /\ Elements(link) \subseteq Elements(end_procs)

\* The part of end_procs from save on is what the first loop runs.
FirstLoopRuns ==
  phase = "first" =>
    /\ save <= Len(end_procs)
    /\ \A i \in 1..Len(end_procs) :
         IF i > Len(end_procs) - save
         THEN end_procs[i] \in Elements(ran) \cup Elements(link)
         ELSE end_procs[i] \notin Elements(ran) \cup Elements(link)

SecondLoopRuns ==
  phase = "second" => \A p \in Elements(end_procs) :
    p \in Elements(ran) \cup Elements(link) <=> since[p] # "second"

LoopsOver ==
  /\ phase = "run" => ran = <<>> /\ link = <<>>
  /\ phase \in {"third", "done"} =>
       /\ link = <<>>
       /\ \A p \in Elements(end_procs) :
            p \in Elements(ran) <=> since[p] \notin {"second", "third", "done"}
  /\ phase = "done" =>
       /\ \A p \in Elements(ephemeral_end_procs) : since[p] = "done"
       /\ \A p \in Elements(ran) : since[p] # "done"

EndInv == EndTypes /\ ListsApart /\ FirstLoopRuns /\ SecondLoopRuns /\ LoopsOver

LEMMA NoElements == Elements(<<>>) = {} /\ Distinct(<<>>)
BY DEF Elements, Distinct

\* The front of a list.
LEMMA FrontInserted ==
  ASSUME NEW T, NEW s \in Seq(T), NEW n \in Nat, n <= Len(s), Distinct(s)
  PROVE  /\ SubSeq(s, 1, n) \in Seq(T) /\ Distinct(SubSeq(s, 1, n))
         /\ Elements(SubSeq(s, 1, n)) = {s[i] : i \in 1..n}
         /\ 1..n \subseteq 1..Len(s)
<1> DEFINE q == SubSeq(s, 1, n)
<1>1. q \in Seq(T) /\ Len(q) = n /\ \A i \in 1..n : q[i] = s[i]
  OBVIOUS
<1>2. DOMAIN q = 1..n /\ 1..n \subseteq 1..Len(s) /\ DOMAIN s = 1..Len(s)
  BY <1>1
<1> HIDE DEF q
<1>3. Elements(q) = {s[i] : i \in 1..n}
  BY <1>1, <1>2 DEF Elements
<1>4. Distinct(q)
  BY <1>1, <1>2 DEF Distinct
<1>5. QED
  BY <1>1, <1>2, <1>3, <1>4 DEF q

LEMMA EndBegins == Init => EndInv
<1> SUFFICES ASSUME Init PROVE EndInv
  OBVIOUS
<1>1. <<>> \in Seq(Procs)
  OBVIOUS
<1>2. EndTypes
  BY <1>1 DEF Init, EndTypes, Past
<1>3. ListsApart
  BY NoElements DEF Init, ListsApart
<1>4. QED
  BY <1>2, <1>3 DEF EndInv, Init, FirstLoopRuns, SecondLoopRuns, LoopsOver

\* A proc that is registered has been in no list.
LEMMA SetEndProc ==
  ASSUME EndInv, NEW p \in Procs, NEW wrapped \in BOOLEAN, rb_set_end_proc(p, wrapped)
  PROVE  EndInv'
<1>1. /\ p \notin Elements(end_procs) /\ p \notin Elements(ephemeral_end_procs)
      /\ p \notin Elements(ran) /\ p \notin Elements(link)
  BY DEF EndInv, ListsApart, rb_set_end_proc, Registered, Elements
<1>2. /\ UNCHANGED <<phase, link, save, ran, call>>
      /\ since' = [since EXCEPT ![p] = phase]
      /\ \/ ephemeral_end_procs' = <<p>> \o ephemeral_end_procs /\ UNCHANGED end_procs
         \/ end_procs' = <<p>> \o end_procs /\ UNCHANGED ephemeral_end_procs
  BY DEF rb_set_end_proc
<1>3. /\ since' \in [Procs -> Past[phase]] /\ since'[p] = phase
      /\ \A q \in Procs : q # p => since'[q] = since[q]
  BY <1>2 DEF EndInv, EndTypes, Past
<1>4. Elements(end_procs) \cup Elements(ephemeral_end_procs) \cup Elements(ran) \subseteq Procs
  BY DEF EndInv, EndTypes, Elements
<1>5. CASE ephemeral_end_procs' = <<p>> \o ephemeral_end_procs /\ UNCHANGED end_procs
  <2>1. /\ ephemeral_end_procs' \in Seq(Procs) /\ Distinct(ephemeral_end_procs')
        /\ Elements(ephemeral_end_procs') = {p} \cup Elements(ephemeral_end_procs)
    BY <1>1, <1>5, Prepended DEF EndInv, EndTypes, ListsApart
  <2>2. EndTypes'
    BY <1>2, <1>3, <1>5, <2>1 DEF EndInv, EndTypes
  <2>3. ListsApart'
    BY <1>1, <1>2, <1>5, <2>1 DEF EndInv, ListsApart
  <2>4. UNCHANGED <<Elements(end_procs), Elements(ran), Elements(link)>>
    BY <1>2, <1>5
  <2>5. LoopsOver'
    BY <1>1, <1>2, <1>3, <1>4, <2>1, <2>4 DEF EndInv, LoopsOver
  <2>6. SecondLoopRuns'
    BY <1>1, <1>2, <1>3, <1>4, <2>4 DEF EndInv, SecondLoopRuns
  <2>7. FirstLoopRuns'
    BY <1>2, <1>5 DEF EndInv, FirstLoopRuns
  <2>8. QED
    BY <2>2, <2>3, <2>5, <2>6, <2>7 DEF EndInv
<1>6. CASE end_procs' = <<p>> \o end_procs /\ UNCHANGED ephemeral_end_procs
  <2>1. /\ end_procs' \in Seq(Procs) /\ Distinct(end_procs')
        /\ Elements(end_procs') = {p} \cup Elements(end_procs)
        /\ Len(end_procs') = Len(end_procs) + 1
        /\ end_procs'[1] = p
        /\ \A i \in 1..(Len(end_procs) + 1) :
             i = 1 \/ (i - 1 \in 1..Len(end_procs) /\ end_procs'[i] = end_procs[i - 1])
    BY <1>1, <1>6, Prepended DEF EndInv, EndTypes, ListsApart
  <2>2. EndTypes'
    BY <1>2, <1>3, <1>6, <2>1 DEF EndInv, EndTypes
  <2>3. ListsApart'
    BY <1>1, <1>2, <1>6, <2>1 DEF EndInv, ListsApart
  <2>4. FirstLoopRuns'
    <3>1. SUFFICES ASSUME phase = "first"
                   PROVE  /\ save <= Len(end_procs')
                          /\ \A i \in 1..Len(end_procs') :
                               IF i > Len(end_procs') - save
                               THEN end_procs'[i] \in Elements(ran) \cup Elements(link)
                               ELSE end_procs'[i] \notin Elements(ran) \cup Elements(link)
      BY <1>2 DEF FirstLoopRuns, Elements
    <3>2. Len(end_procs) \in Nat /\ save \in Nat /\ save <= Len(end_procs)
      BY <3>1 DEF EndInv, EndTypes, FirstLoopRuns
    <3>3. ASSUME NEW i \in 1..Len(end_procs')
          PROVE  IF i > Len(end_procs') - save
                 THEN end_procs'[i] \in Elements(ran) \cup Elements(link)
                 ELSE end_procs'[i] \notin Elements(ran) \cup Elements(link)
      <4>1. CASE i = 1
        BY <4>1, <3>1, <3>2, <2>1, <1>1
      <4>2. CASE i # 1
        <5>1. /\ i - 1 \in 1..Len(end_procs) /\ end_procs'[i] = end_procs[i - 1]
              /\ (i > Len(end_procs') - save <=> i - 1 > Len(end_procs) - save)
          BY <4>2, <2>1, <3>2
        <5>2. QED
          BY <5>1, <3>1 DEF EndInv, FirstLoopRuns
      <4>3. QED
        BY <4>1, <4>2
    <3>4. save <= Len(end_procs')
      BY <3>2, <2>1
    <3>5. QED
      BY <3>3, <3>4
  <2>5. /\ UNCHANGED <<Elements(ran), Elements(link)>>
        /\ UNCHANGED Elements(ephemeral_end_procs)
    BY <1>2, <1>6
  <2>6. SecondLoopRuns'
    BY <1>1, <1>2, <1>3, <1>4, <2>1, <2>5 DEF EndInv, SecondLoopRuns
  <2>7. LoopsOver'
    BY <1>1, <1>2, <1>3, <1>4, <2>1, <2>5 DEF EndInv, LoopsOver
  <2>8. QED
    BY <2>2, <2>3, <2>4, <2>6, <2>7 DEF EndInv
<1>7. QED
  BY <1>2, <1>5, <1>6

LEMMA EndLoops ==
  ASSUME EndInv, RunEndProc
  PROVE  EndInv'
<1>1. /\ phase \in {"first", "second"} /\ link # <<>>
      /\ UNCHANGED <<end_procs, ephemeral_end_procs, phase, save, since>>
      /\ ran' = Append(ran, Head(link)) /\ call' = {Head(link)} /\ link' = Tail(link)
  BY DEF RunEndProc
<1>2. /\ link' \in Seq(Procs) /\ Head(link) \in Procs
      /\ Elements(link) = {Head(link)} \cup Elements(link')
      /\ Head(link) \notin Elements(link')
      /\ Distinct(link')
  BY <1>1, HeadTaken DEF EndInv, EndTypes, ListsApart
<1>3. /\ ran' \in Seq(Procs) /\ Elements(ran') = Elements(ran) \cup {Head(link)}
      /\ Distinct(ran')
  BY <1>1, <1>2, Appended DEF EndInv, EndTypes, ListsApart
<1>4. EndTypes'
  BY <1>1, <1>2, <1>3 DEF EndInv, EndTypes
<1>5. Elements(end_procs') = Elements(end_procs)
      /\ Elements(ephemeral_end_procs') = Elements(ephemeral_end_procs)
  BY <1>1
<1>6. ListsApart'
  BY <1>1, <1>2, <1>3, <1>5 DEF EndInv, ListsApart
<1>7. Elements(ran') \cup Elements(link') = Elements(ran) \cup Elements(link)
  BY <1>2, <1>3
<1>8. FirstLoopRuns'
  BY <1>1, <1>7 DEF EndInv, FirstLoopRuns
<1>9. SecondLoopRuns'
  <2>1. SUFFICES ASSUME phase = "second"
                 PROVE  \A p \in Elements(end_procs) :
                          p \in Elements(ran') \cup Elements(link') <=> since[p] # "second"
    BY <1>1, <1>5 DEF SecondLoopRuns
  <2>2. QED
    BY <2>1, <1>7 DEF EndInv, SecondLoopRuns
<1>10. LoopsOver'
  BY <1>1 DEF LoopsOver
<1>11. QED
  BY <1>4, <1>6, <1>8, <1>9, <1>10 DEF EndInv

\* The second loop has the procs in front of save, and then none is left but
\* those of its own procs.
LEMMA EndTurns ==
  ASSUME EndInv, rb_exec_end_proc \/ SecondLoop \/ ThirdLoop
  PROVE  EndInv'
<1>1. CASE rb_exec_end_proc
  <2>1. /\ phase = "run" /\ phase' = "first" /\ link' = end_procs /\ save' = Len(end_procs)
        /\ UNCHANGED <<end_procs, ephemeral_end_procs, since, ran, call>>
    BY <1>1 DEF rb_exec_end_proc
  <2>2. ran = <<>> /\ Elements(ran) = {} /\ Len(end_procs) \in Nat
        /\ DOMAIN end_procs = 1..Len(end_procs)
    BY <2>1, NoElements DEF EndInv, EndTypes, LoopsOver
  <2>3. EndTypes' /\ ListsApart'
    BY <2>1, <2>2 DEF EndInv, EndTypes, ListsApart, Past
  <2>4. FirstLoopRuns'
    <3>1. \A i \in 1..Len(end_procs) : end_procs[i] \in Elements(end_procs)
                                       /\ i > Len(end_procs) - Len(end_procs)
      BY <2>2 DEF Elements
    <3>2. QED
      BY <3>1, <2>1, <2>2 DEF FirstLoopRuns
  <2>5. QED
    BY <2>1, <2>3, <2>4 DEF EndInv, SecondLoopRuns, LoopsOver
<1>2. CASE SecondLoop
  <2> DEFINE n == Len(end_procs) - save
  <2>1. /\ phase = "first" /\ link = <<>> /\ phase' = "second" /\ call' = {}
        /\ link' = SubSeq(end_procs, 1, n)
        /\ UNCHANGED <<end_procs, ephemeral_end_procs, save, since, ran>>
    BY <1>2 DEF SecondLoop, NewProcs
  <2>2. /\ n \in Nat /\ n <= Len(end_procs) /\ Len(end_procs) \in Nat /\ save \in Nat
        /\ DOMAIN end_procs = 1..Len(end_procs)
        /\ Elements(link) = {}
    BY <2>1, NoElements DEF EndInv, EndTypes, FirstLoopRuns
  <2>3. /\ link' \in Seq(Procs) /\ Distinct(link')
        /\ Elements(link') = {end_procs[i] : i \in 1..n}
        /\ 1..n \subseteq 1..Len(end_procs)
    BY <2>1, <2>2, FrontInserted DEF EndInv, EndTypes, ListsApart
  <2>4. \A i \in 1..n : /\ end_procs[i] \notin Elements(ran)
                        /\ end_procs[i] \in Elements(end_procs)
    BY <2>1, <2>2, <2>3, SMTT(20) DEF EndInv, FirstLoopRuns, Elements
  <2>5. \A i \in 1..Len(end_procs) : i \in 1..n \/ end_procs[i] \in Elements(ran)
    BY <2>1, <2>2 DEF EndInv, FirstLoopRuns
  <2> HIDE DEF n
  <2>6. \A p \in Elements(end_procs) : p \in Elements(ran) \/ p \in Elements(link')
    <3>1. SUFFICES ASSUME NEW p \in Elements(end_procs)
                   PROVE  p \in Elements(ran) \/ p \in Elements(link')
      OBVIOUS
    <3>2. PICK i \in 1..Len(end_procs) : p = end_procs[i]
      BY <2>2 DEF Elements
    <3>3. QED
      BY <3>2, <2>3, <2>5
  <2>7. /\ \A p \in Elements(link') : p \notin Elements(ran) /\ p \in Elements(end_procs)
        /\ \A p \in Elements(end_procs) : since[p] # "second"
    <3>1. \A p \in Elements(end_procs) : p \in Procs
      BY DEF EndInv, EndTypes, Elements
    <3>2. \A p \in Procs : since[p] # "second"
      BY <2>1 DEF EndInv, EndTypes, Past
    <3>3. QED
      BY <2>3, <2>4, <3>1, <3>2
  <2>8. EndTypes' /\ ListsApart'
    BY <2>1, <2>3, <2>7 DEF EndInv, EndTypes, ListsApart, Past
  <2>9. SecondLoopRuns'
    BY <2>1, <2>6, <2>7 DEF SecondLoopRuns
  <2>10. QED
    BY <2>1, <2>8, <2>9 DEF EndInv, FirstLoopRuns, LoopsOver
<1>3. CASE ThirdLoop
  <2>1. /\ phase = "second" /\ link = <<>> /\ phase' = "third" /\ call' = {}
        /\ UNCHANGED <<end_procs, ephemeral_end_procs, link, save, since, ran>>
        /\ Elements(link) = {}
    BY <1>3, NoElements DEF ThirdLoop
  <2>2. EndTypes' /\ ListsApart'
    BY <2>1 DEF EndInv, EndTypes, ListsApart, Past
  <2>3. LoopsOver'
    <3>1. \A p \in Elements(end_procs) : since[p] \notin {"third", "done"}
      BY <2>1 DEF EndInv, EndTypes, Elements, Past
    <3>2. QED
      BY <2>1, <3>1 DEF EndInv, SecondLoopRuns, LoopsOver
  <2>4. QED
    BY <2>1, <2>2, <2>3 DEF EndInv, FirstLoopRuns, SecondLoopRuns
<1>4. QED
  BY <1>1, <1>2, <1>3

LEMMA EphemeralLoop ==
  ASSUME EndInv, RunEphemeral
  PROVE  EndInv'
<1>1. /\ phase = "third" /\ UNCHANGED <<end_procs, link, save, since>>
  BY DEF RunEphemeral
<1>2. CASE ephemeral_end_procs = <<>>
  <2>1. phase' = "done" /\ ran' = ran /\ call' = {} /\ ephemeral_end_procs' = <<>>
    BY <1>2 DEF RunEphemeral, Rest
  <2>2. EndTypes' /\ ListsApart'
    BY <1>1, <1>2, <2>1 DEF EndInv, EndTypes, ListsApart, Past
  <2>3. \A p \in Elements(ran) : since[p] # "done"
    <3>1. \A p \in Elements(ran) : p \in Procs
      BY DEF EndInv, EndTypes, Elements
    <3>2. \A p \in Procs : since[p] # "done"
      BY <1>1 DEF EndInv, EndTypes, Past
    <3>3. QED
      BY <3>1, <3>2
  <2>4. QED
    BY <1>1, <2>1, <2>2, <2>3, NoElements DEF EndInv, FirstLoopRuns, SecondLoopRuns, LoopsOver
<1>3. CASE ephemeral_end_procs # <<>>
  <2>1. /\ phase' = "third" /\ ran' = Append(ran, Head(ephemeral_end_procs))
        /\ call' = {Head(ephemeral_end_procs)}
        /\ ephemeral_end_procs' = Tail(ephemeral_end_procs)
    BY <1>3 DEF RunEphemeral, Rest
  <2>2. /\ ephemeral_end_procs' \in Seq(Procs) /\ Head(ephemeral_end_procs) \in Procs
        /\ Elements(ephemeral_end_procs) =
             {Head(ephemeral_end_procs)} \cup Elements(ephemeral_end_procs')
        /\ Head(ephemeral_end_procs) \notin Elements(ephemeral_end_procs')
        /\ Distinct(ephemeral_end_procs')
    BY <1>3, <2>1, HeadTaken DEF EndInv, EndTypes, ListsApart
  <2>3. /\ ran' \in Seq(Procs)
        /\ Elements(ran') = Elements(ran) \cup {Head(ephemeral_end_procs)}
        /\ Distinct(ran')
    BY <2>1, <2>2, Appended DEF EndInv, EndTypes, ListsApart
  <2>4. link = <<>> /\ Elements(link) = {}
    BY <1>1, NoElements DEF EndInv, LoopsOver
  <2>5. EndTypes'
    BY <1>1, <2>1, <2>2, <2>3 DEF EndInv, EndTypes
  <2>6. ListsApart'
    BY <1>1, <2>2, <2>3, <2>4 DEF EndInv, ListsApart
  <2>7. LoopsOver'
    <3>1. Head(ephemeral_end_procs) \notin Elements(end_procs)
      BY <2>2 DEF EndInv, ListsApart
    <3>2. QED
      BY <1>1, <2>1, <2>3, <3>1 DEF EndInv, LoopsOver
  <2>8. QED
    BY <2>1, <2>5, <2>6, <2>7 DEF EndInv, FirstLoopRuns, SecondLoopRuns
<1>4. QED
  BY <1>2, <1>3

\* rb_exec_end_proc: whatever procs register while they are run, in either list, no
\* proc is run twice, and in the end exactly those have not been run that were put
\* into end_procs during the second or third loop, or registered after the loops.
THEOREM EndProcsOnce == Spec => []EndProcsRunOnce
<1>1. Init => EndInv
  BY EndBegins
<1>2. EndInv /\ [Next]_(vars) => EndInv'
  <2> SUFFICES ASSUME EndInv, [Next]_(vars) PROVE EndInv'
    OBVIOUS
  <2>1. ASSUME NEW p \in Procs, Register(p) PROVE EndInv'
    BY <2>1, SetEndProc DEF Register
  <2>2. CASE UNCHANGED vars
    BY <2>2 DEF vars, EndInv, EndTypes, ListsApart, FirstLoopRuns, SecondLoopRuns,
                LoopsOver
  <2>3. QED
    BY <2>1, <2>2, EndLoops, EndTurns, EphemeralLoop DEF Next
<1>3. EndInv => EndProcsRunOnce
  <2> SUFFICES ASSUME EndInv PROVE EndProcsRunOnce
    OBVIOUS
  <2>1. \A i, j \in DOMAIN ran : ran[i] = ran[j] => i = j
    BY DEF EndInv, ListsApart, Distinct
  <2>2. ASSUME phase = "done", NEW p \in Registered
        PROVE  p \in Elements(ran) <=> ~Forgotten(p)
    BY <2>2 DEF EndInv, ListsApart, LoopsOver, Registered, Forgotten
  <2>3. QED
    BY <2>1, <2>2 DEF EndProcsRunOnce
<1>4. QED
  BY <1>1, <1>2, <1>3, PTL DEF Spec

-----------------------------------------------------------------------------
(* require and autoload.  A file is in loading_tbl for a thread exactly    *)
(* while it is on the stack of that thread, once; a file in $" that nobody *)
(* loads has been executed to its end or has failed; and a thread in an    *)
(* autoload has the file on its stack, waits for it, or is past it.        *)

FrameSet == [file : Files, done : Nat]
FilesOf(s) == {s[i].file : i \in 1..Len(s)}
NoFileTwice(s) == \A i, j \in 1..Len(s) : s[i].file = s[j].file => i = j

LoadTypes ==
  /\ provided \subseteq Files /\ finished \subseteq Files /\ failed \subseteq Files
  /\ loading \in [Files -> Loaders \cup {None}]
  /\ executed \in [Files -> Nat]
  /\ stack \in [Loaders -> Seq(FrameSet)]
  /\ at \in [Loaders -> {"run", "wait", "raise"}]
  /\ want \in [Loaders -> Files \cup {None}]
  /\ refers \in [Loaders -> Files \cup {None}]
  /\ relies \in [Loaders -> SUBSET Files]
  /\ missed \in [Loaders -> SUBSET Files]

BegunOnce == \A f \in Files : /\ executed[f] <= 1
                              /\ f \notin provided => executed[f] = 0 /\ loading[f] = None

OnStack ==
  /\ \A t \in Loaders, f \in Files : loading[f] = t <=> f \in Executing(t)
  /\ \A t \in Loaders : NoFileTwice(stack[t])

Over(f) == f \in finished \cup failed

NobodyLoads == \A f \in provided : loading[f] = None => Over(f)

WaitsForBegun == \A t \in Loaders : at[t] = "wait" => want[t] \in provided

AutoloadUnderWay ==
  \A t \in Loaders : refers[t] # None =>
    \/ Over(refers[t])
    \/ refers[t] \in Executing(t)
    \/ at[t] = "wait" /\ want[t] = refers[t] /\ stack[t] = <<>>
    \/ at[t] = "raise" /\ stack[t] = <<>>

LoadInv == LoadTypes /\ BegunOnce /\ OnStack /\ NobodyLoads /\ WaitsForBegun
           /\ AutoloadUnderWay /\ RequireReturnsLoaded /\ AutoloadDefines

\* A file is pushed.
LEMMA Pushed ==
  ASSUME NEW s \in Seq(FrameSet), NEW f \in Files, NEW n \in Nat
  PROVE  LET q == <<[file |-> f, done |-> n]>> \o s
         IN /\ q \in Seq(FrameSet) /\ q # <<>> /\ FilesOf(q) = {f} \cup FilesOf(s)
            /\ NoFileTwice(s) /\ f \notin FilesOf(s) => NoFileTwice(q)
<1> DEFINE e == [file |-> f, done |-> n]
           q == <<e>> \o s
<1>1. e \in FrameSet /\ e.file = f
  BY DEF FrameSet
<1> HIDE DEF e
<1>2. /\ q \in Seq(FrameSet) /\ Len(q) = Len(s) + 1 /\ Len(s) \in Nat /\ q[1] = e
      /\ \A i \in 1..Len(s) : q[i + 1] = s[i]
      /\ \A i \in 1..(Len(s) + 1) : i = 1 \/ (i - 1 \in 1..Len(s) /\ q[i] = s[i - 1])
  BY <1>1, Prepended
<1> HIDE DEF q
<1>3. FilesOf(q) = {f} \cup FilesOf(s)
  <2>1. ASSUME NEW x \in FilesOf(q) PROVE x \in {f} \cup FilesOf(s)
    BY <2>1, <1>1, <1>2 DEF FilesOf
  <2>2. ASSUME NEW x \in FilesOf(s) PROVE x \in FilesOf(q)
    <3>1. PICK i \in 1..Len(s) : x = s[i].file
      BY DEF FilesOf
    <3>2. i + 1 \in 1..Len(q) /\ q[i + 1] = s[i]
      BY <3>1, <1>2
    <3>3. QED
      BY <3>1, <3>2 DEF FilesOf
  <2>3. f \in FilesOf(q)
    BY <1>1, <1>2 DEF FilesOf
  <2>4. QED
    BY <2>1, <2>2, <2>3
<1>4. ASSUME NoFileTwice(s), f \notin FilesOf(s) PROVE NoFileTwice(q)
  <2>1. SUFFICES ASSUME NEW i \in 1..(Len(s) + 1), NEW j \in 1..(Len(s) + 1),
                        q[i].file = q[j].file
                 PROVE  i = j
    BY <1>2 DEF NoFileTwice
  <2>2. \A k \in 1..Len(s) : s[k].file # f
    BY <1>4 DEF FilesOf
  <2>3. i = 1 <=> j = 1
    BY <2>1, <2>2, <1>1, <1>2
  <2>4. CASE i # 1
    <3>1. /\ i - 1 \in 1..Len(s) /\ j - 1 \in 1..Len(s)
          /\ s[i - 1].file = s[j - 1].file
      BY <2>1, <2>3, <2>4, <1>2
    <3>2. i - 1 = j - 1
      BY <3>1, <1>4 DEF NoFileTwice
    <3>3. QED
      BY <3>2, <1>2
  <2>5. QED
    BY <2>3, <2>4
<1>5. q # <<>>
  BY <1>2
<1>6. QED
  BY <1>2, <1>3, <1>4, <1>5 DEF q, e

\* The innermost file is popped.
LEMMA Popped ==
  ASSUME NEW s \in Seq(FrameSet), s # <<>>, NoFileTwice(s)
  PROVE  /\ Tail(s) \in Seq(FrameSet) /\ Head(s) \in FrameSet /\ Head(s).file \in Files
         /\ FilesOf(s) = {Head(s).file} \cup FilesOf(Tail(s))
         /\ Head(s).file \notin FilesOf(Tail(s))
         /\ NoFileTwice(Tail(s))
<1> DEFINE q == Tail(s)
<1>1. /\ q \in Seq(FrameSet) /\ Head(s) = s[1] /\ 1 \in 1..Len(s) /\ s[1] \in FrameSet
      /\ Len(s) \in Nat /\ Len(q) = Len(s) - 1
      /\ \A i \in 1..(Len(s) - 1) : q[i] = s[i + 1]
  OBVIOUS
<1> HIDE DEF q
<1>2. \A i \in 1..Len(s) : i = 1 \/ (i - 1 \in 1..Len(q) /\ q[i - 1] = s[i])
  BY <1>1
<1>3. \A i \in 1..Len(q) : i + 1 \in 1..Len(s) /\ q[i] = s[i + 1] /\ i + 1 # 1
  BY <1>1
<1>4. FilesOf(s) = {Head(s).file} \cup FilesOf(q)
  <2>1. ASSUME NEW x \in FilesOf(s) PROVE x \in {Head(s).file} \cup FilesOf(q)
    BY <2>1, <1>1, <1>2 DEF FilesOf
  <2>2. ASSUME NEW x \in {Head(s).file} \cup FilesOf(q) PROVE x \in FilesOf(s)
    BY <2>2, <1>1, <1>3 DEF FilesOf
  <2>3. QED
    BY <2>1, <2>2
<1>5. Head(s).file \notin FilesOf(q)
  BY <1>1, <1>3, SMTT(20) DEF FilesOf, NoFileTwice
<1>6. NoFileTwice(q)
  BY <1>1, <1>3 DEF NoFileTwice
<1>7. Head(s).file \in Files
  BY <1>1 DEF FrameSet
<1>8. QED
  BY <1>1, <1>4, <1>5, <1>6, <1>7 DEF q

\* What Advanced leaves: the files of the stack and their places.
LEMMA AdvancedSame ==
  ASSUME LoadTypes, NEW t \in Loaders
  PROVE  /\ Load!Advanced(t) \in Seq(FrameSet)
         /\ FilesOf(Load!Advanced(t)) = FilesOf(stack[t])
         /\ NoFileTwice(stack[t]) => NoFileTwice(Load!Advanced(t))
         /\ stack[t] = <<>> => Load!Advanced(t) = <<>>
<1>1. stack[t] \in Seq(FrameSet)
  BY DEF LoadTypes
<1>2. CASE stack[t] = <<>>
  BY <1>1, <1>2 DEF Load!Advanced
<1>3. CASE stack[t] # <<>>
  <2> DEFINE top == Head(stack[t])
             moved == [top EXCEPT !.done = @ + 1]
  <2>1. top = stack[t][1] /\ top \in FrameSet /\ Tail(stack[t]) \in Seq(FrameSet)
        /\ Len(Tail(stack[t])) = Len(stack[t]) - 1 /\ Len(stack[t]) \in Nat
        /\ \A i \in 1..(Len(stack[t]) - 1) : Tail(stack[t])[i] = stack[t][i + 1]
    BY <1>1, <1>3
  <2>2. moved \in FrameSet /\ moved.file = stack[t][1].file
    BY <2>1 DEF FrameSet
  <2>3. Load!Advanced(t) = <<moved>> \o Tail(stack[t])
    BY <1>3 DEF Load!Advanced
  <2> HIDE DEF moved, top
  <2>4. /\ Load!Advanced(t) \in Seq(FrameSet)
        /\ Len(Load!Advanced(t)) = Len(Tail(stack[t])) + 1
        /\ Load!Advanced(t)[1] = moved
        /\ \A i \in 1..(Len(Tail(stack[t])) + 1) :
             i = 1 \/ (i - 1 \in 1..Len(Tail(stack[t])) /\ Load!Advanced(t)[i] = Tail(stack[t])[i - 1])
    BY <2>1, <2>2, <2>3, Prepended
  <2>5. \A i \in 1..Len(stack[t]) : Load!Advanced(t)[i].file = stack[t][i].file
    BY <2>1, <2>2, <2>4
  <2>6. Len(Load!Advanced(t)) = Len(stack[t])
    BY <2>1, <2>4
  <2>7. QED
    BY <2>4, <2>5, <2>6, <1>3 DEF FilesOf, NoFileTwice
<1>4. QED
  BY <1>2, <1>3

LEMMA LoadBegins == Load!Init => LoadInv
<1> SUFFICES ASSUME Load!Init PROVE LoadInv
  OBVIOUS
<1>1. <<>> \in Seq(FrameSet) /\ 0 \in Nat
  OBVIOUS
<1>2. LoadTypes
  BY <1>1 DEF Load!Init, LoadTypes
<1>3. ASSUME NEW t \in Loaders
      PROVE  stack[t] = <<>> /\ Executing(t) = {} /\ NoFileTwice(stack[t])
  <2>1. stack[t] = <<>> /\ Len(stack[t]) = 0 /\ 1..Len(stack[t]) = {}
    BY DEF Load!Init
  <2>2. QED
    BY <2>1 DEF Executing, NoFileTwice
<1>4. OnStack
  BY <1>3, LoadAssumption DEF Load!Init, OnStack
<1>5. QED
  BY <1>2, <1>3, <1>4 DEF Load!Init, LoadInv, BegunOnce, NobodyLoads, WaitsForBegun,
    AutoloadUnderWay, RequireReturnsLoaded, AutoloadDefines

\* The files on the stacks of the other threads do not change.
LEMMA OtherStacks ==
  ASSUME LoadTypes, NEW t \in Loaders, NEW q \in Seq(FrameSet),
         stack' = [stack EXCEPT ![t] = q]
  PROVE  /\ stack' \in [Loaders -> Seq(FrameSet)]
         /\ stack'[t] = q /\ Executing(t)' = FilesOf(q)
         /\ \A u \in Loaders : u # t => stack'[u] = stack[u] /\ Executing(u)' = Executing(u)
         /\ \A u \in Loaders : Executing(u) = FilesOf(stack[u])
<1>1. stack' \in [Loaders -> Seq(FrameSet)] /\ stack'[t] = q
      /\ \A u \in Loaders : u # t => stack'[u] = stack[u]
  BY DEF LoadTypes
<1>2. QED
  BY <1>1 DEF Executing, FilesOf

\* A file that is on the stack of a thread has been begun.
LEMMA ExecutingBegun ==
  ASSUME LoadInv, NEW t \in Loaders
  PROVE  Executing(t) \subseteq provided
<1>1. ASSUME NEW f \in Executing(t) PROVE f \in Files
  <2>1. stack[t] \in Seq(FrameSet)
    BY DEF LoadInv, LoadTypes
  <2>2. PICK i \in 1..Len(stack[t]) : f = stack[t][i].file
    BY DEF Executing
  <2>3. stack[t][i] \in FrameSet
    BY <2>1, <2>2
  <2>4. QED
    BY <2>2, <2>3 DEF FrameSet
<1>2. \A f \in Executing(t) : loading[f] = t /\ t # None
  BY <1>1, LoadAssumption DEF LoadInv, OnStack
<1>3. QED
  BY <1>1, <1>2 DEF LoadInv, BegunOnce

\* require of a file that is not in $".
LEMMA LoadKeeps ==
  ASSUME LoadInv, NEW t \in Loaders, NEW f \in Files, f \notin provided, Load!Load(t, f),
         UNCHANGED <<finished, failed, missed>>, at[t] = "run",
         refers' = refers \/ refers' = [refers EXCEPT ![t] = f]
  PROVE  LoadInv'
<1> DEFINE q == <<[file |-> f, done |-> 0]>> \o Load!Advanced(t)
<1>1. /\ provided' = provided \cup {f} /\ loading' = [loading EXCEPT ![f] = t]
      /\ executed' = [executed EXCEPT ![f] = @ + 1]
      /\ stack' = [stack EXCEPT ![t] = q]
      /\ UNCHANGED <<at, want, relies, finished, failed, missed>>
  BY DEF Load!Load
<1>2. LoadTypes /\ executed[f] = 0 /\ loading[f] = None /\ t # None
  BY LoadAssumption DEF LoadInv, BegunOnce
<1>3. Executing(t) = FilesOf(stack[t]) /\ NoFileTwice(stack[t]) /\ f \notin FilesOf(stack[t])
  BY <1>2 DEF LoadInv, OnStack, Executing, FilesOf
<1>4. /\ q \in Seq(FrameSet) /\ FilesOf(q) = {f} \cup FilesOf(stack[t]) /\ NoFileTwice(q)
  BY <1>2, <1>3, AdvancedSame, Pushed
<1> HIDE DEF q
<1>5. /\ stack' \in [Loaders -> Seq(FrameSet)]
      /\ stack'[t] = q /\ Executing(t)' = {f} \cup Executing(t)
      /\ \A u \in Loaders : u # t => stack'[u] = stack[u] /\ Executing(u)' = Executing(u)
  BY <1>1, <1>2, <1>3, <1>4, OtherStacks
<1>6. /\ loading' \in [Files -> Loaders \cup {None}] /\ loading'[f] = t
      /\ \A g \in Files : g # f => loading'[g] = loading[g]
      /\ executed' \in [Files -> Nat] /\ executed'[f] = 1
      /\ \A g \in Files : g # f => executed'[g] = executed[g]
  BY <1>1, <1>2 DEF LoadTypes
<1>7. /\ refers' \in [Loaders -> Files \cup {None}] /\ refers'[t] \in {refers[t], f}
      /\ \A u \in Loaders : u # t => refers'[u] = refers[u]
  BY <1>2 DEF LoadTypes
<1>8. LoadTypes'
  BY <1>1, <1>2, <1>5, <1>6, <1>7 DEF LoadTypes
<1>9. BegunOnce'
  BY <1>1, <1>6 DEF LoadInv, BegunOnce
<1>10. OnStack'
  <2>1. ASSUME NEW u \in Loaders, NEW g \in Files
        PROVE  loading'[g] = u <=> g \in Executing(u)'
    <3>1. CASE u = t /\ g = f
      BY <3>1, <1>5, <1>6
    <3>2. CASE u = t /\ g # f
      BY <3>2, <1>5, <1>6 DEF LoadInv, OnStack
    <3>3. CASE u # t /\ g = f
      BY <3>3, <1>2, <1>5, <1>6, LoadAssumption DEF LoadInv, OnStack
    <3>4. CASE u # t /\ g # f
      <4>1. loading'[g] = loading[g] /\ Executing(u)' = Executing(u)
        BY <3>4, <1>5, <1>6
      <4>2. loading[g] = u <=> g \in Executing(u)
        BY DEF LoadInv, OnStack
      <4>3. QED
        BY <4>1, <4>2
    <3>5. QED
      BY <3>1, <3>2, <3>3, <3>4
  <2>2. \A u \in Loaders : NoFileTwice(stack'[u])
    BY <1>4, <1>5 DEF LoadInv, OnStack
  <2>3. QED
    BY <2>1, <2>2 DEF OnStack
<1>11. NobodyLoads'
  BY <1>1, <1>2, <1>6 DEF LoadInv, LoadTypes, NobodyLoads, Over
<1>12. WaitsForBegun'
  BY <1>1 DEF LoadInv, WaitsForBegun
<1>13. AutoloadUnderWay'
  <2>1. SUFFICES ASSUME NEW u \in Loaders, refers'[u] # None
                 PROVE  \/ Over(refers'[u])
                        \/ refers'[u] \in Executing(u)'
                        \/ at[u] = "wait" /\ want[u] = refers'[u] /\ stack'[u] = <<>>
                        \/ at[u] = "raise" /\ stack'[u] = <<>>
    BY <1>1 DEF AutoloadUnderWay, Over
  <2>2. CASE u = t
    BY <2>1, <2>2, <1>5, <1>7 DEF LoadInv, AutoloadUnderWay
  <2>3. CASE u # t
    BY <2>1, <2>3, <1>5, <1>7 DEF LoadInv, AutoloadUnderWay
  <2>4. QED
    BY <2>2, <2>3
<1>14. RequireReturnsLoaded'
  BY <1>1, <1>5 DEF LoadInv, RequireReturnsLoaded
<1>15. AutoloadDefines'
  BY <1>1 DEF LoadInv, AutoloadDefines
<1>16. QED
  BY <1>8, <1>9, <1>10, <1>11, <1>12, <1>13, <1>14, <1>15 DEF LoadInv

\* A step of one thread that leaves the tables and the files on its stack alone.
LEMMA OneThreadKeeps ==
  ASSUME LoadInv, NEW t \in Loaders, NEW q \in Seq(FrameSet),
         UNCHANGED <<provided, loading, finished, failed, executed>>,
         stack' = [stack EXCEPT ![t] = q],
         FilesOf(q) = FilesOf(stack[t]), NoFileTwice(q),
         at' \in [Loaders -> {"run", "wait", "raise"}],
         want' \in [Loaders -> Files \cup {None}],
         refers' \in [Loaders -> Files \cup {None}],
         relies' \in [Loaders -> SUBSET Files],
         missed' \in [Loaders -> SUBSET Files],
         \A u \in Loaders : u # t => /\ at'[u] = at[u] /\ want'[u] = want[u]
                                     /\ refers'[u] = refers[u] /\ relies'[u] = relies[u]
                                     /\ missed'[u] = missed[u],
         at'[t] = "wait" => want'[t] \in provided,
         refers'[t] # None =>
           \/ Over(refers'[t])
           \/ refers'[t] \in Executing(t)
           \/ at'[t] = "wait" /\ want'[t] = refers'[t] /\ q = <<>>
           \/ at'[t] = "raise" /\ q = <<>>,
         relies'[t] \subseteq finished \cup failed \cup Executing(t),
         missed'[t] \subseteq failed
  PROVE  LoadInv'
<1>1. LoadTypes
  BY DEF LoadInv
<1>2. /\ stack' \in [Loaders -> Seq(FrameSet)] /\ stack'[t] = q
      /\ \A u \in Loaders : Executing(u)' = Executing(u)
      /\ \A u \in Loaders : u # t => stack'[u] = stack[u]
  <2>1. /\ Executing(t)' = FilesOf(q) /\ Executing(t) = FilesOf(stack[t])
        /\ \A u \in Loaders : u # t => stack'[u] = stack[u] /\ Executing(u)' = Executing(u)
        /\ stack' \in [Loaders -> Seq(FrameSet)] /\ stack'[t] = q
    BY <1>1, OtherStacks
  <2>2. QED
    BY <2>1
<1>3. LoadTypes'
  BY <1>1, <1>2 DEF LoadTypes
<1>4. BegunOnce' /\ NobodyLoads'
  BY DEF LoadInv, BegunOnce, NobodyLoads, Over
<1>5. OnStack'
  <2>1. ASSUME NEW u \in Loaders, NEW g \in Files
        PROVE  loading'[g] = u <=> g \in Executing(u)'
    <3>1. loading[g] = u <=> g \in Executing(u)
      BY DEF LoadInv, OnStack
    <3>2. QED
      BY <3>1, <1>2
  <2>2. \A u \in Loaders : NoFileTwice(stack'[u])
    BY <1>2 DEF LoadInv, OnStack
  <2>3. QED
    BY <2>1, <2>2 DEF OnStack
<1>6. WaitsForBegun'
  BY DEF LoadInv, WaitsForBegun
<1>7. AutoloadUnderWay'
  <2>1. SUFFICES ASSUME NEW u \in Loaders, refers'[u] # None
                 PROVE  \/ Over(refers'[u])
                        \/ refers'[u] \in Executing(u)
                        \/ at'[u] = "wait" /\ want'[u] = refers'[u] /\ stack'[u] = <<>>
                        \/ at'[u] = "raise" /\ stack'[u] = <<>>
    BY <1>2 DEF AutoloadUnderWay, Over
  <2>2. CASE u = t
    BY <2>1, <2>2, <1>2
  <2>3. CASE u # t
    BY <2>1, <2>3, <1>2 DEF LoadInv, AutoloadUnderWay
  <2>4. QED
    BY <2>2, <2>3
<1>8. RequireReturnsLoaded'
  BY <1>2 DEF LoadInv, RequireReturnsLoaded
<1>9. AutoloadDefines'
  BY DEF LoadInv, AutoloadDefines
<1>10. QED
  BY <1>3, <1>4, <1>5, <1>6, <1>7, <1>8, <1>9 DEF LoadInv

\* A file in $" that no other thread loads may be relied on.
LEMMA NotLoadedByOther ==
  ASSUME LoadInv, NEW t \in Loaders, NEW f \in provided, ~Load!LoadedByOther(t, f)
  PROVE  f \in finished \cup failed \cup Executing(t)
BY LoadAssumption DEF LoadInv, LoadTypes, OnStack, NobodyLoads, Over, Load!LoadedByOther

\* rb_f_require, whoever calls it.
LEMMA RequireKeeps ==
  ASSUME LoadInv, NEW t \in Loaders, NEW f \in Files, Load!Require(t, f), at[t] = "run",
         \/ refers' = refers
         \/ stack[t] = <<>> /\ refers' = [refers EXCEPT ![t] = f]
  PROVE  LoadInv'
<1>1. CASE f \notin provided /\ Load!Load(t, f) /\ UNCHANGED <<finished, failed, missed>>
  BY <1>1, LoadKeeps
<1> DEFINE q == Load!Advanced(t)
<1>2. /\ LoadTypes /\ q \in Seq(FrameSet) /\ FilesOf(q) = FilesOf(stack[t]) /\ NoFileTwice(q)
      /\ stack[t] = <<>> => q = <<>>
  BY AdvancedSame DEF LoadInv, OnStack
<1>3. /\ refers' \in [Loaders -> Files \cup {None}]
      /\ \A u \in Loaders : u # t => refers'[u] = refers[u]
      /\ refers'[t] = refers[t] \/ (refers'[t] = f /\ stack[t] = <<>>)
  BY <1>2 DEF LoadTypes
<1> HIDE DEF q
<1>4. refers[t] # None => Over(refers[t]) \/ refers[t] \in Executing(t)
  BY DEF LoadInv, AutoloadUnderWay
<1>5. relies[t] \subseteq finished \cup failed \cup Executing(t) /\ missed[t] \subseteq failed
  BY DEF LoadInv, RequireReturnsLoaded, AutoloadDefines
<1>6. CASE /\ f \in provided /\ ~Load!LoadedByOther(t, f)
           /\ relies' = [relies EXCEPT ![t] = @ \cup {f}]
           /\ stack' = [stack EXCEPT ![t] = q]
           /\ UNCHANGED <<provided, loading, executed, at, want, finished, failed, missed>>
  <2>1. f \in finished \cup failed \cup Executing(t)
    BY <1>6, NotLoadedByOther
  <2>2. /\ relies' \in [Loaders -> SUBSET Files]
        /\ relies'[t] = relies[t] \cup {f}
        /\ \A u \in Loaders : u # t => relies'[u] = relies[u]
        /\ at' \in [Loaders -> {"run", "wait", "raise"}]
        /\ want' \in [Loaders -> Files \cup {None}]
        /\ missed' \in [Loaders -> SUBSET Files]
    BY <1>2, <1>6 DEF LoadTypes
  <2>3. refers'[t] # None => Over(refers'[t]) \/ refers'[t] \in Executing(t)
    BY <1>3, <1>4, <2>1 DEF Over
  <2>4. relies'[t] \subseteq finished \cup failed \cup Executing(t)
    BY <2>1, <2>2, <1>5
  <2>5. QED
    BY <1>2, <1>3, <1>5, <1>6, <2>2, <2>3, <2>4, OneThreadKeeps
<1>7. CASE /\ f \in provided /\ Load!LoadedByOther(t, f)
           /\ at' = [at EXCEPT ![t] = "wait"]
           /\ want' = [want EXCEPT ![t] = f]
           /\ stack' = [stack EXCEPT ![t] = q]
           /\ UNCHANGED <<provided, loading, executed, relies, finished, failed, missed>>
  <2>1. /\ relies' \in [Loaders -> SUBSET Files]
        /\ at' \in [Loaders -> {"run", "wait", "raise"}] /\ at'[t] = "wait"
        /\ want' \in [Loaders -> Files \cup {None}] /\ want'[t] = f
        /\ \A u \in Loaders : u # t => at'[u] = at[u] /\ want'[u] = want[u]
        /\ missed' \in [Loaders -> SUBSET Files]
    BY <1>2, <1>7 DEF LoadTypes
  <2>2. \/ refers'[t] = None \/ Over(refers'[t]) \/ refers'[t] \in Executing(t)
        \/ (refers'[t] = f /\ q = <<>>)
    BY <1>2, <1>3, <1>4
  <2>3. QED
    BY <1>2, <1>3, <1>5, <1>7, <2>1, <2>2, OneThreadKeeps
<1>8. QED
  BY <1>1, <1>6, <1>7 DEF Load!Require, q

\* The innermost file of a thread ends, normally or by an exception.
LEMMA EndOfFile ==
  ASSUME LoadInv, NEW t \in Loaders, stack[t] # <<>>, at[t] # "wait",
         stack' = [stack EXCEPT ![t] = Tail(@)],
         loading' = [loading EXCEPT ![Head(stack[t]).file] = None],
         finished \subseteq finished', failed \subseteq failed',
         finished' \cup failed' = finished \cup failed \cup {Head(stack[t]).file},
         relies' \in [Loaders -> SUBSET Files],
         relies'[t] \subseteq relies[t] \cup {Head(stack[t]).file},
         \A u \in Loaders : u # t => relies'[u] = relies[u],
         UNCHANGED <<provided, executed, at, want, refers, missed>>
  PROVE  LoadInv'
<1> DEFINE f == Head(stack[t]).file
           q == Tail(stack[t])
<1>1. LoadTypes /\ stack[t] \in Seq(FrameSet) /\ NoFileTwice(stack[t])
  BY DEF LoadInv, LoadTypes, OnStack
<1>2. /\ q \in Seq(FrameSet) /\ f \in Files /\ FilesOf(stack[t]) = {f} \cup FilesOf(q)
      /\ f \notin FilesOf(q) /\ NoFileTwice(q)
  BY <1>1, Popped
<1>3. stack' = [stack EXCEPT ![t] = q]
  OBVIOUS
<1>4. /\ loading' = [loading EXCEPT ![f] = None]
      /\ finished' \cup failed' = finished \cup failed \cup {f}
      /\ relies'[t] \subseteq relies[t] \cup {f}
  OBVIOUS
<1> HIDE DEF f, q
<1>5. /\ stack' \in [Loaders -> Seq(FrameSet)] /\ stack'[t] = q
      /\ Executing(t)' = FilesOf(q) /\ Executing(t) = FilesOf(stack[t])
      /\ \A u \in Loaders : u # t => stack'[u] = stack[u] /\ Executing(u)' = Executing(u)
  BY <1>1, <1>2, <1>3, OtherStacks
<1>6. f \in Executing(t) /\ f \notin Executing(t)' /\ Executing(t) = {f} \cup Executing(t)'
  BY <1>2, <1>5
<1>7. /\ loading' \in [Files -> Loaders \cup {None}] /\ loading'[f] = None
      /\ \A g \in Files : g # f => loading'[g] = loading[g]
  BY <1>1, <1>2, <1>4 DEF LoadTypes
<1>8. loading[f] = t /\ f \in provided /\ t # None
  BY <1>2, <1>6, ExecutingBegun, LoadAssumption DEF LoadInv, OnStack
<1>9. finished' \subseteq Files /\ failed' \subseteq Files
  BY <1>1, <1>2, <1>4 DEF LoadTypes
<1>10. LoadTypes'
  BY <1>1, <1>5, <1>7, <1>9 DEF LoadTypes
<1>11. BegunOnce'
  BY <1>2, <1>7 DEF LoadInv, BegunOnce
<1>12. OnStack'
  <2>1. ASSUME NEW u \in Loaders, NEW g \in Files
        PROVE  loading'[g] = u <=> g \in Executing(u)'
    <3>1. loading[g] = u <=> g \in Executing(u)
      BY DEF LoadInv, OnStack
    <3>2. CASE g = f
      <4>1. loading'[g] # u
        BY <3>2, <1>7, LoadAssumption
      <4>2. g \notin Executing(u)'
        BY <3>1, <3>2, <1>5, <1>6, <1>8
      <4>3. QED
        BY <4>1, <4>2
    <3>3. CASE g # f
      <4>1. g \in Executing(u)' <=> g \in Executing(u)
        BY <3>3, <1>5, <1>6
      <4>2. QED
        BY <3>1, <3>3, <4>1, <1>7
    <3>4. QED
      BY <3>2, <3>3
  <2>2. \A u \in Loaders : NoFileTwice(stack'[u])
    BY <1>2, <1>5 DEF LoadInv, OnStack
  <2>3. QED
    BY <2>1, <2>2 DEF OnStack
<1>13. NobodyLoads'
  <2>1. SUFFICES ASSUME NEW g \in provided, loading'[g] = None
                 PROVE  g \in finished' \cup failed'
    BY DEF NobodyLoads, Over
  <2>2. g \in Files
    BY <1>1 DEF LoadTypes
  <2>3. QED
    BY <2>1, <2>2, <1>4, <1>7 DEF LoadInv, NobodyLoads, Over
<1>14. WaitsForBegun'
  BY DEF LoadInv, WaitsForBegun
<1>15. AutoloadUnderWay'
  <2>1. SUFFICES ASSUME NEW u \in Loaders, refers[u] # None
                 PROVE  \/ refers[u] \in finished' \cup failed'
                        \/ refers[u] \in Executing(u)'
                        \/ at[u] = "wait" /\ want[u] = refers[u] /\ stack'[u] = <<>>
                        \/ at[u] = "raise" /\ stack'[u] = <<>>
    BY DEF AutoloadUnderWay, Over
  <2>2. \/ refers[u] \in finished \cup failed
        \/ refers[u] \in Executing(u)
        \/ at[u] = "wait" /\ want[u] = refers[u] /\ stack[u] = <<>>
        \/ at[u] = "raise" /\ stack[u] = <<>>
    BY <2>1 DEF LoadInv, AutoloadUnderWay, Over
  <2>3. CASE u = t
    BY <2>2, <2>3, <1>4, <1>6
  <2>4. CASE u # t
    BY <2>2, <2>4, <1>4, <1>5
  <2>5. QED
    BY <2>3, <2>4
<1>16. RequireReturnsLoaded'
  <2>1. SUFFICES ASSUME NEW u \in Loaders
                 PROVE  relies'[u] \subseteq finished' \cup failed' \cup Executing(u)'
    BY DEF RequireReturnsLoaded
  <2>2. relies[u] \subseteq finished \cup failed \cup Executing(u)
    BY DEF LoadInv, RequireReturnsLoaded
  <2>3. CASE u = t
    BY <2>2, <2>3, <1>4, <1>6
  <2>4. CASE u # t
    BY <2>2, <2>4, <1>4, <1>5
  <2>5. QED
    BY <2>3, <2>4
<1>17. AutoloadDefines'
  BY DEF LoadInv, AutoloadDefines
<1>18. QED
  BY <1>10, <1>11, <1>12, <1>13, <1>14, <1>15, <1>16, <1>17 DEF LoadInv

\* The steps that only change where a thread is.
LEMMA ThreadSteps ==
  ASSUME LoadInv, NEW t \in Loaders,
         \/ Load!rb_const_get(t) \/ Load!rb_feature_p(t) \/ Load!Raise(t) \/ Load!Rescue(t)
         \/ (at[t] = "raise" /\ stack[t] = <<>> /\ Load!Unwind(t))
  PROVE  LoadInv'
<1>1. LoadTypes /\ stack[t] \in Seq(FrameSet) /\ NoFileTwice(stack[t])
      /\ [stack EXCEPT ![t] = stack[t]] = stack
  BY DEF LoadInv, LoadTypes, OnStack
<1>2. /\ relies[t] \subseteq finished \cup failed \cup Executing(t)
      /\ missed[t] \subseteq failed
      /\ refers[t] # None =>
           \/ Over(refers[t])
           \/ refers[t] \in Executing(t)
           \/ at[t] = "wait" /\ want[t] = refers[t] /\ stack[t] = <<>>
           \/ at[t] = "raise" /\ stack[t] = <<>>
      /\ at[t] = "wait" => want[t] \in provided
  BY DEF LoadInv, RequireReturnsLoaded, AutoloadDefines, AutoloadUnderWay, WaitsForBegun
<1>3. stack[t] = <<>> => Executing(t) = {}
  BY <1>1 DEF Executing
<1>4. CASE Load!rb_const_get(t)
  <2>1. /\ at[t] = "run" /\ stack[t] = <<>> /\ refers[t] # None
        /\ refers' = [refers EXCEPT ![t] = None]
        /\ missed' = [missed EXCEPT ![t] = IF refers[t] \in finished THEN @
                                           ELSE @ \cup {refers[t]}]
        /\ UNCHANGED <<provided, loading, finished, failed, executed, stack, at, want, relies>>
    BY <1>4 DEF Load!rb_const_get, Load!loadVars
  <2>2. Over(refers[t]) /\ refers[t] \in Files
    BY <2>1, <1>1, <1>2, <1>3 DEF LoadTypes
  <2>3. missed' \in [Loaders -> SUBSET Files] /\ missed'[t] \subseteq failed
        /\ \A u \in Loaders : u # t => missed'[u] = missed[u]
    BY <2>1, <2>2, <1>1, <1>2 DEF LoadTypes, Over
  <2>4. refers' \in [Loaders -> Files \cup {None}] /\ refers'[t] = None
        /\ \A u \in Loaders : u # t => refers'[u] = refers[u]
    BY <2>1, <1>1 DEF LoadTypes
  <2>5. /\ at' \in [Loaders -> {"run", "wait", "raise"}]
        /\ want' \in [Loaders -> Files \cup {None}]
        /\ relies' \in [Loaders -> SUBSET Files]
    BY <2>1, <1>1 DEF LoadTypes
  <2>6. QED
    BY <2>1, <2>3, <2>4, <2>5, <1>1, <1>2, OneThreadKeeps
<1>5. CASE Load!rb_feature_p(t)
  <2>1. /\ at[t] = "wait" /\ ~Load!LoadedByOther(t, want[t])
        /\ at' = [at EXCEPT ![t] = "run"]
        /\ relies' = [relies EXCEPT ![t] = @ \cup {want[t]}]
        /\ UNCHANGED <<provided, loading, finished, failed, executed, stack, want, refers,
                       missed>>
    BY <1>5 DEF Load!rb_feature_p, Load!loadVars
  <2>2. want[t] \in finished \cup failed \cup Executing(t) /\ want[t] \in Files
    BY <2>1, <1>1, <1>2, NotLoadedByOther DEF LoadTypes
  <2>3. /\ relies' \in [Loaders -> SUBSET Files]
        /\ relies'[t] \subseteq finished \cup failed \cup Executing(t)
        /\ \A u \in Loaders : u # t => relies'[u] = relies[u]
    BY <2>1, <2>2, <1>1, <1>2 DEF LoadTypes
  <2>4. /\ at' \in [Loaders -> {"run", "wait", "raise"}] /\ at'[t] = "run"
        /\ \A u \in Loaders : u # t => at'[u] = at[u]
        /\ want' \in [Loaders -> Files \cup {None}]
        /\ refers' \in [Loaders -> Files \cup {None}]
        /\ missed' \in [Loaders -> SUBSET Files]
    BY <2>1, <1>1 DEF LoadTypes
  <2>5. refers[t] # None => Over(refers[t]) \/ refers[t] \in Executing(t)
    BY <2>1, <2>2, <1>2 DEF Over
  <2>6. QED
    BY <2>1, <2>3, <2>4, <2>5, <1>1, <1>2, OneThreadKeeps
<1>6. CASE Load!Raise(t) \/ Load!Rescue(t)
  <2>1. /\ UNCHANGED <<provided, loading, finished, failed, executed, stack, want, refers,
                       relies, missed>>
        /\ \/ /\ at' = [at EXCEPT ![t] = "raise"]
              /\ at[t] = "wait" \/ (at[t] = "run" /\ stack[t] # <<>>)
           \/ at' = [at EXCEPT ![t] = "run"] /\ at[t] = "raise" /\ stack[t] # <<>>
    BY <1>6 DEF Load!Raise, Load!Rescue, Load!loadVars
  <2>2. /\ at' \in [Loaders -> {"run", "wait", "raise"}]
        /\ \A u \in Loaders : u # t => at'[u] = at[u]
        /\ at'[t] = "raise" \/ (at'[t] = "run" /\ at[t] = "raise" /\ stack[t] # <<>>)
        /\ want' \in [Loaders -> Files \cup {None}]
        /\ refers' \in [Loaders -> Files \cup {None}]
        /\ relies' \in [Loaders -> SUBSET Files]
        /\ missed' \in [Loaders -> SUBSET Files]
    BY <2>1, <1>1 DEF LoadTypes
  <2>3. refers[t] # None =>
          \/ Over(refers[t]) \/ refers[t] \in Executing(t)
          \/ (at'[t] = "raise" /\ stack[t] = <<>>)
    BY <2>1, <2>2, <1>2
  <2>4. QED
    BY <2>1, <2>2, <2>3, <1>1, <1>2, OneThreadKeeps
<1>7. CASE at[t] = "raise" /\ stack[t] = <<>> /\ Load!Unwind(t)
  <2>1. /\ at' = [at EXCEPT ![t] = "run"] /\ refers' = [refers EXCEPT ![t] = None]
        /\ UNCHANGED <<provided, loading, finished, failed, executed, stack, want, relies,
                       missed>>
    BY <1>7 DEF Load!Unwind
  <2>2. /\ at' \in [Loaders -> {"run", "wait", "raise"}] /\ at'[t] = "run"
        /\ refers' \in [Loaders -> Files \cup {None}] /\ refers'[t] = None
        /\ \A u \in Loaders : u # t => at'[u] = at[u] /\ refers'[u] = refers[u]
        /\ want' \in [Loaders -> Files \cup {None}]
        /\ relies' \in [Loaders -> SUBSET Files]
        /\ missed' \in [Loaders -> SUBSET Files]
    BY <2>1, <1>1 DEF LoadTypes
  <2>3. QED
    BY <2>1, <2>2, <1>1, <1>2, OneThreadKeeps
<1>8. QED
  BY <1>4, <1>5, <1>6, <1>7

\* rb_f_require, rb_feature_p and rb_autoload_load: however threads, nested
\* requires, autoload and exceptions interleave, and whatever files require, a
\* file is executed once, no thread goes on with a file that another thread has
\* only begun, and after an autoload the constant is missing only if the file
\* failed.
THEOREM RequiresSound == Load!Spec => []RequireSound
<1>1. Load!Init => LoadInv
  BY LoadBegins
<1>2. LoadInv /\ [Load!Next]_(Load!vars) => LoadInv'
  <2> SUFFICES ASSUME LoadInv, [Load!Next]_(Load!vars) PROVE LoadInv'
    OBVIOUS
  <2>1. ASSUME NEW t \in Loaders, NEW f \in Files,
               Load!rb_f_require(t, f) \/ Load!rb_autoload_load(t, f)
        PROVE  LoadInv'
    BY <2>1, RequireKeeps
       DEF Load!rb_f_require, Load!rb_autoload_load, Load!Calls, Load!Idle
  <2>2. ASSUME NEW t \in Loaders, Load!FileRequires(t) PROVE LoadInv'
    <3> DEFINE top == Head(stack[t])
    <3>1. stack[t] \in Seq(FrameSet) /\ stack[t] # <<>> /\ at[t] = "run"
      BY <2>2 DEF Load!FileRequires, LoadInv, LoadTypes
    <3>2. top \in FrameSet
      BY <3>1
    <3>3. top.file \in Files /\ top.done \in Nat /\ Requires[top.file] \in Seq(Files)
      BY <3>2, LoadAssumption DEF FrameSet
    <3>4. /\ top.done < Len(Requires[top.file]) /\ refers' = refers
          /\ Load!Require(t, Requires[top.file][top.done + 1])
      BY <2>2 DEF Load!FileRequires
    <3>5. Requires[top.file][top.done + 1] \in Files
      BY <3>3, <3>4
    <3>6. QED
      BY <3>1, <3>4, <3>5, RequireKeeps
  <2>3. ASSUME NEW t \in Loaders, Load!rb_load(t) PROVE LoadInv'
    <3>1. /\ stack[t] # <<>> /\ at[t] = "run" /\ stack' = [stack EXCEPT ![t] = Tail(@)]
          /\ loading' = [loading EXCEPT ![Head(stack[t]).file] = None]
          /\ finished' = finished \cup {Head(stack[t]).file}
          /\ relies' = [relies EXCEPT ![t] = @ \cup {Head(stack[t]).file}]
          /\ UNCHANGED <<provided, failed, executed, at, want, refers, missed>>
      BY <2>3 DEF Load!rb_load
    <3>2. Head(stack[t]).file \in Files
      BY <3>1, Popped DEF LoadInv, LoadTypes, OnStack
    <3>3. /\ relies' \in [Loaders -> SUBSET Files]
          /\ relies'[t] = relies[t] \cup {Head(stack[t]).file}
          /\ \A u \in Loaders : u # t => relies'[u] = relies[u]
      BY <3>1, <3>2 DEF LoadInv, LoadTypes
    <3>4. finished' \cup failed' = finished \cup failed \cup {Head(stack[t]).file}
          /\ finished \subseteq finished' /\ failed \subseteq failed'
      BY <3>1
    <3>5. QED
      BY <3>1, <3>3, <3>4, EndOfFile
  <2>4. ASSUME NEW t \in Loaders, Load!Unwind(t), stack[t] # <<>> PROVE LoadInv'
    <3>1. /\ at[t] = "raise" /\ stack' = [stack EXCEPT ![t] = Tail(@)]
          /\ loading' = [loading EXCEPT ![Head(stack[t]).file] = None]
          /\ failed' = failed \cup {Head(stack[t]).file}
          /\ UNCHANGED <<provided, finished, executed, at, want, refers, relies, missed>>
      BY <2>4 DEF Load!Unwind, Load!Unload
    <3>2. relies' \in [Loaders -> SUBSET Files]
      BY <3>1 DEF LoadInv, LoadTypes
    <3>3. finished' \cup failed' = finished \cup failed \cup {Head(stack[t]).file}
          /\ finished \subseteq finished' /\ failed \subseteq failed'
      BY <3>1
    <3>4. QED
      BY <2>4, <3>1, <3>2, <3>3, EndOfFile
  <2>5. ASSUME NEW t \in Loaders, Load!Unwind(t), stack[t] = <<>> PROVE LoadInv'
    BY <2>5, ThreadSteps DEF Load!Unwind
  <2>6. CASE UNCHANGED Load!vars
    BY <2>6 DEF Load!vars, Load!loadVars, Load!threadVars, LoadInv, LoadTypes, BegunOnce,
      OnStack, NobodyLoads, Over, WaitsForBegun, AutoloadUnderWay, RequireReturnsLoaded,
      AutoloadDefines, Executing
  <2>7. QED
    BY <2>1, <2>2, <2>3, <2>4, <2>5, <2>6, ThreadSteps DEF Load!Next, Load!Progress
<1>3. LoadInv => RequireSound
  BY DEF LoadInv, RequireSound, LoadedOnce, BegunOnce
<1>4. QED
  BY <1>1, <1>2, <1>3, PTL DEF Load!Spec

-----------------------------------------------------------------------------
(* Signals.  A signal with an index that a loop of rb_trap_exec has passed *)
(* is pending only if it came after that, and then it is in behind; this   *)
(* holds for the loops on both stacks.                                     *)

TrapThreads == {Main, Other}
TrapFrames == [kind : {"block", "handler", "exec", "trap"}, n : Nat, mask : SUBSET Sigs]

SignalTypes ==
  /\ pending_list \in [Sigs -> Nat] /\ trap_pending \in Nat
  /\ immediate \in {0, 1}
  /\ mask \subseteq Sigs /\ last_mask \subseteq Sigs
  /\ curr \in TrapThreads
  /\ sig_stack \in [TrapThreads -> Seq(TrapFrames)]
  /\ saved \in [TrapThreads -> {0, 1}]
  /\ crossed \in BOOLEAN

\* What a frame may have behind it, when list is trap_pending_list and late are
\* the signals noted too late.
FrameOK(f, list, late) ==
  /\ f.kind = "exec" => /\ f.n \in 1..NSIG
                        /\ \A s \in Sigs : s < f.n /\ list[s] > 0 => s \in late
  /\ f.kind = "block" => f.n \in {0, 1}

LoopsPassed == \A t \in TrapThreads : \A i \in 1..Len(sig_stack[t]) :
                 FrameOK(sig_stack[t][i], pending_list, behind)

\* rb_trap_immediate of a thread, in the register or in the saved context.
Immediate(t) == IF t = curr THEN immediate ELSE saved[t]

\* Where a stack comes from: a handler interrupts a system call, which was begun
\* outside of any other.
Nested(s) ==
  \A i \in 1..Len(s) :
    /\ s[i].kind = "block" => s[i].n = 0
    /\ s[i].kind = "handler" => i + 1 \in 1..Len(s) /\ s[i + 1].kind = "block"

CallsNested == crossed \/ \A t \in TrapThreads :
                            /\ Immediate(t) = 1 => Top(t) = "block"
                            /\ Nested(sig_stack[t])

SignalInv == SignalTypes /\ LoopsPassed /\ NotedSignalSeen /\ CallsNested

KindOf(s) == IF s = <<>> THEN "ruby" ELSE Head(s).kind

\* Frames of a stack that was made from another by pushing a frame.
LEMMA FramePushed ==
  ASSUME NEW s \in Seq(TrapFrames), NEW f \in TrapFrames
  PROVE  /\ <<f>> \o s \in Seq(TrapFrames) /\ KindOf(<<f>> \o s) = f.kind
         /\ \A i \in 1..Len(<<f>> \o s) :
              (<<f>> \o s)[i] = f \/ \E j \in 1..Len(s) : (<<f>> \o s)[i] = s[j]
         /\ \/ f.kind \in {"exec", "trap"}
            \/ f.kind = "block" /\ f.n = 0
            \/ f.kind = "handler" /\ KindOf(s) = "block"
            => (Nested(s) => Nested(<<f>> \o s))
<1> DEFINE q == <<f>> \o s
<1>1. /\ q \in Seq(TrapFrames) /\ Len(q) = Len(s) + 1 /\ q[1] = f /\ Len(s) \in Nat
      /\ \A i \in 1..Len(s) : q[i + 1] = s[i]
      /\ \A i \in 1..(Len(s) + 1) : i = 1 \/ (i - 1 \in 1..Len(s) /\ q[i] = s[i - 1])
  BY Prepended
<1>2. KindOf(q) = f.kind
  BY <1>1 DEF KindOf
<1> HIDE DEF q
<1>3. \A i \in 1..Len(q) : q[i] = f \/ \E j \in 1..Len(s) : q[i] = s[j]
  BY <1>1
<1>4. ASSUME \/ f.kind \in {"exec", "trap"}
             \/ f.kind = "block" /\ f.n = 0
             \/ f.kind = "handler" /\ KindOf(s) = "block",
             Nested(s)
      PROVE  Nested(q)
  <2>1. SUFFICES ASSUME NEW i \in 1..Len(q)
                 PROVE  /\ q[i].kind = "block" => q[i].n = 0
                        /\ q[i].kind = "handler" => i + 1 \in 1..Len(q) /\ q[i + 1].kind = "block"
    BY DEF Nested
  <2>2. CASE i = 1
    <3>1. KindOf(s) = "block" => 1 \in 1..Len(s) /\ s[1].kind = "block"
      BY DEF KindOf
    <3>2. CASE f.kind = "handler" /\ KindOf(s) = "block"
      <4>1. 2 \in 1..Len(q) /\ q[2] = s[1] /\ s[1].kind = "block"
        BY <3>1, <3>2, <1>1
      <4>2. QED
        BY <2>2, <3>2, <4>1, <1>1
    <3>3. QED
      BY <3>2, <2>2, <1>1, <1>4
  <2>3. CASE i # 1
    <3>1. i - 1 \in 1..Len(s) /\ q[i] = s[i - 1]
      BY <2>1, <2>3, <1>1
    <3>2. s[i - 1].kind = "handler" => i \in 1..Len(s) /\ s[i].kind = "block" /\ q[i + 1] = s[i]
      <4>1. (i - 1) + 1 = i
        BY <2>1, <1>1
      <4>2. QED
        BY <3>1, <4>1, <1>1, <1>4 DEF Nested
    <3>3. s[i - 1].kind = "block" => s[i - 1].n = 0
      BY <3>1, <1>4 DEF Nested
    <3>4. QED
      BY <3>1, <3>2, <3>3, <1>1
  <2>4. QED
    BY <2>2, <2>3
<1>5. QED
  BY <1>1, <1>2, <1>3, <1>4 DEF q

\* What is left of a stack when frames are dropped.
LEMMA FramesDropped ==
  ASSUME NEW s \in Seq(TrapFrames), NEW n \in 0..Len(s)
  PROVE  LET q == SubSeq(s, n + 1, Len(s))
         IN /\ q \in Seq(TrapFrames)
            /\ \A i \in 1..Len(q) : \E j \in 1..Len(s) : q[i] = s[j]
            /\ Nested(s) => Nested(q)
<1> DEFINE q == SubSeq(s, n + 1, Len(s))
<1>1. Len(s) \in Nat /\ n \in Nat /\ n <= Len(s)
  OBVIOUS
<1>2. /\ q \in Seq(TrapFrames) /\ Len(q) = Len(s) - n
      /\ \A i \in 1..(Len(s) - n) : q[i] = s[i + n] /\ i + n \in 1..Len(s)
  BY <1>1
<1> HIDE DEF q
<1>3. \A i \in 1..Len(q) : \E j \in 1..Len(s) : q[i] = s[j]
  BY <1>2
<1>4. ASSUME Nested(s) PROVE Nested(q)
  <2>1. SUFFICES ASSUME NEW i \in 1..Len(q)
                 PROVE  /\ q[i].kind = "block" => q[i].n = 0
                        /\ q[i].kind = "handler" => i + 1 \in 1..Len(q) /\ q[i + 1].kind = "block"
    BY DEF Nested
  <2>2. q[i] = s[i + n] /\ i + n \in 1..Len(s) /\ i \in Nat
    BY <2>1, <1>2, <1>1
  <2>3. q[i].kind = "block" => q[i].n = 0
    BY <2>2, <1>4 DEF Nested
  <2>4. ASSUME q[i].kind = "handler" PROVE i + 1 \in 1..Len(q) /\ q[i + 1].kind = "block"
    <3>1. (i + n) + 1 \in 1..Len(s) /\ s[(i + n) + 1].kind = "block"
      BY <2>2, <2>4, <1>4 DEF Nested
    <3>2. i + 1 \in 1..(Len(s) - n) /\ (i + 1) + n = (i + n) + 1
      BY <3>1, <2>2, <1>1
    <3>3. QED
      BY <3>1, <3>2, <1>2
  <2>5. QED
    BY <2>3, <2>4
<1>5. QED
  BY <1>2, <1>3, <1>4 DEF q

\* One frame is dropped; below a handler there is a system call.
LEMMA FramePopped ==
  ASSUME NEW s \in Seq(TrapFrames), s # <<>>
  PROVE  /\ Tail(s) \in Seq(TrapFrames) /\ Head(s) \in TrapFrames
         /\ Head(s) = s[1] /\ 1 \in 1..Len(s)
         /\ \A i \in 1..Len(Tail(s)) : \E j \in 1..Len(s) : Tail(s)[i] = s[j]
         /\ Nested(s) => /\ Nested(Tail(s))
                         /\ Head(s).kind = "block" => Head(s).n = 0
                         /\ Head(s).kind = "handler" => KindOf(Tail(s)) = "block"
<1>1. /\ Tail(s) \in Seq(TrapFrames) /\ Head(s) = s[1] /\ 1 \in 1..Len(s) /\ s[1] \in TrapFrames
      /\ Len(s) \in Nat /\ Len(Tail(s)) = Len(s) - 1
      /\ \A i \in 1..(Len(s) - 1) : Tail(s)[i] = s[i + 1]
      /\ Tail(s) = SubSeq(s, 1 + 1, Len(s))
  OBVIOUS
<1>2. /\ \A i \in 1..Len(Tail(s)) : \E j \in 1..Len(s) : Tail(s)[i] = s[j]
      /\ Nested(s) => Nested(Tail(s))
  <2>1. 1 \in 0..Len(s)
    BY <1>1
  <2>2. LET q == SubSeq(s, 1 + 1, Len(s))
        IN /\ \A i \in 1..Len(q) : \E j \in 1..Len(s) : q[i] = s[j]
           /\ Nested(s) => Nested(q)
    BY <2>1, FramesDropped
  <2>3. QED
    BY <2>2, <1>1
<1>3. ASSUME Nested(s)
      PROVE  /\ Head(s).kind = "block" => Head(s).n = 0
             /\ Head(s).kind = "handler" => KindOf(Tail(s)) = "block"
  <2>1. s[1].kind = "handler" => 1 + 1 \in 1..Len(s) /\ s[1 + 1].kind = "block"
    BY <1>1, <1>3 DEF Nested
  <2>2. ASSUME s[1].kind = "handler" PROVE KindOf(Tail(s)) = "block"
    <3>1. Len(Tail(s)) >= 1 /\ Tail(s)[1].kind = "block"
      BY <2>1, <2>2, <1>1
    <3>2. Tail(s) # <<>> /\ Head(Tail(s)) = Tail(s)[1]
      BY <3>1, <1>1
    <3>3. QED
      BY <3>1, <3>2 DEF KindOf
  <2>3. QED
    BY <2>2, <1>1, <1>3 DEF Nested
<1>4. QED
  BY <1>1, <1>2, <1>3

LEMMA TopIsKind == \A t : Top(t) = KindOf(sig_stack[t]) /\ Top(t)' = KindOf(sig_stack'[t])
BY DEF Top, KindOf

\* The loops that were passed stay passed, if no frame appears but those that
\* were there and new ones that are in order.
LEMMA FramesKept ==
  ASSUME SignalTypes, LoopsPassed, sig_stack' \in [TrapThreads -> Seq(TrapFrames)],
         \A f \in TrapFrames : FrameOK(f, pending_list, behind) =>
                               FrameOK(f, pending_list', behind'),
         \A t \in TrapThreads : \A i \in 1..Len(sig_stack'[t]) :
           \/ FrameOK(sig_stack'[t][i], pending_list', behind')
           \/ \E u \in TrapThreads : \E j \in 1..Len(sig_stack[u]) :
                sig_stack'[t][i] = sig_stack[u][j]
  PROVE  LoopsPassed'
<1>1. \A u \in TrapThreads : \A j \in 1..Len(sig_stack[u]) :
        sig_stack[u][j] \in TrapFrames /\ FrameOK(sig_stack[u][j], pending_list, behind)
  BY DEF SignalTypes, LoopsPassed
<1>2. SUFFICES ASSUME NEW t \in TrapThreads, NEW i \in 1..Len(sig_stack'[t])
               PROVE  FrameOK(sig_stack'[t][i], pending_list', behind')
  BY DEF LoopsPassed
<1>3. ASSUME NEW u \in TrapThreads, NEW j \in 1..Len(sig_stack[u]),
             sig_stack'[t][i] = sig_stack[u][j]
      PROVE  FrameOK(sig_stack'[t][i], pending_list', behind')
  BY <1>1, <1>3
<1>4. QED
  BY <1>2, <1>3

\* What an exception leaves of a stack.
LEMMA UnwoundStack ==
  ASSUME NEW s \in Seq(TrapFrames), NEW imm \in {0, 1}, NEW u \in Sig!Unwound(s, imm)
  PROVE  /\ u.stack \in Seq(TrapFrames) /\ u.imm \in {0, imm}
         /\ \A i \in 1..Len(u.stack) : \E j \in 1..Len(s) : u.stack[i] = s[j]
         /\ Nested(s) => Nested(u.stack)
<1>1. PICK n \in 0..Len(s) :
        u = [stack |-> SubSeq(s, n + 1, Len(s)),
             imm |-> IF \E i \in 1..n : s[i].kind = "trap" THEN 0 ELSE imm]
  BY DEF Sig!Unwound
<1> DEFINE q == SubSeq(s, n + 1, Len(s))
<1>2. u.stack = q /\ u.imm \in {0, imm}
  BY <1>1
<1>3. /\ q \in Seq(TrapFrames)
      /\ \A i \in 1..Len(q) : \E j \in 1..Len(s) : q[i] = s[j]
      /\ Nested(s) => Nested(q)
  BY FramesDropped
<1> HIDE DEF q
<1>4. QED
  BY <1>2, <1>3

\* What signal_exec leaves, called with the stacks stk and rb_trap_immediate imm:
\* frames of stk and commands, and system calls nested as before if
\* rb_trap_immediate has been cleared or was off.
SignalExecuted(stk, imm) ==
  /\ immediate' \in {0, 1} /\ mask' \subseteq Sigs /\ curr' \in TrapThreads
  /\ sig_stack' \in [TrapThreads -> Seq(TrapFrames)]
  /\ saved' \in [TrapThreads -> {0, 1}] /\ crossed' \in BOOLEAN
  /\ \A t \in TrapThreads : \A i \in 1..Len(sig_stack'[t]) :
       \/ sig_stack'[t][i].kind = "trap"
       \/ \E j \in 1..Len(stk[t]) : sig_stack'[t][i] = stk[t][j]
  /\ crossed => crossed'
  /\ /\ imm = 0
     /\ \A t \in TrapThreads : t # curr /\ saved[t] = 1 => KindOf(stk[t]) = "block"
     /\ \A t \in TrapThreads : Nested(stk[t])
     => CallsNested'

LEMMA SignalExecutes ==
  ASSUME SignalTypes, NEW s \in Sigs, NEW stk \in [TrapThreads -> Seq(TrapFrames)],
         NEW imm \in {0, 1}, NEW m \in SUBSET Sigs,
         Sig!signal_exec(s, stk, imm, m), UNCHANGED last_mask
  PROVE  SignalExecuted(stk, imm)
<1>1. Main \in TrapThreads /\ s \in Nat /\ curr \in TrapThreads
  BY SignalAssumption DEF TrapThreads, SignalTypes, Sigs
<1>2. ASSUME Sig!ToMain(imm)
      PROVE  /\ curr' = Main /\ saved' \in [TrapThreads -> {0, 1}] /\ crossed' \in BOOLEAN
             /\ crossed => crossed'
             /\ saved'[curr] = imm /\ \A t \in TrapThreads : t # curr => saved'[t] = saved[t]
             /\ Sig!Resumed(imm) \in {0, 1}
             /\ ~crossed' /\ imm = 0 => Sig!Resumed(imm) = 0
  BY <1>1, <1>2 DEF Sig!ToMain, Sig!Resumed, SignalTypes
<1>3. ASSUME Sig!ToMain(imm), NEW q \in Seq(TrapFrames),
             sig_stack' = [stk EXCEPT ![Main] = q],
             immediate' \in {0, Sig!Resumed(imm)}, mask' \subseteq Sigs,
             \A i \in 1..Len(q) : q[i].kind = "trap" \/ \E j \in 1..Len(stk[Main]) : q[i] = stk[Main][j],
             Nested(stk[Main]) => Nested(q)
      PROVE  SignalExecuted(stk, imm)
  <2>1. /\ sig_stack' \in [TrapThreads -> Seq(TrapFrames)] /\ sig_stack'[Main] = q
        /\ \A t \in TrapThreads : t # Main => sig_stack'[t] = stk[t]
    BY <1>3, <1>1
  <2>2. ASSUME NEW t \in TrapThreads, NEW i \in 1..Len(sig_stack'[t])
        PROVE  \/ sig_stack'[t][i].kind = "trap"
               \/ \E j \in 1..Len(stk[t]) : sig_stack'[t][i] = stk[t][j]
    <3>1. CASE t = Main
      BY <3>1, <2>1, <2>2, <1>3
    <3>2. CASE t # Main
      BY <3>2, <2>1, <2>2
    <3>3. QED
      BY <3>1, <3>2
  <2>3. ASSUME imm = 0,
               \A t \in TrapThreads : t # curr /\ saved[t] = 1 => KindOf(stk[t]) = "block",
               \A t \in TrapThreads : Nested(stk[t])
        PROVE  CallsNested'
    <3>1. SUFFICES ASSUME ~crossed', NEW t \in TrapThreads
                   PROVE  /\ (IF t = curr' THEN immediate' ELSE saved'[t]) = 1
                               => KindOf(sig_stack'[t]) = "block"
                          /\ Nested(sig_stack'[t])
      BY TopIsKind DEF CallsNested, Immediate
    <3>2. Nested(sig_stack'[t])
      BY <2>1, <2>3, <1>3, <1>1
    <3>3. immediate' = 0
      BY <3>1, <2>3, <1>2, <1>3
    <3>4. CASE t = Main
      BY <3>2, <3>3, <3>4, <1>2, <1>3
    <3>5. CASE t # Main
      <4>1. curr' = Main /\ sig_stack'[t] = stk[t]
            /\ saved'[t] = (IF t = curr THEN 0 ELSE saved[t])
        BY <3>5, <2>1, <2>3, <1>2, <1>3
      <4>2. QED
        BY <3>2, <3>5, <4>1, <2>3
    <3>6. QED
      BY <3>4, <3>5
  <2>4. QED
    BY <1>1, <1>2, <1>3, <2>1, <2>2, <2>3 DEF SignalExecuted
<1>4. CASE /\ s \in trap_list /\ Sig!ToMain(imm) /\ immediate' = Sig!Resumed(imm)
           /\ sig_stack' = [stk EXCEPT ![Main] = <<Sig!Frame("trap", s, {})>> \o @]
           /\ mask' = m
  <2> DEFINE f == Sig!Frame("trap", s, {})
             q == <<f>> \o stk[Main]
  <2>1. f \in TrapFrames /\ f.kind = "trap" /\ stk[Main] \in Seq(TrapFrames)
    BY <1>1 DEF Sig!Frame, TrapFrames
  <2>2. sig_stack' = [stk EXCEPT ![Main] = q]
    BY <1>4
  <2> HIDE DEF f
  <2>3. /\ q \in Seq(TrapFrames) /\ (Nested(stk[Main]) => Nested(q))
        /\ \A i \in 1..Len(q) : q[i] = f \/ \E j \in 1..Len(stk[Main]) : q[i] = stk[Main][j]
    BY <2>1, FramePushed
  <2> HIDE DEF q
  <2>4. \A i \in 1..Len(q) : q[i].kind = "trap" \/ \E j \in 1..Len(stk[Main]) : q[i] = stk[Main][j]
    BY <2>1, <2>3
  <2>5. QED
    BY <1>4, <2>2, <2>3, <2>4, <1>3
<1>5. ASSUME NEW u \in Sig!Unwound(stk[Main], Sig!Resumed(imm)), Sig!ToMain(imm),
             sig_stack' = [stk EXCEPT ![Main] = u.stack], immediate' = u.imm,
             mask' = last_mask
      PROVE  SignalExecuted(stk, imm)
  <2>1. stk[Main] \in Seq(TrapFrames) /\ Sig!Resumed(imm) \in {0, 1}
    BY <1>1, <1>2, <1>5
  <2>2. /\ u.stack \in Seq(TrapFrames) /\ u.imm \in {0, Sig!Resumed(imm)}
        /\ \A i \in 1..Len(u.stack) : \E j \in 1..Len(stk[Main]) : u.stack[i] = stk[Main][j]
        /\ Nested(stk[Main]) => Nested(u.stack)
    BY <2>1, <1>5, UnwoundStack
  <2>3. mask' \subseteq Sigs
    BY <1>5 DEF SignalTypes
  <2>4. QED
    BY <1>5, <2>2, <2>3, <1>3
<1>6. CASE /\ immediate' = imm /\ sig_stack' = stk /\ mask' = m
           /\ UNCHANGED <<curr, saved, crossed>>
  <2>1. ASSUME imm = 0,
               \A t \in TrapThreads : t # curr /\ saved[t] = 1 => KindOf(stk[t]) = "block",
               \A t \in TrapThreads : Nested(stk[t])
        PROVE  CallsNested'
    BY <1>6, <2>1, TopIsKind DEF CallsNested, Immediate
  <2>2. QED
    BY <1>6, <2>1 DEF SignalTypes, SignalExecuted
<1>7. QED
  BY <1>4, <1>5, <1>6 DEF Sig!signal_exec, Sig!rb_trap_restore_mask

\* A step of the current thread that leaves the lists and the other thread alone.
LEMMA CurrentSteps ==
  ASSUME SignalInv, NEW q \in Seq(TrapFrames), sig_stack' = [sig_stack EXCEPT ![curr] = q],
         immediate' \in {0, 1}, mask' \subseteq Sigs,
         UNCHANGED <<pending_list, trap_pending, behind, curr, saved, crossed, last_mask>>,
         \A i \in 1..Len(q) : \/ FrameOK(q[i], pending_list, behind)
                              \/ \E j \in 1..Len(sig_stack[curr]) : q[i] = sig_stack[curr][j],
         ~crossed => Nested(q) /\ (immediate' = 1 => KindOf(q) = "block")
  PROVE  SignalInv'
<1>1. SignalTypes /\ curr \in TrapThreads
  BY DEF SignalInv, SignalTypes
<1>2. /\ sig_stack' \in [TrapThreads -> Seq(TrapFrames)] /\ sig_stack'[curr] = q
      /\ \A t \in TrapThreads : t # curr => sig_stack'[t] = sig_stack[t]
  BY <1>1 DEF SignalTypes
<1>3. SignalTypes'
  BY <1>1, <1>2 DEF SignalTypes
<1>4. LoopsPassed'
  <2>1. ASSUME NEW t \in TrapThreads, NEW i \in 1..Len(sig_stack'[t])
        PROVE  \/ FrameOK(sig_stack'[t][i], pending_list', behind')
               \/ \E u \in TrapThreads : \E j \in 1..Len(sig_stack[u]) :
                    sig_stack'[t][i] = sig_stack[u][j]
    <3>1. CASE t = curr
      BY <3>1, <2>1, <1>1, <1>2
    <3>2. CASE t # curr
      BY <3>2, <2>1, <1>2
    <3>3. QED
      BY <3>1, <3>2
  <2>2. QED
    BY <2>1, <1>1, <1>2, FramesKept DEF SignalInv
<1>5. NotedSignalSeen'
  BY DEF SignalInv, NotedSignalSeen
<1>6. CallsNested'
  <2>1. SUFFICES ASSUME ~crossed, NEW t \in TrapThreads
                 PROVE  /\ (IF t = curr THEN immediate' ELSE saved[t]) = 1
                             => KindOf(sig_stack'[t]) = "block"
                        /\ Nested(sig_stack'[t])
    BY TopIsKind DEF CallsNested, Immediate
  <2>2. CASE t = curr
    BY <2>1, <2>2, <1>2
  <2>3. CASE t # curr
    BY <2>1, <2>3, <1>2, TopIsKind DEF SignalInv, CallsNested, Immediate
  <2>4. QED
    BY <2>2, <2>3
<1>7. QED
  BY <1>3, <1>4, <1>5, <1>6 DEF SignalInv

\* Outside of system calls rb_trap_immediate is off.
LEMMA OffInRuby ==
  ASSUME SignalInv, ~crossed
  PROVE  /\ Nested(sig_stack[curr])
         /\ KindOf(sig_stack[curr]) # "block" => immediate = 0
         /\ \A t \in TrapThreads : /\ Nested(sig_stack[t])
                                   /\ t # curr /\ saved[t] = 1 => KindOf(sig_stack[t]) = "block"
<1>1. \A t \in TrapThreads : /\ Nested(sig_stack[t])
                             /\ Immediate(t) = 1 => KindOf(sig_stack[t]) = "block"
  BY TopIsKind DEF SignalInv, CallsNested
<1>2. curr \in TrapThreads /\ immediate \in {0, 1}
  BY DEF SignalInv, SignalTypes
<1>3. QED
  BY <1>1, <1>2 DEF Immediate

LEMMA SystemCalls ==
  ASSUME SignalInv, Sig!TRAP_BEG \/ Sig!TRAP_END \/ Sig!HandlerReturns \/ Sig!CHECK_INTS
                    \/ Sig!rb_trap_eval \/ Sig!rb_longjmp
  PROVE  SignalInv'
<1> DEFINE s == sig_stack[curr]
<1>1. /\ s \in Seq(TrapFrames) /\ curr \in TrapThreads /\ immediate \in {0, 1}
      /\ mask \subseteq Sigs /\ last_mask \subseteq Sigs
      /\ sig_stack \in [TrapThreads -> Seq(TrapFrames)]
  BY DEF SignalInv, SignalTypes
<1>2. Sig!Top(curr) = KindOf(s)
  BY DEF Sig!Top, KindOf
<1>3. ~crossed => Nested(s) /\ (KindOf(s) # "block" => immediate = 0)
  BY OffInRuby
<1>4. ASSUME s # <<>>
      PROVE  /\ Tail(s) \in Seq(TrapFrames) /\ Head(s) \in TrapFrames
             /\ KindOf(s) = Head(s).kind
             /\ \A i \in 1..Len(Tail(s)) : \E j \in 1..Len(s) : Tail(s)[i] = s[j]
             /\ Nested(s) => /\ Nested(Tail(s))
                             /\ Head(s).kind = "block" => Head(s).n = 0
                             /\ Head(s).kind = "handler" => KindOf(Tail(s)) = "block"
  BY <1>1, <1>4, FramePopped DEF KindOf
<1>5. CASE Sig!TRAP_BEG
  <2> DEFINE f == Sig!Frame("block", immediate, {})
             q == <<f>> \o s
  <2>1. /\ sig_stack' = [sig_stack EXCEPT ![curr] = q] /\ immediate' = 1 /\ mask' = mask
        /\ KindOf(s) \in {"ruby", "trap"}
        /\ UNCHANGED <<pending_list, trap_pending, behind, curr, saved, crossed, last_mask>>
    BY <1>2, <1>5 DEF Sig!TRAP_BEG, Sig!Push, Sig!InRuby, Sig!listVars, Sig!osVars
  <2>2. f \in TrapFrames /\ f.kind = "block" /\ f.n = immediate
    BY <1>1 DEF Sig!Frame, TrapFrames
  <2> HIDE DEF f
  <2>3. /\ q \in Seq(TrapFrames) /\ KindOf(q) = "block"
        /\ f.n = 0 /\ Nested(s) => Nested(q)
        /\ \A i \in 1..Len(q) : q[i] = f \/ \E j \in 1..Len(s) : q[i] = s[j]
    BY <1>1, <2>2, FramePushed
  <2>4. FrameOK(f, pending_list, behind)
    BY <1>1, <2>2 DEF FrameOK
  <2> HIDE DEF q
  <2>5. QED
    BY <1>1, <1>3, <2>1, <2>2, <2>3, <2>4, CurrentSteps
<1>6. CASE Sig!TRAP_END
  <2>1. /\ KindOf(s) = "block" /\ sig_stack' = [sig_stack EXCEPT ![curr] = Tail(s)]
        /\ immediate' = Head(s).n /\ mask' = mask
        /\ UNCHANGED <<pending_list, trap_pending, behind, curr, saved, crossed, last_mask>>
    BY <1>2, <1>6 DEF Sig!TRAP_END, Sig!Pop, Sig!listVars, Sig!osVars
  <2>2. s # <<>> /\ Head(s).kind = "block"
    BY <2>1 DEF KindOf
  <2>3. Head(s).n \in {0, 1}
    <3>1. Head(s) = s[1] /\ 1 \in 1..Len(s)
      BY <1>1, <2>2
    <3>2. FrameOK(s[1], pending_list, behind)
      BY <3>1, <1>1 DEF SignalInv, LoopsPassed
    <3>3. QED
      BY <3>1, <3>2, <2>2 DEF FrameOK
  <2>4. immediate' \in {0, 1} /\ mask' \subseteq Sigs /\ Tail(s) \in Seq(TrapFrames)
    BY <1>1, <1>3, <1>4, <2>1, <2>2, <2>3
  <2>5. ~crossed => Nested(Tail(s)) /\ (immediate' = 1 => KindOf(Tail(s)) = "block")
    BY <1>1, <1>3, <1>4, <2>1, <2>2, <2>3
  <2>6. \A i \in 1..Len(Tail(s)) : \/ FrameOK(Tail(s)[i], pending_list, behind)
                               \/ \E j \in 1..Len(sig_stack[curr]) : Tail(s)[i] = sig_stack[curr][j]
    BY <1>1, <1>3, <1>4, <2>1, <2>2, <2>3
  <2>7. QED
    BY <2>1, <2>2, <2>4, <2>5, <2>6, CurrentSteps
<1>7. CASE Sig!HandlerReturns
  <2>1. /\ KindOf(s) = "handler" /\ sig_stack' = [sig_stack EXCEPT ![curr] = Tail(s)]
        /\ immediate' = 1 /\ mask' = Head(s).mask
        /\ UNCHANGED <<pending_list, trap_pending, behind, curr, saved, crossed, last_mask>>
    BY <1>2, <1>7 DEF Sig!HandlerReturns, Sig!Pop, Sig!listVars
  <2>2. s # <<>> /\ Head(s).kind = "handler"
    BY <2>1 DEF KindOf
  <2>3. mask' \subseteq Sigs
    BY <1>4, <2>1, <2>2 DEF TrapFrames
  <2>4. QED
    BY <1>1, <1>3, <1>4, <2>1, <2>2, <2>3, CurrentSteps
<1>8. CASE Sig!CHECK_INTS
  <2> DEFINE f == Sig!Frame("exec", 1, {})
             q == <<f>> \o s
  <2>1. /\ sig_stack' = [sig_stack EXCEPT ![curr] = q] /\ UNCHANGED <<immediate, mask>>
        /\ KindOf(s) \in {"ruby", "trap"}
        /\ UNCHANGED <<pending_list, trap_pending, behind, curr, saved, crossed, last_mask>>
    BY <1>2, <1>8 DEF Sig!CHECK_INTS, Sig!Push, Sig!InRuby, Sig!listVars, Sig!osVars
  <2>2. f \in TrapFrames /\ f.kind = "exec" /\ f.n = 1
    BY DEF Sig!Frame, TrapFrames
  <2> HIDE DEF f
  <2>3. /\ q \in Seq(TrapFrames) /\ (Nested(s) => Nested(q))
        /\ \A i \in 1..Len(q) : q[i] = f \/ \E j \in 1..Len(s) : q[i] = s[j]
    BY <1>1, <2>2, FramePushed
  <2>4. FrameOK(f, pending_list, behind)
    <3>1. 1 \in 1..NSIG /\ \A x \in Sigs : ~(x < 1)
      BY SignalAssumption DEF Sigs
    <3>2. QED
      BY <2>2, <3>1 DEF FrameOK
  <2> HIDE DEF q
  <2>5. immediate' \in {0, 1} /\ mask' \subseteq Sigs /\ q \in Seq(TrapFrames)
    BY <1>1, <1>3, <2>1, <2>2, <2>3, <2>4
  <2>6. ~crossed => Nested(q) /\ (immediate' = 1 => KindOf(q) = "block")
    BY <1>1, <1>3, <2>1, <2>2, <2>3, <2>4
  <2>7. \A i \in 1..Len(q) : \/ FrameOK(q[i], pending_list, behind)
                               \/ \E j \in 1..Len(sig_stack[curr]) : q[i] = sig_stack[curr][j]
    BY <1>1, <1>3, <2>1, <2>2, <2>3, <2>4
  <2>8. QED
    BY <2>1, <2>2, <2>5, <2>6, <2>7, CurrentSteps
<1>9. CASE Sig!rb_trap_eval
  <2>1. /\ KindOf(s) = "trap" /\ sig_stack' = [sig_stack EXCEPT ![curr] = Tail(s)]
        /\ UNCHANGED <<immediate, mask>>
        /\ UNCHANGED <<pending_list, trap_pending, behind, curr, saved, crossed, last_mask>>
    BY <1>2, <1>9 DEF Sig!rb_trap_eval, Sig!Pop, Sig!listVars, Sig!osVars
  <2>2. s # <<>>
    BY <2>1 DEF KindOf
  <2>3. immediate' \in {0, 1} /\ mask' \subseteq Sigs /\ Tail(s) \in Seq(TrapFrames)
    BY <1>1, <1>3, <1>4, <2>1, <2>2
  <2>4. ~crossed => Nested(Tail(s)) /\ (immediate' = 1 => KindOf(Tail(s)) = "block")
    BY <1>1, <1>3, <1>4, <2>1, <2>2
  <2>5. \A i \in 1..Len(Tail(s)) : \/ FrameOK(Tail(s)[i], pending_list, behind)
                               \/ \E j \in 1..Len(sig_stack[curr]) : Tail(s)[i] = sig_stack[curr][j]
    BY <1>1, <1>3, <1>4, <2>1, <2>2
  <2>6. QED
    BY <2>1, <2>2, <2>3, <2>4, <2>5, CurrentSteps
<1>10. CASE Sig!rb_longjmp
  <2>1. PICK u \in Sig!Unwound(s, immediate) :
          sig_stack' = [sig_stack EXCEPT ![curr] = u.stack] /\ immediate' = u.imm
    BY <1>10 DEF Sig!rb_longjmp
  <2>2. /\ KindOf(s) \in {"ruby", "trap"} /\ mask' = last_mask
        /\ UNCHANGED <<pending_list, trap_pending, behind, curr, saved, crossed, last_mask>>
    BY <1>2, <1>10 DEF Sig!rb_longjmp, Sig!InRuby, Sig!listVars, Sig!rb_trap_restore_mask
  <2>3. /\ u.stack \in Seq(TrapFrames) /\ u.imm \in {0, immediate}
        /\ \A i \in 1..Len(u.stack) : \E j \in 1..Len(s) : u.stack[i] = s[j]
        /\ Nested(s) => Nested(u.stack)
    BY <1>1, UnwoundStack
  <2>4. immediate' \in {0, 1} /\ mask' \subseteq Sigs /\ u.stack \in Seq(TrapFrames)
    BY <1>1, <1>3, <2>1, <2>2, <2>3
  <2>5. ~crossed => Nested(u.stack) /\ (immediate' = 1 => KindOf(u.stack) = "block")
    BY <1>1, <1>3, <2>1, <2>2, <2>3
  <2>6. \A i \in 1..Len(u.stack) : \/ FrameOK(u.stack[i], pending_list, behind)
                               \/ \E j \in 1..Len(sig_stack[curr]) : u.stack[i] = sig_stack[curr][j]
    BY <1>1, <1>3, <2>1, <2>2, <2>3
  <2>7. QED
    BY <2>1, <2>2, <2>4, <2>5, <2>6, CurrentSteps
<1>11. QED
  BY <1>5, <1>6, <1>7, <1>8, <1>9, <1>10

\* The kernel delivers a signal.
LEMMA HandlerKeeps ==
  ASSUME SignalInv, NEW s \in Sigs, Sig!sighandler(s)
  PROVE  SignalInv'
<1> DEFINE st == sig_stack[curr]
<1>1. /\ SignalTypes /\ st \in Seq(TrapFrames) /\ curr \in TrapThreads
      /\ s \in Nat /\ mask \subseteq Sigs /\ UNCHANGED last_mask
  BY SignalAssumption DEF SignalInv, SignalTypes, Sigs, Sig!sighandler
<1>2. CASE /\ immediate = 1
           /\ Sig!signal_exec(s, Sig!Push(curr, Sig!Frame("handler", s, mask)),
                              Sig!ATOMIC_TEST, mask \cup {s})
           /\ UNCHANGED Sig!listVars
  <2> DEFINE f == Sig!Frame("handler", s, mask)
             q == <<f>> \o st
             stk == [sig_stack EXCEPT ![curr] = q]
  <2>1. f \in TrapFrames /\ f.kind = "handler"
    BY <1>1 DEF Sig!Frame, TrapFrames
  <2>2. Sig!signal_exec(s, stk, 0, mask \cup {s})
    BY <1>2 DEF Sig!Push, Sig!ATOMIC_TEST
  <2> HIDE DEF f
  <2>3. /\ q \in Seq(TrapFrames)
        /\ KindOf(st) = "block" /\ Nested(st) => Nested(q)
        /\ \A i \in 1..Len(q) : q[i] = f \/ \E j \in 1..Len(st) : q[i] = st[j]
    BY <1>1, <2>1, FramePushed
  <2> HIDE DEF q
  <2>4. /\ stk \in [TrapThreads -> Seq(TrapFrames)] /\ stk[curr] = q
        /\ \A t \in TrapThreads : t # curr => stk[t] = sig_stack[t]
    BY <1>1, <2>3 DEF SignalTypes
  <2> HIDE DEF stk
  <2>5. SignalExecuted(stk, 0)
    BY <1>1, <2>2, <2>4, SignalExecutes
  <2>6. UNCHANGED <<pending_list, trap_pending, behind>>
    BY <1>2 DEF Sig!listVars
  <2>7. SignalTypes'
    BY <1>1, <2>5, <2>6 DEF SignalTypes, SignalExecuted
  <2>8. LoopsPassed'
    <3>1. ASSUME NEW t \in TrapThreads, NEW i \in 1..Len(sig_stack'[t])
          PROVE  \/ FrameOK(sig_stack'[t][i], pending_list', behind')
                 \/ \E u \in TrapThreads : \E j \in 1..Len(sig_stack[u]) :
                      sig_stack'[t][i] = sig_stack[u][j]
      <4>1. CASE sig_stack'[t][i].kind = "trap"
        BY <4>1 DEF FrameOK
      <4>2. ASSUME NEW j \in 1..Len(stk[t]), sig_stack'[t][i] = stk[t][j]
            PROVE  \/ FrameOK(sig_stack'[t][i], pending_list', behind')
                   \/ \E u \in TrapThreads : \E k \in 1..Len(sig_stack[u]) :
                        sig_stack'[t][i] = sig_stack[u][k]
        <5>1. CASE t # curr
          BY <4>2, <5>1, <2>4
        <5>2. CASE t = curr /\ stk[t][j] = f
          BY <4>2, <5>2, <2>1 DEF FrameOK
        <5>3. CASE t = curr /\ stk[t][j] # f
          BY <4>2, <5>3, <2>3, <2>4, <1>1
        <5>4. QED
          BY <5>1, <5>2, <5>3
      <4>3. QED
        BY <4>1, <4>2, <3>1, <2>5 DEF SignalExecuted
    <3>2. QED
      BY <3>1, <2>6, <2>7, FramesKept DEF SignalInv, SignalTypes
  <2>9. NotedSignalSeen'
    BY <2>6 DEF SignalInv, NotedSignalSeen
  <2>10. CallsNested'
    <3>1. CASE crossed
      BY <3>1, <2>5 DEF SignalExecuted, CallsNested
    <3>2. CASE ~crossed
      <4>1. /\ KindOf(st) = "block" /\ Nested(st)
            /\ \A t \in TrapThreads :
                 /\ Nested(sig_stack[t])
                 /\ t # curr /\ saved[t] = 1 => KindOf(sig_stack[t]) = "block"
        BY <1>2, <3>2, OffInRuby
      <4>2. \A t \in TrapThreads :
              /\ Nested(stk[t])
              /\ t # curr /\ saved[t] = 1 => KindOf(stk[t]) = "block"
        BY <4>1, <2>3, <2>4
      <4>3. QED
        BY <4>2, <2>5 DEF SignalExecuted
    <3>3. QED
      BY <3>1, <3>2
  <2>11. QED
    BY <2>7, <2>8, <2>9, <2>10 DEF SignalInv
<1>3. CASE /\ trap_pending' = Sig!NotePending(s)
           /\ pending_list' = [pending_list EXCEPT ![s] = @ + 1]
           /\ behind' = IF \E f \in Sig!Frames("exec") : f.n > s THEN behind \cup {s} ELSE behind
           /\ UNCHANGED <<immediate, mask, curr, sig_stack, saved, crossed>>
  <2>1. /\ trap_pending' = trap_pending + 1 /\ trap_pending \in Nat
        /\ pending_list' \in [Sigs -> Nat]
        /\ \A x \in Sigs : x # s => pending_list'[x] = pending_list[x]
        /\ behind \subseteq behind'
    BY <1>1, <1>3 DEF SignalTypes, Sig!NotePending
  <2>2. SignalTypes'
    BY <1>1, <1>3, <2>1 DEF SignalTypes
  <2>3. NotedSignalSeen'
    BY <2>1 DEF NotedSignalSeen
  <2>4. LoopsPassed'
    <3>1. SUFFICES ASSUME NEW t \in TrapThreads, NEW i \in 1..Len(sig_stack[t])
                   PROVE  FrameOK(sig_stack[t][i], pending_list', behind')
      BY <1>3 DEF LoopsPassed
    <3>2. FrameOK(sig_stack[t][i], pending_list, behind)
      BY DEF SignalInv, LoopsPassed
    <3>3. sig_stack[t][i].kind = "exec" => sig_stack[t][i] \in Sig!Frames("exec")
      <4>1. sig_stack[t] \in Seq(TrapFrames) /\ i \in DOMAIN sig_stack[t]
        BY <1>1 DEF SignalTypes
      <4>2. QED
        BY <4>1 DEF Sig!Frames, Sig!Threads, TrapThreads
    <3>4. sig_stack[t][i].kind = "exec" /\ s < sig_stack[t][i].n => s \in behind'
      <4>1. SUFFICES ASSUME sig_stack[t][i].kind = "exec", s < sig_stack[t][i].n
                     PROVE  s \in behind'
        OBVIOUS
      <4>2. sig_stack[t][i].n \in Nat /\ sig_stack[t][i].n > s
        BY <4>1, <3>2, <1>1, SignalAssumption DEF FrameOK
      <4>3. \E f \in Sig!Frames("exec") : f.n > s
        BY <4>1, <4>2, <3>3
      <4>4. QED
        BY <4>3, <1>3
    <3>5. QED
      BY <3>2, <3>4, <2>1 DEF FrameOK
  <2>5. CallsNested'
    BY <1>3 DEF SignalInv, CallsNested, Immediate, Top
  <2>6. QED
    BY <2>2, <2>3, <2>4, <2>5 DEF SignalInv
<1>4. QED
  BY <1>2, <1>3 DEF Sig!sighandler

\* A turn of the loop of rb_trap_exec, or its end.
LEMMA LoopKeeps ==
  ASSUME SignalInv, Sig!rb_trap_exec
  PROVE  SignalInv'
<1> DEFINE st == sig_stack[curr]
           i == Head(st).n
           f == Sig!Frame("exec", i + 1, {})
           q == <<f>> \o Tail(st)
           next == [sig_stack EXCEPT ![curr] = q]
<1>1. /\ SignalTypes /\ st \in Seq(TrapFrames) /\ curr \in TrapThreads
      /\ mask \subseteq Sigs /\ immediate \in {0, 1}
      /\ pending_list \in [Sigs -> Nat] /\ UNCHANGED last_mask
  BY DEF SignalInv, SignalTypes, Sig!rb_trap_exec
<1>2. KindOf(st) = "exec" /\ st # <<>> /\ Head(st).kind = "exec"
  BY DEF Sig!rb_trap_exec, Sig!Top, KindOf
<1>3. /\ Tail(st) \in Seq(TrapFrames) /\ Head(st) = st[1] /\ 1 \in 1..Len(st)
      /\ \A k \in 1..Len(Tail(st)) : \E j \in 1..Len(st) : Tail(st)[k] = st[j]
      /\ Nested(st) => Nested(Tail(st))
  BY <1>1, <1>2, FramePopped
<1>4. /\ i \in 1..NSIG
      /\ \A s \in Sigs : s < i /\ pending_list[s] > 0 => s \in behind
  <2>1. FrameOK(st[1], pending_list, behind)
    BY <1>1, <1>3 DEF SignalInv, LoopsPassed
  <2>2. QED
    BY <2>1, <1>2, <1>3 DEF FrameOK
<1>5. f \in TrapFrames /\ f.kind = "exec" /\ f.n = i + 1
  BY <1>4, SignalAssumption DEF Sig!Frame, TrapFrames
<1>6. \/ /\ i \in Sigs /\ pending_list[i] > 0
         /\ pending_list' = [pending_list EXCEPT ![i] = 0]
         /\ behind' = behind \ {i}
         /\ Sig!signal_exec(i, next, immediate, mask)
         /\ UNCHANGED trap_pending
      \/ /\ i \in Sigs /\ pending_list[i] = 0
         /\ sig_stack' = next
         /\ UNCHANGED <<pending_list, trap_pending, behind, immediate, mask, curr, saved,
                        crossed>>
      \/ /\ i \notin Sigs
         /\ trap_pending' = 0
         /\ sig_stack' = [sig_stack EXCEPT ![curr] = Tail(st)]
         /\ UNCHANGED <<pending_list, behind, immediate, mask, curr, saved, crossed>>
  BY DEF Sig!rb_trap_exec, Sig!Pop, Sig!listVars, Sig!Sigs, Sigs
<1> HIDE DEF f
<1>7. /\ q \in Seq(TrapFrames)
      /\ Nested(Tail(st)) => Nested(q)
      /\ \A k \in 1..Len(q) : q[k] = f \/ \E j \in 1..Len(Tail(st)) : q[k] = Tail(st)[j]
  BY <1>3, <1>5, FramePushed
<1> HIDE DEF q
<1>8. \A k \in 1..Len(q) : q[k] = f \/ \E j \in 1..Len(st) : q[k] = st[j]
  BY <1>3, <1>7
<1>9. /\ next \in [TrapThreads -> Seq(TrapFrames)] /\ next[curr] = q
      /\ \A t \in TrapThreads : t # curr => next[t] = sig_stack[t]
  BY <1>1, <1>7 DEF SignalTypes
<1> HIDE DEF next, i
<1>10. ~crossed => immediate = 0 /\ Nested(st)
  BY <1>2, OffInRuby
<1>11. ASSUME i \in Sigs, NEW list, NEW late,
              \A s \in Sigs : s < i + 1 /\ list[s] > 0 => s \in late
       PROVE  FrameOK(f, list, late)
  <2>1. i + 1 \in 1..NSIG
    BY <1>11, SignalAssumption DEF Sigs
  <2>2. QED
    BY <2>1, <1>5, <1>11 DEF FrameOK
<1>12. \A s \in Sigs : i \in Sigs /\ s < i + 1 => s < i \/ s = i
  BY SignalAssumption DEF Sigs
<1>13. CASE /\ i \in Sigs /\ pending_list[i] > 0
            /\ pending_list' = [pending_list EXCEPT ![i] = 0]
            /\ behind' = behind \ {i}
            /\ Sig!signal_exec(i, next, immediate, mask)
            /\ UNCHANGED trap_pending
  <2>1. SignalExecuted(next, immediate)
    BY <1>1, <1>9, <1>13, SignalExecutes
  <2>2. /\ pending_list' \in [Sigs -> Nat] /\ pending_list'[i] = 0
        /\ \A s \in Sigs : s # i => pending_list'[s] = pending_list[s]
    BY <1>1, <1>13
  <2>3. SignalTypes'
    BY <1>1, <1>13, <2>1, <2>2 DEF SignalTypes, SignalExecuted
  <2>4. \A s \in Sigs : pending_list'[s] > 0 => s # i /\ pending_list[s] > 0
    BY <2>2
  <2>5. \A g \in TrapFrames : FrameOK(g, pending_list, behind) =>
                              FrameOK(g, pending_list', behind')
    BY <2>4, <1>13 DEF FrameOK
  <2>6. FrameOK(f, pending_list', behind')
    <3>1. \A s \in Sigs : s < i + 1 /\ pending_list'[s] > 0 => s \in behind'
      BY <2>4, <1>4, <1>12, <1>13
    <3>2. QED
      BY <3>1, <1>11, <1>13
  <2>7. LoopsPassed'
    <3>1. ASSUME NEW t \in TrapThreads, NEW k \in 1..Len(sig_stack'[t])
          PROVE  \/ FrameOK(sig_stack'[t][k], pending_list', behind')
                 \/ \E u \in TrapThreads : \E j \in 1..Len(sig_stack[u]) :
                      sig_stack'[t][k] = sig_stack[u][j]
      <4>1. CASE sig_stack'[t][k].kind = "trap"
        BY <4>1 DEF FrameOK
      <4>2. ASSUME NEW j \in 1..Len(next[t]), sig_stack'[t][k] = next[t][j]
            PROVE  \/ FrameOK(sig_stack'[t][k], pending_list', behind')
                   \/ \E u \in TrapThreads : \E l \in 1..Len(sig_stack[u]) :
                        sig_stack'[t][k] = sig_stack[u][l]
        <5>1. CASE t # curr
          BY <4>2, <5>1, <1>9
        <5>2. CASE t = curr /\ next[t][j] = f
          BY <4>2, <5>2, <2>6
        <5>3. CASE t = curr /\ next[t][j] # f
          BY <4>2, <5>3, <1>1, <1>8, <1>9
        <5>4. QED
          BY <5>1, <5>2, <5>3
      <4>3. QED
        BY <4>1, <4>2, <3>1, <2>1 DEF SignalExecuted
    <3>2. QED
      BY <3>1, <2>3, <2>5, FramesKept DEF SignalInv, SignalTypes
  <2>8. NotedSignalSeen'
    BY <2>4, <1>13 DEF SignalInv, NotedSignalSeen
  <2>9. CallsNested'
    <3>1. CASE crossed
      BY <3>1, <2>1 DEF SignalExecuted, CallsNested
    <3>2. CASE ~crossed
      <4>1. \A t \in TrapThreads :
              /\ Nested(sig_stack[t])
              /\ t # curr /\ saved[t] = 1 => KindOf(sig_stack[t]) = "block"
        BY <3>2, OffInRuby
      <4>2. \A t \in TrapThreads :
              /\ Nested(next[t])
              /\ t # curr /\ saved[t] = 1 => KindOf(next[t]) = "block"
        BY <4>1, <3>2, <1>3, <1>7, <1>9, <1>10
      <4>3. QED
        BY <4>2, <3>2, <1>10, <2>1 DEF SignalExecuted
    <3>3. QED
      BY <3>1, <3>2
  <2>10. QED
    BY <2>3, <2>7, <2>8, <2>9 DEF SignalInv
<1>14. CASE /\ i \in Sigs /\ pending_list[i] = 0
            /\ sig_stack' = next
            /\ UNCHANGED <<pending_list, trap_pending, behind, immediate, mask, curr, saved,
                           crossed>>
  <2>1. FrameOK(f, pending_list, behind)
    <3>1. \A s \in Sigs : s < i + 1 /\ pending_list[s] > 0 => s \in behind
      BY <1>1, <1>4, <1>12, <1>14
    <3>2. QED
      BY <3>1, <1>11, <1>14
  <2>2. sig_stack' = [sig_stack EXCEPT ![curr] = q]
    BY <1>14 DEF next
  <2>3. ~crossed => Nested(q) /\ (immediate' = 1 => KindOf(q) = "block")
    BY <1>3, <1>7, <1>10, <1>14
  <2>4. \A k \in 1..Len(q) : \/ FrameOK(q[k], pending_list, behind)
                             \/ \E j \in 1..Len(sig_stack[curr]) : q[k] = sig_stack[curr][j]
    BY <1>8, <2>1
  <2>5. QED
    BY <1>1, <1>7, <1>14, <2>2, <2>3, <2>4, CurrentSteps
<1>15. CASE /\ i \notin Sigs
            /\ trap_pending' = 0
            /\ sig_stack' = [sig_stack EXCEPT ![curr] = Tail(st)]
            /\ UNCHANGED <<pending_list, behind, immediate, mask, curr, saved, crossed>>
  <2>1. \A s \in Sigs : s < i
    BY <1>4, <1>15, SignalAssumption DEF Sigs
  <2>2. NotedSignalSeen'
    BY <2>1, <1>4, <1>15 DEF NotedSignalSeen
  <2>3. /\ sig_stack' \in [TrapThreads -> Seq(TrapFrames)] /\ sig_stack'[curr] = Tail(st)
        /\ \A t \in TrapThreads : t # curr => sig_stack'[t] = sig_stack[t]
    BY <1>1, <1>3, <1>15 DEF SignalTypes
  <2>4. SignalTypes'
    BY <1>1, <1>15, <2>3 DEF SignalTypes
  <2>5. LoopsPassed'
    <3>1. ASSUME NEW t \in TrapThreads, NEW k \in 1..Len(sig_stack'[t])
          PROVE  \E u \in TrapThreads : \E j \in 1..Len(sig_stack[u]) :
                   sig_stack'[t][k] = sig_stack[u][j]
      <4>1. CASE t = curr
        <5>1. PICK j \in 1..Len(sig_stack[curr]) : Tail(st)[k] = sig_stack[curr][j]
          BY <3>1, <4>1, <1>3, <2>3
        <5>2. QED
          BY <5>1, <4>1, <1>1, <2>3
      <4>2. CASE t # curr
        BY <3>1, <4>2, <2>3
      <4>3. QED
        BY <4>1, <4>2
    <3>2. QED
      BY <3>1, <2>3, <1>1, <1>15, FramesKept DEF SignalInv
  <2>6. CallsNested'
    <3>1. SUFFICES ASSUME ~crossed, NEW t \in TrapThreads
                   PROVE  /\ (IF t = curr THEN immediate ELSE saved[t]) = 1
                               => KindOf(sig_stack'[t]) = "block"
                          /\ Nested(sig_stack'[t])
      BY <1>15, TopIsKind DEF CallsNested, Immediate
    <3>2. /\ Nested(sig_stack[t])
          /\ t # curr /\ saved[t] = 1 => KindOf(sig_stack[t]) = "block"
      BY <3>1, OffInRuby
    <3>3. CASE t = curr
      BY <3>1, <3>3, <1>3, <1>10, <2>3
    <3>4. CASE t # curr
      BY <3>2, <3>4, <2>3
    <3>5. QED
      BY <3>3, <3>4
  <2>7. QED
    BY <2>2, <2>4, <2>5, <2>6 DEF SignalInv
<1>16. QED
  BY <1>6, <1>13, <1>14, <1>15

\* A context switch: each thread keeps its rb_trap_immediate.
LEMMA SwitchKeeps ==
  ASSUME SignalInv, NEW t \in TrapThreads, Sig!rb_thread_schedule(t)
  PROVE  SignalInv'
<1>1. /\ t # curr /\ curr' = t /\ saved' = [saved EXCEPT ![curr] = immediate]
      /\ immediate' = saved[t]
      /\ UNCHANGED <<pending_list, trap_pending, behind, mask, last_mask, sig_stack, crossed>>
  BY DEF Sig!rb_thread_schedule, Sig!listVars, Sig!osVars
<1>2. SignalTypes'
  BY <1>1 DEF SignalInv, SignalTypes
<1>3. LoopsPassed' /\ NotedSignalSeen'
  BY <1>1 DEF SignalInv, LoopsPassed, NotedSignalSeen
<1>4. \A u \in TrapThreads : Immediate(u)' = Immediate(u)
  BY <1>1 DEF SignalInv, SignalTypes, Immediate
<1>5. \A u \in TrapThreads : Top(u)' = Top(u)
  BY <1>1 DEF Top
<1>6. CallsNested'
  BY <1>1, <1>4, <1>5 DEF SignalInv, CallsNested
<1>7. QED
  BY <1>2, <1>3, <1>6 DEF SignalInv

LEMMA SignalsBegin == Sig!Init => SignalInv
<1> SUFFICES ASSUME Sig!Init PROVE SignalInv
  OBVIOUS
<1>1. <<>> \in Seq(TrapFrames) /\ 0 \in Nat
  OBVIOUS
<1>2. SignalTypes
  BY <1>1 DEF Sig!Init, SignalTypes, TrapThreads, Sig!Threads, Sig!Sigs, Sigs
<1>3. ASSUME NEW t \in TrapThreads
      PROVE  sig_stack[t] = <<>> /\ 1..Len(sig_stack[t]) = {} /\ Immediate(t) = 0
  BY <1>3 DEF Sig!Init, TrapThreads, Sig!Threads, Immediate
<1>4. LoopsPassed /\ CallsNested
  BY <1>3 DEF LoopsPassed, CallsNested, Nested
<1>5. NotedSignalSeen
  BY DEF Sig!Init, NotedSignalSeen, Sig!Sigs, Sigs
<1>6. QED
  BY <1>2, <1>4, <1>5 DEF SignalInv

LEMMA SignalsKept == SignalInv /\ [Sig!Next]_(Sig!vars) => SignalInv'
<1> SUFFICES ASSUME SignalInv, [Sig!Next]_(Sig!vars) PROVE SignalInv'
  OBVIOUS
<1>1. ASSUME UNCHANGED <<pending_list, trap_pending, behind, immediate, curr, sig_stack,
                         saved, crossed>>,
             mask' \subseteq Sigs, last_mask' \subseteq Sigs
      PROVE  SignalInv'
  <2>1. SignalTypes'
    BY <1>1 DEF SignalInv, SignalTypes
  <2>2. LoopsPassed' /\ NotedSignalSeen'
    BY <1>1 DEF SignalInv, LoopsPassed, NotedSignalSeen
  <2>3. CallsNested'
    BY <1>1 DEF SignalInv, CallsNested, Immediate, Top
  <2>4. QED
    BY <2>1, <2>2, <2>3 DEF SignalInv
<1>2. mask \subseteq Sigs /\ last_mask \subseteq Sigs
  BY DEF SignalInv, SignalTypes
<1>3. ASSUME NEW s \in Sigs, Sig!kill(s) PROVE SignalInv'
  BY <1>1, <1>2, <1>3 DEF Sig!kill, Sig!listVars
<1>4. ASSUME NEW s \in Sigs, NEW cmd, Sig!sig_trap(s, cmd) PROVE SignalInv'
  BY <1>1, <1>2, <1>4 DEF Sig!sig_trap, Sig!listVars
<1>5. CASE UNCHANGED Sig!vars
  BY <1>1, <1>2, <1>5 DEF Sig!vars, Sig!listVars, Sig!osVars
<1>6. ASSUME NEW t \in Sig!Threads, Sig!rb_thread_schedule(t) PROVE SignalInv'
  BY <1>6, SwitchKeeps DEF Sig!Threads, TrapThreads
<1>7. ASSUME NEW s \in Sig!Sigs, Sig!sighandler(s) PROVE SignalInv'
  BY <1>7, HandlerKeeps DEF Sig!Sigs, Sigs
<1>8. Sig!Sigs = Sigs
  BY DEF Sig!Sigs, Sigs
<1>9. QED
  BY <1>3, <1>4, <1>5, <1>6, <1>7, <1>8, SystemCalls, LoopKeeps DEF Sig!Next

\* sighandler and rb_trap_exec: a noted signal keeps rb_trap_pending set, except
\* for one that came at an index which a loop had passed, however handlers,
\* loops of both threads, exceptions and context switches nest.
THEOREM NotedSignalsSeen == Sig!Spec => []NotedSignalSeen
<1>1. SignalInv => NotedSignalSeen
  BY DEF SignalInv
<1>2. QED
  BY <1>1, SignalsBegin, SignalsKept, PTL DEF Sig!Spec

\* TRAP_BEG, TRAP_END and ATOMIC_TEST: traps are executed at once only in a
\* system call, unless a context saved in one has been resumed for a trap.
THEOREM ImmediateOnlyInCalls == Sig!Spec => []ImmediateInSystemCall
<1>1. SignalInv => ImmediateInSystemCall
  BY DEF SignalInv, SignalTypes, CallsNested, Immediate, ImmediateInSystemCall
<1>2. QED
  BY <1>1, SignalsBegin, SignalsKept, PTL DEF Sig!Spec

-----------------------------------------------------------------------------
(* Global variables.  A tracer runs between the steps of trace_ev.         *)

\* There are finitely many names; the structs are different, and 0 is none.
GvarUse == /\ IsFiniteSet(Names)
           /\ Variables \cap Traces = {}
           /\ NoEntry \notin Variables \cup Traces

GvarTypes ==
  /\ entry \in [Names -> Variables \cup {NoEntry}]
  /\ counter \in [Variables -> Int]
  /\ trace \in [Variables -> SUBSET Traces]
  /\ block_trace \in [Variables -> BOOLEAN]
  /\ removed \in [Traces -> BOOLEAN]
  /\ running \in [Variables -> Traces \cup {NoEntry}]

\* No trace is in two lists, and none that is in a list is freed.
Lists == \A v \in Variables :
  /\ trace[v] \cap freed = {}
  /\ \A w \in Variables \ {v} : trace[v] \cap trace[w] = {}

\* block_trace is set while trace_ev is in a trace of the variable.
Blocked == \A v \in Variables : block_trace[v] <=> running[v] # NoEntry

GvarInv == GvarTypes /\ Lists /\ Blocked /\ GvarSound

NamesOf(e, v) == {n \in Names : e[n] = v}

\* Entries e and their counts c, when the variables in f are freed.
Counted(e, c, f) == \A v \in Variables :
  /\ c[v] = Cardinality(NamesOf(e, v))
  /\ v \in f => c[v] = 0

LEMMA GvarInvParts ==
  ASSUME GvarUse, GvarInv
  PROVE  /\ GvarTypes /\ Lists /\ Blocked /\ Counted(entry, counter, freed)
         /\ \A v \in Variables : running[v] # NoEntry =>
              running[v] \in trace[v] /\ v \notin freed /\ running[v] \notin freed
         /\ \A v \in Variables : ~block_trace[v] => \A t \in trace[v] : ~removed[t]
<1>1. GvarTypes /\ Lists /\ Blocked /\ TracerAlive /\ RemovedGone /\ GvarCounted
  BY DEF GvarInv, GvarSound
<1>2. /\ DOMAIN entry = Names /\ DOMAIN counter = Variables
      /\ DOMAIN running = Variables /\ DOMAIN block_trace = Variables
  BY <1>1 DEF GvarTypes
<1>3. QED
  BY <1>1, <1>2 DEF TracerAlive, RemovedGone, GvarCounted, Counted, NamesOf

\* The same of the next state.
LEMMA GvarInvNext ==
  ASSUME GvarUse, GvarTypes', Lists', Blocked', Counted(entry', counter', freed'),
         \A v \in Variables : running'[v] # NoEntry =>
           running'[v] \in trace'[v] /\ v \notin freed',
         \A v \in Variables : ~block_trace'[v] => \A t \in trace'[v] : ~removed'[t]
  PROVE  GvarInv'
<1>1. /\ DOMAIN entry' = Names /\ DOMAIN counter' = Variables
      /\ DOMAIN running' = Variables /\ DOMAIN block_trace' = Variables
  BY DEF GvarTypes
<1>2. TracerAlive'
  BY <1>1 DEF TracerAlive, Lists
<1>3. RemovedGone'
  BY <1>1 DEF RemovedGone
<1>4. GvarCounted'
  BY <1>1 DEF GvarCounted, Counted, NamesOf
<1>5. QED
  BY <1>2, <1>3, <1>4 DEF GvarInv, GvarSound

\* A name is moved from a variable, or from none, to another one.
LEMMA Moved ==
  ASSUME GvarUse, NEW e \in [Names -> Variables \cup {NoEntry}],
         NEW n \in Names, NEW v \in Variables, e[n] # v,
         NEW d \in [Names -> Variables \cup {NoEntry}],
         d[n] = v, \A m \in Names \ {n} : d[m] = e[m]
  PROVE  /\ Cardinality(NamesOf(d, v)) = Cardinality(NamesOf(e, v)) + 1
         /\ e[n] \in Variables =>
              Cardinality(NamesOf(d, e[n])) = Cardinality(NamesOf(e, e[n])) - 1
         /\ \A w \in Variables \ {v, e[n]} : NamesOf(d, w) = NamesOf(e, w)
         /\ \A w \in Variables : Cardinality(NamesOf(e, w)) \in Nat
<1>2. \A w : IsFiniteSet(NamesOf(e, w)) /\ Cardinality(NamesOf(e, w)) \in Nat
  <2> TAKE w
  <2>1. NamesOf(e, w) \in SUBSET Names
    BY DEF NamesOf
  <2>2. IsFiniteSet(NamesOf(e, w))
    BY <2>1, FS_Subset DEF GvarUse
  <2>3. QED
    BY <2>2, FS_CardinalityType
<1>3. Cardinality(NamesOf(d, v)) = Cardinality(NamesOf(e, v)) + 1
  <2>1. NamesOf(d, v) = NamesOf(e, v) \cup {n} /\ n \notin NamesOf(e, v)
    BY DEF NamesOf
  <2>2. QED
    BY <1>2, <2>1, FS_AddElement
<1>4. Cardinality(NamesOf(d, e[n])) = Cardinality(NamesOf(e, e[n])) - 1
  <2>1. NamesOf(d, e[n]) = NamesOf(e, e[n]) \ {n} /\ n \in NamesOf(e, e[n])
    BY DEF NamesOf
  <2>2. IsFiniteSet(NamesOf(e, e[n]))
    BY <1>2
  <2>3. Cardinality(NamesOf(e, e[n]) \ {n}) = Cardinality(NamesOf(e, e[n])) - 1
    BY <2>1, <2>2, FS_RemoveElement
  <2>4. QED
    BY <2>1, <2>3
<1>5. \A w \in Variables \ {v, e[n]} : NamesOf(d, w) = NamesOf(e, w)
  BY DEF NamesOf
<1>6. QED
  BY <1>2, <1>3, <1>4, <1>5

\* rb_global_entry: the name has a variable that is not freed, the counts match.
LEMMA EntryGiven ==
  ASSUME GvarUse, GvarInv, NEW n \in Names, NEW g \in Gvar!WithEntry(n)
  PROVE  /\ g.entry \in [Names -> Variables \cup {NoEntry}]
         /\ g.counter \in [Variables -> Int]
         /\ g.entry[n] \in Variables /\ g.entry[n] \notin freed
         /\ Counted(g.entry, g.counter, freed)
<1>1. /\ entry \in [Names -> Variables \cup {NoEntry}] /\ counter \in [Variables -> Int]
      /\ Counted(entry, counter, freed) /\ NoEntry \notin Variables
  BY GvarInvParts DEF GvarTypes, GvarUse
<1>2. ASSUME NEW e \in [Names -> Variables \cup {NoEntry}], NEW c, Counted(e, c, freed),
             NEW m \in Names, e[m] \in Variables
      PROVE  e[m] \notin freed
  <2>1. m \in NamesOf(e, e[m]) /\ NamesOf(e, e[m]) \in SUBSET Names
    BY DEF NamesOf
  <2>2. Cardinality(NamesOf(e, e[m])) # 0
    BY <2>1, FS_Subset, FS_EmptySet DEF GvarUse
  <2>3. QED
    BY <1>2, <2>2 DEF Counted
<1>3. CASE entry[n] # NoEntry
  <2>1. g.entry = entry /\ g.counter = counter
    BY <1>3 DEF Gvar!WithEntry
  <2>2. QED
    BY <1>1, <1>2, <1>3, <2>1
<1>4. CASE entry[n] = NoEntry
  <2>1. PICK v \in Gvar!FreshVars : g = [entry |-> [entry EXCEPT ![n] = v],
                                         counter |-> [counter EXCEPT ![v] = 1]]
    BY <1>4 DEF Gvar!WithEntry
  <2>2. v \in Variables /\ v \notin freed /\ \A m \in Names : entry[m] # v
    BY <1>1, <2>1 DEF Gvar!FreshVars, Gvar!Least, Gvar!Allocated
  <2>3. /\ g.entry = [entry EXCEPT ![n] = v] /\ g.counter = [counter EXCEPT ![v] = 1]
        /\ g.entry \in [Names -> Variables \cup {NoEntry}]
    BY <1>1, <2>1, <2>2
  <2>4. NamesOf(entry, v) = {}
    BY <2>2 DEF NamesOf
  <2>5. /\ Cardinality(NamesOf(g.entry, v)) = Cardinality(NamesOf(entry, v)) + 1
        /\ \A w \in Variables \ {v, entry[n]} : NamesOf(g.entry, w) = NamesOf(entry, w)
    <3>1. /\ g.entry[n] = v /\ \A m \in Names \ {n} : g.entry[m] = entry[m]
          /\ entry[n] # v
      BY <1>1, <2>2, <2>3
    <3>2. /\ v \in Variables /\ entry \in [Names -> Variables \cup {NoEntry}]
          /\ g.entry \in [Names -> Variables \cup {NoEntry}]
      BY <1>1, <2>2, <2>3
    <3>3. Cardinality(NamesOf(g.entry, v)) = Cardinality(NamesOf(entry, v)) + 1
      BY <3>1, <3>2, Moved
    <3>4. \A w \in Variables \ {v, entry[n]} : NamesOf(g.entry, w) = NamesOf(entry, w)
      BY <3>1, <3>2, Moved
    <3>5. QED
      BY <3>3, <3>4
  <2>6. /\ Cardinality(NamesOf(g.entry, v)) = 1
        /\ \A w \in Variables \ {v} : NamesOf(g.entry, w) = NamesOf(entry, w)
    BY <1>1, <1>4, <2>4, <2>5, FS_EmptySet
  <2>7. /\ g.entry \in [Names -> Variables \cup {NoEntry}] /\ g.entry[n] = v
        /\ g.counter \in [Variables -> Int] /\ g.counter[v] = 1
        /\ \A w \in Variables \ {v} : g.counter[w] = counter[w]
    BY <1>1, <2>2, <2>3
  <2>8. Counted(g.entry, g.counter, freed)
    BY <1>1, <2>2, <2>6, <2>7 DEF Counted
  <2>9. QED
    BY <2>2, <2>7, <2>8
<1>5. QED
  BY <1>3, <1>4

LEMMA GlobalEntryKeeps ==
  ASSUME GvarUse, GvarInv, NEW n \in Names, Gvar!rb_global_entry(n)
  PROVE  GvarInv'
<1>1. PICK g \in Gvar!WithEntry(n) : entry' = g.entry /\ counter' = g.counter
  BY DEF Gvar!rb_global_entry
<1>2. UNCHANGED <<trace, removed, block_trace, running, freed>>
  BY DEF Gvar!rb_global_entry, Gvar!lists
<1>3. GvarTypes' /\ Lists' /\ Blocked' /\ Counted(entry', counter', freed')
  BY <1>1, <1>2, EntryGiven, GvarInvParts DEF GvarTypes, Lists, Blocked
<1>4. QED
  BY <1>2, <1>3, GvarInvParts, GvarInvNext

LEMMA TraceVarKeeps ==
  ASSUME GvarUse, GvarInv, NEW n \in Names, NEW cmd \in Cmds, Gvar!rb_f_trace_var(n, cmd)
  PROVE  GvarInv'
<1>1. PICK g \in Gvar!WithEntry(n), t \in Gvar!FreshTraces :
        /\ entry' = g.entry /\ counter' = g.counter
        /\ trace' = [trace EXCEPT ![g.entry[n]] = {t} \cup @]
        /\ removed' = [removed EXCEPT ![t] = FALSE]
  BY DEF Gvar!rb_f_trace_var
<1>2. UNCHANGED <<block_trace, running, freed>>
  BY DEF Gvar!rb_f_trace_var
<1> DEFINE v == g.entry[n]
<1>3. /\ entry' \in [Names -> Variables \cup {NoEntry}] /\ counter' \in [Variables -> Int]
      /\ Counted(entry', counter', freed') /\ v \in Variables
  BY <1>1, <1>2, EntryGiven
<1>4. t \in Traces /\ t \notin freed /\ \A w \in Variables : t \notin trace[w]
  BY DEF Gvar!FreshTraces, Gvar!Least
<1>5. GvarTypes /\ Lists /\ Blocked
  BY GvarInvParts
<1> HIDE DEF v
<1>6. /\ trace' \in [Variables -> SUBSET Traces] /\ trace'[v] = {t} \cup trace[v]
      /\ \A w \in Variables \ {v} : trace'[w] = trace[w]
  BY <1>1, <1>3, <1>4, <1>5 DEF GvarTypes, v
<1>7. /\ removed' \in [Traces -> BOOLEAN] /\ removed'[t] = FALSE
      /\ \A u \in Traces \ {t} : removed'[u] = removed[u]
  BY <1>1, <1>4, <1>5 DEF GvarTypes
<1>8. GvarTypes'
  BY <1>2, <1>3, <1>5, <1>6, <1>7 DEF GvarTypes
<1>9. Lists'
  BY <1>2, <1>4, <1>5, <1>6 DEF Lists
<1>10. Blocked'
  BY <1>2, <1>5 DEF Blocked
<1>11. \A w \in Variables : running'[w] # NoEntry => running'[w] \in trace'[w] /\ w \notin freed'
  BY <1>2, <1>6, GvarInvParts
<1>12. \A w \in Variables : ~block_trace'[w] => \A u \in trace'[w] : ~removed'[u]
  <2> SUFFICES ASSUME NEW w \in Variables, ~block_trace[w], NEW u \in trace'[w]
               PROVE  ~removed'[u]
    BY <1>2
  <2>1. u = t \/ u \in trace[w]
    BY <1>6
  <2>2. CASE u = t
    BY <1>7, <2>2
  <2>3. CASE u # t
    <3>1. u \in trace[w] /\ u \in Traces \ {t} /\ ~removed[u]
      BY <1>5, <2>1, <2>3, GvarInvParts DEF GvarTypes
    <3>2. QED
      BY <1>7, <3>1
  <2>4. QED
    BY <2>2, <2>3
<1>13. QED
  BY <1>3, <1>8, <1>9, <1>10, <1>11, <1>12, GvarInvNext

\* remove_trace frees marked members of one list.
LEMMA RemoveTrace ==
  ASSUME GvarUse, GvarInv, NEW v \in Variables, NEW marks \in [Traces -> BOOLEAN],
         Gvar!remove_trace(v, marks)
  PROVE  /\ trace' \in [Variables -> SUBSET Traces] /\ Lists'
         /\ \A w \in Variables \ {v} : trace'[w] = trace[w]
         /\ \A t \in trace'[v] : t \in trace[v] /\ ~marks[t]
         /\ \A w \in Variables : w \in freed' <=> w \in freed
<1>1. GvarTypes /\ Lists /\ Variables \cap Traces = {}
  BY GvarInvParts DEF GvarUse
<1>2. /\ trace' = [trace EXCEPT ![v] = {t \in trace[v] : ~marks[t]}]
      /\ freed' = freed \cup {t \in trace[v] : marks[t]}
  BY DEF Gvar!remove_trace
<1>3. /\ trace' \in [Variables -> SUBSET Traces] /\ trace'[v] = {t \in trace[v] : ~marks[t]}
      /\ \A w \in Variables \ {v} : trace'[w] = trace[w]
      /\ trace[v] \subseteq Traces
  BY <1>1, <1>2 DEF GvarTypes
<1>4. Lists'
  BY <1>1, <1>2, <1>3 DEF Lists
<1>5. QED
  BY <1>1, <1>2, <1>3, <1>4

LEMMA UntraceKeeps ==
  ASSUME GvarUse, GvarInv, NEW v \in Variables, NEW gone \in SUBSET trace[v],
         Gvar!Untrace(v, gone)
  PROVE  GvarInv'
<1>1. /\ GvarTypes /\ Lists /\ Blocked /\ Counted(entry, counter, freed)
  BY GvarInvParts
<1>2. /\ removed' = [t \in Traces |-> removed[t] \/ t \in gone]
      /\ UNCHANGED <<entry, counter, block_trace, running>>
      /\ IF block_trace[v] THEN UNCHANGED <<trace, freed>> ELSE Gvar!remove_trace(v, removed')
  BY DEF Gvar!Untrace, Gvar!gvars
<1>3. removed' \in [Traces -> BOOLEAN]
  <2>1. \A t \in Traces : (removed[t] \/ t \in gone) \in BOOLEAN
    OBVIOUS
  <2>2. QED
    BY <1>2, <2>1
<1>4. \A w \in Variables \ {v} : \A t \in trace[w] : removed'[t] <=> removed[t]
  BY <1>1, <1>2 DEF Lists, GvarTypes
<1>5. CASE block_trace[v]
  <2>1. UNCHANGED <<trace, freed>>
    BY <1>2, <1>5
  <2>2. GvarTypes' /\ Lists' /\ Blocked' /\ Counted(entry', counter', freed')
    BY <1>1, <1>2, <1>3, <2>1 DEF GvarTypes, Lists, Blocked
  <2>3. \A w \in Variables : ~block_trace'[w] => \A t \in trace'[w] : ~removed'[t]
    BY <1>2, <1>4, <1>5, <2>1, GvarInvParts
  <2>4. QED
    BY <1>2, <2>1, <2>2, <2>3, GvarInvParts, GvarInvNext
<1>6. CASE ~block_trace[v]
  <2>1. /\ trace' \in [Variables -> SUBSET Traces] /\ Lists'
        /\ \A w \in Variables \ {v} : trace'[w] = trace[w]
        /\ \A t \in trace'[v] : t \in trace[v] /\ ~removed'[t]
        /\ \A w \in Variables : w \in freed' <=> w \in freed
    BY <1>2, <1>3, <1>6, RemoveTrace
  <2>2. GvarTypes' /\ Blocked' /\ Counted(entry', counter', freed')
    BY <1>1, <1>2, <1>3, <2>1 DEF GvarTypes, Blocked, Counted
  <2>3. \A w \in Variables : ~block_trace'[w] => \A t \in trace'[w] : ~removed'[t]
    BY <1>2, <1>4, <2>1, GvarInvParts
  <2>4. running[v] = NoEntry
    BY <1>1, <1>6 DEF Blocked
  <2>5. \A w \in Variables : running'[w] # NoEntry => running'[w] \in trace'[w] /\ w \notin freed'
    BY <1>2, <2>1, <2>4, GvarInvParts
  <2>6. QED
    BY <2>1, <2>2, <2>3, <2>5, GvarInvNext
<1>7. QED
  BY <1>5, <1>6

LEMMA UntraceVarKeeps ==
  ASSUME GvarUse, GvarInv, NEW n \in Names, Gvar!rb_f_untrace_var(n)
  PROVE  GvarInv'
<1>1. entry[n] \in Variables
  BY GvarInvParts DEF Gvar!rb_f_untrace_var, GvarTypes
<1>2. PICK gone \in SUBSET trace[entry[n]] : Gvar!Untrace(entry[n], gone)
  BY DEF Gvar!rb_f_untrace_var, Gvar!First
<1>3. QED
  BY <1>1, <1>2, UntraceKeeps

\* The tracer of v is at t, or at none.
LEMMA GvarRuns ==
  ASSUME GvarUse, GvarInv, NEW v \in Variables, v \notin freed, NEW t \in trace[v],
         running' = [running EXCEPT ![v] = t],
         block_trace' = [block_trace EXCEPT ![v] = TRUE],
         UNCHANGED <<entry, counter, trace, removed, freed>>
  PROVE  GvarInv'
<1>1. /\ GvarTypes /\ Lists /\ Blocked /\ t \in Traces /\ t # NoEntry
      /\ Counted(entry, counter, freed)
  BY GvarInvParts DEF GvarTypes, GvarUse
<1>2. /\ running' \in [Variables -> Traces \cup {NoEntry}] /\ running'[v] = t
      /\ \A w \in Variables \ {v} : running'[w] = running[w]
  BY <1>1 DEF GvarTypes
<1>3. /\ block_trace' \in [Variables -> BOOLEAN] /\ block_trace'[v] = TRUE
      /\ \A w \in Variables \ {v} : block_trace'[w] = block_trace[w]
  BY <1>1 DEF GvarTypes
<1>4. GvarTypes' /\ Lists' /\ Counted(entry', counter', freed')
  BY <1>1, <1>2, <1>3 DEF GvarTypes, Lists
<1>5. Blocked'
  BY <1>1, <1>2, <1>3 DEF Blocked
<1>6. \A w \in Variables : running'[w] # NoEntry => running'[w] \in trace'[w] /\ w \notin freed'
  BY <1>2, GvarInvParts
<1>7. \A w \in Variables : ~block_trace'[w] => \A u \in trace'[w] : ~removed'[u]
  BY <1>3, GvarInvParts
<1>8. QED
  BY <1>4, <1>5, <1>6, <1>7, GvarInvNext

LEMMA GvarSetKeeps ==
  ASSUME GvarUse, GvarInv, NEW n \in Names, Gvar!rb_gvar_set(n)
  PROVE  GvarInv'
<1>1. entry[n] \in Variables /\ entry[n] # NoEntry
  BY GvarInvParts DEF Gvar!rb_gvar_set, GvarTypes
<1>2. entry[n] \notin freed
  BY <1>1, EntryGiven DEF Gvar!WithEntry
<1>3. PICK t \in trace[entry[n]] : running' = [running EXCEPT ![entry[n]] = t]
  BY DEF Gvar!rb_gvar_set, Gvar!First
<1>4. /\ block_trace' = [block_trace EXCEPT ![entry[n]] = TRUE]
      /\ UNCHANGED <<entry, counter, trace, removed, freed>>
  BY DEF Gvar!rb_gvar_set, Gvar!gvars, Gvar!lists
<1>5. QED
  BY <1>1, <1>2, <1>3, <1>4, GvarRuns

LEMMA TraceEvKeeps ==
  ASSUME GvarUse, GvarInv, NEW v \in Variables, Gvar!trace_ev(v)
  PROVE  GvarInv'
<1>1. running[v] # NoEntry /\ UNCHANGED <<entry, counter, trace, removed, block_trace, freed>>
  BY DEF Gvar!trace_ev, Gvar!gvars, Gvar!lists
<1>2. PICK t \in trace[v] : running' = [running EXCEPT ![v] = t]
  BY DEF Gvar!trace_ev, Gvar!First
<1>3. v \notin freed /\ block_trace[v] = TRUE /\ block_trace \in [Variables -> BOOLEAN]
  BY <1>1, GvarInvParts DEF Blocked, GvarTypes
<1>4. block_trace' = [block_trace EXCEPT ![v] = TRUE]
  BY <1>1, <1>3
<1>5. QED
  BY <1>1, <1>2, <1>3, <1>4, GvarRuns

LEMMA TraceEnKeeps ==
  ASSUME GvarUse, GvarInv, NEW v \in Variables, Gvar!trace_en(v)
  PROVE  GvarInv'
<1>1. GvarTypes /\ Blocked /\ Counted(entry, counter, freed)
  BY GvarInvParts
<1>2. /\ running' = [running EXCEPT ![v] = NoEntry]
      /\ block_trace' = [block_trace EXCEPT ![v] = FALSE]
      /\ Gvar!remove_trace(v, removed) /\ UNCHANGED <<entry, counter, removed>>
  BY DEF Gvar!trace_en, Gvar!gvars
<1>3. /\ trace' \in [Variables -> SUBSET Traces] /\ Lists'
      /\ \A w \in Variables \ {v} : trace'[w] = trace[w]
      /\ \A t \in trace'[v] : t \in trace[v] /\ ~removed[t]
      /\ \A w \in Variables : w \in freed' <=> w \in freed
  BY <1>1, <1>2, RemoveTrace DEF GvarTypes
<1>4. /\ running' \in [Variables -> Traces \cup {NoEntry}] /\ running'[v] = NoEntry
      /\ \A w \in Variables \ {v} : running'[w] = running[w]
  BY <1>1, <1>2 DEF GvarTypes
<1>5. /\ block_trace' \in [Variables -> BOOLEAN] /\ block_trace'[v] = FALSE
      /\ \A w \in Variables \ {v} : block_trace'[w] = block_trace[w]
  BY <1>1, <1>2 DEF GvarTypes
<1>6. GvarTypes' /\ Blocked' /\ Counted(entry', counter', freed')
  <2>1. GvarTypes'
    BY <1>1, <1>2, <1>3, <1>4, <1>5 DEF GvarTypes
  <2>2. Blocked'
    BY <1>1, <1>4, <1>5 DEF Blocked
  <2>3. Counted(entry', counter', freed')
    BY <1>1, <1>2, <1>3 DEF Counted
  <2>4. QED
    BY <2>1, <2>2, <2>3
<1>7. \A w \in Variables : running'[w] # NoEntry => running'[w] \in trace'[w] /\ w \notin freed'
  BY <1>3, <1>4, GvarInvParts
<1>8. \A w \in Variables : ~block_trace'[w] => \A u \in trace'[w] : ~removed'[u]
  BY <1>2, <1>3, <1>5, GvarInvParts
<1>9. QED
  BY <1>3, <1>6, <1>7, <1>8, GvarInvNext

LEMMA AliasKeeps ==
  ASSUME GvarUse, GvarInv, NEW n \in Names, NEW m \in Names, Gvar!rb_alias_variable(n, m)
  PROVE  GvarInv'
<1>1. PICK g \in Gvar!WithEntry(m) :
        LET v1 == g.entry[n]
            v2 == g.entry[m]
            last == v1 # NoEntry /\ g.counter[v1] = 1
        IN /\ v1 # v2
           /\ v1 # NoEntry => Gvar!Aliasable(v1)
           /\ entry' = [g.entry EXCEPT ![n] = v2]
           /\ counter' = Gvar!Recount(g.counter, v1, v2)
           /\ IF last
              THEN /\ freed' = freed \cup {v1} \cup trace[v1]
                   /\ trace' = [trace EXCEPT ![v1] = {}]
              ELSE UNCHANGED <<freed, trace>>
           /\ UNCHANGED <<data, removed, block_trace, running>>
  BY DEF Gvar!rb_alias_variable
<1> DEFINE e == g.entry
           c == g.counter
           v1 == e[n]
           v2 == e[m]
           last == v1 # NoEntry /\ c[v1] = 1
<1>2. /\ e \in [Names -> Variables \cup {NoEntry}] /\ c \in [Variables -> Int]
      /\ v2 \in Variables /\ v2 \notin freed /\ Counted(e, c, freed)
  BY EntryGiven
<1>3. /\ v1 # v2 /\ entry' = [e EXCEPT ![n] = v2] /\ counter' = Gvar!Recount(c, v1, v2)
      /\ UNCHANGED <<removed, block_trace, running>>
      /\ v1 # NoEntry => ~block_trace[v1]
  BY <1>1 DEF Gvar!Aliasable
<1>4. IF last THEN /\ freed' = freed \cup {v1} \cup trace[v1]
                   /\ trace' = [trace EXCEPT ![v1] = {}]
              ELSE UNCHANGED <<freed, trace>>
  BY <1>1
<1>5. v1 \in Variables \cup {NoEntry} /\ NoEntry \notin Variables
  BY <1>2 DEF GvarUse
<1>6. /\ entry' \in [Names -> Variables \cup {NoEntry}]
      /\ Cardinality(NamesOf(entry', v2)) = Cardinality(NamesOf(e, v2)) + 1
      /\ v1 \in Variables => Cardinality(NamesOf(entry', v1)) = Cardinality(NamesOf(e, v1)) - 1
      /\ \A w \in Variables \ {v1, v2} : NamesOf(entry', w) = NamesOf(e, w)
  <2>1. /\ entry' \in [Names -> Variables \cup {NoEntry}] /\ e[n] # v2
        /\ entry'[n] = v2 /\ \A k \in Names \ {n} : entry'[k] = e[k]
    BY <1>2, <1>3
  <2>2. QED
    BY <1>2, <1>3, <2>1, Moved
<1> HIDE DEF e, c, v1, v2, last
<1>7. /\ counter' \in [Variables -> Int]
      /\ counter'[v2] = c[v2] + 1 /\ (v1 \in Variables => counter'[v1] = c[v1] - 1)
      /\ \A w \in Variables \ {v1, v2} : counter'[w] = c[w]
  BY <1>2, <1>3 DEF Gvar!Recount
<1>8. GvarTypes /\ Lists /\ Blocked
  BY GvarInvParts
<1>9. /\ trace' \in [Variables -> SUBSET Traces] /\ Lists'
      /\ \A w \in Variables : trace'[w] \subseteq trace[w]
      /\ \A w \in Variables : w # v1 => trace'[w] = trace[w]
      /\ \A w \in Variables : w \in freed' <=> w \in freed \/ (w = v1 /\ last)
  <2>1. CASE last
    <3>1. v1 \in Variables
      BY <1>5, <2>1 DEF last
    <3>2. /\ trace' \in [Variables -> SUBSET Traces] /\ trace'[v1] = {}
          /\ \A w \in Variables \ {v1} : trace'[w] = trace[w]
          /\ freed' = freed \cup {v1} \cup trace[v1]
          /\ trace[v1] \subseteq Traces
      BY <1>4, <1>8, <2>1, <3>1 DEF GvarTypes
    <3>3. \A w \in Variables : v1 \notin trace[w] /\ w \notin trace[v1]
      BY <1>8, <3>1 DEF GvarTypes, GvarUse
    <3>4. Lists'
      BY <1>8, <3>1, <3>2, <3>3 DEF Lists
    <3>5. QED
      BY <2>1, <3>1, <3>2, <3>3, <3>4
  <2>2. CASE ~last
    BY <1>4, <1>8, <2>2 DEF Lists, GvarTypes
  <2>3. QED
    BY <2>1, <2>2
<1>10. Counted(entry', counter', freed')
  <2> SUFFICES ASSUME NEW w \in Variables
               PROVE  /\ counter'[w] = Cardinality(NamesOf(entry', w))
                      /\ w \in freed' => counter'[w] = 0
    BY DEF Counted
  <2>1. c[w] = Cardinality(NamesOf(e, w)) /\ (w \in freed => c[w] = 0) /\ c[w] \in Int
    BY <1>2 DEF Counted
  <2>2. CASE w = v2
    BY <1>2, <1>3, <1>6, <1>7, <1>9, <2>1, <2>2
  <2>3. CASE w = v1 /\ w # v2
    <3>1. counter'[w] = Cardinality(NamesOf(entry', w))
      BY <1>6, <1>7, <2>1, <2>3
    <3>2. w \notin freed
      <4>1. n \in NamesOf(e, w) /\ NamesOf(e, w) \in SUBSET Names
        BY <2>3 DEF NamesOf, v1
      <4>2. Cardinality(NamesOf(e, w)) # 0
        BY <4>1, FS_Subset, FS_EmptySet DEF GvarUse
      <4>3. QED
        BY <2>1, <4>2
    <3>3. w \in freed' => c[w] = 1
      BY <1>9, <2>3, <3>2 DEF last
    <3>4. QED
      BY <1>7, <2>3, <3>1, <3>3
  <2>4. CASE w \notin {v1, v2}
    BY <1>6, <1>7, <1>9, <2>1, <2>4
  <2>5. QED
    BY <2>2, <2>3, <2>4
<1>11. GvarTypes' /\ Blocked'
  BY <1>3, <1>6, <1>7, <1>8, <1>9 DEF GvarTypes, Blocked
<1>12. \A w \in Variables : running'[w] # NoEntry => running'[w] \in trace'[w] /\ w \notin freed'
  <2>1. v1 \in Variables => running[v1] = NoEntry
    BY <1>3, <1>5, <1>8 DEF Blocked
  <2>2. QED
    BY <1>3, <1>9, <2>1, GvarInvParts
<1>13. \A w \in Variables : ~block_trace'[w] => \A u \in trace'[w] : ~removed'[u]
  BY <1>3, <1>9, GvarInvParts
<1>14. QED
  BY <1>9, <1>10, <1>11, <1>12, <1>13, GvarInvNext

LEMMA GvarStarts ==
  ASSUME GvarUse, Gvar!Init
  PROVE  GvarInv
<1>1. /\ entry = [n \in Names |-> NoEntry] /\ counter = [v \in Variables |-> 0]
      /\ trace = [v \in Variables |-> {}] /\ block_trace = [v \in Variables |-> FALSE]
      /\ removed = [t \in Traces |-> FALSE] /\ running = [v \in Variables |-> NoEntry]
      /\ freed = {} /\ NoEntry \notin Variables
  BY DEF Gvar!Init, GvarUse
<1>2. GvarTypes /\ Lists /\ Blocked
  BY <1>1 DEF GvarTypes, Lists, Blocked
<1>3. TracerAlive /\ RemovedGone
  BY <1>1 DEF TracerAlive, RemovedGone
<1>4. GvarCounted
  <2>1. \A v \in Variables : {n \in Names : entry[n] = v} = {}
    BY <1>1
  <2>2. QED
    BY <1>1, <2>1, FS_EmptySet DEF GvarCounted
<1>5. QED
  BY <1>2, <1>3, <1>4 DEF GvarInv, GvarSound

LEMMA GvarSteps ==
  ASSUME GvarUse, GvarInv, [Gvar!Next]_Gvar!vars
  PROVE  GvarInv'
<1>1. CASE UNCHANGED Gvar!vars
  <2>1. UNCHANGED <<entry, counter, trace, removed, block_trace, running, freed>>
    BY <1>1 DEF Gvar!vars, Gvar!gvars, Gvar!lists
  <2>2. QED
    BY <2>1 DEF GvarInv, GvarTypes, Lists, Blocked, GvarSound, TracerAlive, RemovedGone, GvarCounted
<1>2. QED
  BY <1>1, GlobalEntryKeeps, TraceVarKeeps, UntraceVarKeeps, GvarSetKeeps, TraceEvKeeps,
     TraceEnKeeps, AliasKeeps DEF Gvar!Next

\* However tracers set, trace, untrace and alias the variables whose traces are
\* being called, no freed trace or variable is used, removed traces are gone
\* afterwards, and a variable lives as long as it has a name.
THEOREM GvarIsSound ==
  ASSUME GvarUse
  PROVE  Gvar!Spec => []GvarSound
<1>1. Gvar!Init => GvarInv
  BY GvarStarts
<1>2. GvarInv /\ [Gvar!Next]_Gvar!vars => GvarInv'
  BY GvarSteps
<1>3. GvarInv => GvarSound
  BY DEF GvarInv
<1>4. QED
  BY <1>1, <1>2, <1>3, PTL DEF Gvar!Spec

-----------------------------------------------------------------------------
(* Numbers and the method tables.                                           *)

\* A set of numbers that is not empty has a least one, and a set of numbers that
\* has 0 and the successor of each of its members below N has all up to N.
LEMMA LeastNumber ==
  ASSUME NEW S, S \subseteq Nat, S # {}
  PROVE  \E n \in S : \A m \in S : n <= m
<1>1. PICK n \in S : \A m \in S : ~(<<m, n>> \in OpToRel(<, Nat))
  BY WFMin, NatLessThanWellFounded
<1>2. \A m \in S : ~(m < n)
  BY <1>1 DEF OpToRel
<1>3. QED
  BY <1>2

LEMMA UpTo ==
  ASSUME NEW N \in Nat, NEW P, 0 \in P, \A n \in 1..N : n - 1 \in P => n \in P
  PROVE  \A n \in 0..N : n \in P
<1> DEFINE B == {n \in 0..N : n \notin P}
<1>1. SUFFICES ASSUME B # {} PROVE FALSE
  OBVIOUS
<1>2. B \subseteq Nat
  OBVIOUS
<1> HIDE DEF B
<1>3. PICK n \in B : \A m \in B : n <= m
  BY <1>1, <1>2, LeastNumber
<1> USE DEF B
<1>4. n \in 1..N /\ n - 1 \in 0..N /\ n - 1 \notin B
  BY <1>3
<1>5. QED
  BY <1>3, <1>4

-----------------------------------------------------------------------------
(* Chains.                                                                  *)

Depth == Cardinality(All)

\* What one turn of a walk up the super pointers s adds to the chain so far.
Longer(s, lower) ==
  LET above == s[Last(lower)] IN IF above = Nil THEN lower ELSE Append(lower, above)

Walk(s, c) ==
  LET from[n \in 0..Cardinality(All)] ==
        IF n = 0 THEN <<c>>
        ELSE LET lower == from[n - 1]
                 above == s[Last(lower)]
             IN IF above = Nil THEN lower ELSE Append(lower, above)
  IN from

LEMMA DepthNat == Depth \in Nat
BY ClassAssumption, FS_CardinalityType DEF Depth

LEMMA WalkTurns ==
  ASSUME NEW s, NEW c
  PROVE  /\ Chain(s, c) = Walk(s, c)[Depth]
         /\ Walk(s, c)[0] = <<c>>
         /\ \A n \in 1..Depth : Walk(s, c)[n] = Longer(s, Walk(s, c)[n - 1])
<1> DEFINE Turns(g, n) == g = [k \in 0..n |-> IF k = 0 THEN <<c>> ELSE Longer(s, g[k - 1])]
           P == {n \in Nat : \E g : Turns(g, n)}
<1>1. Chain(s, c) = Walk(s, c)[Depth]
  BY DEF Chain, Walk, Depth
<1>2. 0 \in P
  <2>1. Turns([k \in 0..0 |-> <<c>>], 0)
    OBVIOUS
  <2>2. QED
    BY <2>1
<1>3. ASSUME NEW n \in 1..Depth, n - 1 \in P PROVE n \in P
  <2>1. PICK g : Turns(g, n - 1)
    BY <1>3
  <2> DEFINE h == [k \in 0..n |-> IF k = 0 THEN <<c>> ELSE Longer(s, g[k - 1])]
  <2>2. \A k \in 0..(n - 1) : h[k] = g[k]
    BY <2>1, DepthNat
  <2>3. \A k \in 0..n : k # 0 => k - 1 \in 0..(n - 1)
    BY DepthNat
  <2> HIDE DEF h
  <2>4. [k \in 0..n |-> IF k = 0 THEN <<c>> ELSE Longer(s, g[k - 1])]
         = [k \in 0..n |-> IF k = 0 THEN <<c>> ELSE Longer(s, h[k - 1])]
    BY <2>2, <2>3
  <2>5. Turns(h, n)
    BY <2>4 DEF h
  <2>6. QED
    BY <2>5, DepthNat
<1> HIDE DEF P
<1>4. Depth \in P
  BY <1>2, <1>3, UpTo, DepthNat
<1>5. PICK g : Turns(g, Depth)
  BY <1>4 DEF P
<1>6. Walk(s, c) = CHOOSE h : Turns(h, Depth)
  BY DEF Walk, Longer, Depth
<1>7. Turns(Walk(s, c), Depth)
  BY <1>5, <1>6
<1>8. QED
  BY <1>1, <1>7, DepthNat

\* The chain of a member of a set L that the pointers do not leave is in L, and
\* depends only on the pointers of L.
Inside(s, L) == \A d \in L : s[d] \in L \cup {Nil}

LEMMA ChainInside ==
  ASSUME NEW s, NEW L, Inside(s, L), NEW c \in L
  PROVE  Chain(s, c) \in Seq(L) /\ Chain(s, c) # <<>>
<1> DEFINE P == {n \in 0..Depth : Walk(s, c)[n] \in Seq(L) /\ Walk(s, c)[n] # <<>>}
<1>1. 0 \in P
  <2>1. <<c>> \in Seq(L) /\ <<c>> # <<>>
    OBVIOUS
  <2>2. Walk(s, c)[0] = <<c>> /\ 0 \in 0..Depth
    BY WalkTurns, DepthNat
  <2>3. QED
    BY <2>1, <2>2
<1>2. ASSUME NEW n \in 1..Depth, n - 1 \in P PROVE n \in P
  <2> DEFINE w == Walk(s, c)[n - 1]
  <2>1. w \in Seq(L) /\ w # <<>> /\ Last(w) \in L
    BY <1>2 DEF Last
  <2>2. s[Last(w)] \in L \cup {Nil}
    BY <2>1 DEF Inside
  <2>3. Longer(s, w) \in Seq(L) /\ Longer(s, w) # <<>>
    BY <2>1, <2>2 DEF Longer
  <2>4. QED
    BY <2>3, WalkTurns, DepthNat
<1> HIDE DEF P
<1>3. Depth \in P
  BY <1>1, <1>2, UpTo, DepthNat
<1>4. QED
  BY <1>3, WalkTurns DEF P

LEMMA ChainSame ==
  ASSUME NEW s, NEW r, NEW L, Inside(s, L), \A d \in L : r[d] = s[d], NEW c \in L
  PROVE  Chain(r, c) = Chain(s, c)
<1> DEFINE P == {n \in 0..Depth : /\ Walk(s, c)[n] \in Seq(L) /\ Walk(s, c)[n] # <<>>
                                  /\ Walk(r, c)[n] = Walk(s, c)[n]}
<1>1. 0 \in P
  <2>1. <<c>> \in Seq(L) /\ <<c>> # <<>>
    OBVIOUS
  <2>2. Walk(s, c)[0] = <<c>> /\ Walk(r, c)[0] = <<c>> /\ 0 \in 0..Depth
    BY WalkTurns, DepthNat
  <2>3. QED
    BY <2>1, <2>2
<1>2. ASSUME NEW n \in 1..Depth, n - 1 \in P PROVE n \in P
  <2> DEFINE w == Walk(s, c)[n - 1]
  <2>1. w \in Seq(L) /\ w # <<>> /\ Last(w) \in L /\ Walk(r, c)[n - 1] = w
    BY <1>2 DEF Last
  <2>2. s[Last(w)] \in L \cup {Nil} /\ r[Last(w)] = s[Last(w)]
    BY <2>1 DEF Inside
  <2>3. Longer(s, w) \in Seq(L) /\ Longer(s, w) # <<>> /\ Longer(r, w) = Longer(s, w)
    BY <2>1, <2>2 DEF Longer
  <2>4. QED
    BY <2>1, <2>3, WalkTurns, DepthNat
<1> HIDE DEF P
<1>3. Depth \in P
  BY <1>1, <1>2, UpTo, DepthNat
<1>4. QED
  BY <1>3, WalkTurns DEF P

-----------------------------------------------------------------------------
(* Searching a method.                                                      *)

\* The places on the chain of c with an entry for mid.
Places(c, mid) == {i \in 1..Len(Ancestors(c)) : m_tbl[Table(Ancestors(c)[i])][mid] # Nil}

LEMMA Searched ==
  ASSUME NEW c, NEW mid
  PROVE  search_method(c, mid) = IF Places(c, mid) = {} THEN Nil
                                 ELSE Ancestors(c)[Min(Places(c, mid))]
<1>1. SelectInSeq(Ancestors(c), LAMBDA a : m_tbl[Table(a)][mid] # Nil)
        = IF Places(c, mid) # {} THEN Min(Places(c, mid)) ELSE 0
  BY DEF SelectInSeq, Places
<1>2. CASE Places(c, mid) = {}
  BY <1>1, <1>2 DEF search_method
<1>3. CASE Places(c, mid) # {}
  <2>1. Min(Places(c, mid)) \in Places(c, mid)
    <3>1. Places(c, mid) \subseteq Nat
      BY DEF Places
    <3>2. \E n \in Places(c, mid) : \A m \in Places(c, mid) : n <= m
      BY <1>3, <3>1, LeastNumber
    <3>3. QED
      BY <3>2 DEF Min
  <2>2. Min(Places(c, mid)) # 0
    BY <2>1 DEF Places
  <2>3. QED
    BY <1>1, <1>3, <2>2 DEF search_method
<1>4. QED
  BY <1>2, <1>3

LEMMA Found ==
  ASSUME NEW c, NEW mid, search_method(c, mid) # Nil
  PROVE  \E i \in Places(c, mid) : search_method(c, mid) = Ancestors(c)[i]
<1>1. Places(c, mid) # {} /\ search_method(c, mid) = Ancestors(c)[Min(Places(c, mid))]
  BY Searched
<1>2. Places(c, mid) \subseteq Nat
  BY DEF Places
<1>3. \E n \in Places(c, mid) : \A m \in Places(c, mid) : n <= m
  BY <1>1, <1>2, LeastNumber
<1>4. Min(Places(c, mid)) \in Places(c, mid)
  BY <1>3 DEF Min
<1>5. QED
  BY <1>1, <1>4

\* The tables and the chain of c give the same for mid as before.
SameFor(c, mid) ==
  /\ search_method(c, mid)' = search_method(c, mid)
  /\ search_method(c, mid) # Nil =>
       Method(search_method(c, mid), mid)' = Method(search_method(c, mid), mid)
  /\ Entry(c, mid)' = Entry(c, mid)

\* The search takes the same way when the same tables have an entry.
LEMMA SameWay ==
  ASSUME NEW c, NEW mid, NEW L, Ancestors(c) \in Seq(L), Ancestors(c)' = Ancestors(c),
         \A a \in L : Method(a, mid)' = Nil <=> Method(a, mid) = Nil
  PROVE  search_method(c, mid)' = search_method(c, mid)
<1>1. ASSUME NEW i \in 1..Len(Ancestors(c))
      PROVE  Method(Ancestors(c)[i], mid)' = Nil <=> Method(Ancestors(c)[i], mid) = Nil
  <2>1. Ancestors(c)[i] \in L
    OBVIOUS
  <2>2. \A a : a = Ancestors(c)[i] => (Method(a, mid)' = Nil <=> Method(a, mid) = Nil)
    BY <2>1
  <2>3. QED
    BY <2>1, <2>2 DEF Method, Table
<1>2. Places(c, mid)' = Places(c, mid)
  BY <1>1 DEF Places, Method, Table
<1>3. SelectInSeq(Ancestors(c), LAMBDA a : m_tbl[Table(a)][mid] # Nil)
        = IF Places(c, mid) # {} THEN Min(Places(c, mid)) ELSE 0
  BY DEF SelectInSeq, Places
<1>4. SelectInSeq(Ancestors(c), LAMBDA a : m_tbl[Table(a)][mid] # Nil)'
        = IF Places(c, mid)' # {} THEN Min(Places(c, mid)') ELSE 0
  BY DEF SelectInSeq, Places
<1>5. SelectInSeq(Ancestors(c), LAMBDA a : m_tbl[Table(a)][mid] # Nil)'
        = SelectInSeq(Ancestors(c), LAMBDA a : m_tbl[Table(a)][mid] # Nil)
  BY <1>2, <1>3, <1>4
<1>6. QED
  BY <1>5 DEF search_method

LEMMA SearchSame ==
  ASSUME NEW c, NEW mid, NEW L, Ancestors(c) \in Seq(L), Ancestors(c)' = Ancestors(c),
         \A a \in L : Method(a, mid)' = Method(a, mid)
  PROVE  SameFor(c, mid)
<1>1. search_method(c, mid)' = search_method(c, mid)
  BY SameWay
<1>2. search_method(c, mid) # Nil =>
        Method(search_method(c, mid), mid)' = Method(search_method(c, mid), mid)
  <2>1. SUFFICES ASSUME search_method(c, mid) # Nil
                 PROVE  Method(search_method(c, mid), mid)' = Method(search_method(c, mid), mid)
    OBVIOUS
  <2>2. search_method(c, mid) \in L
    BY <2>1, Found DEF Places
  <2>3. \A a : a = search_method(c, mid) => Method(a, mid)' = Method(a, mid)
    BY <2>2
  <2>4. QED
    BY <1>1, <2>3 DEF Method, Table
<1>3. QED
  BY <1>1, <1>2 DEF SameFor, Entry

-----------------------------------------------------------------------------
(* The invariant.                                                           *)

CacheTypes ==
  /\ super \in [All -> All \cup {Nil}]
  /\ owner \in [Iclasses -> Modules \cup {Nil}]
  /\ live \subseteq All /\ {Root} \cup Modules \subseteq live
  /\ m_tbl \in [Tables -> [Mids -> Methods \cup {Nil}]]
  /\ DOMAIN cache = Slots
  /\ aborted \in BOOLEAN

\* Chains stay among what is in use, and iclasses share the tables of modules.
\* From a module the chain leads to iclasses only (ModuleSet), so that no class
\* that is freed has its table in another chain.
Owned == \A i \in live \cap Iclasses : owner[i] \in Modules
ModuleSet(S) == /\ Modules \subseteq S /\ S \subseteq live \ Classes
                /\ Inside(super, S)
Chains == Inside(super, live) /\ Owned /\ \E S \in SUBSET live : ModuleSet(S)

\* The class of an entry is in use, unless its address was freed.
CachedKnown == \A e \in Cached : e.klass \in live \cup reused /\ e.mid \in Mids

CacheInv == CacheTypes /\ Chains /\ CachedKnown /\ MethodsCurrent

LEMMA LiveChain ==
  ASSUME CacheTypes, Chains, NEW c \in live
  PROVE  Ancestors(c) \in Seq(live) /\ Ancestors(c) # <<>>
BY ChainInside DEF Chains, Ancestors

LEMMA LiveTable ==
  ASSUME CacheTypes, Chains, NEW c \in live
  PROVE  Table(c) \in Tables
BY DEF CacheTypes, Chains, Owned, Table, Tables, All

LEMMA FoundLive ==
  ASSUME CacheTypes, Chains, NEW c \in live, NEW mid, search_method(c, mid) # Nil
  PROVE  search_method(c, mid) \in live /\ Method(search_method(c, mid), mid) # Nil
<1>1. PICK i \in Places(c, mid) : search_method(c, mid) = Ancestors(c)[i]
  BY Found
<1>2. Ancestors(c) \in Seq(live)
  BY LiveChain
<1>3. QED
  BY <1>1, <1>2 DEF Places, Method

\* A step keeps the cache current that drops entries and changes nothing that
\* the search for a remaining one meets.
LEMMA CacheKeeps ==
  ASSUME MethodsCurrent, Cached' \subseteq Cached, ~aborted' => ~aborted,
         reused \subseteq reused',
         \A e \in Cached' : e.klass \notin reused' => SameFor(e.klass, e.mid)
  PROVE  MethodsCurrent'
<1>1. CachedBodyCurrent'
  BY DEF MethodsCurrent, CachedBodyCurrent, SameFor
<1>2. CachedNoexCurrent'
  <2>1. SUFFICES ASSUME ~aborted', NEW e \in Cached', e.klass \notin reused',
                        search_method(e.klass, e.mid)' \in Classes,
                        Method(search_method(e.klass, e.mid), e.mid)'.orig = Nil
                 PROVE  e.noex = (Entry(e.klass, e.mid).noex)'
    BY DEF CachedNoexCurrent
  <2>2. SameFor(e.klass, e.mid) /\ e \in Cached /\ e.klass \notin reused /\ ~aborted
    BY <2>1
  <2>3. search_method(e.klass, e.mid) \in Classes
    BY <2>1, <2>2 DEF SameFor
  <2>4. search_method(e.klass, e.mid) # Nil
    BY <2>3, NilAssumption DEF All, Tables
  <2>5. Method(search_method(e.klass, e.mid), e.mid).orig = Nil
    BY <2>1, <2>2, <2>4 DEF SameFor
  <2>6. QED
    BY <2>2, <2>3, <2>5 DEF MethodsCurrent, CachedNoexCurrent, SameFor
<1>3. QED
  BY <1>1, <1>2 DEF MethodsCurrent

\* Chains as they were lead where they led.
LEMMA ChainsKept ==
  ASSUME CacheTypes, Chains, UNCHANGED <<super, owner, live>>
  PROVE  Chains' /\ \A c : Ancestors(c)' = Ancestors(c) /\ Table(c)' = Table(c)
<1>1. Inside(super, live)' /\ Owned'
  BY DEF Chains, Owned, Inside
<1>2. PICK S \in SUBSET live : ModuleSet(S)
  BY DEF Chains
<1>3. S \in SUBSET live' /\ ModuleSet(S)'
  BY <1>2 DEF ModuleSet, Inside
<1>4. Chains'
  BY <1>1, <1>3 DEF Chains
<1>5. QED
  BY <1>4 DEF Ancestors, Table, Chain

\* A change of one table for one name, whose entries leave the cache.
LEMMA TableChanged ==
  ASSUME CacheInv, NEW c \in Tables, NEW mid \in Mids,
         m_tbl' \in [Tables -> [Mids -> Methods \cup {Nil}]],
         \A x \in Tables, y \in Mids : x # c \/ y # mid => m_tbl'[x][y] = m_tbl[x][y],
         UNCHANGED <<super, owner, live, reused>>,
         aborted' \in BOOLEAN, aborted => aborted',
         DOMAIN cache' = Slots, Cached' \subseteq Cached,
         aborted' \/ \A e \in Cached' : e.mid # mid
  PROVE  CacheInv'
<1> USE DEF CacheInv
<1>1. CacheTypes'
  BY DEF CacheTypes
<1>2. Chains' /\ \A x : Ancestors(x)' = Ancestors(x) /\ Table(x)' = Table(x)
  BY ChainsKept
<1>3. CachedKnown'
  BY DEF CachedKnown
<1>4. CASE aborted'
  BY <1>1, <1>2, <1>3, <1>4 DEF MethodsCurrent, CachedBodyCurrent, CachedNoexCurrent
<1>5. CASE ~aborted'
  <2>1. ASSUME NEW e \in Cached', e.klass \notin reused' PROVE SameFor(e.klass, e.mid)
    <3>1. e.klass \in live /\ e.mid \in Mids /\ e.mid # mid
      BY <1>5, <2>1 DEF CachedKnown
    <3>2. Ancestors(e.klass) \in Seq(live)
      BY <3>1, LiveChain
    <3>3. ASSUME NEW a \in live PROVE Method(a, e.mid)' = Method(a, e.mid)
      BY <1>2, <3>1, LiveTable DEF Method
    <3>4. QED
      BY <1>2, <3>2, <3>3, SearchSame
  <2>2. MethodsCurrent'
    BY <1>5, <2>1, CacheKeeps
  <2>3. QED
    BY <1>1, <1>2, <1>3, <2>2
<1>6. QED
  BY <1>4, <1>5

-----------------------------------------------------------------------------
(* MethodCache searches the tables as MethodTables says.                    *)

LEMMA TablesOfCache ==
  /\ Cache!Tables = Tables /\ Cache!All = All /\ Cache!Slots = Slots
  /\ Cache!Empty = Empty /\ Cache!Undef = Undef /\ Cache!Zsuper = Zsuper
  /\ Cache!Noexes = Noexes
BY DEF Cache!Tables, Tables, Cache!All, All, Cache!Slots, Slots, Cache!Keys, Keys,
       Cache!Empty, Empty, Cache!Undef, Undef, Cache!Zsuper, Zsuper, Cache!Noexes, Noexes

LEMMA ChainsOfCache ==
  /\ \A c : Cache!Table(c) = Table(c)
  /\ \A s, c : Cache!Chain(s, c) = Chain(s, c)
  /\ \A c : Cache!Ancestors(c) = Ancestors(c)
<1>1. \A c : Cache!Table(c) = Table(c)
  BY DEF Cache!Table, Table
<1>2. \A s, c : Cache!Chain(s, c) = Chain(s, c)
  BY DEF Cache!Chain, Chain, Cache!Last, Last, Cache!All, All, Cache!Tables, Tables,
         Cache!Cardinality, Cardinality
<1>3. QED
  BY <1>1, <1>2 DEF Cache!Ancestors, Ancestors

LEMMA SearchOfCache ==
  /\ \A c, mid : Cache!search_method(c, mid) = search_method(c, mid)
  /\ \A c, mid : Cache!Method(c, mid) = Method(c, mid)
  /\ \A c, mid : Cache!Entry(c, mid) = Entry(c, mid)
<1>1. \A c, mid : Cache!Method(c, mid) = Method(c, mid)
  BY ChainsOfCache DEF Cache!Method, Method
<1>2. \A c, mid : Cache!search_method(c, mid) = search_method(c, mid)
  <2>1. ASSUME NEW c, NEW mid
        PROVE  Cache!search_method(c, mid) = search_method(c, mid)
    <3> DEFINE I == {i \in 1..Len(Ancestors(c)) : m_tbl[Table(Ancestors(c)[i])][mid] # Nil}
    <3>1. SelectInSeq(Ancestors(c), LAMBDA a : m_tbl[Table(a)][mid] # Nil)
            = IF I # {} THEN Min(I) ELSE 0
      BY DEF SelectInSeq
    <3> DEFINE J == {i \in 1..Len(Cache!Ancestors(c)) :
                       m_tbl[Cache!Table(Cache!Ancestors(c)[i])][mid] # Nil}
    <3>2. Cache!SelectInSeq(Cache!Ancestors(c), LAMBDA a : m_tbl[Cache!Table(a)][mid] # Nil)
            = IF I # {} THEN Min(I) ELSE 0
      <4>1. I = J
        BY ChainsOfCache
      <4>2. Cache!SelectInSeq(Cache!Ancestors(c), LAMBDA a : m_tbl[Cache!Table(a)][mid] # Nil)
            = IF J # {} THEN Cache!Min(J) ELSE 0
        BY DEF Cache!SelectInSeq
      <4>3. Cache!Min(J) = Min(J)
        BY DEF Cache!Min, Min
      <4>4. QED
        BY <4>1, <4>2, <4>3
    <3>3. QED
      BY <3>1, <3>2, ChainsOfCache DEF Cache!search_method, search_method
  <2>2. QED
    BY <2>1
<1>3. QED
  BY <1>1, <1>2, TablesOfCache DEF Cache!Entry, Entry

-----------------------------------------------------------------------------
(* The cache after its entries of a name or of a class have been dropped.   *)

LEMMA ClearedByIdKeeps ==
  ASSUME NEW c, NEW mid, DOMAIN cache = Slots, cache' = Cache!ClearedById(c, mid)
  PROVE  /\ DOMAIN cache' = Slots /\ Cached' \subseteq Cached
         /\ \A e \in Cached' : e.mid # mid
BY TablesOfCache DEF Cache!ClearedById, Cached

LEMMA ClearedByClassKeeps ==
  ASSUME NEW c, NEW k, DOMAIN k = Slots, cache' = Cache!ClearedByClass(k, c)
  PROVE  /\ DOMAIN cache' = Slots
         /\ \A e \in Cached' : e.origin # c /\ \E s \in Slots : e = k[s] /\ k[s] # Empty
BY TablesOfCache DEF Cache!ClearedByClass, Cached

-----------------------------------------------------------------------------
(* Changes of one method.                                                   *)

LEMMA OneEntry ==
  ASSUME CacheTypes, NEW c \in Tables, NEW mid \in Mids, NEW m \in Methods \cup {Nil},
         m_tbl' = [m_tbl EXCEPT ![c][mid] = m]
  PROVE  /\ m_tbl' \in [Tables -> [Mids -> Methods \cup {Nil}]]
         /\ \A x \in Tables, y \in Mids : x # c \/ y # mid => m_tbl'[x][y] = m_tbl[x][y]
         /\ m_tbl'[c][mid] = m
BY DEF CacheTypes

\* The entry of one method is replaced, and those of its name leave the cache.
LEMMA OneMethod ==
  ASSUME CacheInv, NEW c \in Tables, NEW mid \in Mids, NEW m \in Methods \cup {Nil},
         m_tbl' = [m_tbl EXCEPT ![c][mid] = m], cache' = Cache!ClearedById(c, mid),
         UNCHANGED <<super, owner, live, aborted, reused>>
  PROVE  CacheInv'
<1>1. /\ m_tbl' \in [Tables -> [Mids -> Methods \cup {Nil}]]
      /\ \A x \in Tables, y \in Mids : x # c \/ y # mid => m_tbl'[x][y] = m_tbl[x][y]
  BY OneEntry, ZenonT(30) DEF CacheInv
<1>2. /\ DOMAIN cache' = Slots /\ Cached' \subseteq Cached
      /\ \A e \in Cached' : e.mid # mid
  BY ClearedByIdKeeps DEF CacheInv, CacheTypes
<1>3. aborted' \in BOOLEAN /\ (aborted => aborted')
  BY DEF CacheInv, CacheTypes
<1>4. QED
  BY <1>1, <1>2, <1>3, TableChanged

LEMMA AddMethodKeeps ==
  ASSUME CacheInv, NEW c \in Tables, NEW mid \in Mids, NEW noex \in Noexes,
         NEW body \in Bodies \cup {Undef, Zsuper}, Cache!rb_add_method(c, mid, body, noex)
  PROVE  CacheInv'
<1>1. Cache!NewMethod(body, noex, Nil, mid) \in Methods
  BY DEF Cache!NewMethod, Methods
<1>2. QED
  BY <1>1, OneMethod DEF Cache!rb_add_method

LEMMA RemoveKeeps ==
  ASSUME CacheInv, NEW c \in Tables, NEW mid \in Mids, Cache!remove_method(c, mid)
  PROVE  CacheInv'
<1>1. m_tbl' = [m_tbl EXCEPT ![c][mid] = Nil] /\ UNCHANGED <<super, owner, live, reused>>
  BY DEF Cache!remove_method
<1>2. CASE cache' = Cache!ClearedById(c, mid) /\ UNCHANGED aborted
  BY <1>1, <1>2, OneMethod
<1>3. CASE aborted' = TRUE /\ UNCHANGED cache
  <2>1. /\ m_tbl' \in [Tables -> [Mids -> Methods \cup {Nil}]]
        /\ \A x \in Tables, y \in Mids : x # c \/ y # mid => m_tbl'[x][y] = m_tbl[x][y]
    BY <1>1, OneEntry, ZenonT(30) DEF CacheInv
  <2>2. DOMAIN cache' = Slots /\ Cached' \subseteq Cached
    BY <1>3 DEF CacheInv, CacheTypes, Cached
  <2>3. aborted' \in BOOLEAN /\ (aborted => aborted') /\ aborted'
    BY <1>3
  <2>4. QED
    BY <1>1, <2>1, <2>2, <2>3, TableChanged
<1>4. QED
  BY <1>2, <1>3 DEF Cache!remove_method

\* rb_alias and rb_export_method find a class with an entry, if any.
LEMMA SeenLive ==
  ASSUME CacheInv, NEW c \in live, NEW mid, NEW unfit, Cache!Seen(c, mid, unfit) # Nil
  PROVE  /\ Cache!Seen(c, mid, unfit) \in live
         /\ Method(Cache!Seen(c, mid, unfit), mid) # Nil
<1>1. Root \in live
  BY DEF CacheInv, CacheTypes
<1>2. \/ Cache!Seen(c, mid, unfit) = search_method(c, mid)
      \/ Cache!Seen(c, mid, unfit) = search_method(Root, mid)
  BY SearchOfCache DEF Cache!Seen
<1>3. QED
  BY <1>1, <1>2, FoundLive DEF CacheInv

LEMMA MethodAliasKeeps ==
  ASSUME CacheInv, NEW c \in Tables, NEW name \in Mids, NEW def \in Mids,
         Cache!rb_alias(c, name, def)
  PROVE  CacheInv'
<1> DEFINE origin == Cache!Seen(c, def, {Cache!Undef})
           m == Cache!Method(origin, def)
           new == IF m.orig = Nil THEN Cache!NewMethod(m.body, m.noex, origin, def) ELSE m
<1>1. /\ c \in live /\ origin # Nil /\ m_tbl' = [m_tbl EXCEPT ![c][name] = new]
      /\ cache' = Cache!ClearedById(c, name) /\ UNCHANGED <<super, owner, live, aborted, reused>>
  BY DEF Cache!rb_alias, Cache!Changes
<1>2. origin \in live /\ m = Method(origin, def) /\ m # Nil
  BY <1>1, SeenLive, SearchOfCache
<1>3. Table(origin) \in Tables
  BY <1>2, LiveTable DEF CacheInv
<1>4. m \in Methods
  BY <1>2, <1>3 DEF Method, CacheInv, CacheTypes
<1>5. origin \in All
  BY <1>2 DEF CacheInv, CacheTypes
<1> HIDE DEF m, origin
<1>6. new \in Methods
  BY <1>4, <1>5 DEF Methods, Cache!NewMethod
<1> HIDE DEF new
<1>7. QED
  BY <1>1, <1>6, OneMethod

LEMMA SameTables ==
  ASSUME CacheTypes, Chains, UNCHANGED <<super, owner, live, m_tbl>>
  PROVE  \A c \in live : \A mid : SameFor(c, mid)
<1> TAKE c \in live
<1> TAKE mid
<1>1. \A x : Ancestors(x)' = Ancestors(x) /\ Table(x)' = Table(x)
  BY ChainsKept
<1>2. Ancestors(c) \in Seq(live)
  BY LiveChain
<1>3. \A a \in live : Method(a, mid)' = Method(a, mid)
  BY <1>1 DEF Method
<1>4. QED
  BY <1>1, <1>2, <1>3, SearchSame

-----------------------------------------------------------------------------
(* Visibility.                                                              *)

\* The visibility of a method of c changes in place, and the entries for what c
\* defines leave the cache: an entry for the method that stays is that of an
\* alias, or was found through an iclass.
LEMMA InPlaceKeeps ==
  ASSUME CacheInv, NEW c \in Tables, NEW mid \in Mids, NEW noex \in Noexes,
         m_tbl[c][mid] # Nil, m_tbl' = [m_tbl EXCEPT ![c][mid].noex = noex],
         cache' = Cache!ClearedByClass(cache, c),
         UNCHANGED <<super, owner, live, aborted, reused>>
  PROVE  CacheInv'
<1> DEFINE m == m_tbl[c][mid]
           m2 == [m EXCEPT !.noex = noex]
<1>1. m \in Methods
  BY DEF CacheInv, CacheTypes
<1>2. /\ m2 \in Methods /\ m2.body = m.body /\ m2.orig = m.orig /\ m2.mid0 = m.mid0
  BY <1>1 DEF Methods
<1>3. m_tbl' = [m_tbl EXCEPT ![c][mid] = m2]
  OBVIOUS
<1> HIDE DEF m2
<1>4. /\ m_tbl' \in [Tables -> [Mids -> Methods \cup {Nil}]]
      /\ \A x \in Tables, y \in Mids : x # c \/ y # mid => m_tbl'[x][y] = m_tbl[x][y]
      /\ m_tbl'[c][mid] = m2
  <2>1. CacheTypes /\ m2 \in Methods \cup {Nil}
    BY <1>2 DEF CacheInv
  <2>2. QED
    BY <1>3, <2>1 DEF CacheTypes
<1>5. DOMAIN cache' = Slots /\ \A e \in Cached' : e \in Cached /\ e.origin # c
  BY ClearedByClassKeeps DEF CacheInv, CacheTypes, Cached
<1>6. CacheTypes'
  BY <1>4, <1>5 DEF CacheInv, CacheTypes
<1>7. Chains' /\ \A x : Ancestors(x)' = Ancestors(x) /\ Table(x)' = Table(x)
  BY ChainsKept DEF CacheInv
<1>8. CachedKnown'
  BY <1>5 DEF CacheInv, CachedKnown
<1>9. m2 # Nil /\ m # Nil
  BY <1>1, <1>2, NilAssumption
<1> HIDE DEF m
<1>10. ASSUME NEW a \in live, NEW y \in Mids
       PROVE  \/ Method(a, y)' = Method(a, y)
              \/ /\ Table(a) = c /\ y = mid
                 /\ Method(a, y) = m /\ Method(a, y)' = m2
  <2>1. Table(a) \in Tables
    BY LiveTable DEF CacheInv
  <2>2. QED
    BY <1>4, <1>7, <2>1 DEF Method, m
<1>11. ASSUME ~aborted, NEW e \in Cached', e.klass \notin reused
       PROVE  LET o == search_method(e.klass, e.mid)
                  f == Entry(e.klass, e.mid)
              IN /\ e \in Cached /\ e.klass \in live /\ e.mid \in Mids /\ e.origin # c
                 /\ (search_method(e.klass, e.mid))' = o
                 /\ \/ SameFor(e.klass, e.mid)
                    \/ /\ o \in live /\ Table(o) = c /\ e.mid = mid
                       /\ Method(o, mid) = m /\ (Method(search_method(e.klass, e.mid), mid))' = m2
  <2>1. e \in Cached /\ e.klass \in live /\ e.mid \in Mids /\ e.origin # c
    BY <1>5, <1>11 DEF CacheInv, CachedKnown
  <2>2. Ancestors(e.klass) \in Seq(live)
    BY <2>1, LiveChain DEF CacheInv
  <2>3. (search_method(e.klass, e.mid))' = search_method(e.klass, e.mid)
    BY <1>7, <1>9, <1>10, <2>1, <2>2, SameWay
  <2>4. CASE search_method(e.klass, e.mid) = Nil
    BY <2>1, <2>3, <2>4 DEF SameFor, Entry
  <2>5. CASE search_method(e.klass, e.mid) # Nil
    <3> DEFINE o == search_method(e.klass, e.mid)
    <3>1. o \in live
      BY <2>1, <2>5, FoundLive DEF CacheInv
    <3>2. \A a \in live : a = o => (Method(search_method(e.klass, e.mid), e.mid))' = Method(a, e.mid)'
      BY <2>3 DEF Method, Table
    <3>3. CASE \A a \in live : a = o => Method(a, e.mid)' = Method(a, e.mid)
      <4>1. (Method(search_method(e.klass, e.mid), e.mid))' = Method(o, e.mid)
        BY <3>1, <3>2, <3>3
      <4>2. (Entry(e.klass, e.mid))' = Entry(e.klass, e.mid)
        BY <2>3, <4>1 DEF Entry
      <4>3. QED
        BY <2>1, <2>3, <4>1, <4>2 DEF SameFor
    <3>4. CASE \E a \in live : /\ a = o /\ Table(a) = c /\ e.mid = mid
                               /\ Method(a, e.mid) = m /\ Method(a, e.mid)' = m2
      BY <2>1, <2>3, <3>1, <3>2, <3>4
    <3>5. QED
      BY <1>10, <2>1, <3>1, <3>3, <3>4
  <2>6. QED
    BY <2>4, <2>5
<1>12. ASSUME ~aborted, NEW e \in Cached', e.klass \notin reused
       PROVE  LET o == search_method(e.klass, e.mid)
                  f == Entry(e.klass, e.mid)
                  f2 == (Entry(e.klass, e.mid))'
              IN /\ e.method = f.method /\ e.mid0 = f.mid0
                 /\ f.method # Nil => e.origin = f.origin
                 /\ f2.method = f.method /\ f2.mid0 = f.mid0 /\ f2.origin = f.origin
  <2> DEFINE o == search_method(e.klass, e.mid)
  <2>1. /\ e \in Cached /\ (search_method(e.klass, e.mid))' = o
        /\ \/ SameFor(e.klass, e.mid)
           \/ /\ Method(o, e.mid) = m
              /\ (Method(search_method(e.klass, e.mid), e.mid))' = m2
    BY <1>11, <1>12
  <2>2. /\ e.method = Entry(e.klass, e.mid).method /\ e.mid0 = Entry(e.klass, e.mid).mid0
        /\ Entry(e.klass, e.mid).method # Nil => e.origin = Entry(e.klass, e.mid).origin
    BY <1>12, <2>1 DEF CacheInv, MethodsCurrent, CachedBodyCurrent
  <2>3. CASE SameFor(e.klass, e.mid)
    BY <2>2, <2>3 DEF SameFor
  <2>4. CASE /\ Method(o, e.mid) = m
             /\ (Method(search_method(e.klass, e.mid), e.mid))' = m2
    BY <1>2, <2>1, <2>2, <2>4 DEF Entry
  <2>5. QED
    BY <2>1, <2>3, <2>4
<1>13. CachedBodyCurrent'
  BY <1>12 DEF CachedBodyCurrent
<1>14. CachedNoexCurrent'
  <2>1. SUFFICES ASSUME ~aborted, NEW e \in Cached', e.klass \notin reused,
                        (search_method(e.klass, e.mid))' \in Classes,
                        (Method(search_method(e.klass, e.mid), e.mid).orig)' = Nil
                 PROVE  e.noex = (Entry(e.klass, e.mid).noex)'
    BY DEF CachedNoexCurrent
  <2> DEFINE o == search_method(e.klass, e.mid)
  <2>2. /\ e \in Cached /\ (search_method(e.klass, e.mid))' = o /\ o \in Classes /\ o # Nil
        /\ e.origin # c
        /\ \/ SameFor(e.klass, e.mid)
           \/ /\ Table(o) = c /\ Method(o, e.mid) = m
              /\ (Method(search_method(e.klass, e.mid), e.mid))' = m2
    BY <1>11, <2>1, NilAssumption DEF All, Tables
  <2>3. Method(o, e.mid).orig = Nil => e.noex = Entry(e.klass, e.mid).noex
    BY <2>1, <2>2 DEF CacheInv, MethodsCurrent, CachedNoexCurrent
  <2>4. CASE SameFor(e.klass, e.mid)
    BY <2>1, <2>2, <2>3, <2>4 DEF SameFor
  <2>5. CASE /\ Table(o) = c /\ Method(o, e.mid) = m
             /\ (Method(search_method(e.klass, e.mid), e.mid))' = m2
    <3>1. o = c
      BY <2>2, <2>5, ClassAssumption DEF Table, Tables
    <3>2. m.orig = Nil
      BY <1>2, <2>1, <2>5
    <3>3. CASE m.body = Undef
      <4>1. Entry(e.klass, e.mid).noex = "public"
        BY <2>2, <2>5, <3>3 DEF Entry
      <4>2. (Entry(e.klass, e.mid).noex)' = "public"
        BY <1>2, <2>2, <2>5, <3>3 DEF Entry
      <4>3. QED
        BY <2>3, <2>5, <3>2, <4>1, <4>2
    <3>4. CASE m.body # Undef
      <4>1. m.body # Nil
        BY <1>1, NilAssumption DEF Methods
      <4>2. Entry(e.klass, e.mid).method = m.body /\ Entry(e.klass, e.mid).origin = o
        BY <2>2, <2>5, <3>2, <3>4 DEF Entry
      <4>3. e.origin = c
        BY <1>12, <2>1, <3>1, <4>1, <4>2
      <4>4. QED
        BY <2>2, <4>3
    <3>5. QED
      BY <3>3, <3>4
  <2>6. QED
    BY <2>2, <2>4, <2>5
<1>15. QED
  BY <1>6, <1>7, <1>8, <1>13, <1>14 DEF CacheInv, MethodsCurrent

LEMMA VisibilityKeeps ==
  ASSUME CacheInv, NEW c \in Tables, NEW mid \in Mids, NEW noex \in Noexes,
         Cache!set_method_visibility(c, mid, noex)
  PROVE  CacheInv'
<1> DEFINE origin == Cache!Seen(c, mid, {})
           changed == Cache!Method(origin, mid).noex # noex
           byId == Cache!ClearedById(c, mid)
<1>1. /\ c \in live /\ origin # Nil
      /\ m_tbl' = IF ~changed THEN m_tbl
                  ELSE IF origin = c THEN [m_tbl EXCEPT ![c][mid].noex = noex]
                  ELSE [m_tbl EXCEPT ![c][mid] = Cache!NewMethod(Cache!Zsuper, noex, Nil, mid)]
      /\ cache' = Cache!ClearedByClass(IF changed /\ origin # c THEN byId ELSE cache, c)
      /\ UNCHANGED <<super, owner, live, aborted, reused>>
  BY DEF Cache!set_method_visibility, Cache!rb_export_method, Cache!Changes
<1>2. origin \in live /\ Method(origin, mid) # Nil
  BY <1>1, SeenLive
<1>3. DOMAIN cache = Slots
  BY DEF CacheInv, CacheTypes
<1> HIDE DEF origin, changed, byId
<1>4. CASE ~changed
  <2>1. m_tbl' = m_tbl /\ cache' = Cache!ClearedByClass(cache, c)
    BY <1>1, <1>4
  <2>2. DOMAIN cache' = Slots /\ Cached' \subseteq Cached
    BY <1>3, <2>1, ClearedByClassKeeps DEF Cached
  <2>3. CacheTypes' /\ CachedKnown'
    BY <1>1, <2>1, <2>2 DEF CacheInv, CacheTypes, CachedKnown
  <2>4. Chains' /\ \A x \in live : \A y : SameFor(x, y)
    BY <1>1, <2>1, ChainsKept, SameTables DEF CacheInv
  <2>5. MethodsCurrent'
    <3>1. \A e \in Cached' : e.klass \notin reused' => SameFor(e.klass, e.mid)
      BY <1>1, <2>2, <2>4 DEF CacheInv, CachedKnown
    <3>2. QED
      BY <1>1, <2>2, <3>1, CacheKeeps DEF CacheInv
  <2>6. QED
    BY <2>3, <2>4, <2>5 DEF CacheInv
<1>5. CASE changed /\ origin # c
  <2>1. /\ m_tbl' = [m_tbl EXCEPT ![c][mid] = Cache!NewMethod(Zsuper, noex, Nil, mid)]
        /\ cache' = Cache!ClearedByClass(byId, c)
    BY <1>1, <1>5, TablesOfCache
  <2>2. Cache!NewMethod(Zsuper, noex, Nil, mid) \in Methods \cup {Nil}
    BY DEF Cache!NewMethod, Methods
  <2>3. /\ m_tbl' \in [Tables -> [Mids -> Methods \cup {Nil}]]
        /\ \A x \in Tables, y \in Mids : x # c \/ y # mid => m_tbl'[x][y] = m_tbl[x][y]
    BY <2>1, <2>2, OneEntry, ZenonT(30) DEF CacheInv
  <2>4. DOMAIN byId = Slots /\ \A s \in Slots : byId[s] # Empty => byId[s] = cache[s] /\ byId[s].mid # mid
    BY TablesOfCache DEF byId, Cache!ClearedById
  <2>5. DOMAIN cache' = Slots /\ Cached' \subseteq Cached /\ \A e \in Cached' : e.mid # mid
    BY <1>3, <2>1, <2>4, ClearedByClassKeeps DEF Cached
  <2>6. aborted' \in BOOLEAN /\ (aborted => aborted')
    BY <1>1 DEF CacheInv, CacheTypes
  <2>7. UNCHANGED <<super, owner, live, reused>>
    BY <1>1
  <2>8. QED
    BY <2>3, <2>5, <2>6, <2>7, TableChanged
<1>6. CASE changed /\ origin = c
  <2>1. /\ m_tbl' = [m_tbl EXCEPT ![c][mid].noex = noex]
        /\ cache' = Cache!ClearedByClass(cache, c)
    BY <1>1, <1>6
  <2>2. m_tbl[c][mid] # Nil
    BY <1>2, <1>6, ClassAssumption DEF Method, Table
  <2>3. QED
    BY <1>1, <2>1, <2>2, InPlaceKeeps
<1>7. QED
  BY <1>4, <1>5, <1>6

-----------------------------------------------------------------------------
(* New classes, freed classes, misses.                                      *)

LEMMA BootKeeps ==
  ASSUME CacheInv, NEW c \in Classes, NEW s \in Classes, Cache!rb_class_boot(c, s)
  PROVE  CacheInv'
<1>1. /\ c \notin live /\ s \in live
      /\ super' = [super EXCEPT ![c] = s]
      /\ m_tbl' = [m_tbl EXCEPT ![c] = [mid \in Mids |-> Nil]]
      /\ live' = live \cup {c} /\ UNCHANGED <<owner, cache, aborted, reused>>
  BY DEF Cache!rb_class_boot, Cache!Changes
<1>2. CacheTypes /\ Chains /\ CachedKnown /\ MethodsCurrent
  BY DEF CacheInv
<1>3. c \in Tables /\ c \in All /\ s \in All /\ c \notin Iclasses /\ c \notin Modules
  BY ClassAssumption DEF Tables, All
<1>4. CacheTypes'
  BY <1>1, <1>2, <1>3 DEF CacheTypes
<1>5. /\ \A d \in live : super'[d] = super[d]
      /\ super'[c] = s
  BY <1>1, <1>2, <1>3 DEF CacheTypes
<1>6. Chains'
  <2>1. Inside(super, live)' /\ Owned'
    BY <1>1, <1>2, <1>3, <1>5 DEF Chains, Inside, Owned
  <2>2. PICK S \in SUBSET live : ModuleSet(S)
    BY <1>2 DEF Chains
  <2>3. S \in SUBSET live' /\ ModuleSet(S)'
    BY <1>1, <1>5, <2>2 DEF ModuleSet, Inside
  <2>4. QED
    BY <2>1, <2>3 DEF Chains
<1>7. Cached' = Cached
  BY <1>1 DEF Cached
<1>8. CachedKnown'
  BY <1>1, <1>2, <1>7 DEF CachedKnown
<1>9. ASSUME NEW e \in Cached', e.klass \notin reused' PROVE SameFor(e.klass, e.mid)
  <2>1. e.klass \in live /\ e.mid \in Mids
    BY <1>1, <1>2, <1>7, <1>9 DEF CachedKnown
  <2>2. Ancestors(e.klass) \in Seq(live)
    BY <1>2, <2>1, LiveChain
  <2>3. (Ancestors(e.klass))' = Ancestors(e.klass)
    <3>1. Inside(super, live)
      BY <1>2 DEF Chains
    <3>2. Chain(super', e.klass) = Chain(super, e.klass)
      BY <1>5, <2>1, <3>1, ChainSame
    <3>3. QED
      BY <3>2 DEF Ancestors, Chain
  <2>4. ASSUME NEW a \in live PROVE (Method(a, e.mid))' = Method(a, e.mid)
    <3>1. Table(a)' = Table(a) /\ Table(a) \in Tables
      BY <1>1, <1>2, LiveTable DEF Table
    <3>2. Table(a) # c
      BY <1>1, <1>2, <1>3 DEF Table, Chains, Owned
    <3>3. QED
      BY <1>1, <1>2, <3>1, <3>2 DEF Method, CacheTypes
  <2>5. QED
    BY <2>2, <2>3, <2>4, SearchSame
<1>10. MethodsCurrent'
  BY <1>1, <1>2, <1>7, <1>9, CacheKeeps
<1>11. QED
  BY <1>4, <1>6, <1>8, <1>10 DEF CacheInv

LEMMA FreeKeeps ==
  ASSUME CacheInv, NEW c \in Classes, Cache!obj_free(c)
  PROVE  CacheInv'
<1>1. /\ c # Root /\ \A d \in live : super[d] # c
      /\ live' = live \ {c} /\ reused' = reused \cup {c}
      /\ UNCHANGED <<super, owner, m_tbl, cache, aborted>>
  BY DEF Cache!obj_free
<1>2. CacheTypes /\ Chains /\ CachedKnown /\ MethodsCurrent
  BY DEF CacheInv
<1>3. c \notin Modules
  BY ClassAssumption
<1>4. CacheTypes'
  BY <1>1, <1>2, <1>3 DEF CacheTypes
<1>5. Chains'
  <2>1. Inside(super, live)' /\ Owned'
    BY <1>1, <1>2 DEF Chains, Inside, Owned
  <2>2. PICK S \in SUBSET live : ModuleSet(S)
    BY <1>2 DEF Chains
  <2>3. S \in SUBSET live' /\ ModuleSet(S)'
    BY <1>1, <2>2 DEF ModuleSet, Inside
  <2>4. QED
    BY <2>1, <2>3 DEF Chains
<1>6. Cached' = Cached
  BY <1>1 DEF Cached
<1>7. CachedKnown'
  BY <1>1, <1>2, <1>6 DEF CachedKnown
<1>8. ASSUME NEW e \in Cached', e.klass \notin reused' PROVE SameFor(e.klass, e.mid)
  <2>1. e.klass \in live
    BY <1>1, <1>2, <1>6, <1>8 DEF CachedKnown
  <2>2. Ancestors(e.klass) \in Seq(live)
    BY <1>2, <2>1, LiveChain
  <2>3. (Ancestors(e.klass))' = Ancestors(e.klass)
    BY <1>1 DEF Ancestors, Chain
  <2>4. \A a \in live : (Method(a, e.mid))' = Method(a, e.mid)
    BY <1>1 DEF Method, Table
  <2>5. QED
    BY <2>2, <2>3, <2>4, SearchSame
<1>9. MethodsCurrent'
  BY <1>1, <1>2, <1>6, <1>8, CacheKeeps
<1>10. QED
  BY <1>4, <1>5, <1>7, <1>9 DEF CacheInv

LEMMA MissKeeps ==
  ASSUME CacheInv, NEW c \in Tables, NEW mid \in Mids, Cache!rb_get_method_body(c, mid)
  PROVE  CacheInv'
<1> DEFINE new == Entry(c, mid)
<1>1. /\ c \in live /\ cache' = [cache EXCEPT ![Slot[<<c, mid>>]] = new]
      /\ UNCHANGED <<super, owner, live, m_tbl, aborted, reused>>
  BY SearchOfCache DEF Cache!rb_get_method_body, Cache!tableVars
<1>2. new.klass = c /\ new.mid = mid
  BY DEF Entry
<1>3. SameFor(c, mid) /\ \A x \in live : \A y : SameFor(x, y)
  BY <1>1, SameTables DEF CacheInv
<1>4. new = Entry(new.klass, new.mid) /\ (Entry(new.klass, new.mid))' = new
  BY <1>2, <1>3 DEF SameFor
<1> HIDE DEF new
<1>5. DOMAIN cache' = Slots /\ \A e \in Cached' : e \in Cached \/ e = new
  BY <1>1 DEF Cached, CacheInv, CacheTypes
<1>6. CacheTypes' /\ Chains'
  BY <1>1, <1>5, ChainsKept DEF CacheInv, CacheTypes
<1>7. CachedKnown'
  BY <1>1, <1>2, <1>5 DEF CacheInv, CachedKnown
<1>8. \A e \in Cached : e.klass \notin reused => SameFor(e.klass, e.mid)
  BY <1>3 DEF CacheInv, CachedKnown
<1>9. CachedBodyCurrent'
  <2>1. SUFFICES ASSUME ~aborted, NEW e \in Cached', e.klass \notin reused
                 PROVE  LET f == (Entry(e.klass, e.mid))' IN
                        e.method = f.method /\ e.mid0 = f.mid0
                        /\ (f.method # Nil => e.origin = f.origin)
    BY <1>1 DEF CachedBodyCurrent
  <2>2. CASE e = new
    <3>1. e.klass \in live /\ e = Entry(e.klass, e.mid)
      BY <1>1, <1>2, <1>4, <2>2
    <3>2. QED
      BY <1>3, <3>1 DEF SameFor
  <2>3. CASE e \in Cached
    BY <1>8, <2>1, <2>3 DEF CacheInv, MethodsCurrent, CachedBodyCurrent, SameFor
  <2>4. QED
    BY <1>5, <2>2, <2>3
<1>10. CachedNoexCurrent'
  <2>1. SUFFICES ASSUME ~aborted, NEW e \in Cached', e.klass \notin reused,
                        (search_method(e.klass, e.mid))' \in Classes,
                        (Method(search_method(e.klass, e.mid), e.mid).orig)' = Nil
                 PROVE  e.noex = (Entry(e.klass, e.mid).noex)'
    BY <1>1 DEF CachedNoexCurrent
  <2>2. CASE e = new
    <3>1. e.klass \in live /\ e = Entry(e.klass, e.mid)
      BY <1>1, <1>2, <1>4, <2>2
    <3>2. QED
      BY <1>3, <3>1 DEF SameFor
  <2>3. CASE e \in Cached
    <3>1. SameFor(e.klass, e.mid)
      BY <1>8, <2>1, <2>3
    <3>2. search_method(e.klass, e.mid) \in Classes /\ search_method(e.klass, e.mid) # Nil
      BY <2>1, <3>1, NilAssumption DEF SameFor, All, Tables
    <3>3. Method(search_method(e.klass, e.mid), e.mid).orig = Nil
      BY <2>1, <3>1, <3>2 DEF SameFor
    <3>4. e.noex = Entry(e.klass, e.mid).noex
      BY <2>1, <2>3, <3>2, <3>3 DEF CacheInv, MethodsCurrent, CachedNoexCurrent
    <3>5. QED
      BY <3>1, <3>4 DEF SameFor
  <2>4. QED
    BY <1>5, <2>2, <2>3
<1>11. QED
  BY <1>6, <1>7, <1>9, <1>10 DEF CacheInv, MethodsCurrent

-----------------------------------------------------------------------------
(* The loop of rb_include_module.                                           *)

\* What FoldLeft computes of sets of places: the turns taken at those of s.
Unfolded(g, klass, base, above, s) ==
  IF s = {} THEN base
  ELSE LET x == Cache!Max(s) IN Cache!IncludeStep(klass, g[s \ {x}], above[x])

Folded(klass, base, above) ==
  LET iter[s \in SUBSET (DOMAIN above)] ==
        IF s = {} THEN base
        ELSE LET x == Cache!Max(s) IN Cache!IncludeStep(klass, iter[s \ {x}], above[x])
  IN iter

\* The turns one after the other.
Inclusion(klass, base, above) ==
  Cache!FoldLeft(LAMBDA acc, m : Cache!IncludeStep(klass, acc, m), base, above)

LEMMA InclusionTurns ==
  ASSUME NEW klass, NEW base, NEW above, NEW N \in Nat, DOMAIN above = 1..N
  PROVE  \E t : /\ t[0] = base /\ Inclusion(klass, base, above) = t[N]
                /\ \A n \in 1..N : t[n] = Cache!IncludeStep(klass, t[n - 1], above[n])
<1> DEFINE Of(g, n) == g = [s \in SUBSET (1..n) |-> Unfolded(g, klass, base, above, s)]
           P == {n \in Nat : \E g : Of(g, n)}
           f == Folded(klass, base, above)
<1>1. Inclusion(klass, base, above) = f[1..N]
  BY DEF Inclusion, Folded, Cache!FoldLeft, Cache!MapThenFoldSet
<1>2. ASSUME NEW n \in Nat \ {0}, NEW s \in SUBSET (1..n), n \in s PROVE Cache!Max(s) = n
  <2>1. n \in s /\ \A y \in s : n >= y
    BY <1>2
  <2>2. \A x \in s : (\A y \in s : x >= y) => x = n
    BY <1>2
  <2>3. QED
    BY <2>1, <2>2 DEF Cache!Max
<1>3. 0 \in P
  <2>1. Of([s \in SUBSET (1..0) |-> base], 0)
    <3>1. \A s \in SUBSET (1..0) : s = {}
      OBVIOUS
    <3>2. QED
      BY <3>1 DEF Unfolded
  <2>2. QED
    BY <2>1
<1>4. ASSUME NEW n \in 1..N, n - 1 \in P PROVE n \in P
  <2>1. PICK g : Of(g, n - 1)
    BY <1>4
  <2> DEFINE h == [s \in SUBSET (1..n) |->
                     IF n \in s THEN Cache!IncludeStep(klass, g[s \ {n}], above[n]) ELSE g[s]]
  <2>2. \A s \in SUBSET (1..n) : n \notin s => s \in SUBSET (1..(n - 1))
    OBVIOUS
  <2>3. \A s \in SUBSET (1..(n - 1)) : s \in SUBSET (1..n) /\ n \notin s /\ h[s] = g[s]
    OBVIOUS
  <2>4. ASSUME NEW s \in SUBSET (1..n)
        PROVE  h[s] = Unfolded(h, klass, base, above, s)
    <3>1. CASE n \in s
      <4>1. Cache!Max(s) = n /\ s \ {n} \in SUBSET (1..(n - 1))
        BY <1>2, <2>2, <3>1
      <4>2. h[s] = Cache!IncludeStep(klass, g[s \ {n}], above[n])
        BY <3>1
      <4>3. h[s \ {n}] = g[s \ {n}]
        BY <2>3, <4>1
      <4> HIDE DEF h
      <4>4. QED
        BY <3>1, <4>1, <4>2, <4>3 DEF Unfolded
    <3>2. CASE n \notin s
      <4>1. s \in SUBSET (1..(n - 1)) /\ s \ {Cache!Max(s)} \in SUBSET (1..(n - 1))
        BY <2>2, <3>2
      <4>2. h[s] = g[s] /\ h[s \ {Cache!Max(s)}] = g[s \ {Cache!Max(s)}]
        BY <2>3, <4>1
      <4> HIDE DEF h
      <4>3. g[s] = Unfolded(g, klass, base, above, s)
        BY <2>1, <4>1
      <4>4. QED
        BY <4>2, <4>3 DEF Unfolded
    <3>3. QED
      BY <3>1, <3>2
  <2>5. DOMAIN h = SUBSET (1..n) /\ h = [s \in SUBSET (1..n) |-> h[s]]
    OBVIOUS
  <2> HIDE DEF h
  <2>6. Of(h, n)
    BY <2>4, <2>5
  <2>7. QED
    BY <2>6
<1> HIDE DEF P
<1>5. N \in P
  BY <1>3, <1>4, UpTo
<1>6. PICK g : Of(g, N)
  BY <1>5 DEF P
<1>7. f = CHOOSE h : Of(h, N)
  BY DEF Folded, Unfolded
<1> HIDE DEF f
<1>8. Of(f, N)
  BY <1>6, <1>7
<1> DEFINE t == [n \in 0..N |-> f[1..n]]
<1>9. t[0] = base
  <2>1. f[{}] = base
    BY <1>8 DEF Unfolded
  <2>2. 1..0 = {}
    OBVIOUS
  <2>3. QED
    BY <2>1, <2>2
<1>10. ASSUME NEW n \in 1..N PROVE t[n] = Cache!IncludeStep(klass, t[n - 1], above[n])
  <2>1. n \in 1..n /\ Cache!Max(1..n) = n /\ (1..n) \ {n} = 1..(n - 1)
    BY <1>2
  <2>2. f[1..n] = Unfolded(f, klass, base, above, 1..n)
    BY <1>8
  <2>3. f[1..n] = Cache!IncludeStep(klass, f[1..(n - 1)], above[n])
    BY <2>1, <2>2 DEF Unfolded
  <2>4. QED
    BY <2>3
<1>11. t[N] = f[1..N]
  OBVIOUS
<1> HIDE DEF t
<1>12. QED
  BY <1>1, <1>9, <1>10, <1>11

Included == [super : [All -> All \cup {Nil}], owner : [Iclasses -> Modules \cup {Nil}],
             live : SUBSET All, at : All, cyclic : BOOLEAN]

\* What a turn leaves when it inserts new, for the module x.
Inserted(acc, r, x, new) ==
  /\ r.super = [acc.super EXCEPT ![acc.at] = new, ![new] = acc.super[acc.at]]
  /\ r.owner = [acc.owner EXCEPT ![new] = x]
  /\ r.live = acc.live \cup {new} /\ r.at = new /\ r.cyclic = acc.cyclic

\* A turn gives up, moves the insertion point, or inserts an unused iclass.
LEMMA IncludeCases ==
  ASSUME NEW acc \in Included, Inside(acc.super, acc.live), acc.at \in acc.live,
         NEW klass \in acc.live, NEW m
  PROVE  LET r == Cache!IncludeStep(klass, acc, m)
             new == CHOOSE x \in Iclasses : x \notin acc.live
         IN \/ r = [acc EXCEPT !.cyclic = TRUE]
            \/ \E a \in acc.live : r = [acc EXCEPT !.at = a]
            \/ Inserted(acc, r, Table(m), new) /\ r \in [super : {r.super}, owner : {r.owner},
                 live : {r.live}, at : {r.at}, cyclic : {r.cyclic}]
<1> DEFINE r == Cache!IncludeStep(klass, acc, m)
           above == Tail(Cache!Chain(acc.super, klass))
           I == {j \in 1..Len(above) : above[j] \in Iclasses /\ acc.owner[above[j]] = Cache!Table(m)}
           i == Cache!SelectInSeq(above, LAMBDA p : p \in Iclasses /\ acc.owner[p] = Cache!Table(m))
           new == CHOOSE x \in Iclasses : x \notin acc.live
<1>1. above \in Seq(acc.live)
  <2>1. Chain(acc.super, klass) \in Seq(acc.live) /\ Chain(acc.super, klass) # <<>>
    BY ChainInside
  <2>2. \A q \in Seq(acc.live) : q # <<>> => Tail(q) \in Seq(acc.live)
    OBVIOUS
  <2>3. Cache!Chain(acc.super, klass) = Chain(acc.super, klass)
    BY ChainsOfCache
  <2>4. QED
    BY <2>1, <2>2, <2>3
<1>2. i = IF I # {} THEN Cache!Min(I) ELSE 0
  BY DEF Cache!SelectInSeq
<1> HIDE DEF above
<1>3. I # {} => i \in I
  <2>1. SUFFICES ASSUME I # {} PROVE Cache!Min(I) \in I
    BY <1>2
  <2>2. I \subseteq Nat
    OBVIOUS
  <2> HIDE DEF I
  <2>3. PICK n \in I : \A k \in I : n <= k
    BY <2>1, <2>2, LeastNumber
  <2>4. QED
    BY <2>3 DEF Cache!Min
<1>4. i # 0 => above[i] \in acc.live
  <2>1. SUFFICES ASSUME i # 0 PROVE i \in 1..Len(above)
    BY <1>1
  <2>2. QED
    BY <1>2, <1>3, <2>1
<1> DEFINE seen == \E j \in 1..(i - 1) : above[j] \in Classes
           point == IF seen THEN acc.at ELSE above[i]
           inserted == [acc EXCEPT !.super[acc.at] = new, !.super[new] = acc.super[acc.at],
                                   !.owner[new] = Cache!Table(m), !.live = @ \cup {new}, !.at = new]
<1>5. r = IF acc.cyclic \/ Cache!Table(m) = klass THEN [acc EXCEPT !.cyclic = TRUE]
          ELSE IF i # 0 THEN [acc EXCEPT !.at = point]
          ELSE inserted
  BY DEF Cache!IncludeStep, above
<1>6. i # 0 => point \in acc.live
  BY <1>4
<1>7. Inserted(acc, inserted, Table(m), new)
  BY ChainsOfCache DEF Inserted, Included
<1> HIDE DEF r, i, point, new
<1>8. inserted \in [super : {inserted.super}, owner : {inserted.owner},
                 live : {inserted.live}, at : {inserted.at}, cyclic : {inserted.cyclic}]
  BY DEF Included
<1> HIDE DEF inserted
<1>9. QED
  BY <1>5, <1>6, <1>7, <1>8 DEF r, new

\* The loop invariant of rb_include_module with left turns to come: there is an
\* unused iclass for each, and pointers stay among what is in use.
Loop(acc, left) ==
  /\ acc \in Included /\ live \subseteq acc.live /\ acc.at \in acc.live
  /\ Inside(acc.super, acc.live)
  /\ \A i \in acc.live \cap Iclasses : acc.owner[i] \in Modules
  /\ \E S \in SUBSET acc.live : Modules \subseteq S /\ S \cap Classes = {} /\ Inside(acc.super, S)
  /\ Cardinality(Iclasses \ acc.live) >= left
  /\ acc.live = live => acc.super = super /\ acc.owner = owner

LEMMA InsertKeeps ==
  ASSUME NEW acc, NEW left \in Nat, left # 0, Loop(acc, left), NEW x \in Modules,
         NEW new \in Iclasses, new \notin acc.live,
         NEW r, Inserted(acc, r, x, new),
         r \in [super : {r.super}, owner : {r.owner}, live : {r.live}, at : {r.at}, cyclic : {r.cyclic}]
  PROVE  Loop(r, left - 1)
<1>1. /\ acc \in Included /\ live \subseteq acc.live /\ acc.at \in acc.live
      /\ acc.super \in [All -> All \cup {Nil}] /\ acc.owner \in [Iclasses -> Modules \cup {Nil}]
      /\ acc.live \in SUBSET All /\ acc.cyclic \in BOOLEAN
  BY DEF Loop, Included
<1>2. new \in All /\ new # acc.at /\ acc.at \in All
  BY <1>1 DEF All
<1>3. /\ r.super[acc.at] = new /\ r.super[new] = acc.super[acc.at]
      /\ \A d \in All : d # acc.at /\ d # new => r.super[d] = acc.super[d]
      /\ r.super \in [All -> All \cup {Nil}]
  BY <1>1, <1>2 DEF Inserted
<1>4. /\ r.owner \in [Iclasses -> Modules \cup {Nil}] /\ r.owner[new] = x
      /\ \A i \in Iclasses : i # new => r.owner[i] = acc.owner[i]
  BY <1>1 DEF Inserted
<1>5. r.live = acc.live \cup {new} /\ r.at = new /\ r.cyclic = acc.cyclic
  BY DEF Inserted
<1>6. r \in Included /\ live \subseteq r.live /\ r.at \in r.live /\ r.live # live
  <2>1. r.live \in SUBSET All /\ r.at \in All /\ r.cyclic \in BOOLEAN
    BY <1>1, <1>2, <1>5
  <2>2. r \in Included
    BY <1>3, <1>4, <2>1 DEF Included
  <2>3. QED
    BY <1>1, <1>5, <2>2
<1>7. Inside(r.super, r.live)
  <2>1. \A d \in acc.live : acc.super[d] \in acc.live \cup {Nil} /\ d \in All
    BY <1>1 DEF Loop, Inside
  <2>2. QED
    BY <1>1, <1>3, <1>5, <2>1 DEF Inside
<1>8. \A i \in r.live \cap Iclasses : r.owner[i] \in Modules
  BY <1>4, <1>5 DEF Loop
<1>9. \E S \in SUBSET r.live : Modules \subseteq S /\ S \cap Classes = {} /\ Inside(r.super, S)
  <2>1. PICK S \in SUBSET acc.live :
          Modules \subseteq S /\ S \cap Classes = {} /\ Inside(acc.super, S)
    BY DEF Loop
  <2>2. \A d \in S : acc.super[d] \in S \cup {Nil} /\ d \in All /\ d # new
    BY <1>1, <2>1 DEF Inside
  <2>3. CASE acc.at \in S
    <3>1. Inside(r.super, S \cup {new})
      BY <1>3, <2>2, <2>3 DEF Inside
    <3>2. new \notin Classes
      BY ClassAssumption DEF Tables
    <3>3. S \cup {new} \in SUBSET r.live /\ Modules \subseteq S \cup {new}
          /\ (S \cup {new}) \cap Classes = {}
      BY <1>5, <2>1, <3>2
    <3>4. QED
      BY <3>1, <3>3
  <2>4. CASE acc.at \notin S
    <3>1. Inside(r.super, S)
      BY <1>3, <2>2, <2>4 DEF Inside
    <3>2. QED
      BY <1>5, <2>1, <3>1
  <2>5. QED
    BY <2>3, <2>4
<1>10. Cardinality(Iclasses \ r.live) >= left - 1
  <2>1. IsFiniteSet(Iclasses \ acc.live)
    BY ClassAssumption, FS_Subset DEF All
  <2>2. Iclasses \ r.live = (Iclasses \ acc.live) \ {new} /\ new \in Iclasses \ acc.live
    BY <1>5
  <2>3. Cardinality((Iclasses \ acc.live) \ {new}) = Cardinality(Iclasses \ acc.live) - 1
    BY <2>1, <2>2, FS_RemoveElement
  <2>4. Cardinality(Iclasses \ acc.live) \in Nat /\ Cardinality(Iclasses \ acc.live) >= left
    BY <2>1, FS_CardinalityType DEF Loop
  <2>5. Cardinality(Iclasses \ r.live) = Cardinality((Iclasses \ acc.live) \ {new})
    BY <2>2
  <2>6. QED
    BY <2>3, <2>4, <2>5
<1>11. QED
  BY <1>6, <1>7, <1>8, <1>9, <1>10 DEF Loop

LEMMA TurnKeeps ==
  ASSUME NEW acc, NEW left \in Nat, left # 0, Loop(acc, left), NEW klass \in live,
         NEW m, Table(m) \in Modules
  PROVE  Loop(Cache!IncludeStep(klass, acc, m), left - 1)
<1> DEFINE r == Cache!IncludeStep(klass, acc, m)
           new == CHOOSE x \in Iclasses : x \notin acc.live
<1>1. /\ acc \in Included /\ Inside(acc.super, acc.live) /\ acc.at \in acc.live /\ klass \in acc.live
      /\ acc.live \subseteq All
  BY DEF Loop, Included
<1>2. \/ r = [acc EXCEPT !.cyclic = TRUE]
      \/ \E a \in acc.live : r = [acc EXCEPT !.at = a]
      \/ Inserted(acc, r, Table(m), new) /\ r \in [super : {r.super}, owner : {r.owner},
           live : {r.live}, at : {r.at}, cyclic : {r.cyclic}]
  BY <1>1, IncludeCases
<1> HIDE DEF r
<1>3. IsFiniteSet(Iclasses \ acc.live) /\ Cardinality(Iclasses \ acc.live) \in Nat
      /\ Cardinality(Iclasses \ acc.live) >= left
  BY ClassAssumption, FS_Subset, FS_CardinalityType DEF All, Loop
<1>4. CASE r = [acc EXCEPT !.cyclic = TRUE] \/ \E a \in acc.live : r = [acc EXCEPT !.at = a]
  <2>1. /\ r \in Included /\ r.super = acc.super /\ r.owner = acc.owner /\ r.live = acc.live
        /\ r.at \in acc.live
    BY <1>1, <1>4 DEF Included
  <2>2. QED
    BY <1>3, <2>1 DEF Loop, r
<1>5. CASE Inserted(acc, r, Table(m), new) /\ r \in [super : {r.super}, owner : {r.owner},
             live : {r.live}, at : {r.at}, cyclic : {r.cyclic}]
  <2>1. Iclasses \ acc.live # {}
    BY <1>3, FS_EmptySet
  <2>2. new \in Iclasses /\ new \notin acc.live
    BY <2>1
  <2> HIDE DEF new
  <2>3. QED
    BY <1>5, <2>2, InsertKeeps DEF r
<1>6. QED
  BY <1>2, <1>4, <1>5

LEMMA IncludeKeeps ==
  ASSUME CacheInv, NEW klass \in Tables, NEW module \in Modules,
         Cache!rb_include_module(klass, module)
  PROVE  CacheInv'
<1> DEFINE base == [super |-> super, owner |-> owner, live |-> live,
                    at |-> klass, cyclic |-> FALSE]
           above == Ancestors(module)
           N == Len(above)
           done == Inclusion(klass, base, Cache!Ancestors(module))
<1>1. /\ klass \in live /\ Cache!Cardinality(Iclasses \ live) >= Len(Cache!Ancestors(module))
      /\ super' = done.super /\ owner' = done.owner /\ live' = done.live
      /\ aborted' = (aborted \/ (done.cyclic /\ done.live # live))
      /\ cache' = IF ~done.cyclic /\ done.live # live THEN [s \in Cache!Slots |-> Cache!Empty]
                  ELSE cache
      /\ UNCHANGED <<m_tbl, reused>>
  BY DEF Cache!rb_include_module, Cache!Changes, Inclusion
<1>2. CacheTypes /\ Chains /\ CachedKnown /\ MethodsCurrent
  BY DEF CacheInv
<1>3. PICK S \in SUBSET live : ModuleSet(S)
  BY <1>2 DEF Chains
<1>4. above \in Seq(S) /\ N \in Nat /\ DOMAIN above = 1..N /\ above = Cache!Ancestors(module)
  <2>1. above \in Seq(S)
    BY <1>3, ChainInside DEF ModuleSet, Ancestors
  <2> HIDE DEF above
  <2>2. N \in Nat /\ DOMAIN above = 1..N
    BY <2>1
  <2>3. QED
    BY <2>1, <2>2, ChainsOfCache DEF above
<1>5. \A n \in 1..N : Table(above[n]) \in Modules
  <2>1. \A d \in S : Table(d) \in Modules
    BY <1>2, <1>3 DEF CacheTypes, Chains, Owned, ModuleSet, Table, All, Tables
  <2> HIDE DEF above
  <2>2. QED
    BY <1>4, <2>1
<1> HIDE DEF above, N
<1>6. Loop(base, N)
  <2>1. base \in Included
    BY <1>1, <1>2 DEF CacheTypes, Included
  <2>2. Cardinality(Iclasses \ live) >= N
    BY <1>1, <1>4 DEF N, Cache!Cardinality, Cardinality
  <2>3. QED
    BY <1>1, <1>2, <1>3, <2>1, <2>2 DEF Loop, ModuleSet, Chains, Owned
<1> HIDE DEF base
<1>7. Loop(done, 0)
  <2>1. PICK t : /\ t[0] = base /\ done = t[N]
                 /\ \A n \in 1..N : t[n] = Cache!IncludeStep(klass, t[n - 1], above[n])
    BY <1>4, InclusionTurns
  <2> DEFINE P == {n \in 0..N : Loop(t[n], N - n)}
  <2>2. 0 \in P
    BY <1>4, <1>6, <2>1
  <2>3. ASSUME NEW n \in 1..N, n - 1 \in P PROVE n \in P
    <3> DEFINE left == N - (n - 1)
    <3>1. left \in Nat /\ left # 0 /\ left - 1 = N - n /\ n \in 0..N
      BY <1>4
    <3>2. Loop(t[n - 1], left)
      BY <2>3
    <3> HIDE DEF left
    <3>3. Loop(Cache!IncludeStep(klass, t[n - 1], above[n]), left - 1)
      BY <1>1, <1>5, <3>1, <3>2, TurnKeeps
    <3>4. QED
      BY <2>1, <3>1, <3>3
  <2> HIDE DEF P
  <2>4. N \in P
    BY <1>4, <2>2, <2>3, UpTo
  <2>5. QED
    BY <1>4, <2>1, <2>4 DEF P
<1> HIDE DEF done
<1>8. /\ done.super \in [All -> All \cup {Nil}] /\ done.owner \in [Iclasses -> Modules \cup {Nil}]
      /\ done.live \subseteq All /\ done.cyclic \in BOOLEAN /\ live \subseteq done.live
  BY <1>7 DEF Loop, Included
<1>9. Chains'
  <2>1. Inside(super, live)' /\ Owned'
    BY <1>1, <1>7 DEF Loop, Inside, Owned
  <2>2. PICK R \in SUBSET done.live :
          Modules \subseteq R /\ R \cap Classes = {} /\ Inside(done.super, R)
    BY <1>7 DEF Loop
  <2>3. R \in SUBSET live' /\ ModuleSet(R)'
    BY <1>1, <2>2 DEF ModuleSet, Inside
  <2>4. QED
    BY <2>1, <2>3 DEF Chains
<1>10. CASE done.live = live
  <2>1. UNCHANGED <<super, owner, live, m_tbl, cache, aborted, reused>>
    BY <1>1, <1>2, <1>7, <1>10 DEF Loop, CacheTypes
  <2>2. CacheTypes' /\ CachedKnown' /\ Cached' = Cached
    BY <1>2, <2>1 DEF CacheTypes, CachedKnown, Cached
  <2>3. \A e \in Cached' : e.klass \notin reused' => SameFor(e.klass, e.mid)
    BY <1>2, <2>1, <2>2, SameTables DEF CachedKnown
  <2>4. MethodsCurrent'
    BY <1>2, <2>1, <2>2, <2>3, CacheKeeps
  <2>5. QED
    BY <1>9, <2>2, <2>4 DEF CacheInv
<1>11. CASE done.live # live
  <2>1. CASE done.cyclic
    <3>1. aborted' = TRUE /\ cache' = cache
      BY <1>1, <1>11, <2>1
    <3>2. CacheTypes' /\ CachedKnown' /\ MethodsCurrent'
      BY <1>1, <1>2, <1>8, <3>1 DEF CacheTypes, CachedKnown, Cached, MethodsCurrent,
                                    CachedBodyCurrent, CachedNoexCurrent
    <3>3. QED
      BY <1>9, <3>2 DEF CacheInv
  <2>2. CASE ~done.cyclic
    <3>1. cache' = [s \in Slots |-> Empty] /\ aborted' = aborted
      BY <1>1, <1>2, <1>11, <2>2, TablesOfCache DEF CacheTypes
    <3>2. Cached' = {}
      BY <3>1 DEF Cached
    <3>3. CacheTypes' /\ CachedKnown'
      BY <1>1, <1>2, <1>8, <3>1, <3>2 DEF CacheTypes, CachedKnown
    <3>4. MethodsCurrent'
      BY <3>2 DEF MethodsCurrent, CachedBodyCurrent, CachedNoexCurrent
    <3>5. QED
      BY <1>9, <3>3, <3>4 DEF CacheInv
  <2>3. QED
    BY <1>8, <2>1, <2>2
<1>12. QED
  BY <1>10, <1>11

-----------------------------------------------------------------------------
(* The cache is current.                                                    *)

LEMMA CacheInit == Cache!Init => CacheInv
<1> SUFFICES ASSUME Cache!Init PROVE CacheInv
  OBVIOUS
<1>1. /\ super = [c \in All |-> Nil] /\ owner = [i \in Iclasses |-> Nil]
      /\ live = {Root} \cup Modules /\ m_tbl = [c \in Tables |-> [mid \in Mids |-> Nil]]
      /\ cache = [s \in Slots |-> Empty] /\ aborted = FALSE /\ reused = {}
  BY TablesOfCache DEF Cache!Init
<1>2. Root \in All /\ Modules \subseteq All /\ Root \notin Modules /\ live \cap Iclasses = {}
  BY <1>1, ClassAssumption DEF All, Tables
<1>3. CacheTypes
  BY <1>1, <1>2 DEF CacheTypes
<1>4. Chains
  <2>1. Inside(super, live) /\ Owned
    BY <1>1, <1>2 DEF Inside, Owned
  <2>2. Modules \in SUBSET live /\ ModuleSet(Modules)
    BY <1>1, <1>2, ClassAssumption DEF ModuleSet, Inside
  <2>3. QED
    BY <2>1, <2>2 DEF Chains
<1>5. Cached = {}
  BY <1>1 DEF Cached
<1>6. QED
  BY <1>3, <1>4, <1>5 DEF CacheInv, CachedKnown, MethodsCurrent, CachedBodyCurrent, CachedNoexCurrent

LEMMA CacheNext == CacheInv /\ [Cache!Next]_(Cache!vars) => CacheInv'
<1> SUFFICES ASSUME CacheInv, [Cache!Next]_(Cache!vars) PROVE CacheInv'
  OBVIOUS
<1>1. ASSUME NEW c \in Tables, NEW mid \in Mids, NEW b \in Bodies, NEW noex \in Noexes,
             Cache!rb_define_method(c, mid, b, noex)
      PROVE  CacheInv'
  BY <1>1, AddMethodKeeps DEF Cache!rb_define_method
<1>2. ASSUME NEW c \in Tables, NEW mid \in Mids, Cache!rb_undef(c, mid)
      PROVE  CacheInv'
  <2>1. Cache!rb_add_method(c, mid, Undef, "public") /\ "public" \in Noexes
    BY <1>2, TablesOfCache DEF Cache!rb_undef, Noexes
  <2>2. QED
    BY <2>1, AddMethodKeeps
<1>3. CASE UNCHANGED Cache!vars
  <2>1. UNCHANGED <<super, owner, live, m_tbl, cache, aborted, reused>>
    BY <1>3 DEF Cache!vars, Cache!tableVars
  <2>2. CacheTypes' /\ CachedKnown' /\ Cached' = Cached
    BY <2>1 DEF CacheInv, CacheTypes, CachedKnown, Cached
  <2>3. Chains' /\ \A c \in live : \A mid : SameFor(c, mid)
    BY <2>1, ChainsKept, SameTables DEF CacheInv
  <2>4. \A e \in Cached' : e.klass \notin reused' => SameFor(e.klass, e.mid)
    BY <2>1, <2>2, <2>3 DEF CacheInv, CachedKnown
  <2>5. MethodsCurrent'
    BY <2>1, <2>2, <2>4, CacheKeeps DEF CacheInv
  <2>6. QED
    BY <2>2, <2>3, <2>5 DEF CacheInv
<1>4. CASE Cache!Next
  BY <1>1, <1>2, <1>4, RemoveKeeps, MethodAliasKeeps, VisibilityKeeps, MissKeeps, IncludeKeeps,
     BootKeeps, FreeKeeps, TablesOfCache DEF Cache!Next
<1>5. QED
  BY <1>3, <1>4

\* A call that the method cache answers executes what the search of the tables
\* would find, with its visibility, whatever is defined, undefined, removed,
\* aliased, included, made visible, booted or freed between the calls
\* (rb_get_method_body and its callers; rb_clear_cache_by_id, by_class).
THEOREM MethodsAreCurrent == Cache!Spec => []MethodsCurrent
<1>1. CacheInv => MethodsCurrent
  BY DEF CacheInv
<1>2. QED
  BY CacheInit, CacheNext, <1>1, PTL DEF Cache!Spec

=============================================================================
