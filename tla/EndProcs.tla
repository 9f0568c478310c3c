------------------------------- MODULE EndProcs -------------------------------
(***************************************************************************)
(* The procs of END and at_exit: rb_set_end_proc and rb_exec_end_proc of   *)
(* ruby/eval.c.  An end proc may register others while it is run, in       *)
(* either list: it runs with the wrapper it was made in, but a file that   *)
(* it requires is loaded without one, a file that it loads with wrap in    *)
(* another, and a proc that it calls has its own.  It may raise, which     *)
(* rb_protect stops.                                                       *)
(***************************************************************************)
EXTENDS Naturals, Sequences

CONSTANTS Procs  \* bound on the procs registered

VARIABLES
  end_procs,            \* the lists, the proc registered last first
  ephemeral_end_procs,  \* procs registered inside a load wrapper
  phase,   \* "run" (the program), "first", "second", "third" (the loops) or "done"
  link,    \* the procs the loop has still to run, from link on
  save,    \* number of procs of end_procs at the start
  since,   \* the phase in which a proc was registered
  ran,     \* the procs run, in this order
  call     \* the proc being run, if any

Elements(s) == {s[i] : i \in DOMAIN s}
Registered == Elements(end_procs) \cup Elements(ephemeral_end_procs) \cup Elements(ran)

vars == <<end_procs, ephemeral_end_procs, phase, link, save, since, ran, call>>

Rest(s) == IF s = <<>> THEN <<>> ELSE Tail(s)

Init ==
  /\ end_procs = <<>> /\ ephemeral_end_procs = <<>>
  /\ phase = "run"
  /\ link = <<>> /\ save = 0
  /\ since = [p \in Procs |-> "run"]
  /\ ran = <<>>
  /\ call = {}

-----------------------------------------------------------------------------
rb_set_end_proc(p, wrapped) ==
  /\ p \notin Registered
  /\ IF wrapped
     THEN ephemeral_end_procs' = <<p>> \o ephemeral_end_procs /\ UNCHANGED end_procs
     ELSE end_procs' = <<p>> \o end_procs /\ UNCHANGED ephemeral_end_procs
  /\ since' = [since EXCEPT ![p] = phase]
  /\ UNCHANGED <<phase, link, save, ran, call>>

\* at_exit in the program, in the proc being run, and in a finalizer that
\* rb_gc_call_finalizer_at_exit runs when the loops are over.
Register(p) ==
  /\ phase \in {"run", "done"} \/ call # {}
  /\ \E wrapped \in BOOLEAN : rb_set_end_proc(p, wrapped)

\* rb_exec_end_proc: save = link = end_procs.
rb_exec_end_proc ==
  /\ phase = "run"
  /\ phase' = "first"
  /\ link' = end_procs
  /\ save' = Len(end_procs)
  /\ UNCHANGED <<end_procs, ephemeral_end_procs, since, ran, call>>

\* An iteration of the first two loops.
RunEndProc ==
  /\ phase \in {"first", "second"} /\ link # <<>>
  /\ ran' = Append(ran, Head(link))
  /\ call' = {Head(link)}
  /\ link' = Tail(link)
  /\ UNCHANGED <<end_procs, ephemeral_end_procs, phase, save, since>>

\* Mutant: the second loop goes to the end of the list.
NewProcsAll == end_procs

\* The second loop runs the procs in front of save.
NewProcs == SubSeq(end_procs, 1, Len(end_procs) - save)

SecondLoop ==
  /\ phase = "first" /\ link = <<>>
  /\ phase' = "second"
  /\ link' = NewProcs
  /\ call' = {}
  /\ UNCHANGED <<end_procs, ephemeral_end_procs, save, since, ran>>

ThirdLoop ==
  /\ phase = "second" /\ link = <<>>
  /\ phase' = "third"
  /\ call' = {}
  /\ UNCHANGED <<end_procs, ephemeral_end_procs, link, save, since, ran>>

\* An iteration of the third loop: the proc is taken out before it is run.
RunEphemeral ==
  /\ phase = "third"
  /\ phase' = IF ephemeral_end_procs = <<>> THEN "done" ELSE "third"
  /\ ran' = IF ephemeral_end_procs = <<>> THEN ran ELSE Append(ran, Head(ephemeral_end_procs))
  /\ call' = IF ephemeral_end_procs = <<>> THEN {} ELSE {Head(ephemeral_end_procs)}
  /\ ephemeral_end_procs' = Rest(ephemeral_end_procs)
  /\ UNCHANGED <<end_procs, link, save, since>>

Next == rb_exec_end_proc \/ RunEndProc \/ SecondLoop \/ ThirdLoop \/ RunEphemeral
        \/ \E p \in Procs : Register(p)

Spec == Init /\ [][Next]_vars

\* A proc that no loop comes back for: one put into end_procs when the second loop
\* has begun, or into either list after the loops.
Forgotten(p) == \/ p \in Elements(end_procs) /\ since[p] \in {"second", "third"}
                \/ since[p] = "done"

\* No end proc is run twice, although those of end_procs stay in their list,
\* and when all is over every proc has been run, whatever the procs register
\* and wherever, but exactly those that are Forgotten.
EndProcsRunOnce ==
  /\ \A i, j \in DOMAIN ran : ran[i] = ran[j] => i = j
  /\ phase = "done" => \A p \in Registered : p \in Elements(ran) <=> ~Forgotten(p)
=============================================================================
