------------------------------- MODULE Signals -------------------------------
(***************************************************************************)
(* Signals and traps (ruby/signal.c, ruby/rubysig.h and the thread part of *)
(* ruby/eval.c).                                                           *)
(*                                                                         *)
(* sighandler runs at any moment.  While a thread is in a blocking system  *)
(* call (TRAP_BEG ... TRAP_END) rb_trap_immediate lets it execute the trap *)
(* at once; otherwise it only notes the signal, and CHECK_INTS runs        *)
(* rb_trap_exec later.  Traps are executed by the main thread, whichever   *)
(* thread is current; an exception that leaves one discards the frames     *)
(* above its rescue clause.                                                *)
(***************************************************************************)
EXTENDS SignalState

Threads == {Main, Other}

osVars == <<mask, arrived, sent>>
listVars == <<pending_list, trap_pending, behind>>
vars == <<trap_list, ignored, listVars, immediate, osVars, last_mask, curr, sig_stack,
          saved, crossed>>

Init ==
  /\ trap_list = {} /\ ignored = {}
  /\ pending_list = [s \in Sigs |-> 0]
  /\ trap_pending = 0
  /\ immediate = 0
  /\ mask = {} /\ last_mask = {} /\ arrived = {}
  /\ curr = Main
  /\ sig_stack = [t \in Threads |-> <<>>]
  /\ saved = [t \in Threads |-> 0]
  /\ behind = {}
  /\ crossed = FALSE
  /\ sent = 0

-----------------------------------------------------------------------------
(* Frames: "block" is a system call between TRAP_BEG and TRAP_END,         *)
(* "handler" a sighandler that executes its signal, "exec" the loop of     *)
(* rb_trap_exec, "trap" a command run by rb_trap_eval.                     *)

Frame(k, n, m) == [kind |-> k, n |-> n, mask |-> m]
InRuby == Top(curr) \in {"ruby", "trap"}
Push(t, f) == [sig_stack EXCEPT ![t] = <<f>> \o @]
Pop(t) == [sig_stack EXCEPT ![t] = Tail(@)]
CanPush(t) == Len(sig_stack[t]) < MaxDepth
Frames(k) == {f \in UNION {{sig_stack[t][i] : i \in DOMAIN sig_stack[t]} : t \in Threads} :
                f.kind = k}

TRAP_BEG ==
  /\ InRuby /\ CanPush(curr)
  /\ sig_stack' = Push(curr, Frame("block", immediate, {}))
  /\ immediate' = 1
  /\ UNCHANGED <<trap_list, ignored, listVars, osVars, last_mask, curr, saved, crossed>>

TRAP_END ==
  /\ Top(curr) = "block"
  /\ immediate' = Head(sig_stack[curr]).n
  /\ sig_stack' = Pop(curr)
  /\ UNCHANGED <<trap_list, ignored, listVars, osVars, last_mask, curr, saved, crossed>>

-----------------------------------------------------------------------------
(* Exceptions.                                                             *)

\* What rb_longjmp leaves of a stack stk and of rb_trap_immediate: the frames
\* above a rescue clause are dropped without their TRAP_END, and rb_trap_eval
\* resets rb_trap_immediate on its way out.
Unwound(stk, imm) ==
  {[stack |-> SubSeq(stk, n + 1, Len(stk)),
    imm |-> IF \E i \in 1..n : stk[i].kind = "trap" THEN 0 ELSE imm] :
     n \in {n \in 0..Len(stk) : n = Len(stk) \/ stk[n + 1].kind = "trap"}}

\* rb_trap_restore_mask
rb_trap_restore_mask == last_mask

\* The current thread's Ruby code raises or throws.
rb_longjmp ==
  /\ InRuby
  /\ \E u \in Unwound(sig_stack[curr], immediate) :
       /\ sig_stack' = [sig_stack EXCEPT ![curr] = u.stack]
       /\ immediate' = u.imm
  /\ mask' = rb_trap_restore_mask
  /\ UNCHANGED <<trap_list, ignored, listVars, arrived, sent, last_mask, curr,
                 saved, crossed>>

-----------------------------------------------------------------------------
(* Executing a signal.                                                     *)

\* The context of the current thread is saved with imm, and that of the main
\* thread resumed: rb_trap_immediate gets its value.
ToMain(imm) ==
  /\ curr' = Main
  /\ saved' = [saved EXCEPT ![curr] = imm]
  /\ crossed' = (crossed \/ (curr # Main /\ saved[Main] = 1))

Resumed(imm) == IF curr = Main THEN imm ELSE saved[Main]

\* signal_exec, called with stacks stk and rb_trap_immediate imm: the command
\* runs on the main thread (rb_thread_trap_eval), or the main thread gets the
\* exception (rb_thread_interrupt, rb_thread_signal_raise).
signal_exec(s, stk, imm, m) ==
  \/ /\ s \in trap_list
     /\ ToMain(imm)
     /\ immediate' = Resumed(imm)
     /\ sig_stack' = [stk EXCEPT ![Main] = <<Frame("trap", s, {})>> \o @]
     /\ mask' = m
  \/ /\ s \notin trap_list /\ s \in Interrupts
     /\ ToMain(imm)
     /\ \E u \in Unwound(stk[Main], Resumed(imm)) :
          /\ sig_stack' = [stk EXCEPT ![Main] = u.stack]
          /\ immediate' = u.imm
     /\ mask' = rb_trap_restore_mask
  \/ /\ s \notin trap_list /\ s \notin Interrupts
     /\ immediate' = imm /\ sig_stack' = stk /\ mask' = m
     /\ UNCHANGED <<curr, saved, crossed>>

\* Mutant: only trap_pending_list is counted.
NoteUncounted(s) == trap_pending

NotePending(s) == trap_pending + 1

\* Mutant: the flag is tested and not cleared.
TestOnly == immediate

\* What ATOMIC_TEST leaves of rb_trap_immediate.
ATOMIC_TEST == 0

\* The kernel delivers s.  ATOMIC_TEST clears rb_trap_immediate; s is blocked
\* while its handler runs.
sighandler(s) ==
  /\ s \in arrived \ mask
  /\ arrived' = arrived \ {s}
  /\ \/ /\ immediate = 1
        /\ signal_exec(s, Push(curr, Frame("handler", s, mask)),
                       ATOMIC_TEST, mask \cup {s})
        /\ UNCHANGED listVars
     \/ /\ immediate = 0
        /\ trap_pending' = NotePending(s)
        /\ pending_list' = [pending_list EXCEPT ![s] = @ + 1]
        /\ behind' = IF \E f \in Frames("exec") : f.n > s
                     THEN behind \cup {s} ELSE behind
        /\ UNCHANGED <<immediate, mask, curr, sig_stack, saved, crossed>>
  /\ UNCHANGED <<trap_list, ignored, last_mask, sent>>

\* sighandler ends and the interrupted system call goes on.
HandlerReturns ==
  /\ Top(curr) = "handler"
  /\ immediate' = 1
  /\ mask' = Head(sig_stack[curr]).mask
  /\ sig_stack' = Pop(curr)
  /\ UNCHANGED <<trap_list, ignored, listVars, arrived, sent, last_mask, curr,
                 saved, crossed>>

CHECK_INTS ==
  /\ InRuby /\ CanPush(curr)
  /\ trap_pending > 0
  /\ sig_stack' = Push(curr, Frame("exec", 1, {}))
  /\ UNCHANGED <<trap_list, ignored, listVars, immediate, osVars, last_mask, curr,
                 saved, crossed>>

\* One turn of the loop of rb_trap_exec, or its end.
rb_trap_exec ==
  LET i == Head(sig_stack[curr]).n
      next == [sig_stack EXCEPT ![curr] = <<Frame("exec", i + 1, {})>> \o Tail(@)]
  IN /\ Top(curr) = "exec"
     /\ \/ /\ i \in Sigs /\ pending_list[i] > 0
           /\ pending_list' = [pending_list EXCEPT ![i] = 0]
           /\ behind' = behind \ {i}
           /\ signal_exec(i, next, immediate, mask)
           /\ UNCHANGED trap_pending
        \/ /\ i \in Sigs /\ pending_list[i] = 0
           /\ sig_stack' = next
           /\ UNCHANGED <<listVars, immediate, mask, curr, saved, crossed>>
        \/ /\ i \notin Sigs
           /\ trap_pending' = 0
           /\ sig_stack' = Pop(curr)
           /\ UNCHANGED <<pending_list, behind, immediate, mask, curr, saved, crossed>>
     /\ UNCHANGED <<trap_list, ignored, arrived, sent, last_mask>>

\* The command ends normally.
rb_trap_eval ==
  /\ Top(curr) = "trap"
  /\ sig_stack' = Pop(curr)
  /\ UNCHANGED <<trap_list, ignored, listVars, immediate, osVars, last_mask, curr,
                 saved, crossed>>

-----------------------------------------------------------------------------
(* The Ruby program and the other threads.                                 *)

\* Kernel#trap with all signals blocked: cmd is "command", "IGNORE" or
\* "DEFAULT"; trap_ensure notes the mask, with s enabled, for later
\* exceptions.
sig_trap(s, cmd) ==
  /\ InRuby
  /\ trap_list' = IF cmd = "command" THEN trap_list \cup {s} ELSE trap_list \ {s}
  /\ ignored' = IF cmd = "IGNORE" THEN ignored \cup {s} ELSE ignored \ {s}
  /\ arrived' = IF cmd = "IGNORE" THEN arrived \ {s} ELSE arrived
  /\ mask' = mask \ {s}
  /\ last_mask' = mask \ {s}
  /\ UNCHANGED <<listVars, immediate, sent, curr, sig_stack, saved, crossed>>

\* Someone sends s (rb_f_kill here or in another process).
kill(s) ==
  /\ sent < MaxSignals
  /\ sent' = sent + 1
  /\ arrived' = IF s \in ignored THEN arrived ELSE arrived \cup {s}
  /\ UNCHANGED <<trap_list, ignored, listVars, immediate, mask, last_mask, curr,
                 sig_stack, saved, crossed>>

\* rb_thread_schedule, called by Ruby code or by catch_timer in a system call.
rb_thread_schedule(t) ==
  /\ t # curr
  /\ InRuby \/ (Top(curr) = "block" /\ immediate = 1)
  /\ saved' = [saved EXCEPT ![curr] = immediate]
  /\ curr' = t
  /\ immediate' = saved[t]
  /\ UNCHANGED <<trap_list, ignored, listVars, osVars, last_mask, sig_stack, crossed>>

Next ==
  \/ TRAP_BEG \/ TRAP_END \/ rb_longjmp
  \/ HandlerReturns \/ CHECK_INTS \/ rb_trap_exec \/ rb_trap_eval
  \/ \E s \in Sigs : sighandler(s) \/ kill(s)
  \/ \E s \in Sigs, cmd \in {"command", "IGNORE", "DEFAULT"} : sig_trap(s, cmd)
  \/ \E t \in Threads : rb_thread_schedule(t)

Spec == Init /\ [][Next]_vars
=============================================================================
