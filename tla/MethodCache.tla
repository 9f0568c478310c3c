----------------------------- MODULE MethodCache -----------------------------
(***************************************************************************)
(* Method tables, the chain of superclasses and included modules, and the  *)
(* global method cache (ruby/eval.c, ruby/class.c).                        *)
(*                                                                         *)
(* A class or module has a method table; an included module is an iclass   *)
(* in the chain of super pointers that shares the table of its module.     *)
(* rb_call and rb_method_boundp trust a cache entry whose class and name   *)
(* match, so every change of a table or of a chain must drop the entries   *)
(* it makes wrong.                                                         *)
(***************************************************************************)
EXTENDS MethodTables, FiniteSetsExt

CONSTANT MaxSteps     \* bound on the changes of a behaviour

VARIABLE steps        \* number of changes so far

tableVars == <<super, owner, live, m_tbl>>
vars == <<tableVars, cache, aborted, reused, steps>>

NewMethod(body, noex, orig, mid0) ==
  [body |-> body, noex |-> noex, orig |-> orig, mid0 |-> mid0]

Init ==
  /\ super = [c \in All |-> Nil]
  /\ owner = [i \in Iclasses |-> Nil]
  /\ live = {Root} \cup Modules
  /\ m_tbl = [c \in Tables |-> [mid \in Mids |-> Nil]]
  /\ cache = [s \in Slots |-> Empty]
  /\ aborted = FALSE
  /\ reused = {}
  /\ steps = 0

-----------------------------------------------------------------------------
(* Clearing the cache.                                                     *)

\* Mutant: only the entries of the class that is changed are dropped.
ClearedByClassAndId(c, mid) ==
  [s \in Slots |-> IF cache[s] # Empty /\ cache[s].klass = c /\ cache[s].mid = mid
                   THEN Empty ELSE cache[s]]

\* rb_clear_cache_by_id
ClearedById(c, mid) ==
  [s \in Slots |-> IF cache[s] # Empty /\ cache[s].mid = mid THEN Empty ELSE cache[s]]

\* rb_clear_cache_by_class, in a cache k
ClearedByClass(k, c) ==
  [s \in Slots |-> IF k[s] # Empty /\ k[s].origin = c THEN Empty ELSE k[s]]

-----------------------------------------------------------------------------
(* Operations.                                                             *)

Changes(c) == c \in live /\ steps < MaxSteps /\ steps' = steps + 1

\* rb_add_method, for a definition (NODE_DEFN, define_method, attr) or undef.
rb_add_method(c, mid, body, noex) ==
  /\ m_tbl' = [m_tbl EXCEPT ![c][mid] = NewMethod(body, noex, Nil, mid)]
  /\ cache' = ClearedById(c, mid)
  /\ UNCHANGED <<super, owner, live, aborted, reused>>

rb_define_method(c, mid, body, noex) ==
  /\ Changes(c)
  /\ rb_add_method(c, mid, body, noex)

Defined(c, mid) ==
  search_method(c, mid) # Nil /\ Method(search_method(c, mid), mid).body # Undef

rb_undef(c, mid) ==
  /\ Changes(c)
  /\ Defined(c, mid)
  /\ rb_add_method(c, mid, Undef, "public")

\* An entry left by undef is deleted too, but then NameError is raised and the
\* cache is not cleared.
remove_method(c, mid) ==
  /\ Changes(c)
  /\ m_tbl[c][mid] # Nil
  /\ m_tbl' = [m_tbl EXCEPT ![c][mid] = Nil]
  /\ \/ /\ m_tbl[c][mid].body # Undef
        /\ cache' = ClearedById(c, mid)
        /\ UNCHANGED aborted
     \/ /\ m_tbl[c][mid].body = Undef
        /\ aborted' = TRUE
        /\ UNCHANGED cache
  /\ UNCHANGED <<super, owner, live, reused>>

\* Where rb_alias and rb_export_method look, rb_alias for a body that is not
\* unfit: modules fall back to Object.
Seen(c, mid, unfit) ==
  LET o == search_method(c, mid) IN
  IF o # Nil /\ Method(o, mid).body \notin unfit THEN o
  ELSE IF c \in Modules THEN search_method(Root, mid) ELSE o

rb_alias(c, name, def) ==
  LET origin == Seen(c, def, {Undef})
      m == Method(origin, def)
  IN /\ Changes(c)
     /\ name # def
     /\ origin # Nil
     /\ m.body # Undef
     /\ m_tbl' = [m_tbl EXCEPT ![c][name] =
                    IF m.orig = Nil THEN NewMethod(m.body, m.noex, origin, def)
                    ELSE m]
     /\ cache' = ClearedById(c, name)
     /\ UNCHANGED <<super, owner, live, aborted, reused>>

\* rb_export_method: the visibility of a method found in c itself is changed
\* in place, that of an inherited one by a NODE_ZSUPER method of c.
rb_export_method(c, mid, noex) ==
  LET origin == Seen(c, mid, {})
      changed == Method(origin, mid).noex # noex
  IN /\ m_tbl' = IF ~changed THEN m_tbl
                 ELSE IF origin = c THEN [m_tbl EXCEPT ![c][mid].noex = noex]
                 ELSE [m_tbl EXCEPT ![c][mid] = NewMethod(Zsuper, noex, Nil, mid)]
     /\ cache' = ClearedByClass(IF changed /\ origin # c THEN ClearedById(c, mid)
                                ELSE cache, c)

\* Module#public, #private with a name.
set_method_visibility(c, mid, noex) ==
  /\ Changes(c)
  /\ Seen(c, mid, {}) # Nil
  /\ rb_export_method(c, mid, noex)
  /\ UNCHANGED <<super, owner, live, aborted, reused>>

\* Mutant: superclasses are not told from modules on the way up.
StepPastClasses(klass, acc, m) ==
  LET above == Tail(Chain(acc.super, klass))
      i == SelectInSeq(above, LAMBDA p : p \in Iclasses /\ acc.owner[p] = Table(m))
      new == CHOOSE x \in Iclasses : x \notin acc.live
  IN IF acc.cyclic \/ Table(m) = klass THEN [acc EXCEPT !.cyclic = TRUE]
     ELSE IF i # 0 THEN [acc EXCEPT !.at = above[i]]
     ELSE [acc EXCEPT !.super[acc.at] = new, !.super[new] = acc.super[acc.at],
                      !.owner[new] = Table(m), !.live = @ \cup {new}, !.at = new]

\* One turn of the loop of rb_include_module, for m of the module's chain: an
\* iclass is inserted behind the insertion point unless there is one already;
\* one that belongs to klass itself becomes the insertion point.
IncludeStep(klass, acc, m) ==
  LET above == Tail(Chain(acc.super, klass))
      i == SelectInSeq(above, LAMBDA p : p \in Iclasses /\ acc.owner[p] = Table(m))
      superclass_seen == \E j \in 1..(i - 1) : above[j] \in Classes
      new == CHOOSE x \in Iclasses : x \notin acc.live
  IN IF acc.cyclic \/ Table(m) = klass THEN [acc EXCEPT !.cyclic = TRUE]
     ELSE IF i # 0 THEN [acc EXCEPT !.at = IF superclass_seen THEN @ ELSE above[i]]
     ELSE [acc EXCEPT !.super[acc.at] = new, !.super[new] = acc.super[acc.at],
                      !.owner[new] = Table(m), !.live = @ \cup {new}, !.at = new]

\* The cache is cleared at the end, which "cyclic include detected" prevents.
rb_include_module(klass, module) ==
  LET done == FoldLeft(LAMBDA acc, m : IncludeStep(klass, acc, m),
                       [super |-> super, owner |-> owner, live |-> live,
                        at |-> klass, cyclic |-> FALSE],
                       Ancestors(module))
  IN /\ Changes(klass)
     /\ klass # module
     /\ Cardinality(Iclasses \ live) >= Len(Ancestors(module))
     /\ super' = done.super
     /\ owner' = done.owner
     /\ live' = done.live
     /\ aborted' = (aborted \/ (done.cyclic /\ done.live # live))
     /\ cache' = IF ~done.cyclic /\ done.live # live THEN [s \in Slots |-> Empty]
                 ELSE cache
     /\ UNCHANGED <<m_tbl, reused>>

\* rb_class_boot, for Class.new, class definitions and singleton classes.
rb_class_boot(c, s) ==
  /\ c \notin live
  /\ Changes(s)
  /\ super' = [super EXCEPT ![c] = s]
  /\ m_tbl' = [m_tbl EXCEPT ![c] = [mid \in Mids |-> Nil]]
  /\ live' = live \cup {c}
  /\ UNCHANGED <<owner, cache, aborted, reused>>

\* obj_free of a class nobody refers to; the cache is not told (ChangeLog
\* 4380), and the address is used again.
obj_free(c) ==
  /\ Changes(c)
  /\ c # Root
  /\ \A d \in live : super[d] # c
  /\ live' = live \ {c}
  /\ reused' = reused \cup {c}
  /\ UNCHANGED <<super, owner, m_tbl, cache, aborted>>

\* rb_call and rb_method_boundp after a miss.
rb_get_method_body(c, mid) ==
  LET e == cache[Slot[<<c, mid>>]] IN
  /\ c \in live
  /\ ~(e # Empty /\ e.klass = c /\ e.mid = mid)
  /\ cache' = [cache EXCEPT ![Slot[<<c, mid>>]] = Entry(c, mid)]
  /\ UNCHANGED <<tableVars, aborted, reused, steps>>

Next ==
  \/ \E c \in Tables, mid \in Mids :
       \/ \E b \in Bodies, noex \in Noexes : rb_define_method(c, mid, b, noex)
       \/ rb_undef(c, mid)
       \/ remove_method(c, mid)
       \/ \E def \in Mids : rb_alias(c, mid, def)
       \/ \E noex \in Noexes : set_method_visibility(c, mid, noex)
       \/ rb_get_method_body(c, mid)
  \/ \E c \in Tables, module \in Modules : rb_include_module(c, module)
  \/ \E c, s \in Classes : rb_class_boot(c, s)
  \/ \E c \in Classes : obj_free(c)

Spec == Init /\ [][Next]_vars

-----------------------------------------------------------------------------
(* Properties.                                                             *)

\* The part of c's chain that is its own: up to the next class.
Own(s, c) ==
  LET above == Tail(Chain(s, c))
      i == SelectInSeq(above, LAMBDA p : p \in Classes)
  IN IF i = 0 THEN above ELSE SubSeq(above, 1, i - 1)

\* The chain of a class has each module at most once before the next class,
\* also when modules that include modules are included in any order, and ends.
ChainsNested ==
  \A c \in live \cap Tables :
    /\ \A i, j \in 1..Len(Own(super, c)) :
         owner[Own(super, c)[i]] = owner[Own(super, c)[j]] => i = j
    /\ super[Last(Ancestors(c))] = Nil

\* The classes and modules, but c, whose own part of the chain a step of
\* rb_include_module(c, module) changes, and c if it lost or reordered its own.
IncludedOutside(c, module) ==
  IF super' = super \/ ~rb_include_module(c, module) THEN {}
  ELSE {d \in live \cap Tables :
          LET before == Own(super, d)
              after == Own(super', d)
          IN before # IF d = c THEN SelectSeq(after, LAMBDA p : p \in Range(before))
                      ELSE after}

\* Chains are well formed, and an inclusion changes the own part of the chain
\* of that class or module only: its superclasses and all others keep theirs,
\* and what was in it stays there in its order.  The insertion point of
\* rb_include_module never leaves the class, although modules are looked for in
\* the superclasses too.
IncludeLocal ==
  /\ []ChainsNested
  /\ [][\A c \in Tables, module \in Modules : IncludedOutside(c, module) = {}]_vars
=============================================================================
