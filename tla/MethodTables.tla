----------------------------- MODULE MethodTables ----------------------------
(***************************************************************************)
(* The method tables, chains and cache of ruby/eval.c and ruby/class.c,    *)
(* how a method is searched, and what the cache promises of the search.    *)
(***************************************************************************)
EXTENDS Naturals, Sequences, SequencesExt, FiniteSets

CONSTANTS Classes,    \* addresses of T_CLASS objects; Root is one of them
          Root,       \* rb_cObject
          Modules,    \* T_MODULE objects
          Iclasses,   \* addresses of T_ICLASS objects
          Mids,       \* method names
          Bodies,     \* method bodies
          Slot,       \* EXPR1, the place of a class and a name in the cache
          Nil         \* no class, no method

Undef == "undef"      \* an entry whose nd_body is 0
Zsuper == "zsuper"    \* a NODE_ZSUPER body
Noexes == {"public", "private"}

Tables == Classes \cup Modules
All == Tables \cup Iclasses
Keys == Tables \X Mids
Slots == {Slot[k] : k \in Keys}
Empty == [klass |-> Nil]

\* A NODE_METHOD; of an alias, with the class and the name of its original.
Methods == [body : Bodies \cup {Undef, Zsuper}, noex : Noexes,
            orig : All \cup {Nil}, mid0 : Mids]

ASSUME ClassAssumption ==
  /\ Root \in Classes
  /\ Classes \cap Modules = {} /\ Tables \cap Iclasses = {}
  /\ IsFiniteSet(All)
ASSUME NilAssumption == Nil \notin All \cup Methods \cup Bodies \cup {Undef, Zsuper}

VARIABLES
  super,      \* RCLASS(c)->super
  owner,      \* of an iclass, RBASIC(c)->klass: its module
  live,       \* the classes and iclasses in use
  m_tbl,      \* Nil or the NODE_METHOD of each name
  cache,      \* an entry for each slot
  aborted,    \* an operation raised an exception after it had changed a table
  reused      \* class addresses that a second class has been allocated at

-----------------------------------------------------------------------------
(* The chain of super pointers.                                            *)

Table(c) == IF c \in Iclasses THEN owner[c] ELSE c

\* The chain that starts at c when the pointers are those of s.
Chain(s, c) ==
  LET from[n \in 0..Cardinality(All)] ==
        IF n = 0 THEN <<c>>
        ELSE LET lower == from[n - 1]
                 above == s[Last(lower)]
             IN IF above = Nil THEN lower ELSE Append(lower, above)
  IN from[Cardinality(All)]

Ancestors(c) == Chain(super, c)

\* search_method: the first of c and its ancestors with an entry for mid.
search_method(c, mid) ==
  LET i == SelectInSeq(Ancestors(c), LAMBDA a : m_tbl[Table(a)][mid] # Nil)
  IN IF i = 0 THEN Nil ELSE Ancestors(c)[i]

Method(origin, mid) == m_tbl[Table(origin)][mid]

\* What rb_get_method_body stores; an alias (NODE_FBODY) stands for the
\* class and the name of its original.
Entry(c, mid) ==
  LET origin == search_method(c, mid)
      found == origin # Nil /\ Method(origin, mid).body # Undef
      m == Method(origin, mid)
  IN IF ~found
     THEN [klass |-> c, mid |-> mid, origin |-> c, mid0 |-> mid,
           method |-> Nil, noex |-> "public"]
     ELSE [klass |-> c, mid |-> mid, method |-> m.body, noex |-> m.noex,
           origin |-> IF m.orig = Nil THEN origin ELSE m.orig, mid0 |-> m.mid0]

-----------------------------------------------------------------------------
Cached == {cache[s] : s \in DOMAIN cache} \ {Empty}

\* A call that is answered by the cache executes the body that search_method
\* would find, or fails as it would: no definition, undef, removal, alias or
\* inclusion leaves a wrong body in the cache.  Two cases are excepted, which
\* the code does not handle: an operation that raised an exception half-way,
\* and a class at the address of one that was freed.
CachedBodyCurrent ==
  ~aborted => \A e \in Cached :
    e.klass \notin reused =>
      LET f == Entry(e.klass, e.mid) IN
      e.method = f.method /\ e.mid0 = f.mid0 /\ (f.method # Nil => e.origin = f.origin)

\* The cached visibility is the current one for every method that is found in
\* a class and is no alias: set_method_visibility drops the entries by origin,
\* which is an iclass for a module's method and the original's class for an
\* alias.
CachedNoexCurrent ==
  ~aborted => \A e \in Cached :
    LET origin == search_method(e.klass, e.mid) IN
    /\ e.klass \notin reused
    /\ origin \in Classes
    /\ Method(origin, e.mid).orig = Nil
    => e.noex = Entry(e.klass, e.mid).noex

\* Method calls that the cache answers see the current tables.
MethodsCurrent == CachedBodyCurrent /\ CachedNoexCurrent
=============================================================================
