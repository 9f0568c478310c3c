------------------------------- MODULE Marshal -------------------------------
(***************************************************************************)
(* Marshal.dump and Marshal.load of ruby/marshal.c: a graph of objects is  *)
(* written as a stream in which an object and a symbol that have been met  *)
(* before are links to their number, and the stream is read into a new     *)
(* graph.  The numbers are right only if both sides register the objects   *)
(* in the same order, whatever the nesting of their contents.              *)
(*                                                                         *)
(* A value is nil, a symbol or a reference to an object.  An object has a  *)
(* type, a class (Base for the built-in class of the type), the modules    *)
(* that extend it, its contents (elements, key and value in turn, members, *)
(* or what _dump_data returns), for a hash whether the last content is the *)
(* default, and instance variables.  Contents without references, such as  *)
(* the characters of a string, are left out.  The stream is a sequence of  *)
(* tokens; MarshalNumbers models how integers are written.                 *)
(*                                                                         *)
(* Objects live throughout the dump.  In the code the object that          *)
(* _dump_data returns is a temporary which nothing marks, while its        *)
(* address stays in arg->data (w_object, TYPE_DATA): if it is collected    *)
(* and its address used again during the dump, a link to it is written     *)
(* for a later object.  The model leaves this out.                         *)
(***************************************************************************)
EXTENDS Integers, Sequences, SequencesExt

CONSTANTS Objects, Base,
          Heaps,     \* the graphs that are dumped, functions on Objects
          Limits     \* the arguments limit of Marshal.dump

(* The values and objects that are dumped.                                  *)
NilValue == [k |-> "nil"]
Sym(s) == [k |-> "sym", s |-> s]
Ref(o) == [k |-> "ref", o |-> o]

Obj(type, class, ext, sub, def, iv) ==
  [type |-> type, class |-> class, ext |-> ext, sub |-> sub, def |-> def, iv |-> iv]

-----------------------------------------------------------------------------
(* Dump.  d has the stream, the tables symbol and data in the order of      *)
(* their numbers, and whether an exception has ended the dump.              *)

Put(d, token) == [d EXCEPT !.out = Append(@, token)]

NumberOf(seq, x) == SelectInSeq(seq, LAMBDA y : y = x)

w_symbol(d, id) ==
  IF NumberOf(d.symbol, id) > 0
  THEN Put(d, [t |-> "SYMLINK", n |-> NumberOf(d.symbol, id)])
  ELSE [Put(d, [t |-> "SYMBOL", s |-> id]) EXCEPT !.symbol = Append(@, id)]

\* Mutant: the modules of an object are not written.
ExtendedNone(d, obj) == d

\* TYPE_EXTENDED and the name for each module, the last one first.
w_extended(d, obj) ==
  FoldLeft(LAMBDA e, m : w_symbol(Put(e, [t |-> "EXTENDED"]), m), d, obj.ext)

w_class(d, type, obj) == w_symbol(Put(w_extended(d, obj), [t |-> type]), obj.class)

\* TYPE_UCLASS unless CLASS_OF is the built-in class; the class of an extended
\* object is its singleton class, whose name is that of the class below it.
w_uclass(d, obj) ==
  LET e == w_extended(d, obj)
  IN IF obj.class = Base /\ obj.ext = <<>> THEN e
     ELSE w_symbol(Put(e, [t |-> "UCLASS"]), obj.class)

RECURSIVE w_object(_, _, _, _)

\* Contents one after the other; a symbol before each where names gives one.
w_contents(heap, d, names, values, limit) ==
  FoldLeftDomain(LAMBDA e, i : w_object(heap, IF names = <<>> THEN e ELSE w_symbol(e, names[i]),
                                        values[i], limit),
                 d, values)

w_ivar(heap, d, obj, limit) ==
  w_contents(heap, Put(d, [t |-> "LEN", n |-> Len(obj.iv)]),
             [i \in DOMAIN obj.iv |-> obj.iv[i].id],
             [i \in DOMAIN obj.iv |-> obj.iv[i].val], limit)

\* The names of the members of a struct.
Members == <<"a", "b">>

\* The switch of w_object on the type.
w_body(heap, d, obj, limit) ==
  LET sized(e, type) == Put(Put(e, [t |-> type]), [t |-> "LEN", n |-> Len(obj.sub)])
  IN CASE obj.type \in {"CLASS", "FLOAT"} -> Put(d, [t |-> obj.type])
       [] obj.type = "STRING" -> Put(w_uclass(d, obj), [t |-> "STRING"])
       [] obj.type = "ARRAY" ->
            w_contents(heap, sized(w_uclass(d, obj), "ARRAY"), <<>>, obj.sub, limit)
       [] obj.type = "HASH" ->
            w_contents(heap, sized(w_uclass(d, obj), IF obj.def THEN "HASH_DEF" ELSE "HASH"),
                       <<>>, obj.sub, limit)
       [] obj.type = "STRUCT" ->
            w_contents(heap, Put(w_symbol(Put(d, [t |-> "STRUCT"]), obj.class),
                                 [t |-> "LEN", n |-> Len(obj.sub)]),
                       Members, obj.sub, limit)
       [] obj.type = "OBJECT" -> w_ivar(heap, w_class(d, "OBJECT", obj), obj, limit)
       [] obj.type = "USERDEF" -> w_class(d, "USERDEF", obj)
       [] obj.type = "DATA" ->
            w_contents(heap, w_class(d, "DATA", obj), <<>>, obj.sub, limit)

\* TYPE_IVAR is for the objects with instance variables in generic_iv_tbl.
Generic(obj) == obj.type # "OBJECT" /\ obj.iv # <<>>

w_object(heap, d, v, limit) ==
  IF d.raised \/ limit = 0 THEN [d EXCEPT !.raised = TRUE]
  ELSE IF v.k = "nil" THEN Put(d, [t |-> "NIL"])
  ELSE IF v.k = "sym" THEN w_symbol(d, v.s)
  ELSE IF NumberOf(d.data, v.o) > 0
  THEN Put(d, [t |-> "LINK", n |-> NumberOf(d.data, v.o)])
  ELSE LET obj == heap[v.o]
           start == IF Generic(obj) THEN Put(d, [t |-> "IVAR"]) ELSE d
           body == w_body(heap, [start EXCEPT !.data = Append(@, v.o)], obj, limit - 1)
       IN IF Generic(obj) THEN w_ivar(heap, body, obj, limit - 1) ELSE body

Dump(heap, v, limit) ==
  w_object(heap, [out |-> <<>>, symbol |-> <<>>, data |-> <<>>, raised |-> FALSE], v, limit)

-----------------------------------------------------------------------------
(* Load.  l has the position in the stream, the tables symbol and data, the *)
(* new objects, the value just read and the values given to proc.           *)

Token(in, l) == in[l.pos]
Skip(l) == [l EXCEPT !.pos = @ + 1]

\* r_symbol: the value read is the symbol's name.
r_symbol(in, l) ==
  IF Token(in, l).t = "SYMLINK" THEN [Skip(l) EXCEPT !.val = l.symbol[Token(in, l).n]]
  ELSE [Skip(l) EXCEPT !.val = Token(in, l).s, !.symbol = Append(@, Token(in, l).s)]

\* A new object is allocated and registered.
r_regist(l, type, class) ==
  [l EXCEPT !.heap = Append(@, [type |-> type, class |-> class, ext |-> <<>>,
                                sub |-> <<>>, def |-> FALSE, iv |-> <<>>]),
            !.data = Append(@, Ref(Len(l.heap) + 1)),
            !.val = Ref(Len(l.heap) + 1)]

RECURSIVE r_object0(_, _, _)
RECURSIVE r_contents(_, _, _, _, _)

\* rb_hash_aset copies a key that is a string.
Stored(l, hash, place) ==
  IF l.heap[hash].type = "HASH" /\ place % 2 = 1 /\ l.val.k = "ref"
     /\ l.heap[l.val.o].type = "STRING"
  THEN [l EXCEPT !.heap = Append(@, [l.heap[l.val.o] EXCEPT !.iv = <<>>]),
                 !.val = Ref(Len(l.heap) + 1)]
  ELSE l

\* n values become contents of the new object o; named ones are preceded by
\* the symbol of a member.
r_contents(in, l, o, n, named) ==
  IF n = 0 THEN [l EXCEPT !.val = Ref(o)]
  ELSE LET place == Len(l.heap[o].sub) + 1
           read == r_object0(in, IF named THEN r_symbol(in, l) ELSE l, TRUE)
           kept == IF n = 1 /\ l.heap[o].def THEN read ELSE Stored(read, o, place)
       IN r_contents(in, [kept EXCEPT !.heap[o].sub = Append(@, kept.val)], o, n - 1, named)

RECURSIVE r_ivars(_, _, _, _)
r_ivars(in, l, o, n) ==
  IF n = 0 THEN [l EXCEPT !.val = Ref(o)]
  ELSE LET name == r_symbol(in, l)
           read == r_object0(in, name, TRUE)
       IN r_ivars(in, [read EXCEPT !.heap[o].iv = Append(@, [id |-> name.val, val |-> read.val])],
                  o, n - 1)

\* r_ivar reads the number of instance variables first.
r_ivar(in, l, o) == r_ivars(in, Skip(l), o, Token(in, l).n)

\* rb_extend_object: the module extends the object last of all.
Extend(l, m) == [l EXCEPT !.heap[l.val.o].ext = <<m>> \o @]

\* case TYPE_ARRAY
r_array(in, l) ==
  LET new == r_regist(Skip(Skip(l)), "ARRAY", Base)
  IN r_contents(in, new, new.val.o, Token(in, Skip(l)).n, FALSE)

\* case TYPE_HASH and TYPE_HASH_DEF
r_hash(in, l) ==
  LET def == Token(in, l).t = "HASH_DEF"
      new == [r_regist(Skip(Skip(l)), "HASH", Base) EXCEPT !.heap[Len(l.heap) + 1].def = def]
  IN r_contents(in, new, new.val.o, Token(in, Skip(l)).n, FALSE)

\* The types whose class follows the type: TYPE_STRUCT, TYPE_USERDEF,
\* TYPE_OBJECT and TYPE_DATA.  What _load_data is given is not yielded.
r_classed(in, l) ==
  LET type == Token(in, l).t
      class == r_symbol(in, Skip(l))
      o == Len(l.heap) + 1
      new == r_regist(IF type = "STRUCT" THEN Skip(class) ELSE class, type, class.val)
  IN CASE type = "STRUCT" -> r_contents(in, new, o, Token(in, class).n, TRUE)
       [] type = "USERDEF" -> new
       [] type = "OBJECT" -> r_ivar(in, new, o)
       [] type = "DATA" -> LET read == r_object0(in, new, FALSE)
                           IN [read EXCEPT !.heap[o].sub = <<read.val>>, !.val = Ref(o)]

\* The object inside TYPE_IVAR, TYPE_EXTENDED and TYPE_UCLASS.
r_inner(in, l) == r_object0(in, l, FALSE)

\* The wrappers: instance variables, a module, a class.
r_wrapper(in, l) ==
  CASE Token(in, l).t = "IVAR" ->
         LET inner == r_inner(in, Skip(l)) IN r_ivar(in, inner, inner.val.o)
    [] Token(in, l).t = "EXTENDED" ->
         LET m == r_symbol(in, Skip(l)) IN Extend(r_inner(in, m), m.val)
    [] Token(in, l).t = "UCLASS" ->
         LET c == r_symbol(in, Skip(l))
             inner == r_inner(in, c)
         IN [inner EXCEPT !.heap[inner.val.o].class = c.val]

\* r_object0; proc: the value is to be yielded.
r_object0(in, l, proc) ==
  LET type == Token(in, l).t
      yielded(r) == IF proc THEN [r EXCEPT !.yielded = Append(@, r.val)] ELSE r
  IN CASE type = "LINK" -> [Skip(l) EXCEPT !.val = l.data[Token(in, l).n]]
       [] type = "SYMLINK" -> [Skip(l) EXCEPT !.val = Sym(l.symbol[Token(in, l).n])]
       [] type = "SYMBOL" ->
            LET r == r_symbol(in, l) IN yielded([r EXCEPT !.val = Sym(r.val)])
       [] type = "NIL" -> yielded([Skip(l) EXCEPT !.val = NilValue])
       [] type \in {"CLASS", "FLOAT", "STRING"} -> yielded(r_regist(Skip(l), type, Base))
       [] type = "ARRAY" -> yielded(r_array(in, l))
       [] type \in {"HASH", "HASH_DEF"} -> yielded(r_hash(in, l))
       [] type \in {"STRUCT", "USERDEF", "OBJECT", "DATA"} -> yielded(r_classed(in, l))
       [] type \in {"IVAR", "EXTENDED", "UCLASS"} -> yielded(r_wrapper(in, l))

Load(in) == r_object0(in, [pos |-> 1, symbol |-> <<>>, data |-> <<>>, heap |-> <<>>,
                           val |-> NilValue, yielded |-> <<>>], TRUE)

-----------------------------------------------------------------------------
VARIABLES heap, limit,   \* the arguments of Marshal.dump; its object is the first
          dumped,        \* what w_object has made, <<>> before
          loaded         \* what r_object has made, <<>> before

vars == <<heap, limit, dumped, loaded>>

Init == heap \in Heaps /\ limit \in Limits /\ dumped = <<>> /\ loaded = <<>>

marshal_dump ==
  /\ dumped = <<>>
  /\ dumped' = <<Dump(heap, Ref("o1"), limit)>>
  /\ UNCHANGED <<heap, limit, loaded>>

marshal_load ==
  /\ dumped # <<>> /\ ~dumped[1].raised /\ loaded = <<>>
  /\ loaded' = <<Load(dumped[1].out)>>
  /\ UNCHANGED <<heap, limit, dumped>>

Next == marshal_dump \/ marshal_load

Spec == Init /\ [][Next]_vars

-----------------------------------------------------------------------------
\* The loaded value that stands for v.
Image(v) == IF v.k = "ref" THEN loaded[1].data[NumberOf(dumped[1].data, v.o)] ELSE v

\* A key that is a string is a copy of the string loaded.
StringKey(obj, i) ==
  obj.type = "HASH" /\ i % 2 = 1 /\ (obj.def => i < Len(obj.sub))
  /\ obj.sub[i].k = "ref" /\ heap[obj.sub[i].o].type = "STRING"

\* The types whose dump begins with w_extended.
Extended == {"STRING", "ARRAY", "HASH", "OBJECT", "USERDEF", "DATA"}

SameContents(obj, new) ==
  /\ Len(new.sub) = Len(obj.sub)
  /\ \A i \in DOMAIN obj.sub :
       IF StringKey(obj, i)
       THEN loaded[1].heap[new.sub[i].o].type = "STRING"
       ELSE new.sub[i] = Image(obj.sub[i])
  /\ new.iv = [i \in DOMAIN obj.iv |-> [id |-> obj.iv[i].id, val |-> Image(obj.iv[i].val)]]

\* Marshal.load(Marshal.dump(x)) is a copy of the graph of x: every object met
\* is made once, of the same type and class and with the same modules, and
\* what was shared or cyclic still is, in contents and instance variables.
RoundTrip == loaded # <<>> =>
  /\ loaded[1].val = Image(Ref("o1"))
  /\ loaded[1].pos = Len(dumped[1].out) + 1
  /\ Len(loaded[1].data) = Len(dumped[1].data)
  /\ \A i \in DOMAIN dumped[1].data :
       LET obj == heap[dumped[1].data[i]]
           new == loaded[1].heap[loaded[1].data[i].o]
       IN /\ new.type = obj.type /\ new.class = obj.class /\ new.def = obj.def
          /\ obj.type \in Extended => new.ext = obj.ext
          /\ SameContents(obj, new)

\* What _dump_data has returned is yielded to nobody.
Payloads == {heap[dumped[1].data[i]].sub[1] :
               i \in {j \in DOMAIN dumped[1].data : heap[dumped[1].data[j]].type = "DATA"}}

\* proc is given every loaded object once, when it is complete, and nothing
\* intermediate.
YieldedOnce == loaded # <<>> =>
  \A i \in DOMAIN dumped[1].data :
    LET times == Len(SelectSeq(loaded[1].yielded, LAMBDA v : v = loaded[1].data[i]))
    IN times <= 1 /\ (Ref(dumped[1].data[i]) \notin Payloads => times = 1)
=============================================================================
