------------------------------ MODULE RubyArray ------------------------------
(***************************************************************************)
(* Arrays that share their elements until one of them is changed           *)
(* (ruby/array.c).                                                         *)
(*                                                                         *)
(* ary_make_shared moves the buffer of an array to a hidden array, from    *)
(* which any number of arrays may show a window; shift and pop move the    *)
(* bounds of the window, and rb_ary_modify copies it before anything else  *)
(* is written.  The word aux holds the capacity of an array with a buffer  *)
(* of its own, and the hidden array otherwise.  Each operation is a        *)
(* function from heaps to heaps.                                           *)
(***************************************************************************)
EXTENDS Integers, Sequences, SequencesExt, FiniteSets, FiniteSetsExt

CONSTANTS Arrays, Elems, Nil,
          Literals,          \* arrays written as literals
          Item,              \* the element that is stored
          Junk,              \* contents of memory nobody has written
          ARY_DEFAULT_SIZE,
          BlockShares,       \* do blocks of map! and delete_if share the array?
          MaxLen,            \* bound on the length of an array
          MaxBufs,           \* bound on the buffers, and on the hidden arrays
          MaxSteps           \* bound on the operations and block calls

Cell == Elems \cup {Nil, Junk}

ASSUME ArrayAssumption == /\ Literals \subseteq Seq(Elems) /\ Item \in Elems
                          /\ ARY_DEFAULT_SIZE \in Nat \ {0} /\ MaxLen \in Nat /\ MaxBufs \in Nat
ASSUME NilAssumption == Nil \notin Nat /\ Nil \notin Seq(Cell)

VARIABLES
  heap,    \* arr: each array, or Nil; mem: the cells of each buffer, or Nil when free;
           \* root: the buffer of each hidden array, or Nil when there is none
  loop,    \* map! or delete_if of an array: kind, i (i1), j (i2), or Nil
  val,     \* the sequence that each array stands for, after ArrayValues
  steps    \* operations and block calls so far

arrayVars == <<heap, loop, val, steps>>

Values == INSTANCE ArrayValues

Bufs == 1..MaxBufs
Least(S) == CHOOSE b \in S : \A c \in S : b <= c

\* A new object of rb_ary_s_alloc: no buffer.
Empty == [buf |-> 0, off |-> 0, len |-> 0, aux |-> 0, shared |-> FALSE]

ArrayInit ==
  /\ heap = [arr |-> [a \in Arrays |-> Empty],
             mem |-> [b \in Bufs |-> Nil],
             root |-> [r \in Bufs |-> Nil]]
  /\ loop = [a \in Arrays |-> Nil]
  /\ Values!Init
  /\ steps = 0

Cells(h, b) == IF b = 0 THEN <<>> ELSE h.mem[b]

\* The elements RARRAY(a)->ptr[0 .. len-1].
Window(h, a) == SubSeq(Cells(h, h.arr[a].buf), h.arr[a].off + 1,
                       h.arr[a].off + h.arr[a].len)

\* The first n cells of s, extended by unwritten ones.
Resized(s, n) == [i \in 1..n |-> IF i <= Len(s) THEN s[i] ELSE Junk]

\* s with the elements of r at off: MEMCPY, MEMMOVE, rb_mem_clear.
Overwritten(s, off, r) ==
  [i \in DOMAIN s |-> IF off < i /\ i <= off + Len(r) THEN r[i - off] ELSE s[i]]

\* Array a gets a new buffer s of its own, with capacity n.
Owning(h, a, s, len, n) ==
  LET b == Least({x \in Bufs : h.mem[x] = Nil}) IN
  [h EXCEPT !.mem[b] = s,
            !.arr[a] = [buf |-> b, off |-> 0, len |-> len, aux |-> n, shared |-> FALSE]]

Freed(h, b) == IF b = 0 THEN h ELSE [h EXCEPT !.mem[b] = Nil]

\* REALLOC_N to n cells, with the new capacity; the buffer may move.
Realloc(h, a, n) ==
  LET old == h.arr[a]
      new == Owning(h, a, Resized(Cells(h, old.buf), n), old.len, n)
  IN Freed(new, old.buf)

\* Elements r at index i of the array, whose length becomes n.
Written(h, a, i, r, n) ==
  LET w == [h EXCEPT !.arr[a].len = n] IN
  IF h.arr[a].buf = 0 THEN w
  ELSE [w EXCEPT !.mem[h.arr[a].buf] = Overwritten(@, h.arr[a].off + i, r)]

Nils(n) == [i \in 1..(IF n > 0 THEN n ELSE 0) |-> Nil]
AtLeastDefault(n) == IF n < ARY_DEFAULT_SIZE THEN ARY_DEFAULT_SIZE ELSE n

-----------------------------------------------------------------------------
(* Sharing.                                                                *)

rb_ary_modify(h, a) ==
  IF h.arr[a].shared THEN Owning(h, a, Window(h, a), h.arr[a].len, h.arr[a].len) ELSE h

ary_make_shared(h, a) ==
  IF h.arr[a].shared THEN h
  ELSE LET r == Least({x \in Bufs : h.root[x] = Nil}) IN
       [h EXCEPT !.root[r] = h.arr[a].buf, !.arr[a].aux = r, !.arr[a].shared = TRUE]

rb_ary_replace(h, copy, orig) ==
  IF copy = orig THEN rb_ary_modify(h, copy)
  ELSE LET s == ary_make_shared(rb_ary_modify(h, copy), orig)
           f == IF s.arr[copy].shared THEN s ELSE Freed(s, s.arr[copy].buf)
       IN [f EXCEPT !.arr[copy] = f.arr[orig]]

\* The result is the new object a.
rb_ary_subseq(h, a, ary, beg, len) ==
  IF len = 0 THEN Owning(h, a, Resized(<<>>, 1), 0, 1)
  ELSE LET s == ary_make_shared(h, ary) IN
       [s EXCEPT !.arr[a] = [s.arr[ary] EXCEPT !.off = @ + beg, !.len = len]]

-----------------------------------------------------------------------------
(* Operations.                                                             *)

rb_ary_s_create(h, a, s) ==
  IF s = <<>> THEN [h EXCEPT !.arr[a] = Empty] ELSE Owning(h, a, s, Len(s), Len(s))

rb_ary_store(h, a, idx, x) ==
  LET m == rb_ary_modify(h, a)
      v == m.arr[a]
      r == IF idx >= v.aux THEN Realloc(m, a, AtLeastDefault(v.aux \div 2) + idx) ELSE m
      p == Written(r, a, v.len, Nils(IF idx > v.len THEN idx - v.len + 1 ELSE 0),
                   IF idx >= v.len THEN idx + 1 ELSE v.len)
  IN Written(p, a, idx, <<x>>, p.arr[a].len)

\* The word aux is a capacity only if the array is not shared.
rb_ary_pop(h, a) ==
  LET v == h.arr[a]
      r == IF ~v.shared /\ v.len * 2 < v.aux /\ v.aux > ARY_DEFAULT_SIZE
           THEN Realloc(h, a, v.len * 2) ELSE h
  IN IF v.len = 0 THEN h ELSE [r EXCEPT !.arr[a].len = @ - 1]

rb_ary_shift(h, a) ==
  IF h.arr[a].len = 0 THEN h
  ELSE [ary_make_shared(h, a) EXCEPT !.arr[a].off = @ + 1, !.arr[a].len = @ - 1]

rb_ary_unshift(h, a, x) ==
  LET m == rb_ary_modify(h, a)
      v == m.arr[a]
      r == IF v.len = v.aux THEN Realloc(m, a, v.aux + AtLeastDefault(v.aux \div 2)) ELSE m
  IN Written(r, a, 0, <<x>> \o Window(r, a), v.len + 1)

\* Mutant: the replacement is put in place before the tail is moved.
UpdateTailLast(h, a, beg, rlen0, rpl) ==
  LET m == rb_ary_modify(h, a)
      v == m.arr[a]
      rlen == h.arr[rpl].len
      len == IF beg + rlen0 > v.len THEN v.len - beg ELSE rlen0
      alen == IF beg >= v.len THEN beg + rlen ELSE v.len + rlen - len
      r == IF alen >= v.aux THEN Realloc(m, a, alen) ELSE m
      put == Written(r, a, beg, SubSeq(Window(r, rpl), 1, rlen), v.len)
      tail == SubSeq(Window(put, a), beg + len + 1, v.len)
  IN IF beg >= v.len THEN Written(Written(r, a, v.len, Nils(beg - v.len), v.len),
                                  a, beg, SubSeq(Window(r, rpl), 1, rlen), alen)
     ELSE Written(put, a, beg + rlen, tail, alen)

\* a[beg, len] = rpl; concat and insert are beg = length and len = 0.  The
\* array may be its own replacement: its tail moves first, then the elements of
\* rpl, as they are then, are copied.
rb_ary_update(h, a, beg, rlen0, rpl) ==
  LET m == rb_ary_modify(h, a)
      v == m.arr[a]
      rlen == h.arr[rpl].len
      len == IF beg + rlen0 > v.len THEN v.len - beg ELSE rlen0
      alen == IF beg >= v.len THEN beg + rlen ELSE v.len + rlen - len
      r == IF alen >= v.aux THEN Realloc(m, a, alen) ELSE m
      moved == IF len = rlen THEN r
               ELSE Written(r, a, beg + rlen, SubSeq(Window(r, a), beg + len + 1, v.len), alen)
  IN IF beg >= v.len THEN Written(Written(r, a, v.len, Nils(beg - v.len), v.len),
                                  a, beg, SubSeq(Window(r, rpl), 1, rlen), alen)
     ELSE Written(moved, a, beg, SubSeq(Window(moved, rpl), 1, rlen), alen)

rb_ary_delete(h, a, x) ==
  LET m == rb_ary_modify(h, a)
      left == Values!Without(Window(m, a), x)
      w == Written(m, a, 0, left, Len(left))
  IN IF Len(left) = h.arr[a].len THEN m
     ELSE IF Len(left) * 2 < m.arr[a].aux /\ m.arr[a].aux > ARY_DEFAULT_SIZE
     THEN Realloc(w, a, Len(left) * 2) ELSE w

rb_ary_delete_at(h, a, pos) ==
  LET m == rb_ary_modify(h, a) IN
  IF pos >= h.arr[a].len THEN m
  ELSE Written(m, a, pos, SubSeq(Window(m, a), pos + 2, h.arr[a].len), h.arr[a].len - 1)

rb_ary_reverse(h, a) ==
  LET m == rb_ary_modify(h, a) IN Written(m, a, 0, Reverse(Window(m, a)), h.arr[a].len)

rb_ary_clear(h, a) ==
  LET m == [rb_ary_modify(h, a) EXCEPT !.arr[a].len = 0] IN
  IF ARY_DEFAULT_SIZE * 2 < m.arr[a].aux THEN Realloc(m, a, ARY_DEFAULT_SIZE * 2) ELSE m

rb_ary_fill(h, a, beg, len, x) ==
  LET m == rb_ary_modify(h, a)
      v == m.arr[a]
      end == beg + len
      r == IF end > v.len /\ end >= v.aux THEN Realloc(m, a, end) ELSE m
      n == IF end > v.len THEN end ELSE v.len
      p == Written(r, a, v.len, Nils(IF end > v.len /\ beg > v.len THEN end - v.len ELSE 0), n)
  IN Written(p, a, beg, [i \in 1..len |-> x], n)

\* rb_gc: the arrays of set D are no longer referenced; a hidden array is marked
\* through the arrays that share it.
Swept(h, D) ==
  LET live == Arrays \ D
      roots == {h.arr[a].aux : a \in {x \in live : h.arr[x].shared}}
      gone == {h.arr[a].buf : a \in {x \in D : ~h.arr[x].shared}}
              \cup {h.root[r] : r \in {x \in Bufs : h.root[x] # Nil /\ x \notin roots}}
  IN [arr |-> [a \in Arrays |-> IF a \in D THEN Empty ELSE h.arr[a]],
      mem |-> [b \in Bufs |-> IF b \in gone THEN Nil ELSE h.mem[b]],
      root |-> [r \in Bufs |-> IF r \in roots THEN h.root[r] ELSE Nil]]

-----------------------------------------------------------------------------
(* Steps.                                                                  *)

Free(a) == heap.arr[a] = Empty /\ loop[a] = Nil

\* The blocks of map! and delete_if leave the array alone, and share it only if
\* BlockShares.
Writes(a) == loop[a] = Nil
Shares(a) == loop[a] = Nil \/ BlockShares

\* Bounds: room for two more buffers and a hidden array.
Room == /\ Cardinality({b \in Bufs : heap.mem[b] = Nil}) >= 2
        /\ \E r \in Bufs : heap.root[r] = Nil

Length(a) == heap.arr[a].len

Literal(a, s) == Free(a) /\ Room /\ heap' = rb_ary_s_create(heap, a, s) /\ Values!Create(a, s) /\ UNCHANGED loop
Replace(a, b) == /\ Writes(a) /\ Shares(b) /\ Room
                 /\ heap' = rb_ary_replace(heap, a, b) /\ Values!Replace(a, b) /\ UNCHANGED loop
Subseq(a, b, beg, len) ==
  /\ Free(a) /\ Shares(b) /\ Room /\ a # b /\ beg + len <= Length(b)
  /\ heap' = rb_ary_subseq(heap, a, b, beg, len) /\ Values!Subseq(a, b, beg, len) /\ UNCHANGED loop
Store(a, idx, x) == /\ Writes(a) /\ Room /\ idx < MaxLen
                    /\ heap' = rb_ary_store(heap, a, idx, x) /\ Values!Store(a, idx, x) /\ UNCHANGED loop
Pop(a) == /\ Writes(a) /\ Room /\ Length(a) > 0
          /\ heap' = rb_ary_pop(heap, a) /\ Values!Pop(a) /\ UNCHANGED loop
Shift(a) == /\ Writes(a) /\ Shares(a) /\ Room /\ Length(a) > 0
            /\ heap' = rb_ary_shift(heap, a) /\ Values!Shift(a) /\ UNCHANGED loop
Unshift(a, x) == /\ Writes(a) /\ Room /\ Length(a) < MaxLen
                 /\ heap' = rb_ary_unshift(heap, a, x) /\ Values!Unshift(a, x) /\ UNCHANGED loop
Splice(a, beg, len, b) ==
  /\ Writes(a) /\ Room /\ beg + Length(b) <= MaxLen /\ Length(a) + Length(b) <= MaxLen + len
  /\ heap' = rb_ary_update(heap, a, beg, len, b) /\ Values!Splice(a, beg, len, b) /\ UNCHANGED loop
Delete(a, x) == Writes(a) /\ Room /\ heap' = rb_ary_delete(heap, a, x) /\ Values!Delete(a, x) /\ UNCHANGED loop
DeleteAt(a, pos) == Writes(a) /\ Room /\ heap' = rb_ary_delete_at(heap, a, pos) /\ Values!DeleteAt(a, pos) /\ UNCHANGED loop
Reverse_(a) == Writes(a) /\ Room /\ heap' = rb_ary_reverse(heap, a) /\ Values!Reverse_(a) /\ UNCHANGED loop
Clear(a) == Writes(a) /\ Room /\ heap' = rb_ary_clear(heap, a) /\ Values!Create(a, <<>>) /\ UNCHANGED loop
Fill(a, beg, len, x) == /\ Writes(a) /\ Room /\ beg + len <= MaxLen
                        /\ heap' = rb_ary_fill(heap, a, beg, len, x) /\ Values!Fill(a, beg, len, x) /\ UNCHANGED loop

rb_gc(D) == /\ \A a \in D : loop[a] = Nil
            /\ heap' = Swept(heap, D)
            /\ val' = [a \in Arrays |-> IF a \in D THEN <<>> ELSE val[a]]
            /\ UNCHANGED loop

\* rb_ary_collect_bang and rb_ary_reject_bang: the array is made modifiable
\* once; then their block runs for each element.
Iterate(a, kind) ==
  /\ loop[a] = Nil /\ Room /\ Length(a) > 0
  /\ heap' = rb_ary_modify(heap, a)
  /\ loop' = [loop EXCEPT ![a] = [kind |-> kind, i |-> 0, j |-> 0]]
  /\ UNCHANGED val

Advanced(a, l) == loop' = [loop EXCEPT ![a] = IF l.i < Length(a) THEN l ELSE Nil]

\* The block of map! returns x.
Collected(a, x) ==
  /\ loop[a] # Nil /\ loop[a].kind = "map!"
  /\ heap' = Written(heap, a, loop[a].i, <<x>>, Length(a))
  /\ Values!Store(a, loop[a].i, x)
  /\ Advanced(a, [loop[a] EXCEPT !.i = @ + 1])

\* The block of delete_if returns true or false.
Rejected(a, yes) ==
  LET l == loop[a]
      n == IF yes THEN l.j ELSE l.j + 1
      kept == IF yes THEN heap
              ELSE Written(heap, a, l.j, <<Window(heap, a)[l.i + 1]>>, Length(a))
  IN /\ l # Nil /\ l.kind = "delete_if"
     /\ heap' = IF l.i + 1 < Length(a) THEN kept ELSE [kept EXCEPT !.arr[a].len = n]
     /\ Values!Become(a, LET s == IF yes THEN val[a] ELSE [val[a] EXCEPT ![n] = val[a][l.i + 1]]
                        IN IF l.i + 1 < Length(a) THEN s ELSE SubSeq(s, 1, n))
     /\ Advanced(a, [l EXCEPT !.i = @ + 1, !.j = n])

Operation ==
  \/ \E a \in Arrays, s \in Literals : Literal(a, s)
  \/ \E a, b \in Arrays : \/ Replace(a, b)
                          \/ \E beg, len \in 0..MaxLen : Subseq(a, b, beg, len) \/ Splice(a, beg, len, b)
  \/ \E a \in Arrays : Pop(a) \/ Shift(a) \/ Reverse_(a) \/ Clear(a)
  \/ \E a \in Arrays : \/ Unshift(a, Item) \/ Collected(a, Item)
                       \/ \E x \in Elems : Delete(a, x)
  \/ \E a \in Arrays, i \in 0..MaxLen : \/ DeleteAt(a, i) \/ Store(a, i, Item)
                                        \/ \E n \in 1..MaxLen : Fill(a, i, n, Item)
  \/ \E D \in SUBSET Arrays : rb_gc(D)
  \/ \E a \in Arrays : \/ Iterate(a, "map!") \/ Iterate(a, "delete_if")
                       \/ \E yes \in BOOLEAN : Rejected(a, yes)

ArrayNext == steps < MaxSteps /\ steps' = steps + 1 /\ Operation

ArraySpec == ArrayInit /\ [][ArrayNext]_arrayVars

-----------------------------------------------------------------------------
(* Properties.                                                             *)

\* Operations on one array never show in another one, however their elements
\* are shared, and each leaves exactly the elements that ArrayValues says:
\* growth, moved windows, spare capacity, splicing an array into itself, and the
\* collection of arrays that shared with others included.
ArraysIndependent == \A a \in Arrays : Window(heap, a) = val[a]

\* The window of every array lies in an allocated buffer, the capacity of an
\* array with a buffer of its own is the size of that buffer, and the buffer
\* belongs to nobody else.
BufferHeld ==
  \A a \in Arrays : LET v == heap.arr[a] IN
    /\ v.buf # 0 => heap.mem[v.buf] # Nil
    /\ v.off + v.len <= Len(Cells(heap, v.buf))
    /\ v.shared => heap.root[v.aux] = v.buf
    /\ ~v.shared /\ v.buf # 0 =>
         /\ v.off = 0 /\ v.aux = Len(heap.mem[v.buf])
         /\ \A b \in Arrays \ {a} : heap.arr[b].buf # v.buf
         /\ \A r \in Bufs : heap.root[r] # v.buf

\* Every allocated buffer is the one of an array or of a hidden array: nothing
\* that shares or replaces elements leaks them.
NoBufferLost ==
  \A b \in Bufs : heap.mem[b] # Nil => \/ \E a \in Arrays : heap.arr[a].buf = b
                                       \/ \E r \in Bufs : heap.root[r] = b

\* Sharing shows neither in the elements nor in the memory.
ArraySound == BufferHeld /\ NoBufferLost /\ ArraysIndependent
=============================================================================
