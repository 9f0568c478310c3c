----------------------------- MODULE ArrayValues -----------------------------
(***************************************************************************)
(* What Array promises: every array is a sequence of its own.  RubyArray   *)
(* implements it.                                                          *)
(***************************************************************************)
EXTENDS Naturals, Sequences, SequencesExt

CONSTANTS Arrays, Elems, Nil

VARIABLE val   \* the elements of each array

Init == val = [a \in Arrays |-> <<>>]

Become(a, s) == val' = [val EXCEPT ![a] = s]

Padded(s, n) == s \o [i \in 1..(IF n > Len(s) THEN n - Len(s) ELSE 0) |-> Nil]

\* The elements of s that differ from x.
Without(s, x) ==
  LET kept[i \in 0..Len(s)] == IF i = 0 THEN <<>>
                               ELSE IF s[i] = x THEN kept[i - 1]
                               ELSE Append(kept[i - 1], s[i])
  IN kept[Len(s)]

Create(a, s) == Become(a, s)
Replace(a, b) == Become(a, val[b])
Subseq(a, b, beg, len) == Become(a, SubSeq(val[b], beg + 1, beg + len))
Store(a, idx, x) == Become(a, [Padded(val[a], idx + 1) EXCEPT ![idx + 1] = x])
Pop(a) == Become(a, SubSeq(val[a], 1, Len(val[a]) - 1))
Shift(a) == Become(a, SubSeq(val[a], 2, Len(val[a])))
Unshift(a, x) == Become(a, <<x>> \o val[a])
Reverse_(a) == Become(a, Reverse(val[a]))
Delete(a, x) == Become(a, Without(val[a], x))
DeleteAt(a, pos) == Become(a, IF pos < Len(val[a]) THEN RemoveAt(val[a], pos + 1) ELSE val[a])
Fill(a, beg, len, x) ==
  Become(a, LET s == Padded(val[a], beg + len)
            IN [i \in DOMAIN s |-> IF beg < i /\ i <= beg + len THEN x ELSE s[i]])

\* The len elements from beg on give way to the elements of b, which may be a.
Splice(a, beg, len, b) ==
  LET s == Padded(val[a], beg) IN
  Become(a, SubSeq(s, 1, beg) \o val[b] \o SubSeq(s, beg + len + 1, Len(s)))
=============================================================================
