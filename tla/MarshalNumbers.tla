---------------------------- MODULE MarshalNumbers ----------------------------
(***************************************************************************)
(* The encodings of integers in the streams of ruby/marshal.c: w_long and  *)
(* r_long for fixnums, lengths and numbers of links, and the shorts that   *)
(* the digits of a bignum are written as.                                  *)
(***************************************************************************)
EXTENDS Integers, Sequences, SequencesExt

CONSTANTS Longs,   \* integers given to w_long
          Digits   \* sequences of digits of a bignum, the last one not 0

\* The bytes of x, low byte first, until what is left is only its sign.
RECURSIVE LowBytes(_)
LowBytes(x) == <<x % 256>> \o IF x \div 256 \in {0, -1} THEN <<>> ELSE LowBytes(x \div 256)

w_long(x) ==
  IF x = 0 THEN <<0>>
  ELSE IF 0 < x /\ x < 123 THEN <<x + 5>>
  ELSE IF -124 < x /\ x < 0 THEN <<(x - 5) % 256>>
  ELSE LET bytes == LowBytes(x)
       IN <<(IF x > 0 THEN Len(bytes) ELSE -Len(bytes)) % 256>> \o bytes

\* Bytes 1..n after the first as a number, over 0 or over -1.
BytesValue(bytes, n, x) ==
  FoldLeftDomain(LAMBDA acc, i : IF i > n THEN acc ELSE acc + bytes[i + 1] * 256^(i - 1),
                 IF x = 0 THEN 0 ELSE -(256^n), bytes)

r_long(bytes) ==
  LET c == IF bytes[1] > 127 THEN bytes[1] - 256 ELSE bytes[1]
  IN IF c = 0 THEN 0
     ELSE IF c > 0 THEN IF 4 < c THEN c - 5 ELSE BytesValue(bytes, c, 0)
     ELSE IF c < -4 THEN c + 5 ELSE BytesValue(bytes, -c, -1)

\* The digits of a bignum, of two shorts each in base SHORT, the last one not
\* zero: the shorts written, and the digits that are made of them.
SHORT == 4
w_shorts(ds) ==
  FoldLeftDomain(LAMBDA out, i :
    out \o IF i = Len(ds) /\ ds[i] < SHORT THEN <<ds[i]>>
           ELSE <<ds[i] % SHORT, ds[i] \div SHORT>>, <<>>, ds)
shortlen(ds) == (Len(ds) - 1) * 2 + IF ds[Len(ds)] >= SHORT THEN 2 ELSE 1
r_digits(shorts) ==
  [i \in 1..((Len(shorts) + 1) \div 2) |->
     shorts[2 * i - 1] + SHORT * IF 2 * i <= Len(shorts) THEN shorts[2 * i] ELSE 0]

-----------------------------------------------------------------------------
VARIABLES number,   \* a long, or the digits of a bignum
          written,  \* the bytes or shorts written, <<>> before
          again     \* what is read from them, <<>> before

vars == <<number, written, again>>

Init ==
  /\ number \in [kind : {"long"}, long : Longs] \cup [kind : {"big"}, digits : Digits]
  /\ written = <<>> /\ again = <<>>

Write ==
  /\ written = <<>>
  /\ written' = IF number.kind = "long" THEN w_long(number.long) ELSE w_shorts(number.digits)
  /\ UNCHANGED <<number, again>>

Read ==
  /\ written # <<>> /\ again = <<>>
  /\ again' = <<IF number.kind = "long" THEN [kind |-> "long", long |-> r_long(written)]
                ELSE [kind |-> "big", digits |-> r_digits(written)]>>
  /\ UNCHANGED <<number, written>>

Next == Write \/ Read

Spec == Init /\ [][Next]_vars

-----------------------------------------------------------------------------
\* Integers are read as they were written, at the borders of the one-byte form
\* and of each number of bytes and for a last digit of one short, and as many
\* shorts are written as SHORTLEN has announced.
NumbersRoundTrip ==
  /\ again # <<>> => again[1] = number
  /\ written # <<>> /\ number.kind = "big" => Len(written) = shortlen(number.digits)
=============================================================================
