----------------------------- MODULE RubyInteger -----------------------------
(***************************************************************************)
(* Integers: Fixnum (ruby/numeric.c) and Bignum (ruby/bignum.c).           *)
(*                                                                         *)
(* A Fixnum is a machine word of BITSPERDIG bits less one; an operation    *)
(* whose result does not fit makes a Bignum, a sign and digits in base     *)
(* BIGRAD, and bignorm makes small Bignums Fixnums again.  A long has as   *)
(* many bits as a digit (DIGSPERLONG is 1); digit arithmetic is done in    *)
(* BDIGIT_DBL, of twice as many.  Digits are numbered from 0, as in the    *)
(* code: zds[i] is At(z, i).                                               *)
(***************************************************************************)
EXTENDS Integers, Sequences, SequencesExt, FiniteSetsExt, Bitwise

CONSTANTS BITSPERDIG,
          Operands,     \* the values of the other operand
          Shifts,       \* the distances of shifts
          Powers,       \* the exponents of **
          Exceptional,  \* are the operations included that lose bits of a complement,
                        \* and the division of a Bignum by zero?
          MaxDigits     \* bound on the digits of a result

VARIABLES acc,     \* an Integer, the result of the operations so far
          exact    \* the number it should be

vars == <<acc, exact>>

BIGRAD == 2^BITSPERDIG
BIGLO(v) == v % BIGRAD
BIGDN(v) == v \div BIGRAD
BDIGIT_DBL(v) == v % (BIGRAD^2)
BDIGIT_DBL_SIGNED(v) == ((v + (BIGRAD^2 \div 2)) % (BIGRAD^2)) - (BIGRAD^2 \div 2)
long(v) == ((v + (BIGRAD \div 2)) % BIGRAD) - (BIGRAD \div 2)

FIXNUM_MAX == (BIGRAD \div 4) - 1
FIXNUM_MIN == -(BIGRAD \div 4)
FIXABLE(v) == FIXNUM_MIN <= v /\ v <= FIXNUM_MAX

LONG2FIX(v) == [big |-> FALSE, v |-> v]
Big(sign, ds) == [big |-> TRUE, sign |-> sign, ds |-> ds]

At(ds, i) == ds[i + 1]
Put(ds, i, d) == SubSeq(ds, 1, i) \o <<d>> \o SubSeq(ds, i + 2, Len(ds))
Upto(n) == [i \in 1..n |-> i - 1]       \* 0, 1, ..., n - 1
Downfrom(n) == Reverse(Upto(n))
Zeros(n) == [i \in 1..n |-> 0]

Trimmed(ds) == SubSeq(ds, 1, Max({0} \cup {i \in DOMAIN ds : ds[i] # 0}))

Magnitude(ds) == FoldRight(LAMBDA d, m : m * BIGRAD + d, ds, 0)
Value(x) == IF x.big THEN (IF x.sign THEN 1 ELSE -1) * Magnitude(x.ds) ELSE x.v

-----------------------------------------------------------------------------
(* Representations.                                                        *)

\* One digit is as wide as a long: num >= 0 as a signed long.
bignorm(x) ==
  LET ds == Trimmed(x.ds)
      num == long(Magnitude(ds))
      v == IF x.sign THEN num ELSE -num
  IN IF Len(ds) <= 1 /\ num >= 0 /\ FIXABLE(v) THEN LONG2FIX(v) ELSE Big(x.sign, ds)

\* rb_int2big of a long: one digit, also for zero.
rb_int2big(v) == Big(v >= 0, <<BIGLO(IF v < 0 THEN -v ELSE v)>>)

LONG2NUM(v) == IF FIXABLE(v) THEN LONG2FIX(v) ELSE rb_int2big(v)

ToBig(x) == IF x.big THEN x ELSE rb_int2big(x.v)

\* The two's complement of digits; with carry, a digit of ones is put in front
\* of them when the leading bit would be lost.
get2comp(ds, carry) ==
  LET c == FoldLeft(LAMBDA s, d : LET num == s.num + BIGRAD - 1 - d
                                  IN [num |-> BIGDN(num), ds |-> Append(s.ds, BIGLO(num))],
                    [num |-> 1, ds |-> <<>>], ds).ds
  IN IF carry /\ Last(c) < BIGRAD \div 2 THEN Append(c, BIGRAD - 1) ELSE c

-----------------------------------------------------------------------------
(* Sums and products.                                                      *)

rb_big_cmp(x, y) ==
  LET differ == {i \in 1..Len(x.ds) : x.ds[i] # y.ds[i]}
      top == CHOOSE i \in differ : \A j \in differ : j <= i
      mag == IF Len(x.ds) # Len(y.ds) THEN IF Len(x.ds) < Len(y.ds) THEN -1 ELSE 1
             ELSE IF differ = {} THEN 0 ELSE IF x.ds[top] > y.ds[top] THEN 1 ELSE -1
  IN IF x.sign # y.sign THEN IF x.sign THEN 1 ELSE -1
     ELSE IF x.sign THEN mag ELSE -mag

\* Digit by digit sums a + sgn * b with a carry, b no longer than a.
Summed(a, b, sgn) ==
  FoldLeft(LAMBDA s, i : LET num == s.num + At(a, i) + (IF i < Len(b) THEN sgn * At(b, i) ELSE 0)
                         IN [num |-> BIGDN(num), ds |-> Append(s.ds, BIGLO(num))],
           [num |-> 0, ds |-> <<>>], Upto(Len(a)))

\* The larger minus the smaller number; signs are those of |x| - |y|.
bigsub(x, y) ==
  IF rb_big_cmp(Big(TRUE, x.ds), Big(TRUE, y.ds)) < 0
  THEN Big(FALSE, Summed(y.ds, x.ds, -1).ds)
  ELSE Big(TRUE, Summed(x.ds, y.ds, -1).ds)

bigadd(x, y, plus) ==
  LET sign == plus = y.sign
      long_ == IF Len(x.ds) > Len(y.ds) THEN x.ds ELSE y.ds
      short == IF Len(x.ds) > Len(y.ds) THEN y.ds ELSE x.ds
      sum == Summed(long_, short, 1)
  IN IF x.sign # sign THEN IF sign THEN bigsub(y, x) ELSE bigsub(x, y)
     ELSE Big(sign, Append(sum.ds, sum.num))

rb_big_plus(x, y) == bignorm(bigadd(x, y, TRUE))
rb_big_minus(x, y) == bignorm(bigadd(x, y, FALSE))

\* The row of digit i: zds[i + j] += x[i] * y[j], with carry n.
MulRow(zds, d, i, y) ==
  LET row == FoldLeft(LAMBDA s, j : LET ee == BDIGIT_DBL(s.n + d * At(y, j))
                                        n == BDIGIT_DBL(At(s.z, i + j) + ee)
                                    IN [n |-> BIGDN(n),
                                        z |-> IF ee # 0 THEN Put(s.z, i + j, BIGLO(n)) ELSE s.z],
                      [n |-> 0, z |-> zds], Upto(Len(y)))
  IN IF d = 0 THEN zds
     ELSE IF row.n # 0 THEN Put(row.z, i + Len(y), row.n) ELSE row.z

rb_big_mul(x, y) ==
  bignorm(Big(x.sign = y.sign,
              FoldLeft(LAMBDA z, i : MulRow(z, At(x.ds, i), i, y.ds),
                       Zeros(Len(x.ds) + Len(y.ds) + 1), Upto(Len(x.ds)))))

\* z * x^(yy - 1): squares while the exponent is even.  The factors may have
\* become Fixnums.
RECURSIVE PowLoop(_, _, _)
PowLoop(z, x, yy) ==
  IF yy = 0 THEN z
  ELSE IF yy % 2 = 0 THEN PowLoop(z, rb_big_mul(ToBig(x), ToBig(x)), yy \div 2)
  ELSE PowLoop(rb_big_mul(ToBig(z), ToBig(x)), x, yy - 1)

rb_big_pow(x, yy) == IF yy = 0 THEN LONG2FIX(1)
                     ELSE LET z == PowLoop(x, x, yy - 1) IN IF z.big THEN bignorm(z) ELSE z

-----------------------------------------------------------------------------
(* Division.                                                               *)

\* ds shifted left by dd < BITSPERDIG bits, and the bits shifted out.
ShiftedUp(ds, dd) ==
  FoldLeft(LAMBDA s, d : LET t2 == BDIGIT_DBL(s.t2 + d * 2^dd)
                         IN [t2 |-> BIGDN(t2), ds |-> Append(s.ds, BIGLO(t2))],
           [t2 |-> 0, ds |-> <<>>], ds)

\* "multiply and subtract": q * y from the digits of z that end with j.  num is
\* what is missing in the high digit, which is not updated.
MulSub(z, y, q, j) ==
  LET ny == Len(y)
      r == FoldLeft(LAMBDA s, i :
             LET t2 == BDIGIT_DBL(s.t2 + At(y, i) * q)
                 ee == BDIGIT_DBL(s.num - BIGLO(t2))
                 num == BDIGIT_DBL_SIGNED(At(s.z, j - ny + i) + ee)
             IN [num |-> BIGDN(num), t2 |-> BIGDN(t2),
                 z |-> IF ee # 0 THEN Put(s.z, j - ny + i, BIGLO(num)) ELSE s.z],
             [num |-> 0, t2 |-> 0, z |-> z], Upto(ny))
  IN [z |-> r.z, num |-> BDIGIT_DBL_SIGNED(r.num + At(z, j) - r.t2), q |-> q]

\* One round of "add back"; what was missing before is forgotten.
AddBack(s, y, j) ==
  LET ny == Len(y)
      r == FoldLeft(LAMBDA t, i :
             LET ee == BDIGIT_DBL(t.num + At(y, i))
                 num == BDIGIT_DBL_SIGNED(At(t.z, j - ny + i) + ee)
             IN [num |-> BIGDN(num),
                 z |-> IF ee # 0 THEN Put(t.z, j - ny + i, BIGLO(num)) ELSE t.z],
             [num |-> 0, z |-> s.z], Upto(ny))
  IN [z |-> r.z, num |-> BDIGIT_DBL_SIGNED(r.num - 1), q |-> BIGLO(s.q - 1)]

RECURSIVE Corrected(_, _, _)
\* Mutant: at most one round.
CorrectedOnce(s, y, j) == IF s.num = 0 THEN s ELSE [AddBack(s, y, j) EXCEPT !.num = 0]

Corrected(s, y, j) == IF s.num = 0 THEN s ELSE Corrected(AddBack(s, y, j), y, j)

\* The quotient digit for position j replaces the high digit of z.
DivideDigit(z, y, j) ==
  LET top == Last(y)
      q == IF At(z, j) = top THEN BIGRAD - 1
           ELSE BIGLO((At(z, j) * BIGRAD + At(z, j - 1)) \div top)
      s == IF q = 0 THEN [z |-> z, q |-> 0] ELSE Corrected(MulSub(z, y, q, j), y, j)
  IN Put(s.z, j, s.q)

\* Division by one digit.
DivOne(x, y) ==
  LET dd == y.ds[1]
      r == FoldLeft(LAMBDA s, i : LET t2 == s.t2 * BIGRAD + At(s.z, i)
                                  IN [t2 |-> t2 % dd, z |-> Put(s.z, i, t2 \div dd)],
                    [t2 |-> 0, z |-> x.ds], Downfrom(Len(x.ds)))
  IN [div |-> Big(x.sign = y.sign, r.z), mod |-> Big(x.sign, <<r.t2>>)]

\* The remainder is what is left in the low digits, shifted back; "normalize
\* remainder" keeps one digit at least.
Remainder(z, dd) ==
  LET trimmed == Trimmed(z)
      ds == IF trimmed = <<>> THEN <<0>> ELSE trimmed
  IN FoldLeft(LAMBDA s, i : [t2 |-> At(ds, i) * BIGRAD,
                             z |-> Put(s.z, i, BIGLO((s.t2 + At(ds, i)) \div 2^dd))],
              [t2 |-> 0, z |-> ds], Downfrom(Len(ds))).z

bigdivrem(x, y) ==
  LET nx == Len(x.ds)  ny == Len(y.ds)
      dd == CHOOSE k \in 0..(BITSPERDIG - 1) :
              /\ Last(y.ds) * 2^k >= BIGRAD \div 2 /\ Last(y.ds) * 2^k < BIGRAD
      up == ShiftedUp(x.ds, dd)
      z0 == Append(up.ds, up.t2) \o (IF nx = ny THEN <<0>> ELSE <<>>)
      yds == ShiftedUp(y.ds, dd).ds
      z == FoldLeft(LAMBDA s, j : DivideDigit(s, yds, j), z0,
                    [k \in 1..(Len(z0) - ny) |-> Len(z0) - k])
  IN IF nx < ny \/ (nx = ny /\ Last(x.ds) < Last(y.ds))
     THEN [div |-> rb_int2big(0), mod |-> x]
     ELSE IF ny = 1 THEN DivOne(x, y)
     ELSE [div |-> Big(x.sign = y.sign, SubSeq(z, ny + 1, Len(z))),
           mod |-> Big(x.sign, Remainder(SubSeq(z, 1, ny), dd))]

\* Rounds the quotient down; a remainder of zero has one digit.
bigdivmod(x, y) ==
  LET r == bigdivrem(x, y) IN
  IF x.sign # y.sign /\ r.mod.ds # <<0>>
  THEN [div |-> bigadd(r.div, rb_int2big(1), FALSE), mod |-> bigadd(r.mod, y, TRUE)]
  ELSE r

rb_big_div(x, y) == bignorm(bigdivmod(x, y).div)
rb_big_modulo(x, y) == bignorm(bigdivmod(x, y).mod)
rb_big_remainder(x, y) == bignorm(bigdivrem(x, y).mod)

-----------------------------------------------------------------------------
(* Bits.                                                                   *)

Complement(x) == IF x.sign THEN x.ds ELSE get2comp(x.ds, TRUE)

\* The operands in two's complement, the shorter one with its sign.
Paired(x, y) ==
  LET xs == Complement(x)  ys == Complement(y)
  IN IF Len(xs) > Len(ys) THEN [ds1 |-> ys, ds2 |-> xs, sign |-> y.sign]
     ELSE [ds1 |-> xs, ds2 |-> ys, sign |-> x.sign]

Both(p) == 1..Len(p.ds1)
FromBits(sign, z) == bignorm(Big(sign, IF sign THEN z ELSE get2comp(z, FALSE)))

rb_big_and(x, y) ==
  LET p == Paired(x, y)
  IN FromBits(x.sign \/ y.sign,
              [i \in DOMAIN p.ds2 |-> IF i \in Both(p) THEN p.ds1[i] & p.ds2[i]
                                      ELSE IF p.sign THEN 0 ELSE p.ds2[i]])

rb_big_or(x, y) ==
  LET p == Paired(x, y)
  IN FromBits(x.sign /\ y.sign,
              [i \in DOMAIN p.ds2 |-> IF i \in Both(p) THEN p.ds1[i] | p.ds2[i]
                                      ELSE IF p.sign THEN p.ds2[i] ELSE BIGRAD - 1])

rb_big_xor(x, y) ==
  LET p == Paired(x, y)
  IN FromBits(x.sign = y.sign,
              [i \in DOMAIN p.ds2 |-> IF i \in Both(p) THEN p.ds1[i] ^^ p.ds2[i]
                                      ELSE IF p.sign THEN p.ds2[i]
                                      ELSE BIGRAD - 1 - p.ds2[i]])

rb_big_uminus(x) == bignorm(Big(~x.sign, x.ds))

\* The digits of x are inverted, not the one that get2comp adds; it may move the
\* digits, and those at the old place are inverted then.
rb_big_neg(x, moved) ==
  LET z == Complement(x)
      inverted == [i \in DOMAIN z |-> IF i <= Len(x.ds) THEN BIGRAD - 1 - z[i] ELSE z[i]]
  IN bignorm(Big(~x.sign, IF x.sign THEN get2comp(inverted, FALSE)
                          ELSE IF moved THEN z ELSE inverted))

rb_big_lshift(x, shift) ==
  LET up == ShiftedUp(x.ds, shift % BITSPERDIG) IN
  bignorm(Big(x.sign, Zeros(shift \div BITSPERDIG) \o up.ds \o <<up.t2>>))

\* get2comp of no digits leaves none.
rb_big_rshift(x, shift) ==
  LET s1 == shift \div BITSPERDIG
      s2 == shift % BITSPERDIG
      xds == Complement(x)
      z == [i \in 1..(Len(xds) - s1) |->
              BIGLO(((IF i + s1 < Len(xds) THEN xds[i + s1 + 1]
                      ELSE IF x.sign THEN 0 ELSE BIGRAD - 1) * BIGRAD
                     + xds[i + s1]) \div 2^s2)]
  IN IF s1 > Len(x.ds) THEN LONG2FIX(IF x.sign THEN 0 ELSE -1)
     ELSE bignorm(Big(x.sign, IF x.sign \/ z = <<>> THEN z ELSE get2comp(z, FALSE)))

-----------------------------------------------------------------------------
(* Fixnums.                                                                *)

fix_plus(a, b) == IF FIXABLE(a + b) THEN LONG2FIX(a + b)
                  ELSE rb_big_plus(rb_int2big(a), rb_int2big(b))
fix_minus(a, b) == IF FIXABLE(a - b) THEN LONG2FIX(a - b)
                   ELSE rb_big_minus(rb_int2big(a), rb_int2big(b))

\* C's division, which rounds towards zero.
Quot(a, b) == LET q == (IF a < 0 THEN -a ELSE a) \div (IF b < 0 THEN -b ELSE b)
              IN IF (a < 0) = (b < 0) THEN q ELSE -q

\* The product may overflow: it is right if it can be divided back.
fix_mul(a, b) ==
  LET c == long(a * b) IN
  IF a = 0 THEN LONG2FIX(0)
  ELSE IF ~FIXABLE(c) \/ Quot(c, a) # b THEN rb_big_mul(rb_int2big(a), rb_int2big(b))
  ELSE LONG2FIX(c)

fixdivmod(a, b) ==
  LET div == Quot(a, b)
      mod == a - div * b
      off == (mod < 0 /\ b > 0) \/ (mod > 0 /\ b < 0)
  IN [div |-> LONG2NUM(IF off THEN div - 1 ELSE div), mod |-> LONG2NUM(IF off THEN mod + b ELSE mod)]

\* Bits of longs.
longbits(v) == v % BIGRAD
fix_and(a, b) == LONG2NUM(long(longbits(a) & longbits(b)))
fix_or(a, b) == LONG2NUM(long(longbits(a) | longbits(b)))
fix_xor(a, b) == LONG2NUM(long(longbits(a) ^^ longbits(b)))
fix_rev(a) == LONG2NUM(-a - 1)

fix_lshift(a, width) ==
  IF width > BITSPERDIG - 1 \/ longbits(a) \div 2^(BITSPERDIG - 1 - width) > 0
  THEN rb_big_lshift(rb_int2big(a), width)
  ELSE LONG2NUM(a * 2^width)

fix_rshift(a, width) ==
  IF width >= BITSPERDIG - 1 THEN LONG2FIX(IF a < 0 THEN -1 ELSE 0)
  ELSE LONG2FIX(a \div 2^width)

-----------------------------------------------------------------------------
(* Operations of Ruby programs: a Fixnum meets a Bignum as a Bignum of one *)
(* digit (rb_big_coerce, rb_int2big).                                      *)

Integer(v) == IF FIXABLE(v) THEN LONG2FIX(v)
          ELSE LET m == IF v < 0 THEN -v ELSE v IN
               Big(v >= 0, Trimmed([i \in 1..MaxDigits |-> BIGLO(m \div BIGRAD^(i - 1))]))

\* Bitwise operations of a Fixnum and a Bignum are those of the Bignum.
Op(name, x, y) ==
  LET fix == ~x.big /\ ~y.big
      X == ToBig(x)  Y == ToBig(y)
      B == IF x.big THEN X ELSE Y
      C == IF x.big THEN Y ELSE X
  IN CASE name = "+" -> IF fix THEN fix_plus(x.v, y.v) ELSE rb_big_plus(X, Y)
       [] name = "-" -> IF fix THEN fix_minus(x.v, y.v) ELSE rb_big_minus(X, Y)
       [] name = "*" -> IF fix THEN fix_mul(x.v, y.v) ELSE rb_big_mul(X, Y)
       [] name = "/" -> IF fix THEN fixdivmod(x.v, y.v).div ELSE rb_big_div(X, Y)
       [] name = "%" -> IF fix THEN fixdivmod(x.v, y.v).mod ELSE rb_big_modulo(X, Y)
       [] name = "remainder" -> IF fix THEN LONG2NUM(x.v - y.v * Quot(x.v, y.v))
                                ELSE rb_big_remainder(X, Y)
       [] name = "&" -> IF fix THEN fix_and(x.v, y.v) ELSE rb_big_and(B, C)
       [] name = "|" -> IF fix THEN fix_or(x.v, y.v) ELSE rb_big_or(B, C)
       [] name = "^" -> IF fix THEN fix_xor(x.v, y.v) ELSE rb_big_xor(B, C)
       [] name = "<=>" -> LONG2FIX(IF fix THEN IF x.v = y.v THEN 0 ELSE IF x.v > y.v THEN 1 ELSE -1
                                   ELSE rb_big_cmp(X, Y))

\* What the operations mean for numbers.  Bits are those of numbers in two's
\* complement, of more digits than any operand has.
Width == BIGRAD^(2 * MaxDigits + 1)
Signed(v) == IF v >= Width \div 2 THEN v - Width ELSE v
Floor(a, b) == IF b > 0 THEN a \div b ELSE (-a) \div (-b)
Meaning(name, a, b) ==
  CASE name = "+" -> a + b
    [] name = "-" -> a - b
    [] name = "*" -> a * b
    [] name = "/" -> Floor(a, b)
    [] name = "%" -> a - b * Floor(a, b)
    [] name = "remainder" -> a - b * Quot(a, b)
    [] name = "&" -> Signed((a % Width) & (b % Width))
    [] name = "|" -> Signed((a % Width) | (b % Width))
    [] name = "^" -> Signed((a % Width) ^^ (b % Width))
    [] name = "<=>" -> IF a < b THEN -1 ELSE IF a > b THEN 1 ELSE 0

OpNames == {"+", "-", "*", "/", "%", "remainder", "&", "|", "^", "<=>"}
Small(x) == x.big => Len(x.ds) <= MaxDigits

Init == acc = LONG2FIX(1) /\ exact = 1

Become(x, v) == Small(x) /\ acc' = x /\ exact' = v

\* Division by zero has no result: fixdivmod raises ZeroDivisionError.  bigdivrem
\* would if ny were 0, but the zero of rb_int2big has one digit, and it divides by
\* that digit: where the machine does not stop the process, anything results.  So
\* a Bignum is divided by zero only if Exceptional.
DividedByZero(x) ==
  /\ x.big => Exceptional
  /\ acc' \in IF x.big THEN {Integer(v) : v \in Operands} ELSE {acc}
  /\ UNCHANGED exact

\* The operand is on the right, or on the left.
Applied(name, x, y, a, b) ==
  IF b = 0 /\ name \in {"/", "%", "remainder"}
  THEN DividedByZero(x)
  ELSE \* The complement of zeros needs one more digit, and gets none.
       /\ name = "^" /\ ~Exceptional => \A k \in 1..MaxDigits : Meaning(name, a, b) # -(BIGRAD^k)
       /\ Become(Op(name, x, y), Meaning(name, a, b))

Binary(name, v) == \/ Applied(name, acc, Integer(v), exact, v)
                   \/ Applied(name, Integer(v), acc, v, exact)

Lshift(s) == Become(IF acc.big THEN rb_big_lshift(acc, s) ELSE fix_lshift(acc.v, s), exact * 2^s)

\* All digits of a negative Bignum are shifted out only if Exceptional.
Rshift(s) ==
  /\ acc.big /\ ~acc.sign /\ ~Exceptional => s \div BITSPERDIG # Len(acc.ds)
  /\ Become(IF acc.big THEN rb_big_rshift(acc, s) ELSE fix_rshift(acc.v, s), exact \div 2^s)

Power(v, e) == IF e = 0 THEN 1 ELSE v^e

\* Bound: powers of numbers up to BIGRAD.
Pow(e) == /\ exact \in -BIGRAD..BIGRAD
          /\ Become(rb_big_pow(ToBig(acc), e), Power(exact, e))

Minus == Become(IF acc.big THEN rb_big_uminus(acc) ELSE LONG2NUM(-acc.v), -exact)

\* The complement gets, or needs, a digit more only if Exceptional.
Neg == /\ acc.big /\ ~Exceptional =>
            IF acc.sign THEN \E i \in DOMAIN acc.ds : acc.ds[i] # BIGRAD - 1
            ELSE Len(Complement(acc)) = Len(acc.ds)
       /\ \E moved \in IF acc.big /\ Len(Complement(acc)) > Len(acc.ds) THEN BOOLEAN ELSE {FALSE} :
            Become(IF acc.big THEN rb_big_neg(acc, moved) ELSE fix_rev(acc.v), -exact - 1)

Next == \/ \E name \in OpNames, v \in Operands : Binary(name, v)
        \/ \E s \in Shifts : Lshift(s) \/ Rshift(s)
        \/ \E e \in Powers : Pow(e)
        \/ Minus \/ Neg

Spec == Init /\ [][Next]_vars

-----------------------------------------------------------------------------
(* Properties.                                                             *)

\* Every sequence of operations leaves the exact number, whatever overflows,
\* carries, borrows, corrected quotient digits and changes between Fixnum and
\* Bignum it needs, in its one representation: a Fixnum if it fits in one,
\* otherwise a Bignum without leading zeros (==, eql? and hash compare
\* representations).
ArithmeticExact == Value(acc) = exact /\ acc = Integer(exact)

=============================================================================
