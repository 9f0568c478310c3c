------------------------------ MODULE QuickSort ------------------------------
(***************************************************************************)
(* ruby_qsort of ruby/util.c (qs6 and mm.c), the sort of Array#sort.       *)
(*                                                                         *)
(* One action per iteration of a loop.  Positions are indices instead of   *)
(* pointers, so that size is 1.  The comparison is Ruby code: it may be    *)
(* given by a block whose results agree with no order (ordered = FALSE),   *)
(* and then nothing is sorted but nothing outside the array is touched.    *)
(* The lengths from which the code takes a better median and looks for a   *)
(* sorted region (60, 200 and 63) are parameters.                          *)
(***************************************************************************)
EXTENDS Integers, Sequences, FiniteSets

CONSTANTS Inputs,      \* arrays of integers that cmp compares
          Unordered,   \* arrays of which cmp says anything
          MEDIAN3, MEDIAN9, CHKLIM

ASSUME SortInputsAssumption == Inputs \subseteq Seq(Int) /\ Unordered \subseteq Seq(Int)
\* The code has 60, 200 and 63.  A median of three needs five elements and one
\* of nine needs nine, to lie between the ends of the region.
ASSUME SortLimitsAssumption ==
  /\ MEDIAN3 \in Nat /\ MEDIAN9 \in Nat /\ CHKLIM \in Nat
  /\ 5 <= MEDIAN3 /\ 9 <= MEDIAN9 /\ 1 <= CHKLIM

VARIABLES
  input,       \* the array given
  ordered,     \* does cmp compare the integers
  a,           \* the array
  L, R,        \* left and right end of the current region
  l, r, m,     \* left and right group, median
  eq_l, eq_r,  \* all items of the left (right) group are equal to the median
  stack,       \* regions to sort
  chklim,      \* 0 when the check for a sorted region has been made
  at           \* the label the code is at

region == <<L, R>>
groups == <<eq_l, eq_r>>
call == <<input, ordered>>
sortVars == <<call, a, region, l, r, m, groups, stack, chklim, at>>

nel == Len(input)
Positions == 1..nel

SortInit ==
  /\ \/ input \in Inputs /\ ordered = TRUE
     \/ input \in Unordered /\ ordered = FALSE
  /\ a = input
  /\ L = 1 /\ R = Len(input)
  /\ l = 1 /\ r = 1 /\ m = 1
  /\ eq_l = TRUE /\ eq_r = TRUE
  /\ stack = <<>>
  /\ chklim = CHKLIM
  /\ at = IF Len(input) <= 1 THEN "done" ELSE "start"

-----------------------------------------------------------------------------
Sign(x) == IF x < 0 THEN -1 ELSE IF x > 0 THEN 1 ELSE 0

\* The results that (*cmp)(i, j) may have.
cmp(i, j) == IF ordered THEN {Sign(a[i] - a[j])} ELSE {-1, 0, 1}

mmswap(i, j) == [a EXCEPT ![i] = a[j], ![j] = a[i]]
mmrot3(i, j, k) == [a EXCEPT ![i] = a[j], ![j] = a[k], ![k] = a[i]]

\* The positions that med3 may give.
med3(i, j, k) ==
  IF ~ordered THEN {i, j, k}
  ELSE IF a[i] < a[j]
  THEN {IF a[j] < a[k] THEN j ELSE IF a[i] < a[k] THEN k ELSE i}
  ELSE {IF a[j] > a[k] THEN j ELSE IF a[i] < a[k] THEN i ELSE k}

Goto(label) == at' = label

\* Label nxt: the next region of the stack, or the end.
nxt ==
  /\ at = "nxt"
  /\ IF stack = <<>> THEN Goto("done") /\ UNCHANGED <<region, stack>>
     ELSE /\ L' = stack[Len(stack)].LL
          /\ R' = stack[Len(stack)].RR
          /\ stack' = SubSeq(stack, 1, Len(stack) - 1)
          /\ Goto("start")
  /\ UNCHANGED <<call, a, l, r, m, groups, chklim>>

\* Label start: a region of two elements is sorted at once.
start_two ==
  /\ at = "start" /\ L + 1 = R
  /\ \E t \in cmp(L, R) : a' = IF t > 0 THEN mmswap(L, R) ELSE a
  /\ Goto("nxt")
  /\ UNCHANGED <<call, region, l, r, m, groups, stack, chklim>>

\* The medians that the code may take of a region of t elements.
Medians(t) ==
  LET mid == L + t \div 2
      eighth == t \div 8
      quarter == t \div 4
  IN IF t < MEDIAN3 THEN {mid}
     ELSE IF t < MEDIAN9 THEN med3(L + quarter, mid, mid + quarter)
     ELSE UNION {med3(m1, mid, m3) :
                   m1 \in med3(L + eighth, L + 2 * eighth, L + 3 * eighth),
                   m3 \in med3(mid + eighth, mid + 2 * eighth, mid + 3 * eighth)}

start_median ==
  /\ at = "start" /\ L + 1 # R
  /\ l' = L /\ r' = R
  /\ m' \in Medians(R - L + 1)
  /\ Goto("compare")
  /\ UNCHANGED <<call, a, region, groups, stack, chklim>>

\* The region is known to be in order (or, down, in the reverse order).
InOrder(down) ==
  IF ~ordered THEN BOOLEAN
  ELSE {\A p \in l..(r - 1) : IF down THEN a[p] >= a[p + 1] ELSE a[p] <= a[p + 1]}
Reversed == [p \in Positions |-> IF p \in l..r THEN a[l + r - p] ELSE a[p]]
Check == chklim # 0 /\ nel >= chklim

\* l, m and r are compared and moved, which decides on the splitting type.
compare ==
  /\ at = "compare"
  /\ \E lm \in cmp(l, m), mr \in cmp(m, r), lr \in cmp(l, r) :
       \/ /\ lm * mr > 0 /\ Check
          /\ chklim' = 0
          /\ \E sorted \in InOrder(lm > 0) :
               IF sorted THEN /\ a' = IF lm > 0 THEN Reversed ELSE a
                              /\ Goto("nxt")
               ELSE /\ a' = IF lm > 0 THEN mmswap(l, r) ELSE a
                    /\ Goto("loopA")
       \/ /\ lm * mr <= 0 \/ ~Check
          /\ UNCHANGED chklim
          /\ \/ lm < 0 /\ mr < 0 /\ a' = a /\ Goto("loopA")
             \/ lm < 0 /\ mr > 0 /\ lr <= 0 /\ a' = mmswap(m, r) /\ Goto("loopA")
             \/ lm < 0 /\ mr > 0 /\ lr > 0 /\ a' = mmrot3(r, m, l) /\ Goto("loopA")
             \/ lm < 0 /\ mr = 0 /\ a' = a /\ Goto("loopB")
             \/ lm > 0 /\ mr > 0 /\ a' = mmswap(l, r) /\ Goto("loopA")
             \/ lm > 0 /\ mr < 0 /\ lr <= 0 /\ a' = mmswap(l, m) /\ Goto("loopB")
             \/ lm > 0 /\ mr < 0 /\ lr > 0 /\ a' = mmrot3(l, m, r) /\ Goto("loopA")
             \/ lm > 0 /\ mr = 0 /\ a' = mmswap(l, r) /\ Goto("loopA")
             \/ lm = 0 /\ mr < 0 /\ a' = a /\ Goto("loopA")
             \/ lm = 0 /\ mr > 0 /\ a' = mmswap(l, r) /\ Goto("loopB")
             \/ lm = 0 /\ mr = 0 /\ a' = a /\ Goto("equal")
  /\ eq_l' = TRUE /\ eq_r' = TRUE
  /\ UNCHANGED <<call, region, l, r, m, stack>>

\* The loop for l, m and r all equal.
equal ==
  /\ at = "equal"
  /\ \/ /\ l + 1 = r
        /\ l' = r /\ a' = a /\ Goto("nxt")
     \/ /\ l + 1 # r /\ l + 1 = m
        /\ l' = m /\ a' = a /\ UNCHANGED at
     \/ /\ l + 1 # r /\ l + 1 # m
        /\ \E t \in cmp(l + 1, m) :
             \/ t > 0 /\ a' = mmswap(l + 1, r) /\ l' = L /\ Goto("loopA")
             \/ t < 0 /\ a' = mmswap(L, l + 1) /\ l' = L /\ Goto("loopB")
             \/ t = 0 /\ a' = a /\ l' = l + 1 /\ UNCHANGED at
  /\ UNCHANGED <<call, region, r, m, groups, stack, chklim>>

-----------------------------------------------------------------------------
(* Splitting type A: left <= median < right.                               *)

\* The groups have met with l and r at p: the median goes between them.
SplitA(p) ==
  /\ a' = IF p - 1 # m THEN mmswap(m, p - 1) ELSE a
  /\ l' = p - 2 /\ r' = p
  /\ Goto("fin")
  /\ UNCHANGED <<m, groups>>

\* Mutant: an element less than the median is not noticed in the left group.
loopA_leftBlind ==
  /\ at = "loopA"
  /\ \/ l + 1 = r /\ SplitA(r)
     \/ /\ l + 1 # r /\ l' = l + 1
        /\ \/ l + 1 = m /\ UNCHANGED <<groups, at>>
           \/ /\ l + 1 # m
              /\ \E t \in cmp(l + 1, m) :
                   /\ eq_r' = (eq_r /\ t <= 0)
                   /\ at' = IF t > 0 THEN "loopA_right" ELSE at
                   /\ UNCHANGED eq_l
        /\ UNCHANGED <<a, r, m>>
  /\ UNCHANGED <<call, region, stack, chklim>>

\* The first inner loop moves l to an element greater than the median.
loopA_left ==
  /\ at = "loopA"
  /\ \/ l + 1 = r /\ SplitA(r)
     \/ /\ l + 1 # r /\ l' = l + 1
        /\ \/ l + 1 = m /\ UNCHANGED <<groups, at>>
           \/ /\ l + 1 # m
              /\ \E t \in cmp(l + 1, m) :
                   /\ eq_r' = (eq_r /\ t <= 0)
                   /\ eq_l' = (eq_l /\ t >= 0)
                   /\ at' = IF t > 0 THEN "loopA_right" ELSE at
        /\ UNCHANGED <<a, r, m>>
  /\ UNCHANGED <<call, region, stack, chklim>>

\* The second inner loop moves r to an element that is not, and swaps.
loopA_right ==
  /\ at = "loopA_right"
  /\ \/ l = r - 1 /\ SplitA(l)
     \/ /\ l # r - 1 /\ r' = r - 1
        /\ \/ /\ r - 1 = m
              /\ m' = l /\ a' = mmswap(l, r - 1)
              /\ Goto("loopA") /\ UNCHANGED groups
           \/ /\ r - 1 # m
              /\ \E t \in cmp(r - 1, m) :
                   /\ eq_l' = (eq_l /\ t >= 0)
                   /\ a' = IF t <= 0 THEN mmswap(l, r - 1) ELSE a
                   /\ at' = IF t <= 0 THEN "loopA" ELSE at
              /\ UNCHANGED <<m, eq_r>>
        /\ UNCHANGED l
  /\ UNCHANGED <<call, region, stack, chklim>>

(* Splitting type B: left < median <= right.                               *)

SplitB(p) ==
  /\ a' = IF p + 1 # m THEN mmswap(p + 1, m) ELSE a
  /\ l' = p /\ r' = p + 2
  /\ Goto("fin")
  /\ UNCHANGED <<m, groups>>

loopB_right ==
  /\ at = "loopB"
  /\ \/ l = r - 1 /\ SplitB(l)
     \/ /\ l # r - 1 /\ r' = r - 1
        /\ \/ r - 1 = m /\ UNCHANGED <<groups, at>>
           \/ /\ r - 1 # m
              /\ \E t \in cmp(r - 1, m) :
                   /\ eq_l' = (eq_l /\ t >= 0)
                   /\ eq_r' = (eq_r /\ t <= 0)
                   /\ at' = IF t < 0 THEN "loopB_left" ELSE at
        /\ UNCHANGED <<a, l, m>>
  /\ UNCHANGED <<call, region, stack, chklim>>

loopB_left ==
  /\ at = "loopB_left"
  /\ \/ l + 1 = r /\ SplitB(r)
     \/ /\ l + 1 # r /\ l' = l + 1
        /\ \/ /\ l + 1 = m
              /\ m' = r /\ a' = mmswap(l + 1, r)
              /\ Goto("loopB") /\ UNCHANGED groups
           \/ /\ l + 1 # m
              /\ \E t \in cmp(l + 1, m) :
                   /\ eq_r' = (eq_r /\ t <= 0)
                   /\ a' = IF t >= 0 THEN mmswap(l + 1, r) ELSE a
                   /\ at' = IF t >= 0 THEN "loopB" ELSE at
              /\ UNCHANGED <<m, eq_l>>
        /\ UNCHANGED r
  /\ UNCHANGED <<call, region, stack, chklim>>

-----------------------------------------------------------------------------

\* The shorter side is sorted first and the longer one pushed.
LeftFirst == l - L < R - r

\* Mutant: the region is sorted again when both groups are equal to the median.
SidesLeftAll == TRUE

\* Is there a side to sort.
SidesLeft == ~eq_l \/ ~eq_r

\* Label fin.
fin ==
  /\ at = "fin"
  /\ \/ /\ ~eq_l /\ ~eq_r
        /\ stack' = Append(stack, IF LeftFirst THEN [LL |-> r, RR |-> R]
                                  ELSE [LL |-> L, RR |-> l])
        /\ IF LeftFirst THEN R' = l /\ UNCHANGED L ELSE L' = r /\ UNCHANGED R
     \/ ~eq_l /\ eq_r /\ R' = l /\ UNCHANGED <<L, stack>>
     \/ eq_l /\ ~eq_r /\ L' = r /\ UNCHANGED <<R, stack>>
     \/ eq_l /\ eq_r /\ UNCHANGED <<region, stack>>
  /\ Goto(IF SidesLeft THEN "start" ELSE "nxt")
  /\ UNCHANGED <<call, a, l, r, m, groups, chklim>>

SortNext ==
  nxt \/ start_two \/ start_median \/ compare \/ equal \/ loopA_left \/ loopA_right
    \/ loopB_right \/ loopB_left \/ fin

SortSpec == SortInit /\ [][SortNext]_sortVars

-----------------------------------------------------------------------------
Count(s, x) == Cardinality({i \in DOMAIN s : s[i] = x})

\* The array is sorted when ruby_qsort returns, and has the elements it had,
\* with equal elements at every place, whatever medians were taken.
SortedAtEnd == at = "done" =>
  /\ ordered => \A i \in 1..(nel - 1) : a[i] <= a[i + 1]
  /\ \A i \in Positions : Count(a, input[i]) = Count(input, input[i])

\* Regions, groups and median stay inside the array, also when the results of
\* the comparison contradict each other.
SortInBounds ==
  /\ at \in {"start", "compare", "equal"} => 1 <= L /\ L < R /\ R <= nel
  /\ at \notin {"start", "nxt", "done"} => l \in 0..nel /\ r \in 1..(nel + 1) /\ m \in Positions
  /\ at \in {"loopA", "loopA_right", "loopB", "loopB_left"} => L <= l /\ l < r /\ r <= R

\* The shorter side first keeps the stack at log2(nel) - 1 regions, whatever
\* the comparison says: "32 is enough for 32bit CPU".
SortStackBounded == nel > 1 => 2^(Len(stack) + 1) <= nel

\* ruby_qsort returns, whatever the comparison says.
SortEnds == <>(at = "done")

\* ruby_qsort sorts, touches nothing outside the array and stays on its stack.
SortSound == SortInBounds /\ SortStackBounded /\ SortedAtEnd
=============================================================================
