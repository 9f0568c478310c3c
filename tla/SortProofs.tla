----------------------------- MODULE SortProofs ------------------------------
(* ruby_qsort sorts every array, with every median and whether or not the    *)
(* comparison makes sense, inside the array and within its stack.            *)
EXTENDS QuickSort, FiniteSetTheorems, SequenceTheorems, WellFoundedInduction, TLAPS

Labels == {"start", "compare", "equal", "loopA", "loopA_right", "loopB", "loopB_left",
           "fin", "nxt", "done"}
Working == at \notin {"nxt", "done"}

Types == /\ input \in Seq(Int) /\ ordered \in BOOLEAN
         /\ a \in [Positions -> Int]
         /\ L \in Int /\ R \in Int /\ l \in Int /\ r \in Int /\ m \in Int
         /\ eq_l \in BOOLEAN /\ eq_r \in BOOLEAN
         /\ stack \in Seq([LL : Positions, RR : Positions])
         /\ chklim \in Nat /\ at \in Labels

(* The regions on the stack and the current one have two elements at least   *)
(* and none in common.                                                       *)
Apart(lo, hi, s) == hi < s.LL \/ s.RR < lo

Regions ==
  /\ \A k \in 1..Len(stack) :
       /\ stack[k].LL < stack[k].RR
       /\ \A h \in 1..Len(stack) : h # k => Apart(stack[h].LL, stack[h].RR, stack[k])
  /\ Working => /\ 1 <= L /\ L < R /\ R <= nel
                /\ \A k \in 1..Len(stack) : Apart(L, R, stack[k])
  /\ at = "done" => stack = <<>>

(* Elements that are not in one region are in order already.                 *)
OnStack(i, j) == \E k \in 1..Len(stack) : stack[k].LL <= i /\ j <= stack[k].RR
InCurrent(i, j) == Working /\ L <= i /\ j <= R

Outside ==
  ordered => \A i, j \in Positions :
               i < j => a[i] <= a[j] \/ InCurrent(i, j) \/ OnStack(i, j)

(* Where the groups end, and when one of them has been found to be unequal:  *)
(* it has two elements then at least once the median is in its place.        *)
LeftTwo(p) == ~eq_l => L < p /\ (p = L + 1 => m # p)
RightTwo(p) == ~eq_r => p < R /\ (p = R - 1 => m # p)

Groups ==
  /\ at = "compare" => l = L /\ r = R /\ L < m /\ m < R
  /\ at = "equal" => L <= l /\ l < r /\ r = R /\ L < m /\ m < R /\ eq_l /\ eq_r
  /\ at = "loopA" => /\ L <= l /\ l < r /\ r <= R /\ L < m /\ m < r
                     /\ LeftTwo(l) /\ (eq_r <=> r = R)
  /\ at = "loopA_right" => /\ L < l /\ l < r /\ r <= R /\ L < m /\ m < r /\ m # l
                           /\ LeftTwo(l - 1) /\ ~eq_r
  /\ at = "loopB" => /\ L <= l /\ l < r /\ r <= R /\ l < m /\ m < R
                     /\ RightTwo(r) /\ (eq_l <=> l = L)
  /\ at = "loopB_left" => /\ L <= l /\ l < r /\ r < R /\ l < m /\ m < R /\ m # r
                          /\ RightTwo(r + 1) /\ ~eq_l
  /\ at = "fin" => /\ L <= l /\ r = l + 2 /\ r <= R /\ L < m /\ m < R
                   /\ (~eq_l => L < l) /\ (~eq_r => r < R)

(* What is known of the elements of the groups.                              *)
InOrderFrom(lo, hi) == \A i, j \in Positions : lo <= i /\ i < j /\ j <= hi => a[i] <= a[j]

Values ==
  /\ at = "equal" => a[m] = a[R] /\ \A i \in L..l : a[i] = a[m]
  /\ at = "loopA" => /\ \A i \in L..l : a[i] <= a[m]
                     /\ \A i \in r..R : a[m] < a[i]
                     /\ eq_l => \A i \in (L + 1)..l : a[i] = a[m]
  /\ at = "loopA_right" => /\ a[m] < a[l]
                           /\ \A i \in L..(l - 1) : a[i] <= a[m]
                           /\ \A i \in r..R : a[m] < a[i]
                           /\ eq_l => \A i \in (L + 1)..(l - 1) : a[i] = a[m]
  /\ at = "loopB" => /\ \A i \in L..l : a[i] < a[m]
                     /\ \A i \in r..R : a[m] <= a[i]
                     /\ eq_r => \A i \in r..(R - 1) : a[i] = a[m]
  /\ at = "loopB_left" => /\ a[r] < a[m]
                          /\ \A i \in L..l : a[i] < a[m]
                          /\ \A i \in (r + 1)..R : a[m] <= a[i]
                          /\ eq_r => \A i \in (r + 1)..(R - 1) : a[i] = a[m]
  /\ at = "fin" => /\ \A i \in L..l : a[i] <= a[l + 1]
                   /\ \A i \in r..R : a[l + 1] <= a[i]
                   /\ eq_l => InOrderFrom(L, l)
                   /\ eq_r => InOrderFrom(r, R)

Same == \A i \in Positions : Count(a, input[i]) = Count(input, input[i])

(* A region on the stack was at least three elements shorter than the region *)
(* it was cut from, and the one sorted before it no longer than half of it.  *)
Deep ==
  /\ \A k \in 1..Len(stack) : 2^(k - 1) * (stack[k].RR - stack[k].LL + 4) <= nel
  /\ Working => 2^Len(stack) * (R - L + 1) <= nel

Inv == Types /\ Regions /\ Outside /\ Groups /\ (ordered => Values) /\ Same /\ Deep

-----------------------------------------------------------------------------
(* Rearranging the region.                                                   *)

\* b is the array with its elements at other places inside lo..hi.
Rearranged(b, lo, hi) ==
  /\ b \in [Positions -> Int]
  /\ \E f \in [Positions -> Positions] :
       /\ \A i, j \in Positions : f[i] = f[j] => i = j
       /\ \A i \in Positions : \E j \in Positions : f[j] = i
       /\ \A i \in Positions : b[i] = a[f[i]]
       /\ \A i \in Positions : IF i \in lo..hi THEN f[i] \in lo..hi ELSE f[i] = i

LEMMA Length ==
  ASSUME Types
  PROVE  nel \in Nat /\ Positions \subseteq Int /\ a \in [Positions -> Int]
BY DEF Types, nel, Positions

LEMMA EntryOf ==
  ASSUME NEW S, NEW s \in Seq(S), NEW k \in 1..Len(s)
  PROVE  s[k] \in S
OBVIOUS

LEMMA StackEntry ==
  ASSUME Types, NEW k \in 1..Len(stack)
  PROVE  stack[k].LL \in Positions /\ stack[k].RR \in Positions
<1>1. stack \in Seq([LL : Positions, RR : Positions])
  BY DEF Types
<1>2. stack[k] \in [LL : Positions, RR : Positions]
  BY <1>1, EntryOf
<1>3. QED
  BY <1>2

\* A comparison of integers gives their order, and any other one of three answers.
LEMMA Answers ==
  ASSUME Types, NEW i \in Positions, NEW j \in Positions, NEW t \in cmp(i, j)
  PROVE  /\ t \in {-1, 0, 1}
         /\ ordered => /\ t < 0 <=> a[i] < a[j]
                       /\ t = 0 <=> a[i] = a[j]
                       /\ t > 0 <=> a[i] > a[j]
<1>1. a[i] \in Int /\ a[j] \in Int
  BY Length
<1>2. QED
  BY <1>1 DEF cmp, Sign

LEMMA Swapped ==
  ASSUME Types, NEW i \in Positions, NEW j \in Positions
  PROVE  /\ mmswap(i, j) \in [Positions -> Int]
         /\ mmswap(i, j)[i] = a[j] /\ mmswap(i, j)[j] = a[i]
         /\ \A k \in Positions : k # i /\ k # j => mmswap(i, j)[k] = a[k]
BY Length DEF mmswap

LEMMA Rotated ==
  ASSUME Types, NEW i \in Positions, NEW j \in Positions, NEW k \in Positions,
         i # j, j # k, i # k
  PROVE  /\ mmrot3(i, j, k) \in [Positions -> Int]
         /\ mmrot3(i, j, k)[i] = a[j] /\ mmrot3(i, j, k)[j] = a[k] /\ mmrot3(i, j, k)[k] = a[i]
         /\ \A h \in Positions : h # i /\ h # j /\ h # k => mmrot3(i, j, k)[h] = a[h]
BY Length DEF mmrot3

LEMMA KeptIsRearranged ==
  ASSUME Types, NEW lo \in Int, NEW hi \in Int
  PROVE  Rearranged(a, lo, hi)
<1> DEFINE f == [i \in Positions |-> i]
<1>1. f \in [Positions -> Positions] /\ \A i \in Positions : f[i] = i
  OBVIOUS
<1> HIDE DEF f
<1>2. QED
  BY <1>1, Length DEF Rearranged

LEMMA SwapIsRearranged ==
  ASSUME Types, NEW lo \in Int, NEW hi \in Int,
         NEW i \in Positions, NEW j \in Positions, i \in lo..hi, j \in lo..hi
  PROVE  Rearranged(mmswap(i, j), lo, hi)
<1> DEFINE f == [k \in Positions |-> IF k = i THEN j ELSE IF k = j THEN i ELSE k]
<1>1. /\ f \in [Positions -> Positions] /\ f[i] = j /\ f[j] = i
      /\ \A k \in Positions : k # i /\ k # j => f[k] = k
  OBVIOUS
<1> HIDE DEF f
<1>2. \A k \in Positions : mmswap(i, j)[k] = a[f[k]]
  BY <1>1, Swapped
<1>3. \A k, h \in Positions : f[k] = f[h] => k = h
  BY <1>1
<1>4. \A k \in Positions : \E h \in Positions : f[h] = k
  BY <1>1
<1>5. \A k \in Positions : IF k \in lo..hi THEN f[k] \in lo..hi ELSE f[k] = k
  BY <1>1
<1>6. QED
  BY <1>1, <1>2, <1>3, <1>4, <1>5, Swapped DEF Rearranged

LEMMA RotIsRearranged ==
  ASSUME Types, NEW lo \in Int, NEW hi \in Int,
         NEW i \in Positions, NEW j \in Positions, NEW k \in Positions,
         i \in lo..hi, j \in lo..hi, k \in lo..hi, i # j, j # k, i # k
  PROVE  Rearranged(mmrot3(i, j, k), lo, hi)
<1> DEFINE f == [h \in Positions |-> IF h = i THEN j ELSE IF h = j THEN k
                                     ELSE IF h = k THEN i ELSE h]
<1>1. /\ f \in [Positions -> Positions] /\ f[i] = j /\ f[j] = k /\ f[k] = i
      /\ \A h \in Positions : h # i /\ h # j /\ h # k => f[h] = h
  OBVIOUS
<1> HIDE DEF f
<1>2. \A h \in Positions : mmrot3(i, j, k)[h] = a[f[h]]
  BY <1>1, Rotated
<1>3. \A h, g \in Positions : f[h] = f[g] => h = g
  BY <1>1
<1>4. \A h \in Positions : \E g \in Positions : f[g] = h
  <2> TAKE h \in Positions
  <2>1. h # i /\ h # j /\ h # k => f[h] = h
    BY <1>1
  <2>2. QED
    BY <1>1, <2>1
<1>5. \A h \in Positions : IF h \in lo..hi THEN f[h] \in lo..hi ELSE f[h] = h
  BY <1>1
<1>6. QED
  BY <1>1, <1>2, <1>3, <1>4, <1>5, Rotated DEF Rearranged

LEMMA ReverseIsRearranged ==
  ASSUME Types, 1 <= l, r <= nel
  PROVE  Rearranged(Reversed, l, r)
<1> DEFINE f == [k \in Positions |-> IF k \in l..r THEN l + r - k ELSE k]
<1>1. /\ f \in [Positions -> Positions]
      /\ \A k \in Positions : f[k] = IF k \in l..r THEN l + r - k ELSE k
  BY Length DEF Types, Positions
<1> HIDE DEF f
<1>2. /\ Reversed \in [Positions -> Int]
      /\ \A k \in Positions : Reversed[k] = a[f[k]]
  BY <1>1, Length DEF Reversed, Types, Positions
<1>0. l \in Int /\ r \in Int
  BY DEF Types
<1>3. \A h, g \in Positions : f[h] = f[g] => h = g
  <2> TAKE h, g \in Positions
  <2>1. /\ h \in Int /\ g \in Int
        /\ f[h] = IF h \in l..r THEN l + r - h ELSE h
        /\ f[g] = IF g \in l..r THEN l + r - g ELSE g
    BY <1>1, Length
  <2>2. QED
    BY <1>0, <2>1
<1>4. \A h \in Positions : \E g \in Positions : f[g] = h
  <2> TAKE h \in Positions
  <2>1. CASE h \in l..r
    <3>1. l \in Int /\ r \in Int /\ h \in Int /\ l + r - h \in l..r /\ l + r - (l + r - h) = h
      BY <2>1, Length DEF Types
    <3>2. f[h] = l + r - h /\ f[h] \in Positions
      BY <1>1, <2>1
    <3>3. f[f[h]] = l + r - f[h]
      BY <1>1, <3>1, <3>2
    <3>4. QED
      BY <3>1, <3>2, <3>3
  <2>2. CASE h \notin l..r
    BY <1>1, <2>2
  <2>3. QED
    BY <2>1, <2>2
<1>5. \A h \in Positions : IF h \in l..r THEN f[h] \in l..r ELSE f[h] = h
  BY <1>1, Length DEF Types, Positions
<1>6. QED
  BY <1>1, <1>2, <1>3, <1>4, <1>5 DEF Rearranged

\* The array keeps its elements, each as often as it had it.
LEMMA SameKept ==
  ASSUME Types, Same, NEW b, NEW lo \in Int, NEW hi \in Int, Rearranged(b, lo, hi)
  PROVE  \A i \in Positions : Count(b, input[i]) = Count(input, input[i])
<1>1. PICK f \in [Positions -> Positions] :
        /\ \A i, j \in Positions : f[i] = f[j] => i = j
        /\ \A i \in Positions : \E j \in Positions : f[j] = i
        /\ \A i \in Positions : b[i] = a[f[i]]
  BY DEF Rearranged
<1>2. ASSUME NEW x PROVE Count(b, x) = Count(a, x)
  <2> DEFINE S == {i \in Positions : b[i] = x}
             T == {i \in Positions : a[i] = x}
             g == [i \in S |-> f[i]]
  <2>1. Count(b, x) = Cardinality(S) /\ Count(a, x) = Cardinality(T)
    BY Length DEF Count, Rearranged
  <2>2. IsFiniteSet(S)
    <3>1. IsFiniteSet(Positions)
      BY Length, FS_Interval DEF Positions
    <3>2. QED
      BY <3>1, FS_Subset
  <2>3. g \in Bijection(S, T)
    <3>1. g \in [S -> T] /\ \A i \in S : g[i] = f[i]
      BY <1>1
    <3>2. \A i, j \in S : g[i] = g[j] => i = j
      BY <1>1, <3>1
    <3>3. \A i \in T : \E j \in S : g[j] = i
      BY <1>1, <3>1
    <3> HIDE DEF g, S, T
    <3>4. QED
      BY <3>1, <3>2, <3>3 DEF Bijection, Injection, Surjection, IsInjective
  <2>4. QED
    BY <2>1, <2>2, <2>3, FS_Bijection DEF ExistsBijection
<1>3. QED
  BY <1>2 DEF Same

-----------------------------------------------------------------------------
(* What a step inside the current region keeps.                              *)

\* An element outside the region stays in order with all that are inside.
LEMMA Crossing ==
  ASSUME Inv, Working, ordered, NEW b, Rearranged(b, L, R),
         NEW i \in Positions, NEW j \in Positions, i < j,
         ~(L <= i /\ j <= R), ~OnStack(i, j)
  PROVE  b[i] <= b[j]
<1>1. PICK f \in [Positions -> Positions] :
        /\ \A k \in Positions : b[k] = a[f[k]]
        /\ \A k \in Positions : IF k \in L..R THEN f[k] \in L..R ELSE f[k] = k
  BY DEF Rearranged
<1>2. /\ nel \in Nat /\ L \in Int /\ R \in Int /\ L < R
      /\ i \in Int /\ j \in Int /\ f[i] \in Int /\ f[j] \in Int
      /\ f[i] \in Positions /\ f[j] \in Positions
  BY Length DEF Inv, Types, Regions
<1>3. f[i] < f[j] /\ ~(L <= f[i] /\ f[j] <= R)
  BY <1>1, <1>2
<1>4. ~OnStack(f[i], f[j])
  <2> SUFFICES ASSUME NEW k \in 1..Len(stack), stack[k].LL <= f[i], f[j] <= stack[k].RR
               PROVE  FALSE
    BY DEF OnStack
  <2>1. stack[k].LL \in Int /\ stack[k].RR \in Int
    BY StackEntry, Length DEF Inv
  <2>2. R < stack[k].LL \/ stack[k].RR < L
    BY DEF Inv, Regions, Apart
  <2>3. ~(stack[k].LL <= i /\ j <= stack[k].RR)
    BY DEF OnStack
  <2>4. /\ L \in Int /\ R \in Int /\ i \in Int /\ j \in Int
        /\ f[i] \in Int /\ f[j] \in Int
    BY <1>1, <1>2
  <2>5. i \in L..R => f[i] \in L..R
    BY <1>1, <1>2
  <2>6. j \in L..R => f[j] \in L..R
    BY <1>1, <1>2
  <2>7. (i \in L..R \/ f[i] = i) /\ (j \in L..R \/ f[j] = j)
    BY <1>1, <1>2
  <2>8. QED
    BY <1>3, <2>1, <2>2, <2>3, <2>4, <2>5, <2>6, <2>7
<1>5. a[f[i]] <= a[f[j]]
  BY <1>2, <1>3, <1>4 DEF Inv, Outside, InCurrent
<1>6. QED
  BY <1>1, <1>5

LEMMA RegionKept ==
  ASSUME Inv, Working, Working', Rearranged(a', L, R), UNCHANGED <<call, region, stack>>
  PROVE  /\ a' \in [Positions' -> Int]
         /\ Regions' /\ Outside' /\ Same' /\ Deep'
<1>1. /\ input' = input /\ ordered' = ordered /\ L' = L /\ R' = R /\ stack' = stack
      /\ nel' = nel /\ Positions' = Positions
  BY DEF call, region, nel, Positions
<1>2. a' \in [Positions' -> Int]
  BY <1>1 DEF Rearranged
<1>3. Regions'
  BY <1>1 DEF Inv, Regions, Apart, Working
<1>4. Outside'
  <2> SUFFICES ASSUME ordered, NEW i \in Positions, NEW j \in Positions, i < j,
                      ~(L <= i /\ j <= R), ~OnStack(i, j)
               PROVE  a'[i] <= a'[j]
    BY <1>1 DEF Outside, InCurrent, OnStack
  <2>1. QED
    BY Crossing
<1>5. Same'
  BY <1>1, SameKept, Length DEF Same, Inv, Types
<1>6. Deep'
  BY <1>1 DEF Inv, Deep
<1>7. QED
  BY <1>2, <1>3, <1>4, <1>5, <1>6

LEMMA RegionSorted ==
  ASSUME Inv, Working, at' = "nxt", Rearranged(a', L, R), UNCHANGED <<call, region, stack>>,
         ordered => \A i, j \in Positions : L <= i /\ i < j /\ j <= R => a'[i] <= a'[j]
  PROVE  /\ a' \in [Positions' -> Int]
         /\ Regions' /\ Outside' /\ Same' /\ Deep'
<1>1. /\ input' = input /\ ordered' = ordered /\ L' = L /\ R' = R /\ stack' = stack
      /\ nel' = nel /\ Positions' = Positions /\ ~Working'
  BY DEF call, region, nel, Positions, Working
<1>2. a' \in [Positions' -> Int]
  BY <1>1 DEF Rearranged
<1>3. Regions'
  BY <1>1 DEF Inv, Regions, Apart
<1>4. Outside'
  <2> SUFFICES ASSUME ordered, NEW i \in Positions, NEW j \in Positions, i < j,
                      ~OnStack(i, j)
               PROVE  a'[i] <= a'[j]
    BY <1>1 DEF Outside, InCurrent, OnStack
  <2>1. CASE L <= i /\ j <= R
    BY <2>1
  <2>2. CASE ~(L <= i /\ j <= R)
    BY <2>2, Crossing
  <2>3. QED
    BY <2>1, <2>2
<1>5. Same'
  BY <1>1, SameKept, Length DEF Same, Inv, Types
<1>6. Deep'
  BY <1>1 DEF Inv, Deep
<1>7. QED
  BY <1>2, <1>3, <1>4, <1>5, <1>6

-----------------------------------------------------------------------------
(* The powers of two, as the numbers of subsets of 1..k.                     *)

LEMMA Subsets ==
  ASSUME NEW k \in Nat
  PROVE  /\ IsFiniteSet(SUBSET (1..k)) /\ Cardinality(SUBSET (1..k)) = 2^k /\ 2^k \in Nat
<1>1. IsFiniteSet(1..k) /\ Cardinality(1..k) = k
  BY FS_Interval
<1>2. IsFiniteSet(SUBSET (1..k)) /\ Cardinality(SUBSET (1..k)) = 2^k
  BY <1>1, FS_SUBSET
<1>3. QED
  BY <1>2, FS_CardinalityType

LEMMA Doubles ==
  ASSUME NEW k \in Nat
  PROVE  2^(k + 1) = 2 * 2^k
<1> DEFINE P == SUBSET (1..k)
           Q == {s \cup {k + 1} : s \in P}
           f == [s \in P |-> s \cup {k + 1}]
<1>1. IsFiniteSet(P) /\ Cardinality(P) = 2^k /\ 2^k \in Nat
  BY Subsets
<1>2. f \in Bijection(P, Q)
  <2>1. f \in [P -> Q] /\ \A t \in Q : \E s \in P : f[s] = t
    OBVIOUS
  <2>2. ASSUME NEW s \in P, NEW t \in P, f[s] = f[t] PROVE s = t
    <3>1. k + 1 \notin s /\ k + 1 \notin t
      OBVIOUS
    <3>2. s \cup {k + 1} = t \cup {k + 1}
      BY <2>2
    <3>3. QED
      BY <3>1, <3>2
  <2>3. QED
    BY <2>1, <2>2 DEF Bijection, Injection, Surjection, IsInjective
<1>3. IsFiniteSet(Q) /\ Cardinality(Q) = 2^k
  BY <1>1, <1>2, FS_Bijection DEF ExistsBijection
<1>4. P \cap Q = {}
  <2>1. \A s \in P : k + 1 \notin s
    OBVIOUS
  <2>2. \A t \in Q : k + 1 \in t
    OBVIOUS
  <2>3. QED
    BY <2>1, <2>2
<1>5. SUBSET (1..(k + 1)) = P \cup Q
  <2>1. ASSUME NEW s \in SUBSET (1..(k + 1)) PROVE s \in P \cup Q
    <3>1. CASE k + 1 \in s
      <4>1. s \ {k + 1} \in P /\ s = (s \ {k + 1}) \cup {k + 1}
        BY <3>1
      <4>2. QED
        BY <4>1
    <3>2. CASE k + 1 \notin s
      BY <3>2
    <3>3. QED
      BY <3>1, <3>2
  <2>2. P \cup Q \subseteq SUBSET (1..(k + 1))
    <3>1. 1..k \subseteq 1..(k + 1) /\ k + 1 \in 1..(k + 1)
      OBVIOUS
    <3>2. QED
      BY <3>1
  <2>3. QED
    BY <2>1, <2>2
<1>6. Cardinality(P \cup Q) = 2^k + 2^k
  <2>1. Cardinality(P \cup Q) = Cardinality(P) + Cardinality(Q) - Cardinality(P \cap Q)
    BY <1>1, <1>3, FS_Union
  <2>2. Cardinality(P \cap Q) = 0
    BY <1>4, FS_EmptySet
  <2>3. QED
    BY <1>1, <1>3, <2>1, <2>2
<1>7. Cardinality(SUBSET (1..(k + 1))) = 2^(k + 1)
  <2>1. k + 1 \in Nat
    OBVIOUS
  <2>2. QED
    BY <2>1, Subsets
<1>8. 2^(k + 1) = 2^k + 2^k
  BY <1>5, <1>6, <1>7
<1>9. QED
  BY <1>1, <1>8

\* What is left of a region of t elements with the shorter of its sides, u.
LEMMA Halved ==
  ASSUME NEW p \in Nat, NEW t \in Nat, NEW u \in Nat, NEW n \in Nat,
         p * t <= n, 2 * u <= t
  PROVE  (2 * p) * u <= n
OBVIOUS

LEMMA Sizes ==
  ASSUME NEW x \in Int, NEW y \in Int, x < y
  PROVE  y - x + 4 \in Nat /\ y - x + 1 \in Nat /\ y - x + 1 <= y - x + 4
OBVIOUS

LEMMA Shorter ==
  ASSUME NEW p \in Nat, NEW t \in Nat, NEW u \in Nat, NEW n \in Nat,
         p * t <= n, u <= t
  PROVE  p * u <= n
OBVIOUS

-----------------------------------------------------------------------------
(* The beginning, and the regions of the stack.                              *)

LEMMA InitInv == SortInit => Inv
<1> SUFFICES ASSUME SortInit PROVE Inv
  OBVIOUS
<1>1. input \in Seq(Int) /\ ordered \in BOOLEAN /\ a = input /\ stack = <<>>
  BY SortInputsAssumption DEF SortInit
<1>2. nel \in Nat /\ a \in [Positions -> Int] /\ Len(stack) = 0
  BY <1>1 DEF nel, Positions
<1>3. Types
  <2>1. stack \in Seq([LL : Positions, RR : Positions])
    BY <1>1
  <2>2. L \in Int /\ R \in Int /\ l \in Int /\ r \in Int /\ m \in Int
        /\ eq_l \in BOOLEAN /\ eq_r \in BOOLEAN /\ chklim \in Nat /\ at \in Labels
    BY <1>2, SortLimitsAssumption DEF SortInit, Labels, nel
  <2>3. QED
    BY <1>1, <1>2, <2>1, <2>2 DEF Types
<1>4. Working => L = 1 /\ R = nel /\ L < R
  BY <1>2 DEF SortInit, Working, nel
<1>5. Regions
  BY <1>1, <1>2, <1>4 DEF Regions
<1>6. Outside
  <2> SUFFICES ASSUME NEW i \in Positions, NEW j \in Positions, i < j
               PROVE  InCurrent(i, j)
    BY DEF Outside
  <2>1. nel > 1
    BY <1>2 DEF Positions
  <2>2. at = "start"
    BY <1>2, <2>1 DEF SortInit, nel
  <2>3. QED
    BY <1>2, <1>4, <2>2 DEF InCurrent, Positions, Working
<1>7. Groups /\ Values
  BY DEF SortInit, Groups, Values
<1>8. Same
  BY <1>1 DEF Same
<1>9. Deep
  <2>1. 2^0 = 1
    OBVIOUS
  <2>2. QED
    BY <1>2, <1>4, <2>1 DEF Deep
<1>10. QED
  BY <1>3, <1>5, <1>6, <1>7, <1>8, <1>9 DEF Inv

LEMMA Popped ==
  ASSUME NEW S, NEW s \in Seq(S), s # <<>>
  PROVE  /\ SubSeq(s, 1, Len(s) - 1) \in Seq(S)
         /\ Len(SubSeq(s, 1, Len(s) - 1)) = Len(s) - 1
         /\ \A k \in 1..Len(s) - 1 : SubSeq(s, 1, Len(s) - 1)[k] = s[k]
<1> DEFINE e == Len(s) - 1
<1>1. e \in Nat /\ \A i \in 1..e : s[i] \in S
  OBVIOUS
<1> HIDE DEF e
<1>2. /\ SubSeq(s, 1, e) \in Seq(S)
      /\ Len(SubSeq(s, 1, e)) = IF 1 <= e THEN e - 1 + 1 ELSE 0
      /\ \A k \in 1..e - 1 + 1 : SubSeq(s, 1, e)[k] = s[1 + k - 1]
  BY <1>1, SubSeqProperties
<1>3. SubSeq(s, 1, e) \in Seq(S) /\ Len(SubSeq(s, 1, e)) = e
  BY <1>1, <1>2
<1>4. ASSUME NEW k \in 1..e PROVE SubSeq(s, 1, e)[k] = s[k]
  <2>1. e - 1 + 1 = e /\ 1 + k - 1 = k
    BY <1>1
  <2>2. QED
    BY <1>2, <2>1
<1>5. QED
  BY <1>3, <1>4 DEF e

LEMMA NxtStep ==
  ASSUME Inv, nxt
  PROVE  Inv'
<1> DEFINE n == Len(stack)
<1>1. /\ input' = input /\ ordered' = ordered /\ a' = a /\ nel' = nel /\ Positions' = Positions
      /\ l' = l /\ r' = r /\ m' = m /\ eq_l' = eq_l /\ eq_r' = eq_r /\ chklim' = chklim
      /\ ~Working /\ n \in Nat /\ nel \in Nat
  BY Length DEF nxt, call, groups, nel, Positions, Working, Inv, Types
<1>2. CASE stack = <<>>
  <2>1. at' = "done" /\ L' = L /\ R' = R /\ stack' = stack
    BY <1>2 DEF nxt, Goto, region
  <2>2. QED
    BY <1>1, <1>2, <2>1 DEF Inv, Types, Labels, Regions, Apart, Outside, InCurrent, OnStack, Working,
                      Groups, Values, Same, Deep
<1>3. CASE stack # <<>>
  <2>1. /\ at' = "start" /\ L' = stack[n].LL /\ R' = stack[n].RR
        /\ stack' = SubSeq(stack, 1, n - 1)
    BY <1>3 DEF nxt, Goto
  <2>2. stack \in Seq([LL : Positions, RR : Positions]) /\ n \in 1..n
    BY <1>3 DEF Inv, Types
  <2>3. /\ stack' \in Seq([LL : Positions, RR : Positions]) /\ Len(stack') = n - 1
        /\ \A k \in 1..n - 1 : stack'[k] = stack[k]
    BY <1>3, <2>1, <2>2, Popped
  <2>4. L' \in Positions /\ R' \in Positions /\ L' < R'
    BY <2>1, <2>2, StackEntry DEF Inv, Regions
  <2>5. Types'
    <3>1. L' \in Int /\ R' \in Int
      BY <1>1, <2>4 DEF Positions
    <3>2. stack' \in Seq([LL : Positions', RR : Positions'])
      BY <1>1, <2>3
    <3>3. QED
      BY <1>1, <2>1, <3>1, <3>2 DEF Inv, Types, Labels
  <2>6. Regions'
    <3>1. 1 <= L' /\ L' < R' /\ R' <= nel'
      BY <1>1, <2>4 DEF Positions
    <3>2. \A k \in 1..n - 1 : Apart(L', R', stack'[k])
      BY <1>1, <2>1, <2>2, <2>3 DEF Inv, Regions
    <3>3. \A k \in 1..n - 1 :
            /\ stack'[k].LL < stack'[k].RR
            /\ \A h \in 1..n - 1 : h # k => Apart(stack'[h].LL, stack'[h].RR, stack'[k])
      BY <1>1, <2>3 DEF Inv, Regions
    <3>4. QED
      BY <2>1, <2>3, <3>1, <3>2, <3>3 DEF Regions, Apart
  <2>7. Outside'
    <3> SUFFICES ASSUME ordered, NEW i \in Positions, NEW j \in Positions, i < j,
                        ~(L' <= i /\ j <= R'),
                        \A k \in 1..n - 1 : ~(stack'[k].LL <= i /\ j <= stack'[k].RR)
                 PROVE  a[i] <= a[j]
      BY <1>1, <2>1, <2>3 DEF Outside, InCurrent, OnStack, Working
    <3>1. \A k \in 1..n : ~(stack[k].LL <= i /\ j <= stack[k].RR)
      BY <1>1, <2>1, <2>3
    <3>2. QED
      BY <1>1, <3>1 DEF Inv, Outside, InCurrent, OnStack
  <2>8. Groups' /\ Values'
    BY <2>1 DEF Groups, Values
  <2>9. Same'
    BY <1>1 DEF Inv, Same
  <2>10. Deep'
    <3>1. \A k \in 1..n - 1 : 2^(k - 1) * (stack'[k].RR - stack'[k].LL + 4) <= nel'
      <4>1. \A k \in 1..n : 2^(k - 1) * (stack[k].RR - stack[k].LL + 4) <= nel
        BY DEF Inv, Deep
      <4>2. \A k \in 1..n - 1 : k \in 1..n
        BY <1>1
      <4> HIDE DEF n
      <4>3. QED
        BY <1>1, <2>3, <4>1, <4>2
    <3>2. 2^(n - 1) * (R' - L' + 4) <= nel
      BY <2>1, <2>2 DEF Inv, Deep
    <3>3. R' - L' + 4 \in Nat /\ R' - L' + 1 \in Nat /\ R' - L' + 1 <= R' - L' + 4
      <4>1. L' \in Int /\ R' \in Int /\ L' < R'
        BY <1>1, <2>4 DEF Positions
      <4>2. QED
        BY <4>1, Sizes
    <3>4. 2^(n - 1) \in Nat
      <4>1. n - 1 \in Nat
        BY <1>1, <2>2
      <4>2. QED
        BY <4>1, Subsets
    <3>5. 2^(n - 1) * (R' - L' + 1) <= nel
      BY <1>1, <3>2, <3>3, <3>4, Shorter
    <3>6. QED
      BY <1>1, <2>3, <3>1, <3>5 DEF Deep
  <2>11. QED
    BY <2>5, <2>6, <2>7, <2>8, <2>9, <2>10 DEF Inv
<1>4. QED
  BY <1>2, <1>3

\* The ends of the current region, for the actions on it.
LEMMA Ends ==
  ASSUME Inv, Working
  PROVE  /\ nel \in Nat /\ L \in Int /\ R \in Int /\ 1 <= L /\ L < R /\ R <= nel
         /\ L \in Positions /\ R \in Positions /\ L..R \subseteq Positions
         /\ \A i \in Positions : i \in Int /\ a[i] \in Int
         /\ \A i \in Int : L <= i /\ i <= R => i \in Positions /\ i \in L..R
<1>1. nel \in Nat /\ L \in Int /\ R \in Int /\ 1 <= L /\ L < R /\ R <= nel
  BY Length DEF Inv, Types, Regions
<1>2. QED
  BY <1>1, Length DEF Inv, Positions

LEMMA StartTwoStep ==
  ASSUME Inv, start_two
  PROVE  Inv'
<1>1. /\ at = "start" /\ L + 1 = R /\ at' = "nxt" /\ Working
      /\ input' = input /\ ordered' = ordered /\ L' = L /\ R' = R
      /\ l' = l /\ r' = r /\ m' = m /\ eq_l' = eq_l /\ eq_r' = eq_r
      /\ stack' = stack /\ chklim' = chklim
  BY DEF start_two, Goto, call, region, groups, Working
<1>2. PICK t \in cmp(L, R) : a' = IF t > 0 THEN mmswap(L, R) ELSE a
  BY DEF start_two
<1>3. Rearranged(a', L, R)
  <2>1. L \in L..R /\ R \in L..R
    BY <1>1, Ends
  <2>2. QED
    BY <1>1, <1>2, <2>1, Ends, SwapIsRearranged, KeptIsRearranged DEF Inv
<1>4. ordered => a'[L] <= a'[R]
  BY <1>1, <1>2, Ends, Answers, Swapped DEF Inv
<1>5. ordered => \A i, j \in Positions : L <= i /\ i < j /\ j <= R => a'[i] <= a'[j]
  <2> SUFFICES ASSUME ordered, NEW i \in Positions, NEW j \in Positions,
                      L <= i, i < j, j <= R
               PROVE  a'[i] <= a'[j]
    OBVIOUS
  <2>1. i = L /\ j = R
    BY <1>1, Ends
  <2>2. QED
    BY <1>4, <2>1
<1>6. /\ a' \in [Positions' -> Int]
      /\ Regions' /\ Outside' /\ Same' /\ Deep'
  BY <1>1, <1>3, <1>5, RegionSorted DEF call, region
<1>7. Types'
  BY <1>1, <1>6 DEF Inv, Types, Labels, Positions, nel
<1>8. Groups' /\ Values'
  BY <1>1 DEF Groups, Values
<1>9. QED
  BY <1>6, <1>7, <1>8 DEF Inv

LEMMA OneOfThree ==
  ASSUME NEW i, NEW j, NEW k, NEW x \in med3(i, j, k)
  PROVE  x \in {i, j, k}
BY DEF med3

\* A median lies between the ends of the region.
LEMMA MedianInside ==
  ASSUME Inv, at = "start", L + 1 # R, NEW x \in Medians(R - L + 1)
  PROVE  x \in Int /\ L < x /\ x < R
<1> DEFINE t == R - L + 1
           mid == L + t \div 2
           eighth == t \div 8
           quarter == t \div 4
<1>1. L \in Int /\ R \in Int /\ t \in Int /\ t >= 3 /\ R = L + t - 1
  BY Ends DEF Working
<1>2. /\ t \div 2 \in Int /\ 2 * (t \div 2) <= t /\ t <= 2 * (t \div 2) + 1
      /\ quarter \in Int /\ 4 * quarter <= t /\ t <= 4 * quarter + 3
      /\ eighth \in Int /\ 8 * eighth <= t /\ t <= 8 * eighth + 7
  BY <1>1
<1>3. CASE t < MEDIAN3
  <2>1. x = mid
    BY <1>3 DEF Medians
  <2>2. QED
    BY <1>1, <1>2, <2>1
<1>4. CASE ~(t < MEDIAN3) /\ t < MEDIAN9
  <2>1. x \in {L + quarter, mid, mid + quarter}
    BY <1>4, OneOfThree DEF Medians
  <2>2. t >= 5
    BY <1>1, <1>4, SortLimitsAssumption
  <2>3. QED
    BY <1>1, <1>2, <2>1, <2>2
<1>5. CASE ~(t < MEDIAN3) /\ ~(t < MEDIAN9)
  <2>1. PICK m1 \in med3(L + eighth, L + 2 * eighth, L + 3 * eighth),
             m3 \in med3(mid + eighth, mid + 2 * eighth, mid + 3 * eighth) :
             x \in med3(m1, mid, m3)
    BY <1>5 DEF Medians
  <2>2. /\ m1 \in {L + eighth, L + 2 * eighth, L + 3 * eighth}
        /\ m3 \in {mid + eighth, mid + 2 * eighth, mid + 3 * eighth}
        /\ x \in {m1, mid, m3}
    BY <2>1, OneOfThree
  <2>3. t >= 9
    BY <1>1, <1>5, SortLimitsAssumption
  <2>4. x \in {mid, L + eighth, L + 2 * eighth, L + 3 * eighth,
               mid + eighth, mid + 2 * eighth, mid + 3 * eighth}
    BY <2>2
  <2>5. eighth >= 1 /\ mid + 3 * eighth < R /\ L < mid
    BY <1>1, <1>2, <2>3
  <2> HIDE DEF mid, eighth, quarter
  <2>6. mid \in Int /\ eighth \in Int
    BY <1>1, <1>2 DEF mid, eighth
  <2>7. L + 3 * eighth < R
    BY <1>1, <2>5, <2>6
  <2>8. QED
    BY <1>1, <2>4, <2>5, <2>6, <2>7
<1>6. QED
  BY <1>3, <1>4, <1>5

LEMMA StartMedianStep ==
  ASSUME Inv, start_median
  PROVE  Inv'
<1>1. /\ at = "start" /\ L + 1 # R /\ at' = "compare" /\ Working /\ Working'
      /\ input' = input /\ ordered' = ordered /\ a' = a /\ L' = L /\ R' = R
      /\ l' = L /\ r' = R /\ eq_l' = eq_l /\ eq_r' = eq_r
      /\ stack' = stack /\ chklim' = chklim /\ m' \in Medians(R - L + 1)
  BY DEF start_median, Goto, call, region, groups, Working
<1>2. m' \in Int /\ L < m' /\ m' < R
  BY <1>1, MedianInside
<1>3. /\ a' \in [Positions' -> Int]
      /\ Regions' /\ Outside' /\ Same' /\ Deep'
  BY <1>1, Ends, KeptIsRearranged, RegionKept DEF Inv, call, region
<1>4. Types'
  BY <1>1, <1>2, <1>3 DEF Inv, Types, Labels, Positions, nel
<1>5. Groups' /\ Values'
  BY <1>1, <1>2 DEF Groups, Values
<1>6. QED
  BY <1>3, <1>4, <1>5 DEF Inv

-----------------------------------------------------------------------------
(* compare: the splitting type.                                              *)

\* Elements of which each is in order with the next are in order.
LEMMA Ascending ==
  ASSUME NEW b, NEW lo \in Nat, NEW hi \in Nat, \A q \in lo..hi : b[q] \in Int,
         \A q \in lo..(hi - 1) : b[q] <= b[q + 1],
         NEW i \in lo..hi, NEW j \in lo..hi, i < j
  PROVE  b[i] <= b[j]
<1> SUFFICES ASSUME b[j] < b[i] PROVE FALSE
  OBVIOUS
<1> DEFINE S == {q \in i..hi : b[q] < b[i]}
<1>1. S \subseteq Nat /\ j \in S
  OBVIOUS
<1>2. PICK q \in S : \A p \in S : ~(p < q)
  <2>1. PICK q \in S : \A p \in S : ~(<<p, q>> \in OpToRel(<, Nat))
    BY <1>1, NatLessThanWellFounded, WFMin
  <2>2. QED
    BY <1>1, <2>1 DEF OpToRel
<1>3. q \in Int /\ i < q /\ q <= hi /\ q - 1 \in lo..(hi - 1) /\ q - 1 \in i..hi
  OBVIOUS
<1>4. b[q - 1] <= b[q]
  <2>1. b[q - 1] <= b[q - 1 + 1] /\ q - 1 + 1 = q
    BY <1>3
  <2>2. QED
    BY <2>1
<1>5. q - 1 \in S
  BY <1>3, <1>4
<1>6. QED
  BY <1>2, <1>3, <1>5

LEMMA Descending ==
  ASSUME NEW b, NEW lo \in Nat, NEW hi \in Nat, \A q \in lo..hi : b[q] \in Int,
         \A q \in lo..(hi - 1) : b[q] >= b[q + 1],
         NEW i \in lo..hi, NEW j \in lo..hi, i < j
  PROVE  b[i] >= b[j]
<1> DEFINE c == [q \in lo..hi |-> 0 - b[q]]
<1>1. \A q \in lo..hi : c[q] \in Int
  OBVIOUS
<1>2. \A q \in lo..(hi - 1) : c[q] <= c[q + 1]
  <2> TAKE q \in lo..(hi - 1)
  <2>1. q \in lo..hi /\ q + 1 \in lo..hi
    OBVIOUS
  <2>2. b[q] \in Int /\ b[q + 1] \in Int /\ b[q] >= b[q + 1]
    BY <2>1
  <2>3. QED
    BY <2>1, <2>2
<1>3. c[i] <= c[j]
  <2> HIDE DEF c
  <2>1. QED
    BY <1>1, <1>2, Ascending
<1>4. QED
  BY <1>3

\* What compare may lead to.
Split(label) ==
  /\ at' = label
  /\ Rearranged(a', L, R)
  /\ ordered => /\ label = "nxt" => \A i, j \in Positions :
                                      L <= i /\ i < j /\ j <= R => a'[i] <= a'[j]
                /\ label = "loopA" => a'[L] <= a'[m] /\ a'[m] < a'[R]
                /\ label = "loopB" => a'[L] < a'[m] /\ a'[m] <= a'[R]
                /\ label = "equal" => a'[L] = a'[m] /\ a'[m] = a'[R]

LEMMA CompareSplits ==
  ASSUME Inv, compare
  PROVE  \E label \in {"nxt", "loopA", "loopB", "equal"} : Split(label)
<1>1. /\ at = "compare" /\ Working /\ Types /\ l = L /\ r = R /\ m \in Int /\ L < m /\ m < R
  BY DEF compare, Working, Inv, Types, Groups
<1>2. /\ L \in Positions /\ R \in Positions /\ m \in Positions /\ L # m /\ m # R /\ L # R
      /\ L \in L..R /\ R \in L..R /\ m \in L..R /\ L \in Int /\ R \in Int
      /\ a[L] \in Int /\ a[m] \in Int /\ a[R] \in Int
  BY <1>1, Ends
<1>3. Rearranged(a, L, R)
  BY <1>1, <1>2, KeptIsRearranged
<1>4. \A i, j \in {L, m, R} :
        /\ Rearranged(mmswap(i, j), L, R)
        /\ mmswap(i, j)[i] = a[j] /\ mmswap(i, j)[j] = a[i]
        /\ \A k \in {L, m, R} : k # i /\ k # j => mmswap(i, j)[k] = a[k]
  <2> TAKE i, j \in {L, m, R}
  <2>1. i \in Positions /\ j \in Positions /\ i \in L..R /\ j \in L..R
    BY <1>2
  <2>2. Rearranged(mmswap(i, j), L, R)
    BY <1>1, <1>2, <2>1, SwapIsRearranged
  <2>3. QED
    BY <1>1, <1>2, <2>1, <2>2, Swapped
<1>5. \A i, j, k \in {L, m, R} : i # j /\ j # k /\ i # k =>
        /\ Rearranged(mmrot3(i, j, k), L, R)
        /\ mmrot3(i, j, k)[i] = a[j] /\ mmrot3(i, j, k)[j] = a[k] /\ mmrot3(i, j, k)[k] = a[i]
  <2> TAKE i, j, k \in {L, m, R}
  <2>1. /\ i \in Positions /\ j \in Positions /\ k \in Positions
        /\ i \in L..R /\ j \in L..R /\ k \in L..R
    BY <1>2
  <2> SUFFICES ASSUME i # j /\ j # k /\ i # k
               PROVE  /\ Rearranged(mmrot3(i, j, k), L, R)
                      /\ mmrot3(i, j, k)[i] = a[j] /\ mmrot3(i, j, k)[j] = a[k]
                      /\ mmrot3(i, j, k)[k] = a[i]
    OBVIOUS
  <2>2. Rearranged(mmrot3(i, j, k), L, R)
    BY <1>1, <1>2, <2>1, RotIsRearranged
  <2>3. QED
    BY <1>1, <2>1, <2>2, Rotated
<1>6. PICK lm \in cmp(l, m), mr \in cmp(m, r), lr \in cmp(l, r) :
       \/ /\ lm * mr > 0 /\ Check
          /\ chklim' = 0
          /\ \E sorted \in InOrder(lm > 0) :
               IF sorted THEN /\ a' = IF lm > 0 THEN Reversed ELSE a
                              /\ Goto("nxt")
               ELSE /\ a' = IF lm > 0 THEN mmswap(l, r) ELSE a
                    /\ Goto("loopA")
       \/ /\ lm * mr <= 0 \/ ~Check
          /\ UNCHANGED chklim
          /\ \/ lm < 0 /\ mr < 0 /\ a' = a /\ Goto("loopA")
             \/ lm < 0 /\ mr > 0 /\ lr <= 0 /\ a' = mmswap(m, r) /\ Goto("loopA")
             \/ lm < 0 /\ mr > 0 /\ lr > 0 /\ a' = mmrot3(r, m, l) /\ Goto("loopA")
             \/ lm < 0 /\ mr = 0 /\ a' = a /\ Goto("loopB")
             \/ lm > 0 /\ mr > 0 /\ a' = mmswap(l, r) /\ Goto("loopA")
             \/ lm > 0 /\ mr < 0 /\ lr <= 0 /\ a' = mmswap(l, m) /\ Goto("loopB")
             \/ lm > 0 /\ mr < 0 /\ lr > 0 /\ a' = mmrot3(l, m, r) /\ Goto("loopA")
             \/ lm > 0 /\ mr = 0 /\ a' = mmswap(l, r) /\ Goto("loopA")
             \/ lm = 0 /\ mr < 0 /\ a' = a /\ Goto("loopA")
             \/ lm = 0 /\ mr > 0 /\ a' = mmswap(l, r) /\ Goto("loopB")
             \/ lm = 0 /\ mr = 0 /\ a' = a /\ Goto("equal")
  BY DEF compare
<1>7. /\ lm \in {-1, 0, 1} /\ mr \in {-1, 0, 1} /\ lr \in {-1, 0, 1}
      /\ ordered => /\ (lm < 0 <=> a[L] < a[m]) /\ (lm = 0 <=> a[L] = a[m])
                    /\ (lm > 0 <=> a[L] > a[m])
                    /\ (mr < 0 <=> a[m] < a[R]) /\ (mr = 0 <=> a[m] = a[R])
                    /\ (mr > 0 <=> a[m] > a[R])
                    /\ (lr < 0 <=> a[L] < a[R]) /\ (lr = 0 <=> a[L] = a[R])
                    /\ (lr > 0 <=> a[L] > a[R])
  BY <1>1, <1>2, <1>6, Answers
<1>8. CASE lm * mr > 0 /\ \E sorted \in InOrder(lm > 0) :
               IF sorted THEN /\ a' = IF lm > 0 THEN Reversed ELSE a
                              /\ Goto("nxt")
               ELSE /\ a' = IF lm > 0 THEN mmswap(l, r) ELSE a
                    /\ Goto("loopA")
  <2>1. (lm > 0 /\ mr > 0) \/ (lm < 0 /\ mr < 0)
    BY <1>7, <1>8
  <2>2. PICK sorted \in InOrder(lm > 0) :
               IF sorted THEN /\ a' = IF lm > 0 THEN Reversed ELSE a
                              /\ Goto("nxt")
               ELSE /\ a' = IF lm > 0 THEN mmswap(l, r) ELSE a
                    /\ Goto("loopA")
    BY <1>8
  <2>3. CASE sorted
    <3>1. at' = "nxt" /\ a' = IF lm > 0 THEN Reversed ELSE a
      BY <2>2, <2>3 DEF Goto
    <3>2. Rearranged(a', L, R)
      BY <1>1, <1>3, <3>1, Ends, ReverseIsRearranged
    <3>3. ASSUME ordered, NEW i \in Positions, NEW j \in Positions, L <= i, i < j, j <= R
          PROVE  a'[i] <= a'[j]
      <4>1. \A p \in L..(R - 1) : IF lm > 0 THEN a[p] >= a[p + 1] ELSE a[p] <= a[p + 1]
        BY <1>1, <2>2, <2>3, <3>3 DEF InOrder
      <4>2. /\ L \in Nat /\ R \in Nat /\ i \in L..R /\ j \in L..R
            /\ \A p \in L..R : a[p] \in Int
        BY <1>1, <3>3, Ends
      <4>3. CASE lm > 0
        <5>1. \A p \in L..(R - 1) : a[p] >= a[p + 1]
          BY <4>1, <4>3
        <5>2. L + R - j \in L..R /\ L + R - i \in L..R /\ L + R - j < L + R - i
          BY <3>3, <4>2
        <5>3. a[L + R - j] >= a[L + R - i]
          BY <4>2, <5>1, <5>2, Descending
        <5>4. a'[i] = a[L + R - i] /\ a'[j] = a[L + R - j]
          BY <1>1, <3>1, <4>2, <4>3 DEF Reversed
        <5>5. QED
          BY <4>2, <5>2, <5>3, <5>4
      <4>4. CASE ~(lm > 0)
        <5>1. \A p \in L..(R - 1) : a[p] <= a[p + 1]
          BY <4>1, <4>4
        <5>2. QED
          BY <3>1, <3>3, <4>2, <4>4, <5>1, Ascending
      <4>5. QED
        BY <4>3, <4>4
    <3>4. Split("nxt")
      BY <3>1, <3>2, <3>3 DEF Split
    <3>5. QED
      BY <3>4
  <2>4. CASE ~sorted
    <3>1. at' = "loopA" /\ a' = IF lm > 0 THEN mmswap(L, R) ELSE a
      BY <1>1, <2>2, <2>4 DEF Goto
    <3>2. Split("loopA")
      BY <1>2, <1>3, <1>4, <1>7, <2>1, <3>1 DEF Split
    <3>3. QED
      BY <3>2
  <2>5. QED
    BY <2>3, <2>4
<1>9. CASE \/ lm < 0 /\ mr < 0 /\ a' = a /\ Goto("loopA")
           \/ lm < 0 /\ mr > 0 /\ lr <= 0 /\ a' = mmswap(m, r) /\ Goto("loopA")
           \/ lm < 0 /\ mr > 0 /\ lr > 0 /\ a' = mmrot3(r, m, l) /\ Goto("loopA")
           \/ lm > 0 /\ mr > 0 /\ a' = mmswap(l, r) /\ Goto("loopA")
           \/ lm > 0 /\ mr < 0 /\ lr > 0 /\ a' = mmrot3(l, m, r) /\ Goto("loopA")
           \/ lm > 0 /\ mr = 0 /\ a' = mmswap(l, r) /\ Goto("loopA")
           \/ lm = 0 /\ mr < 0 /\ a' = a /\ Goto("loopA")
  <2>1. at' = "loopA"
    BY <1>9 DEF Goto
  <2>2. Rearranged(a', L, R)
    BY <1>1, <1>2, <1>3, <1>4, <1>5, <1>9
  <2>3. ordered => a'[L] <= a'[m] /\ a'[m] < a'[R]
    BY <1>1, <1>2, <1>4, <1>5, <1>7, <1>9
  <2>4. Split("loopA")
    BY <2>1, <2>2, <2>3 DEF Split
  <2>5. QED
    BY <2>4
<1>10. CASE \/ lm < 0 /\ mr = 0 /\ a' = a /\ Goto("loopB")
            \/ lm > 0 /\ mr < 0 /\ lr <= 0 /\ a' = mmswap(l, m) /\ Goto("loopB")
            \/ lm = 0 /\ mr > 0 /\ a' = mmswap(l, r) /\ Goto("loopB")
  <2>1. at' = "loopB"
    BY <1>10 DEF Goto
  <2>2. Rearranged(a', L, R)
    BY <1>1, <1>2, <1>3, <1>4, <1>10
  <2>3. ordered => a'[L] < a'[m] /\ a'[m] <= a'[R]
    BY <1>1, <1>2, <1>4, <1>7, <1>10
  <2>4. Split("loopB")
    BY <2>1, <2>2, <2>3 DEF Split
  <2>5. QED
    BY <2>4
<1>11. CASE lm = 0 /\ mr = 0 /\ a' = a /\ Goto("equal")
  <2>1. Split("equal")
    BY <1>3, <1>7, <1>11 DEF Split, Goto
  <2>2. QED
    BY <2>1
<1>12. QED
  BY <1>6, <1>8, <1>9, <1>10, <1>11

LEMMA CompareStep ==
  ASSUME Inv, compare
  PROVE  Inv'
<1>1. /\ at = "compare" /\ Working /\ Types /\ l = L /\ r = R /\ m \in Int /\ L < m /\ m < R
      /\ input' = input /\ ordered' = ordered /\ L' = L /\ R' = R
      /\ l' = l /\ r' = r /\ m' = m /\ eq_l' = TRUE /\ eq_r' = TRUE /\ stack' = stack
      /\ L \in Int /\ R \in Int /\ L < R
  BY Ends DEF compare, call, region, Working, Inv, Types, Groups
<1>2. chklim' \in Nat
  BY DEF compare, Inv, Types
<1>3. PICK label \in {"nxt", "loopA", "loopB", "equal"} : Split(label)
  BY CompareSplits
<1>4. at' = label /\ Rearranged(a', L, R)
  BY <1>3 DEF Split
<1>5. /\ a' \in [Positions' -> Int]
      /\ Regions' /\ Outside' /\ Same' /\ Deep'
  <2>1. CASE label = "nxt"
    BY <1>1, <1>3, <1>4, <2>1, RegionSorted DEF call, region, Split
  <2>2. CASE label # "nxt"
    BY <1>1, <1>3, <1>4, <2>2, RegionKept DEF call, region, Working
  <2>3. QED
    BY <2>1, <2>2
<1>6. Types'
  BY <1>1, <1>2, <1>3, <1>4, <1>5 DEF Inv, Types, Labels, Positions, nel
<1>7. Groups'
  BY <1>1, <1>3, <1>4 DEF Groups, LeftTwo, RightTwo
<1>8. ordered' => Values'
  <2> SUFFICES ASSUME ordered PROVE Values'
    BY <1>1
  <2>1. CASE label = "nxt"
    BY <1>4, <2>1 DEF Values
  <2>2. CASE label = "loopA"
    BY <1>1, <1>3, <1>4, <2>2 DEF Values, Split
  <2>3. CASE label = "loopB"
    BY <1>1, <1>3, <1>4, <2>3 DEF Values, Split
  <2>4. CASE label = "equal"
    BY <1>1, <1>3, <1>4, <2>4 DEF Values, Split
  <2>5. QED
    BY <1>3, <2>1, <2>2, <2>3, <2>4
<1>9. QED
  BY <1>5, <1>6, <1>7, <1>8 DEF Inv

-----------------------------------------------------------------------------
(* The loops that move elements to the group they belong to.                 *)

\* What all of these steps leave alone, and what they have to keep.
LEMMA InnerStep ==
  ASSUME Inv, Working, Working', at' \in Labels, UNCHANGED <<call, region, stack, chklim>>,
         Rearranged(a', L, R), l' \in Int, r' \in Int, m' \in Int,
         eq_l' \in BOOLEAN, eq_r' \in BOOLEAN, Groups', ordered => Values'
  PROVE  Inv'
<1>1. UNCHANGED <<call, region, stack>>
  OBVIOUS
<1>2. /\ a' \in [Positions' -> Int]
      /\ Regions' /\ Outside' /\ Same' /\ Deep'
  BY <1>1, RegionKept
<1>3. Types'
  BY <1>2 DEF Inv, Types, call, region, Positions, nel
<1>4. ordered' => Values'
  BY DEF call
<1>5. QED
  BY <1>2, <1>3, <1>4 DEF Inv

LEMMA EqualStep ==
  ASSUME Inv, equal
  PROVE  Inv'
<1>1. /\ at = "equal" /\ Working /\ Types
      /\ UNCHANGED <<call, region, stack, chklim>> /\ r' = r /\ m' = m
      /\ eq_l' = eq_l /\ eq_r' = eq_r /\ L' = L /\ R' = R
      /\ eq_l = TRUE /\ eq_r = TRUE
  BY DEF equal, call, region, groups, Working, Inv, Types, Groups
<1>2. /\ L \in Int /\ R \in Int /\ l \in Int /\ m \in Int /\ r = R
      /\ L <= l /\ l < R /\ L < m /\ m < R
      /\ L \in Positions /\ R \in Positions /\ l + 1 \in Positions /\ m \in Positions
      /\ L \in L..R /\ R \in L..R /\ l + 1 \in L..R /\ L..R \subseteq Positions
      /\ \A i \in Positions : i \in Int /\ a[i] \in Int
  BY <1>1, Ends DEF Inv, Types, Groups
<1>3. Rearranged(a, L, R)
  BY <1>1, <1>2, KeptIsRearranged
<1>4. ordered => a[m] = a[R] /\ \A i \in L..l : a[i] = a[m]
  BY <1>1 DEF Inv, Values
<1>5. CASE l + 1 = r /\ l' = r /\ a' = a /\ Goto("nxt")
  <2>1. ASSUME ordered, NEW i \in Positions, NEW j \in Positions, L <= i, i < j, j <= R
        PROVE  a'[i] <= a'[j]
    <3>1. \A k \in L..R : a[k] = a[m]
      BY <1>2, <1>4, <1>5, <2>1
    <3>2. i \in L..R /\ j \in L..R
      BY <1>2, <2>1
    <3>3. QED
      BY <1>2, <1>5, <3>1, <3>2
  <2>2. at' = "nxt" /\ a' = a /\ l' = r
    BY <1>5 DEF Goto
  <2>3. /\ a' \in [Positions' -> Int]
        /\ Regions' /\ Outside' /\ Same' /\ Deep'
    BY <1>1, <1>3, <2>1, <2>2, RegionSorted DEF call, region
  <2>4. Types'
    BY <1>1, <1>2, <2>2, <2>3 DEF Inv, Types, Labels, Positions, nel, call
  <2>5. Groups' /\ Values'
    BY <2>2 DEF Groups, Values
  <2>6. QED
    BY <2>3, <2>4, <2>5 DEF Inv
<1>6. CASE l + 1 # r /\ l + 1 = m /\ l' = m /\ a' = a /\ UNCHANGED at
  <2>1. Groups'
    BY <1>1, <1>2, <1>6 DEF Groups
  <2>2. ordered => Values'
    BY <1>1, <1>2, <1>4, <1>6 DEF Values
  <2>3. QED
    BY <1>1, <1>2, <1>3, <1>6, <2>1, <2>2, InnerStep DEF Working, Labels
<1>7. CASE /\ l + 1 # r /\ l + 1 # m
           /\ \E t \in cmp(l + 1, m) :
                \/ t > 0 /\ a' = mmswap(l + 1, r) /\ l' = L /\ Goto("loopA")
                \/ t < 0 /\ a' = mmswap(L, l + 1) /\ l' = L /\ Goto("loopB")
                \/ t = 0 /\ a' = a /\ l' = l + 1 /\ UNCHANGED at
  <2>1. PICK t \in cmp(l + 1, m) :
                \/ t > 0 /\ a' = mmswap(l + 1, r) /\ l' = L /\ Goto("loopA")
                \/ t < 0 /\ a' = mmswap(L, l + 1) /\ l' = L /\ Goto("loopB")
                \/ t = 0 /\ a' = a /\ l' = l + 1 /\ UNCHANGED at
    BY <1>7
  <2>2. /\ t \in {-1, 0, 1}
        /\ ordered => /\ t < 0 <=> a[l + 1] < a[m]
                      /\ t = 0 <=> a[l + 1] = a[m]
                      /\ t > 0 <=> a[l + 1] > a[m]
    BY <1>1, <1>2, Answers
  <2>3. CASE t > 0 /\ a' = mmswap(l + 1, R) /\ l' = L /\ at' = "loopA"
    <3>1. Rearranged(a', L, R)
      BY <1>1, <1>2, <2>3, SwapIsRearranged
    <3>2. a'[L] = IF L = l + 1 THEN a[R] ELSE a[L]
      BY <1>1, <1>2, <2>3, Swapped
    <3>3. a'[m] = a[m] /\ a'[R] = a[l + 1]
      BY <1>1, <1>2, <1>7, <2>3, Swapped
    <3>4. Groups'
      BY <1>1, <1>2, <2>3 DEF Groups, LeftTwo
    <3>5. ordered => Values'
      BY <1>1, <1>2, <1>4, <2>2, <2>3, <3>2, <3>3 DEF Values
    <3>6. QED
      BY <1>1, <1>2, <2>3, <3>1, <3>4, <3>5, InnerStep DEF Working, Labels
  <2>4. CASE t < 0 /\ a' = mmswap(L, l + 1) /\ l' = L /\ at' = "loopB"
    <3>1. Rearranged(a', L, R)
      BY <1>1, <1>2, <2>4, SwapIsRearranged
    <3>2. a'[R] = a[R] /\ a'[m] = a[m] /\ a'[L] = a[l + 1]
      BY <1>1, <1>2, <1>7, <2>4, Swapped
    <3>3. Groups'
      BY <1>1, <1>2, <2>4 DEF Groups, RightTwo
    <3>4. ordered => Values'
      BY <1>1, <1>2, <1>4, <2>2, <2>4, <3>2 DEF Values
    <3>5. QED
      BY <1>1, <1>2, <2>4, <3>1, <3>3, <3>4, InnerStep DEF Working, Labels
  <2>5. CASE t = 0 /\ a' = a /\ l' = l + 1 /\ UNCHANGED at
    <3>1. Groups'
      BY <1>1, <1>2, <1>7, <2>5 DEF Groups
    <3>2. ordered => Values'
      BY <1>1, <1>2, <1>4, <2>2, <2>5 DEF Values
    <3>3. QED
      BY <1>1, <1>2, <1>3, <2>5, <3>1, <3>2, InnerStep DEF Working, Labels
  <2>6. QED
    BY <1>2, <2>1, <2>3, <2>4, <2>5 DEF Goto
<1>8. QED
  BY <1>5, <1>6, <1>7 DEF equal

(* Splitting type A.                                                         *)

\* The median goes between the groups, which have met with the right one at p.
LEMMA SplitAStep ==
  ASSUME Inv, Working, UNCHANGED <<call, region, stack, chklim>>,
         NEW p \in Int, SplitA(p),
         L < m, m < p, p <= R, ~eq_l => L < p - 2, ~eq_r => p < R,
         ordered => /\ \A i \in L..(p - 1) : a[i] <= a[m]
                    /\ \A i \in p..R : a[m] < a[i]
                    /\ eq_l => \A i \in (L + 1)..(p - 1) : a[i] = a[m]
                    /\ eq_r => p = R
  PROVE  Inv'
<1>1. /\ L' = L /\ R' = R /\ l' = p - 2 /\ r' = p /\ m' = m
      /\ eq_l' = eq_l /\ eq_r' = eq_r /\ at' = "fin"
      /\ input' = input /\ Positions' = Positions
      /\ a' = IF p - 1 # m THEN mmswap(m, p - 1) ELSE a
      /\ eq_l \in BOOLEAN /\ eq_r \in BOOLEAN /\ m \in Int /\ Types
  BY DEF SplitA, Goto, call, region, groups, Inv, Types, Positions, nel
<1>2. /\ L \in Int /\ R \in Int /\ L < R /\ L..R \subseteq Positions
      /\ m \in L..R /\ p - 1 \in L..R /\ m \in Positions /\ p - 1 \in Positions
      /\ \A i \in Positions : i \in Int /\ a[i] \in Int
  BY <1>1, Ends
<1>3. Rearranged(a', L, R)
  BY <1>1, <1>2, SwapIsRearranged, KeptIsRearranged
<1>4. Groups'
  BY <1>1, <1>2 DEF Groups
<1>5. /\ a'[p - 1] = a[m] /\ a'[m] = a[p - 1]
      /\ \A i \in Positions : i # m /\ i # p - 1 => a'[i] = a[i]
  BY <1>1, <1>2, Swapped
<1>6. ordered => Values'
  <2> SUFFICES ASSUME ordered PROVE Values'
    OBVIOUS
  <2>1. \A i \in L..(p - 2) : a'[i] <= a'[p - 1]
    BY <1>2, <1>5
  <2>2. \A i \in p..R : a'[p - 1] <= a'[i]
    BY <1>2, <1>5
  <2>3. ASSUME eq_l, NEW i \in Positions, NEW j \in Positions, L <= i, i < j, j <= p - 2
        PROVE  a'[i] <= a'[j]
    <3>1. \A k \in (L + 1)..(p - 1) : a[k] = a[m]
      BY <2>3
    <3>2. \A k \in (L + 1)..(p - 1) : a'[k] = a[m]
      BY <1>2, <1>5, <3>1
    <3>3. j \in (L + 1)..(p - 1)
      BY <1>2, <2>3
    <3>4. i \in L..(p - 2)
      BY <1>2, <2>3
    <3>5. QED
      BY <1>5, <2>1, <3>2, <3>3, <3>4
  <2>4. ASSUME eq_r, NEW i \in Positions, NEW j \in Positions, p <= i, i < j, j <= R
        PROVE  a'[i] <= a'[j]
    BY <1>2, <2>4
  <2>5. p - 2 + 1 = p - 1
    OBVIOUS
  <2>6. QED
    BY <1>1, <2>1, <2>2, <2>3, <2>4, <2>5 DEF Values, InOrderFrom
<1>7. p - 2 \in Int
  OBVIOUS
<1>8. QED
  BY <1>1, <1>3, <1>4, <1>6, <1>7, InnerStep DEF Working, Labels

LEMMA LoopALeftStep ==
  ASSUME Inv, loopA_left
  PROVE  Inv'
<1>1. /\ at = "loopA" /\ Working /\ Types /\ UNCHANGED <<call, region, stack, chklim>>
      /\ L' = L /\ R' = R
      /\ eq_l \in BOOLEAN /\ eq_r \in BOOLEAN /\ m \in Int /\ l \in Int /\ r \in Int
  BY DEF loopA_left, region, Working, Inv, Types
<1>2. /\ L \in Int /\ R \in Int /\ L < R
      /\ L <= l /\ l < r /\ r <= R /\ L < m /\ m < r
      /\ ~eq_l => L < l /\ (l = L + 1 => m # l)
      /\ eq_r <=> r = R
      /\ L..R \subseteq Positions /\ l + 1 \in Positions /\ m \in Positions
      /\ \A i \in Positions : i \in Int /\ a[i] \in Int
  BY <1>1, Ends DEF Inv, Groups, LeftTwo
<1>3. ordered => /\ \A i \in L..l : a[i] <= a[m]
                 /\ \A i \in r..R : a[m] < a[i]
                 /\ eq_l => \A i \in (L + 1)..l : a[i] = a[m]
  BY <1>1 DEF Inv, Values
<1>4. CASE l + 1 = r /\ SplitA(r)
  <2>1. l = r - 1
    BY <1>1, <1>4
  <2>2. (~eq_l => L < r - 2) /\ (~eq_r => r < R)
    BY <1>1, <1>2, <1>4
  <2>3. QED
    BY <1>1, <1>2, <1>3, <1>4, <2>1, <2>2, SplitAStep
<1>5. CASE l + 1 # r /\ l' = l + 1 /\ UNCHANGED <<a, r, m>> /\ l + 1 = m /\ UNCHANGED <<groups, at>>
  <2>1. l' = m /\ a' = a /\ r' = r /\ m' = m /\ eq_l' = eq_l /\ eq_r' = eq_r /\ at' = at
    BY <1>5 DEF groups
  <2>2. Rearranged(a', L, R)
    BY <1>1, <1>2, <2>1, KeptIsRearranged
  <2>3. Groups'
    BY <1>1, <1>2, <1>5, <2>1 DEF Groups, LeftTwo
  <2>4. ordered => Values'
    BY <1>1, <1>2, <1>3, <1>5, <2>1 DEF Values
  <2>5. QED
    BY <1>1, <2>1, <2>2, <2>3, <2>4, InnerStep DEF Working, Labels
<1>6. CASE /\ l + 1 # r /\ l' = l + 1 /\ UNCHANGED <<a, r, m>> /\ l + 1 # m
           /\ \E t \in cmp(l + 1, m) :
                /\ eq_r' = (eq_r /\ t <= 0)
                /\ eq_l' = (eq_l /\ t >= 0)
                /\ at' = IF t > 0 THEN "loopA_right" ELSE at
  <2>1. PICK t \in cmp(l + 1, m) :
                /\ eq_r' = (eq_r /\ t <= 0)
                /\ eq_l' = (eq_l /\ t >= 0)
                /\ at' = IF t > 0 THEN "loopA_right" ELSE at
    BY <1>6
  <2>2. /\ t \in {-1, 0, 1}
        /\ ordered => /\ t < 0 <=> a[l + 1] < a[m]
                      /\ t = 0 <=> a[l + 1] = a[m]
                      /\ t > 0 <=> a[l + 1] > a[m]
    BY <1>1, <1>2, Answers
  <2>3. a' = a /\ r' = r /\ m' = m /\ l' = l + 1 /\ eq_l' \in BOOLEAN /\ eq_r' \in BOOLEAN
    BY <1>1, <1>6, <2>1
  <2>4. Rearranged(a', L, R)
    BY <1>1, <1>2, <2>3, KeptIsRearranged
  <2>5. CASE t > 0
    <3>1. at' = "loopA_right" /\ ~eq_r' /\ (eq_l' <=> eq_l)
      <4>1. ~(t <= 0) /\ t >= 0
        BY <2>2, <2>5
      <4>2. QED
        BY <1>1, <2>1, <2>5, <4>1, Zenon
    <3>2. Groups'
      BY <1>1, <1>2, <1>6, <2>3, <3>1 DEF Groups, LeftTwo
    <3>3. ordered => Values'
      BY <1>1, <1>2, <1>3, <1>6, <2>2, <2>3, <2>5, <3>1 DEF Values
    <3>4. QED
      BY <1>1, <2>3, <2>4, <3>1, <3>2, <3>3, InnerStep DEF Working, Labels
  <2>6. CASE ~(t > 0)
    <3>1. at' = "loopA" /\ (eq_r' <=> eq_r) /\ (eq_l' <=> eq_l /\ t = 0)
      <4>1. t <= 0 /\ (t >= 0 <=> t = 0)
        BY <2>2, <2>6
      <4>2. QED
        BY <1>1, <2>1, <2>6, <4>1, Zenon
    <3>2. Groups'
      BY <1>1, <1>2, <1>6, <2>3, <3>1 DEF Groups, LeftTwo
    <3>3. ordered => Values'
      <4> SUFFICES ASSUME ordered PROVE Values'
        OBVIOUS
      <4>1. a[l + 1] <= a[m]
        BY <1>2, <2>2, <2>6
      <4>2. /\ \A i \in L..(l + 1) : i \in L..l \/ i = l + 1
            /\ \A i \in (L + 1)..(l + 1) : i \in (L + 1)..l \/ i = l + 1
        BY <1>1, <1>2
      <4>3. \A i \in L..(l + 1) : a[i] <= a[m]
        BY <1>3, <4>1, <4>2
      <4>4. eq_l' => \A i \in (L + 1)..(l + 1) : a[i] = a[m]
        BY <1>3, <2>2, <3>1, <4>2
      <4>5. QED
        BY <1>1, <1>3, <2>3, <3>1, <4>3, <4>4 DEF Values
    <3>4. QED
      BY <1>1, <2>3, <2>4, <3>1, <3>2, <3>3, InnerStep DEF Working, Labels
  <2>7. QED
    BY <2>5, <2>6
<1>7. QED
  BY <1>4, <1>5, <1>6 DEF loopA_left

LEMMA LoopARightStep ==
  ASSUME Inv, loopA_right
  PROVE  Inv'
<1>1. /\ at = "loopA_right" /\ Working /\ Types /\ UNCHANGED <<call, region, stack, chklim>>
      /\ L' = L /\ R' = R
      /\ eq_l \in BOOLEAN /\ eq_r \in BOOLEAN /\ m \in Int /\ l \in Int /\ r \in Int
  BY DEF loopA_right, region, Working, Inv, Types
<1>2. /\ L \in Int /\ R \in Int /\ L < R
      /\ L < l /\ l < r /\ r <= R /\ L < m /\ m < r /\ m # l
      /\ ~eq_l => L < l - 1 /\ (l - 1 = L + 1 => m # l - 1)
      /\ ~eq_r
      /\ L..R \subseteq Positions
      /\ l \in L..R /\ m \in L..R /\ r - 1 \in L..R
      /\ l \in Positions /\ r - 1 \in Positions /\ m \in Positions
      /\ \A i \in Positions : i \in Int /\ a[i] \in Int
  BY <1>1, Ends DEF Inv, Groups, LeftTwo
<1>3. ordered => /\ a[m] < a[l]
                 /\ \A i \in L..(l - 1) : a[i] <= a[m]
                 /\ \A i \in r..R : a[m] < a[i]
                 /\ eq_l => \A i \in (L + 1)..(l - 1) : a[i] = a[m]
  BY <1>1 DEF Inv, Values
<1>4. CASE l = r - 1 /\ SplitA(l)
  <2>1. L < m /\ m < l /\ l < R
    BY <1>1, <1>2, <1>4
  <2>2. ~eq_l => L < l - 2
    BY <1>1, <1>2, <2>1
  <2>3. ordered => \A i \in l..R : a[m] < a[i]
    <3>1. \A i \in l..R : i = l \/ i \in r..R
      BY <1>1, <1>2, <1>4
    <3>2. QED
      BY <1>3, <3>1
  <2>4. QED
    BY <1>1, <1>2, <1>3, <1>4, <2>1, <2>2, <2>3, SplitAStep
<1>5. CASE /\ l # r - 1 /\ r' = r - 1 /\ UNCHANGED l
           /\ r - 1 = m /\ m' = l /\ a' = mmswap(l, r - 1) /\ Goto("loopA") /\ UNCHANGED groups
  <2>1. /\ l' = l /\ r' = m /\ m' = l /\ a' = mmswap(l, m) /\ at' = "loopA" /\ r = m + 1
        /\ eq_l' = eq_l /\ eq_r' = eq_r
    BY <1>1, <1>5 DEF groups, Goto
  <2>2. Rearranged(a', L, R)
    BY <1>1, <1>2, <2>1, SwapIsRearranged
  <2>3. Groups'
    BY <1>1, <1>2, <1>5, <2>1 DEF Groups, LeftTwo
  <2>4. ordered => Values'
    <3> SUFFICES ASSUME ordered PROVE Values'
      OBVIOUS
    <3>1. a'[l] = a[m] /\ a'[m] = a[l]
          /\ \A i \in Positions : i # l /\ i # m => a'[i] = a[i]
      BY <1>1, <1>2, <2>1, Swapped
    <3>2. /\ \A i \in L..l : i = l \/ (i \in L..(l - 1) /\ i # m /\ i # l /\ i \in Positions)
          /\ \A i \in (L + 1)..l :
               i = l \/ (i \in (L + 1)..(l - 1) /\ i # m /\ i # l /\ i \in Positions)
          /\ \A i \in m..R : i = m \/ (i \in r..R /\ i # m /\ i # l /\ i \in Positions)
      BY <1>1, <1>2, <1>5, <2>1
    <3>3. /\ \A i \in L..l : a'[i] <= a'[l]
          /\ \A i \in m..R : a'[l] < a'[i]
          /\ eq_l => \A i \in (L + 1)..l : a'[i] = a'[l]
      BY <1>2, <1>3, <3>1, <3>2
    <3>4. QED
      BY <1>1, <2>1, <3>3 DEF Values
  <2>5. QED
    BY <1>1, <2>1, <2>2, <2>3, <2>4, InnerStep DEF Working, Labels
<1>6. CASE /\ l # r - 1 /\ r' = r - 1 /\ UNCHANGED l /\ r - 1 # m /\ UNCHANGED <<m, eq_r>>
           /\ \E t \in cmp(r - 1, m) :
                /\ eq_l' = (eq_l /\ t >= 0)
                /\ a' = IF t <= 0 THEN mmswap(l, r - 1) ELSE a
                /\ at' = IF t <= 0 THEN "loopA" ELSE at
  <2>1. PICK t \in cmp(r - 1, m) :
                /\ eq_l' = (eq_l /\ t >= 0)
                /\ a' = IF t <= 0 THEN mmswap(l, r - 1) ELSE a
                /\ at' = IF t <= 0 THEN "loopA" ELSE at
    BY <1>6
  <2>2. /\ t \in {-1, 0, 1}
        /\ ordered => /\ t < 0 <=> a[r - 1] < a[m]
                      /\ t = 0 <=> a[r - 1] = a[m]
                      /\ t > 0 <=> a[r - 1] > a[m]
    BY <1>1, <1>2, Answers
  <2>3. /\ r' = r - 1 /\ m' = m /\ l' = l /\ eq_r' = eq_r /\ eq_l' \in BOOLEAN
        /\ l < r - 1 /\ m < r - 1
    BY <1>1, <1>2, <1>6, <2>1
  <2>4. CASE t > 0
    <3>1. ~(t <= 0) /\ t >= 0
      BY <2>2, <2>4
    <3>2. at' = "loopA_right" /\ (eq_l' <=> eq_l) /\ a' = a
      BY <1>1, <2>1, <3>1, Zenon
    <3>3. Rearranged(a', L, R)
      BY <1>1, <1>2, <3>2, KeptIsRearranged
    <3>4. Groups'
      BY <1>1, <1>2, <2>3, <3>2 DEF Groups, LeftTwo
    <3>5. ordered => Values'
      <4>1. \A i \in (r - 1)..R : i = r - 1 \/ i \in r..R
        BY <1>1, <1>2
      <4>2. ordered => \A i \in (r - 1)..R : a[m] < a[i]
        BY <1>3, <2>2, <2>4, <4>1
      <4>3. QED
        BY <1>1, <1>3, <2>3, <3>2, <4>2 DEF Values
    <3>6. QED
      BY <1>1, <2>3, <3>2, <3>3, <3>4, <3>5, InnerStep DEF Working, Labels
  <2>5. CASE ~(t > 0)
    <3>1. t <= 0 /\ (t >= 0 <=> t = 0)
      BY <2>2, <2>5
    <3>2. at' = "loopA" /\ (eq_l' <=> eq_l /\ t = 0) /\ a' = mmswap(l, r - 1)
      BY <1>1, <2>1, <3>1, Zenon
    <3>3. Rearranged(a', L, R)
      BY <1>1, <1>2, <3>2, SwapIsRearranged
    <3>4. Groups'
      BY <1>1, <1>2, <2>3, <3>2 DEF Groups, LeftTwo
    <3>5. ordered => Values'
      <4> SUFFICES ASSUME ordered PROVE Values'
        OBVIOUS
      <4>1. a'[l] = a[r - 1] /\ a'[r - 1] = a[l] /\ a'[m] = a[m]
            /\ \A i \in Positions : i # l /\ i # r - 1 => a'[i] = a[i]
        BY <1>1, <1>2, <1>6, <3>2, Swapped
      <4>2. /\ \A i \in L..l : i = l \/ (i \in L..(l - 1) /\ i # r - 1 /\ i # l /\ i \in Positions)
            /\ \A i \in (L + 1)..l :
                 i = l \/ (i \in (L + 1)..(l - 1) /\ i # r - 1 /\ i # l /\ i \in Positions)
            /\ \A i \in (r - 1)..R :
                 i = r - 1 \/ (i \in r..R /\ i # r - 1 /\ i # l /\ i \in Positions)
        BY <1>1, <1>2, <2>3
      <4>3. /\ \A i \in L..l : a'[i] <= a'[m]
            /\ \A i \in (r - 1)..R : a'[m] < a'[i]
            /\ eq_l' => \A i \in (L + 1)..l : a'[i] = a'[m]
        BY <1>2, <1>3, <2>2, <2>5, <3>2, <4>1, <4>2
      <4>4. QED
        BY <1>1, <2>3, <3>2, <4>3 DEF Values
    <3>6. QED
      BY <1>1, <2>3, <3>2, <3>3, <3>4, <3>5, InnerStep DEF Working, Labels
  <2>6. QED
    BY <2>4, <2>5
<1>7. QED
  BY <1>4, <1>5, <1>6 DEF loopA_right

(* Splitting type B.                                                         *)

\* The median goes between the groups, which have met with the left one at p.
LEMMA SplitBStep ==
  ASSUME Inv, Working, UNCHANGED <<call, region, stack, chklim>>,
         NEW p \in Int, SplitB(p),
         L <= p, p < m, m < R, ~eq_l => L < p, ~eq_r => p + 2 < R,
         ordered => /\ \A i \in L..p : a[i] < a[m]
                    /\ \A i \in (p + 1)..R : a[m] <= a[i]
                    /\ eq_r => \A i \in (p + 1)..(R - 1) : a[i] = a[m]
                    /\ eq_l => p = L
  PROVE  Inv'
<1>1. /\ L' = L /\ R' = R /\ l' = p /\ r' = p + 2 /\ m' = m
      /\ eq_l' = eq_l /\ eq_r' = eq_r /\ at' = "fin"
      /\ input' = input /\ Positions' = Positions
      /\ a' = IF p + 1 # m THEN mmswap(p + 1, m) ELSE a
      /\ eq_l \in BOOLEAN /\ eq_r \in BOOLEAN /\ m \in Int /\ Types
  BY DEF SplitB, Goto, call, region, groups, Inv, Types, Positions, nel
<1>2. /\ L \in Int /\ R \in Int /\ L < R /\ L..R \subseteq Positions
      /\ m \in L..R /\ p + 1 \in L..R /\ m \in Positions /\ p + 1 \in Positions
      /\ \A i \in Positions : i \in Int /\ a[i] \in Int
  BY <1>1, Ends
<1>3. Rearranged(a', L, R)
  BY <1>1, <1>2, SwapIsRearranged, KeptIsRearranged
<1>4. Groups'
  BY <1>1, <1>2 DEF Groups
<1>5. /\ a'[p + 1] = a[m] /\ a'[m] = a[p + 1]
      /\ \A i \in Positions : i # m /\ i # p + 1 => a'[i] = a[i]
  BY <1>1, <1>2, Swapped
<1>6. ordered => Values'
  <2> SUFFICES ASSUME ordered PROVE Values'
    OBVIOUS
  <2>1. \A i \in L..p : a'[i] <= a'[p + 1]
    BY <1>2, <1>5
  <2>2. \A i \in (p + 2)..R : a'[p + 1] <= a'[i]
    BY <1>2, <1>5
  <2>3. ASSUME eq_r, NEW i \in Positions, NEW j \in Positions, p + 2 <= i, i < j, j <= R
        PROVE  a'[i] <= a'[j]
    <3>1. \A k \in (p + 1)..(R - 1) : a[k] = a[m]
      BY <2>3
    <3>2. \A k \in (p + 1)..(R - 1) : a'[k] = a[m]
      BY <1>2, <1>5, <3>1
    <3>3. i \in (p + 1)..(R - 1)
      BY <1>2, <2>3
    <3>4. j \in (p + 2)..R
      BY <1>2, <2>3
    <3>5. QED
      BY <1>5, <2>2, <3>2, <3>3, <3>4
  <2>4. ASSUME eq_l, NEW i \in Positions, NEW j \in Positions, L <= i, i < j, j <= p
        PROVE  a'[i] <= a'[j]
    BY <1>2, <2>4
  <2>5. QED
    BY <1>1, <2>1, <2>2, <2>3, <2>4 DEF Values, InOrderFrom
<1>7. p + 2 \in Int
  OBVIOUS
<1>8. QED
  BY <1>1, <1>3, <1>4, <1>6, <1>7, InnerStep DEF Working, Labels

LEMMA LoopBRightStep ==
  ASSUME Inv, loopB_right
  PROVE  Inv'
<1>1. /\ at = "loopB" /\ Working /\ Types /\ UNCHANGED <<call, region, stack, chklim>>
      /\ L' = L /\ R' = R
      /\ eq_l \in BOOLEAN /\ eq_r \in BOOLEAN /\ m \in Int /\ l \in Int /\ r \in Int
  BY DEF loopB_right, region, Working, Inv, Types
<1>2. /\ L \in Int /\ R \in Int /\ L < R
      /\ L <= l /\ l < r /\ r <= R /\ l < m /\ m < R
      /\ ~eq_r => r < R /\ (r = R - 1 => m # r)
      /\ eq_l <=> l = L
      /\ L..R \subseteq Positions /\ r - 1 \in Positions /\ m \in Positions
      /\ \A i \in Positions : i \in Int /\ a[i] \in Int
  BY <1>1, Ends DEF Inv, Groups, RightTwo
<1>3. ordered => /\ \A i \in L..l : a[i] < a[m]
                 /\ \A i \in r..R : a[m] <= a[i]
                 /\ eq_r => \A i \in r..(R - 1) : a[i] = a[m]
  BY <1>1 DEF Inv, Values
<1>4. CASE l = r - 1 /\ SplitB(l)
  <2>1. r = l + 1
    BY <1>1, <1>4
  <2>2. (~eq_r => l + 2 < R) /\ (~eq_l => L < l)
    BY <1>1, <1>2, <2>1
  <2>3. QED
    BY <1>1, <1>2, <1>3, <1>4, <2>1, <2>2, SplitBStep
<1>5. CASE l # r - 1 /\ r' = r - 1 /\ UNCHANGED <<a, l, m>> /\ r - 1 = m /\ UNCHANGED <<groups, at>>
  <2>1. r' = m /\ a' = a /\ l' = l /\ m' = m /\ eq_l' = eq_l /\ eq_r' = eq_r /\ at' = at
    BY <1>5 DEF groups
  <2>2. Rearranged(a', L, R)
    BY <1>1, <1>2, <2>1, KeptIsRearranged
  <2>3. Groups'
    BY <1>1, <1>2, <1>5, <2>1 DEF Groups, RightTwo
  <2>4. ordered => Values'
    BY <1>1, <1>2, <1>3, <1>5, <2>1 DEF Values
  <2>5. QED
    BY <1>1, <2>1, <2>2, <2>3, <2>4, InnerStep DEF Working, Labels
<1>6. CASE /\ l # r - 1 /\ r' = r - 1 /\ UNCHANGED <<a, l, m>> /\ r - 1 # m
           /\ \E t \in cmp(r - 1, m) :
                /\ eq_l' = (eq_l /\ t >= 0)
                /\ eq_r' = (eq_r /\ t <= 0)
                /\ at' = IF t < 0 THEN "loopB_left" ELSE at
  <2>1. PICK t \in cmp(r - 1, m) :
                /\ eq_l' = (eq_l /\ t >= 0)
                /\ eq_r' = (eq_r /\ t <= 0)
                /\ at' = IF t < 0 THEN "loopB_left" ELSE at
    BY <1>6
  <2>2. /\ t \in {-1, 0, 1}
        /\ ordered => /\ t < 0 <=> a[r - 1] < a[m]
                      /\ t = 0 <=> a[r - 1] = a[m]
                      /\ t > 0 <=> a[r - 1] > a[m]
    BY <1>1, <1>2, Answers
  <2>3. a' = a /\ l' = l /\ m' = m /\ r' = r - 1 /\ eq_l' \in BOOLEAN /\ eq_r' \in BOOLEAN
    BY <1>1, <1>6, <2>1
  <2>4. Rearranged(a', L, R)
    BY <1>1, <1>2, <2>3, KeptIsRearranged
  <2>5. CASE t < 0
    <3>1. at' = "loopB_left" /\ ~eq_l' /\ (eq_r' <=> eq_r)
      <4>1. ~(t >= 0) /\ t <= 0
        BY <2>2, <2>5
      <4>2. QED
        BY <1>1, <2>1, <2>5, <4>1, Zenon
    <3>2. Groups'
      BY <1>1, <1>2, <1>6, <2>3, <3>1 DEF Groups, RightTwo
    <3>3. ordered => Values'
      BY <1>1, <1>2, <1>3, <1>6, <2>2, <2>3, <2>5, <3>1 DEF Values
    <3>4. QED
      BY <1>1, <2>3, <2>4, <3>1, <3>2, <3>3, InnerStep DEF Working, Labels
  <2>6. CASE ~(t < 0)
    <3>1. at' = "loopB" /\ (eq_l' <=> eq_l) /\ (eq_r' <=> eq_r /\ t = 0)
      <4>1. t >= 0 /\ (t <= 0 <=> t = 0)
        BY <2>2, <2>6
      <4>2. QED
        BY <1>1, <2>1, <2>6, <4>1, Zenon
    <3>2. Groups'
      BY <1>1, <1>2, <1>6, <2>3, <3>1 DEF Groups, RightTwo
    <3>3. ordered => Values'
      <4> SUFFICES ASSUME ordered PROVE Values'
        OBVIOUS
      <4>1. a[m] <= a[r - 1]
        BY <1>2, <2>2, <2>6
      <4>2. /\ \A i \in (r - 1)..R : i \in r..R \/ i = r - 1
            /\ \A i \in (r - 1)..(R - 1) : i \in r..(R - 1) \/ i = r - 1
        BY <1>1, <1>2
      <4>3. \A i \in (r - 1)..R : a[m] <= a[i]
        BY <1>3, <4>1, <4>2
      <4>4. eq_r' => \A i \in (r - 1)..(R - 1) : a[i] = a[m]
        BY <1>3, <2>2, <3>1, <4>2
      <4>5. QED
        BY <1>1, <1>3, <2>3, <3>1, <4>3, <4>4 DEF Values
    <3>4. QED
      BY <1>1, <2>3, <2>4, <3>1, <3>2, <3>3, InnerStep DEF Working, Labels
  <2>7. QED
    BY <2>5, <2>6
<1>7. QED
  BY <1>4, <1>5, <1>6 DEF loopB_right

LEMMA LoopBLeftStep ==
  ASSUME Inv, loopB_left
  PROVE  Inv'
<1>1. /\ at = "loopB_left" /\ Working /\ Types /\ UNCHANGED <<call, region, stack, chklim>>
      /\ L' = L /\ R' = R
      /\ eq_l \in BOOLEAN /\ eq_r \in BOOLEAN /\ m \in Int /\ l \in Int /\ r \in Int
  BY DEF loopB_left, region, Working, Inv, Types
<1>2. /\ L \in Int /\ R \in Int /\ L < R
      /\ L <= l /\ l < r /\ r < R /\ l < m /\ m < R /\ m # r
      /\ ~eq_r => r + 1 < R /\ (r + 1 = R - 1 => m # r + 1)
      /\ ~eq_l
      /\ L..R \subseteq Positions
      /\ r \in L..R /\ m \in L..R /\ l + 1 \in L..R
      /\ r \in Positions /\ l + 1 \in Positions /\ m \in Positions
      /\ \A i \in Positions : i \in Int /\ a[i] \in Int
  BY <1>1, Ends DEF Inv, Groups, RightTwo
<1>3. ordered => /\ a[r] < a[m]
                 /\ \A i \in L..l : a[i] < a[m]
                 /\ \A i \in (r + 1)..R : a[m] <= a[i]
                 /\ eq_r => \A i \in (r + 1)..(R - 1) : a[i] = a[m]
  BY <1>1 DEF Inv, Values
<1>4. CASE l + 1 = r /\ SplitB(r)
  <2>1. L <= r /\ r < m /\ L < r
    BY <1>1, <1>2, <1>4
  <2>2. ~eq_r => r + 2 < R
    BY <1>1, <1>2, <2>1
  <2>3. ordered => \A i \in L..r : a[i] < a[m]
    <3>1. \A i \in L..r : i = r \/ i \in L..l
      BY <1>1, <1>2, <1>4
    <3>2. QED
      BY <1>3, <3>1
  <2>4. QED
    BY <1>1, <1>2, <1>3, <1>4, <2>1, <2>2, <2>3, SplitBStep
<1>5. CASE /\ l + 1 # r /\ l' = l + 1 /\ UNCHANGED r
           /\ l + 1 = m /\ m' = r /\ a' = mmswap(l + 1, r) /\ Goto("loopB") /\ UNCHANGED groups
  <2>1. /\ r' = r /\ l' = m /\ m' = r /\ a' = mmswap(m, r) /\ at' = "loopB" /\ l = m - 1
        /\ eq_l' = eq_l /\ eq_r' = eq_r
    BY <1>1, <1>5 DEF groups, Goto
  <2>2. Rearranged(a', L, R)
    BY <1>1, <1>2, <2>1, SwapIsRearranged
  <2>3. Groups'
    BY <1>1, <1>2, <1>5, <2>1 DEF Groups, RightTwo
  <2>4. ordered => Values'
    <3> SUFFICES ASSUME ordered PROVE Values'
      OBVIOUS
    <3>1. a'[r] = a[m] /\ a'[m] = a[r]
          /\ \A i \in Positions : i # r /\ i # m => a'[i] = a[i]
      BY <1>1, <1>2, <2>1, Swapped
    <3>2. /\ \A i \in r..R : i = r \/ (i \in (r + 1)..R /\ i # m /\ i # r /\ i \in Positions)
          /\ \A i \in r..(R - 1) :
               i = r \/ (i \in (r + 1)..(R - 1) /\ i # m /\ i # r /\ i \in Positions)
          /\ \A i \in L..m : i = m \/ (i \in L..l /\ i # m /\ i # r /\ i \in Positions)
      BY <1>1, <1>2, <1>5, <2>1
    <3>3. /\ \A i \in L..m : a'[i] < a'[r]
          /\ \A i \in r..R : a'[r] <= a'[i]
          /\ eq_r => \A i \in r..(R - 1) : a'[i] = a'[r]
      BY <1>2, <1>3, <3>1, <3>2
    <3>4. QED
      BY <1>1, <2>1, <3>3 DEF Values
  <2>5. QED
    BY <1>1, <2>1, <2>2, <2>3, <2>4, InnerStep DEF Working, Labels
<1>6. CASE /\ l + 1 # r /\ l' = l + 1 /\ UNCHANGED r /\ l + 1 # m /\ UNCHANGED <<m, eq_l>>
           /\ \E t \in cmp(l + 1, m) :
                /\ eq_r' = (eq_r /\ t <= 0)
                /\ a' = IF t >= 0 THEN mmswap(l + 1, r) ELSE a
                /\ at' = IF t >= 0 THEN "loopB" ELSE at
  <2>1. PICK t \in cmp(l + 1, m) :
                /\ eq_r' = (eq_r /\ t <= 0)
                /\ a' = IF t >= 0 THEN mmswap(l + 1, r) ELSE a
                /\ at' = IF t >= 0 THEN "loopB" ELSE at
    BY <1>6
  <2>2. /\ t \in {-1, 0, 1}
        /\ ordered => /\ t < 0 <=> a[l + 1] < a[m]
                      /\ t = 0 <=> a[l + 1] = a[m]
                      /\ t > 0 <=> a[l + 1] > a[m]
    BY <1>1, <1>2, Answers
  <2>3. /\ l' = l + 1 /\ m' = m /\ r' = r /\ eq_l' = eq_l /\ eq_r' \in BOOLEAN
        /\ l + 1 < r /\ l + 1 < m
    BY <1>1, <1>2, <1>6, <2>1
  <2>4. CASE t < 0
    <3>1. ~(t >= 0) /\ t <= 0
      BY <2>2, <2>4
    <3>2. at' = "loopB_left" /\ (eq_r' <=> eq_r) /\ a' = a
      BY <1>1, <2>1, <3>1, Zenon
    <3>3. Rearranged(a', L, R)
      BY <1>1, <1>2, <3>2, KeptIsRearranged
    <3>4. Groups'
      BY <1>1, <1>2, <2>3, <3>2 DEF Groups, RightTwo
    <3>5. ordered => Values'
      <4>1. \A i \in L..(l + 1) : i = l + 1 \/ i \in L..l
        BY <1>1, <1>2
      <4>2. ordered => \A i \in L..(l + 1) : a[i] < a[m]
        BY <1>3, <2>2, <2>4, <4>1
      <4>3. QED
        BY <1>1, <1>3, <2>3, <3>2, <4>2 DEF Values
    <3>6. QED
      BY <1>1, <2>3, <3>2, <3>3, <3>4, <3>5, InnerStep DEF Working, Labels
  <2>5. CASE ~(t < 0)
    <3>1. t >= 0 /\ (t <= 0 <=> t = 0)
      BY <2>2, <2>5
    <3>2. at' = "loopB" /\ (eq_r' <=> eq_r /\ t = 0) /\ a' = mmswap(l + 1, r)
      BY <1>1, <2>1, <3>1, Zenon
    <3>3. Rearranged(a', L, R)
      BY <1>1, <1>2, <3>2, SwapIsRearranged
    <3>4. Groups'
      BY <1>1, <1>2, <2>3, <3>2 DEF Groups, RightTwo
    <3>5. ordered => Values'
      <4> SUFFICES ASSUME ordered PROVE Values'
        OBVIOUS
      <4>1. a'[r] = a[l + 1] /\ a'[l + 1] = a[r] /\ a'[m] = a[m]
            /\ \A i \in Positions : i # r /\ i # l + 1 => a'[i] = a[i]
        BY <1>1, <1>2, <1>6, <3>2, Swapped
      <4>2. /\ \A i \in r..R : i = r \/ (i \in (r + 1)..R /\ i # l + 1 /\ i # r /\ i \in Positions)
            /\ \A i \in r..(R - 1) :
                 i = r \/ (i \in (r + 1)..(R - 1) /\ i # l + 1 /\ i # r /\ i \in Positions)
            /\ \A i \in L..(l + 1) :
                 i = l + 1 \/ (i \in L..l /\ i # l + 1 /\ i # r /\ i \in Positions)
        BY <1>1, <1>2, <2>3
      <4>3. /\ \A i \in L..(l + 1) : a'[i] < a'[m]
            /\ \A i \in r..R : a'[m] <= a'[i]
            /\ eq_r' => \A i \in r..(R - 1) : a'[i] = a'[m]
        BY <1>2, <1>3, <2>2, <2>5, <3>2, <4>1, <4>2
      <4>4. QED
        BY <1>1, <2>3, <3>2, <4>3 DEF Values
    <3>6. QED
      BY <1>1, <2>3, <3>2, <3>3, <3>4, <3>5, InnerStep DEF Working, Labels
  <2>6. QED
    BY <2>4, <2>5
<1>7. QED
  BY <1>4, <1>5, <1>6 DEF loopB_left

-----------------------------------------------------------------------------
(* fin: the two sides.                                                       *)

LEMMA FinFacts ==
  ASSUME Inv, at = "fin"
  PROVE  /\ Working /\ Types /\ nel \in Nat
         /\ L \in Int /\ R \in Int /\ l \in Int /\ r \in Int
         /\ 1 <= L /\ L <= l /\ r = l + 2 /\ r <= R /\ R <= nel
         /\ ~eq_l => L < l
         /\ ~eq_r => r < R
         /\ L \in Positions /\ l \in Positions /\ r \in Positions /\ R \in Positions
BY Ends DEF Working, Inv, Types, Groups

\* Elements that are not in one side with elements out of order are in order.
LEMMA SidesInOrder ==
  ASSUME Inv, at = "fin", ordered, NEW i \in Positions, NEW j \in Positions,
         L <= i, i < j, j <= R
  PROVE  a[i] <= a[j] \/ (~eq_l /\ j <= l) \/ (~eq_r /\ r <= i)
<1>1. /\ \A k \in L..l : a[k] <= a[l + 1]
      /\ \A k \in r..R : a[l + 1] <= a[k]
      /\ eq_l => InOrderFrom(L, l)
      /\ eq_r => InOrderFrom(r, R)
  BY DEF Inv, Values
<1>2. l + 1 \in Positions /\ i \in Int /\ j \in Int
      /\ \A k \in Positions : a[k] \in Int
  <2>1. l + 1 \in Positions
    BY FinFacts DEF Positions
  <2>2. QED
    BY <2>1, FinFacts, Length
<1>3. CASE j <= l
  BY <1>1, <1>3 DEF InOrderFrom
<1>4. CASE r <= i
  BY <1>1, <1>4 DEF InOrderFrom
<1>5. CASE ~(j <= l) /\ ~(r <= i)
  <2>1. (i \in L..l \/ i = l + 1) /\ (j \in r..R \/ j = l + 1)
    BY <1>2, <1>5, FinFacts
  <2>2. a[i] <= a[l + 1]
    BY <1>1, <1>2, <2>1
  <2>3. a[l + 1] <= a[j]
    BY <1>1, <1>2, <2>1
  <2>4. a[i] \in Int /\ a[j] \in Int /\ a[l + 1] \in Int
    BY <1>2
  <2>5. a[i] <= a[j]
    BY <2>2, <2>3, <2>4
  <2>6. QED
    BY <2>5
<1>6. QED
  BY <1>3, <1>4, <1>5

LEMMA Pushed ==
  ASSUME NEW S, NEW s \in Seq(S), NEW e \in S
  PROVE  /\ Append(s, e) \in Seq(S) /\ Len(Append(s, e)) = Len(s) + 1
         /\ Append(s, e)[Len(s) + 1] = e
         /\ \A k \in 1..Len(s) : Append(s, e)[k] = s[k]
OBVIOUS

\* What fin leaves alone.
LEMMA FinFrame ==
  ASSUME Inv, fin
  PROVE  /\ input' = input /\ ordered' = ordered /\ a' = a
         /\ l' = l /\ r' = r /\ m' = m /\ eq_l' = eq_l /\ eq_r' = eq_r
         /\ chklim' = chklim /\ nel' = nel /\ Positions' = Positions /\ Same'
         /\ at = "fin"
         /\ eq_l /\ eq_r => at' = "nxt"
         /\ ~eq_l \/ ~eq_r => at' = "start"
BY DEF fin, Goto, SidesLeft, call, groups, nel, Positions, Inv, Same

\* Both sides are left: the region is lo..hi now, and the other one is pushed.
LEMMA PushStep ==
  ASSUME Inv, fin, ~eq_l, ~eq_r, NEW lo, NEW hi, NEW lo2, NEW hi2,
         \/ lo = L /\ hi = l /\ lo2 = r /\ hi2 = R
         \/ lo = r /\ hi = R /\ lo2 = L /\ hi2 = l,
         hi - lo <= hi2 - lo2,
         L' = lo, R' = hi, stack' = Append(stack, [LL |-> lo2, RR |-> hi2])
  PROVE  Inv'
<1> DEFINE n == Len(stack)
           e == [LL |-> lo2, RR |-> hi2]
<1>1. /\ lo \in Int /\ hi \in Int /\ lo2 \in Int /\ hi2 \in Int
      /\ lo \in Positions /\ hi \in Positions /\ lo2 \in Positions /\ hi2 \in Positions
      /\ 1 <= lo /\ lo < hi /\ hi <= nel /\ lo2 < hi2
      /\ L <= lo /\ hi <= R /\ L <= lo2 /\ hi2 <= R
      /\ hi < lo2 \/ hi2 < lo
      /\ (hi - lo) + (hi2 - lo2) + 3 = R - L + 1
  <2>1. at = "fin"
    BY FinFrame
  <2>2. /\ nel \in Nat /\ L \in Int /\ R \in Int /\ l \in Int /\ r \in Int
        /\ 1 <= L /\ L < l /\ r = l + 2 /\ r < R /\ R <= nel
        /\ L \in Positions /\ l \in Positions /\ r \in Positions /\ R \in Positions
    BY <2>1, FinFacts
  <2>3. CASE lo = L /\ hi = l /\ lo2 = r /\ hi2 = R
    BY <2>2, <2>3
  <2>4. CASE lo = r /\ hi = R /\ lo2 = L /\ hi2 = l
    BY <2>2, <2>4
  <2>5. QED
    BY <2>3, <2>4
<1>2. stack \in Seq([LL : Positions, RR : Positions]) /\ n \in Nat /\ nel \in Nat
  BY Length DEF Inv, Types
<1>3. e \in [LL : Positions, RR : Positions] /\ e.LL = lo2 /\ e.RR = hi2
  BY <1>1
<1>4. /\ stack' \in Seq([LL : Positions, RR : Positions]) /\ Len(stack') = n + 1
      /\ stack'[n + 1] = e
      /\ \A k \in 1..n : stack'[k] = stack[k]
  BY <1>2, <1>3, Pushed
<1> HIDE DEF e
<1>5. at' = "start" /\ Working'
  BY FinFrame DEF Working
<1>6. \A k \in 1..n : /\ stack[k].LL \in Int /\ stack[k].RR \in Int
                      /\ stack[k].LL < stack[k].RR /\ Apart(L, R, stack[k])
  BY FinFacts, FinFrame, StackEntry, Length DEF Inv, Regions
<1>7. \A k \in 1..n : Apart(lo, hi, stack[k]) /\ Apart(lo2, hi2, stack[k])
                      /\ Apart(stack[k].LL, stack[k].RR, e)
  <2> TAKE k \in 1..n
  <2>1. /\ stack[k].LL \in Int /\ stack[k].RR \in Int /\ stack[k].LL < stack[k].RR
        /\ R < stack[k].LL \/ stack[k].RR < L
    BY <1>6 DEF Apart
  <2>2. L \in Int /\ R \in Int
    BY FinFacts, FinFrame
  <2>3. Apart(lo, hi, stack[k]) /\ Apart(lo2, hi2, stack[k])
    <3>1. /\ lo \in Int /\ hi \in Int /\ lo2 \in Int /\ hi2 \in Int
          /\ L <= lo /\ hi <= R /\ L <= lo2 /\ hi2 <= R
      BY <1>1
    <3>2. CASE R < stack[k].LL
      BY <2>1, <2>2, <3>1, <3>2 DEF Apart
    <3>3. CASE stack[k].RR < L
      BY <2>1, <2>2, <3>1, <3>3 DEF Apart
    <3>4. QED
      BY <2>1, <3>2, <3>3
  <2>4. Apart(stack[k].LL, stack[k].RR, e)
    BY <1>1, <1>3, <2>1, <2>2 DEF Apart
  <2>5. QED
    BY <2>3, <2>4
<1>8. Types'
  BY <1>1, <1>4, <1>5, FinFrame, FinFacts DEF Types, Labels
<1>9. Regions'
  <2>1. \A k \in 1..n + 1 : k \in 1..n \/ k = n + 1
    BY <1>2
  <2>2. \A k \in 1..n + 1 : stack'[k].LL < stack'[k].RR /\ Apart(lo, hi, stack'[k])
    BY <1>1, <1>3, <1>4, <1>6, <1>7, <2>1 DEF Apart
  <2>3. ASSUME NEW k \in 1..n + 1, NEW h \in 1..n + 1, h # k
        PROVE  Apart(stack'[h].LL, stack'[h].RR, stack'[k])
    <3>1. CASE k \in 1..n /\ h \in 1..n
      BY <1>4, <2>3, <3>1 DEF Inv, Regions
    <3>2. CASE k = n + 1 /\ h \in 1..n
      BY <1>4, <1>7, <3>2
    <3>3. CASE k \in 1..n /\ h = n + 1
      BY <1>3, <1>4, <1>7, <3>3
    <3>4. QED
      BY <2>1, <2>3, <3>1, <3>2, <3>3
  <2>4. QED
    BY <1>1, <1>4, <1>5, <2>2, <2>3, FinFrame DEF Regions, Apart
<1>10. Outside'
  <2> SUFFICES ASSUME ordered, NEW i \in Positions, NEW j \in Positions, i < j,
                      ~(lo <= i /\ j <= hi),
                      \A k \in 1..n + 1 : ~(stack'[k].LL <= i /\ j <= stack'[k].RR)
               PROVE  a[i] <= a[j]
    BY <1>4, <1>5, FinFrame DEF Outside, InCurrent, OnStack
  <2>1. ~(lo2 <= i /\ j <= hi2)
    BY <1>2, <1>3, <1>4
  <2>2. \A k \in 1..n : ~(stack[k].LL <= i /\ j <= stack[k].RR)
    BY <1>2, <1>4
  <2>3. CASE L <= i /\ j <= R
    BY <2>1, <2>3, SidesInOrder, FinFacts, FinFrame
  <2>4. CASE ~(L <= i /\ j <= R)
    BY <2>2, <2>4 DEF Inv, Outside, InCurrent, OnStack
  <2>5. QED
    BY <2>3, <2>4
<1>11. Groups' /\ Values'
  BY <1>5 DEF Groups, Values
<1>12. Deep'
  <2> DEFINE t == R - L + 1
             u == hi - lo + 1
             w == hi2 - lo2 + 4
  <2>1. t \in Nat /\ u \in Nat /\ w \in Nat /\ 2 * u <= t /\ w <= t
    <3>1. /\ L \in Int /\ R \in Int /\ l \in Int /\ r \in Int
          /\ L < l /\ r = l + 2 /\ r < R
      BY FinFacts, FinFrame
    <3>2. CASE lo = L /\ hi = l /\ lo2 = r /\ hi2 = R
      BY <3>1, <3>2
    <3>3. CASE lo = r /\ hi = R /\ lo2 = L /\ hi2 = l
      BY <3>1, <3>3
    <3>4. QED
      BY <3>2, <3>3
  <2>2. 2^n \in Nat /\ 2^n * t <= nel
    BY <1>2, Subsets, FinFacts, FinFrame DEF Inv, Deep
  <2> HIDE DEF t, u, w
  <2>3. (2 * 2^n) * u <= nel
    BY <1>2, <2>1, <2>2, Halved
  <2>4. 2^(n + 1) * u <= nel
    BY <1>2, <2>3, Doubles
  <2>5. 2^n * w <= nel
    BY <1>2, <2>1, <2>2, Shorter
  <2>6. \A k \in 1..n + 1 : 2^(k - 1) * (stack'[k].RR - stack'[k].LL + 4) <= nel
    <3>1. \A k \in 1..n : 2^(k - 1) * (stack[k].RR - stack[k].LL + 4) <= nel
      BY DEF Inv, Deep
    <3>2. (n + 1) - 1 = n
      BY <1>2
    <3>3. 2^((n + 1) - 1) * (stack'[n + 1].RR - stack'[n + 1].LL + 4) <= nel
      BY <1>3, <1>4, <2>5, <3>2 DEF w
    <3>4. \A k \in 1..n + 1 : k \in 1..n \/ k = n + 1
      BY <1>2
    <3>5. QED
      BY <1>4, <3>1, <3>3, <3>4
  <2>7. 2^(n + 1) * (R' - L' + 1) <= nel
    BY <2>4 DEF u
  <2>8. QED
    BY <1>4, <2>6, <2>7, FinFrame DEF Deep
<1>13. QED
  BY <1>8, <1>9, <1>10, <1>11, <1>12, FinFrame DEF Inv

\* One side is left, the other one has only equal elements.
LEMMA OneSideStep ==
  ASSUME Inv, fin, NEW lo, NEW hi,
         \/ ~eq_l /\ eq_r /\ lo = L /\ hi = l
         \/ eq_l /\ ~eq_r /\ lo = r /\ hi = R,
         L' = lo, R' = hi, stack' = stack
  PROVE  Inv'
<1>1. at' = "start" /\ Working' /\ at = "fin"
  BY FinFrame DEF Working
<1>2. /\ nel \in Nat /\ L \in Int /\ R \in Int /\ l \in Int /\ r \in Int
      /\ 1 <= L /\ L <= l /\ r = l + 2 /\ r <= R /\ R <= nel /\ L < R
      /\ ~eq_l => L < l
      /\ ~eq_r => r < R
  BY <1>1, FinFacts
<1>3. /\ lo \in Int /\ hi \in Int /\ 1 <= lo /\ lo < hi /\ hi <= nel /\ L <= lo /\ hi <= R
  BY <1>2
<1>4. Types'
  BY <1>1, <1>3, FinFrame, FinFacts DEF Types, Labels
<1>5. Regions'
  <2>1. ASSUME NEW k \in 1..Len(stack) PROVE Apart(lo, hi, stack[k])
    <3>1. Apart(L, R, stack[k])
      BY <1>1, FinFacts DEF Inv, Regions
    <3>2. stack[k].LL \in Int /\ stack[k].RR \in Int
      BY <1>1, FinFacts, StackEntry, Length
    <3>3. QED
      BY <1>2, <1>3, <3>1, <3>2 DEF Apart
  <2>2. QED
    BY <1>1, <1>3, <2>1, FinFrame DEF Inv, Regions, Apart
<1>6. Outside'
  <2> SUFFICES ASSUME ordered, NEW i \in Positions, NEW j \in Positions, i < j,
                      ~(lo <= i /\ j <= hi), ~OnStack(i, j)
               PROVE  a[i] <= a[j]
    BY <1>1, FinFrame DEF Outside, InCurrent, OnStack
  <2>1. CASE L <= i /\ j <= R
    BY <1>1, <2>1, SidesInOrder
  <2>2. CASE ~(L <= i /\ j <= R)
    BY <2>2 DEF Inv, Outside, InCurrent
  <2>3. QED
    BY <2>1, <2>2
<1>7. Groups' /\ Values'
  BY <1>1 DEF Groups, Values
<1>8. Deep'
  <2> DEFINE t == R - L + 1
             u == hi - lo + 1
             n == Len(stack)
  <2>1. t \in Nat /\ u \in Nat /\ u <= t
    BY <1>2, <1>3
  <2>2. n \in Nat
    BY DEF Inv, Types
  <2>3. 2^n \in Nat /\ 2^n * t <= nel
    BY <1>1, <2>2, Subsets, FinFacts DEF Inv, Deep
  <2> HIDE DEF t, u, n
  <2>4. 2^n * u <= nel
    BY <1>2, <2>1, <2>3, Shorter
  <2>5. QED
    BY <2>4, FinFrame DEF u, n, Inv, Deep
<1>9. QED
  BY <1>4, <1>5, <1>6, <1>7, <1>8, FinFrame DEF Inv

LEMMA FinStep ==
  ASSUME Inv, fin
  PROVE  Inv'
<1>1. at = "fin" /\ eq_l \in BOOLEAN /\ eq_r \in BOOLEAN
  BY FinFrame DEF Inv, Types
<1>2. CASE ~eq_l /\ ~eq_r
  <2>1. /\ stack' = Append(stack, IF LeftFirst THEN [LL |-> r, RR |-> R]
                                  ELSE [LL |-> L, RR |-> l])
        /\ IF LeftFirst THEN R' = l /\ UNCHANGED L ELSE L' = r /\ UNCHANGED R
    BY <1>2 DEF fin
  <2>2. CASE LeftFirst
    <3>1. l - L <= R - r
      BY <1>1, <2>2, FinFacts DEF LeftFirst
    <3>2. L' = L /\ R' = l /\ stack' = Append(stack, [LL |-> r, RR |-> R])
      BY <2>1, <2>2
    <3>3. QED
      BY <1>2, <3>1, <3>2, PushStep
  <2>3. CASE ~LeftFirst
    <3>1. R - r <= l - L
      BY <1>1, <2>3, FinFacts DEF LeftFirst
    <3>2. L' = r /\ R' = R /\ stack' = Append(stack, [LL |-> L, RR |-> l])
      BY <2>1, <2>3
    <3>3. QED
      BY <1>2, <3>1, <3>2, PushStep
  <2>4. QED
    BY <2>2, <2>3
<1>3. CASE ~eq_l /\ eq_r
  <2>1. L' = L /\ R' = l /\ stack' = stack
    BY <1>3 DEF fin
  <2>2. QED
    BY <1>3, <2>1, OneSideStep
<1>4. CASE eq_l /\ ~eq_r
  <2>1. L' = r /\ R' = R /\ stack' = stack
    BY <1>4 DEF fin
  <2>2. QED
    BY <1>4, <2>1, OneSideStep
<1>5. CASE eq_l /\ eq_r
  <2>1. L' = L /\ R' = R /\ stack' = stack
    BY <1>5 DEF fin, region
  <2>2. at' = "nxt" /\ a' = a /\ input' = input /\ ordered' = ordered
    BY <1>5, FinFrame
  <2>3. Rearranged(a', L, R)
    BY <1>1, <2>2, FinFacts, KeptIsRearranged
  <2>4. ordered => \A i, j \in Positions : L <= i /\ i < j /\ j <= R => a'[i] <= a'[j]
    <3> SUFFICES ASSUME ordered, NEW i \in Positions, NEW j \in Positions,
                        L <= i, i < j, j <= R
                 PROVE  a[i] <= a[j]
      BY <2>2
    <3>1. QED
      BY <1>1, <1>5, SidesInOrder
  <2>5. /\ a' \in [Positions' -> Int]
        /\ Regions' /\ Outside' /\ Same' /\ Deep'
    BY <1>1, <2>1, <2>2, <2>3, <2>4, FinFacts, RegionSorted DEF call, region
  <2>6. Types'
    BY <1>1, <2>1, <2>2, <2>5, FinFrame, FinFacts DEF Types, Labels
  <2>7. Groups' /\ Values'
    BY <2>2 DEF Groups, Values
  <2>8. QED
    BY <2>5, <2>6, <2>7 DEF Inv
<1>6. QED
  BY <1>1, <1>2, <1>3, <1>4, <1>5

-----------------------------------------------------------------------------
(* The theorem.                                                              *)

LEMMA InvStep == Inv /\ [SortNext]_sortVars => Inv'
<1> SUFFICES ASSUME Inv, [SortNext]_sortVars PROVE Inv'
  OBVIOUS
<1>1. CASE nxt
  BY <1>1, NxtStep
<1>2. CASE start_two
  BY <1>2, StartTwoStep
<1>3. CASE start_median
  BY <1>3, StartMedianStep
<1>4. CASE compare
  BY <1>4, CompareStep
<1>5. CASE equal
  BY <1>5, EqualStep
<1>6. CASE loopA_left
  BY <1>6, LoopALeftStep
<1>7. CASE loopA_right
  BY <1>7, LoopARightStep
<1>8. CASE loopB_right
  BY <1>8, LoopBRightStep
<1>9. CASE loopB_left
  BY <1>9, LoopBLeftStep
<1>10. CASE fin
  BY <1>10, FinStep
<1>11. CASE UNCHANGED sortVars
  <2>1. /\ input' = input /\ ordered' = ordered /\ a' = a /\ L' = L /\ R' = R
        /\ l' = l /\ r' = r /\ m' = m /\ eq_l' = eq_l /\ eq_r' = eq_r
        /\ stack' = stack /\ chklim' = chklim /\ at' = at
    BY <1>11 DEF sortVars, call, region, groups
  <2>2. nel' = nel /\ Positions' = Positions /\ (Working' <=> Working)
    BY <2>1 DEF nel, Positions, Working
  <2>3. Types'
    BY <2>1, <2>2 DEF Inv, Types
  <2>4. Regions' /\ Deep' /\ Same'
    BY <2>1, <2>2 DEF Inv, Regions, Apart, Deep, Same
  <2>5. Outside'
    BY <2>1, <2>2 DEF Inv, Outside, InCurrent, OnStack
  <2>6. Groups'
    BY <2>1 DEF Inv, Groups, LeftTwo, RightTwo
  <2>7. ordered' => Values'
    BY <2>1, <2>2 DEF Inv, Values, InOrderFrom
  <2>8. QED
    BY <2>3, <2>4, <2>5, <2>6, <2>7 DEF Inv
<1>12. QED
  BY <1>1, <1>2, <1>3, <1>4, <1>5, <1>6, <1>7, <1>8, <1>9, <1>10, <1>11 DEF SortNext

\* At nxt and done the regions of the stack tell how deep it is, at every other
\* label the current region does.
LEMMA StackSmall ==
  ASSUME Inv
  PROVE  SortStackBounded
<1> DEFINE n == Len(stack)
<1> SUFFICES ASSUME nel > 1 PROVE 2^(n + 1) <= nel
  BY DEF SortStackBounded
<1>1. n \in Nat /\ nel \in Nat
  BY Length DEF Inv, Types
<1>2. 2^n \in Nat /\ 2^(n + 1) = 2 * 2^n
  BY <1>1, Subsets, Doubles
<1>3. CASE Working
  <2>1. R - L + 1 \in Nat /\ 2 <= R - L + 1 /\ 2^n * (R - L + 1) <= nel
    BY <1>3, Ends DEF Inv, Deep
  <2>2. 2^n * 2 <= nel
    BY <1>1, <1>2, <2>1, Shorter
  <2>3. QED
    BY <1>1, <1>2, <2>2
<1>4. CASE ~Working /\ n # 0
  <2>1. n - 1 \in Nat /\ n \in 1..n /\ n - 1 + 1 = n
    BY <1>1, <1>4
  <2>2. 2^(n - 1) \in Nat /\ 2^n = 2 * 2^(n - 1)
    BY <2>1, Subsets, Doubles
  <2>3. /\ 2^(n - 1) * (stack[n].RR - stack[n].LL + 4) <= nel
        /\ stack[n].RR - stack[n].LL + 4 \in Nat /\ 4 <= stack[n].RR - stack[n].LL + 4
    <3>1. stack[n].RR \in Int /\ stack[n].LL \in Int /\ stack[n].LL < stack[n].RR
      BY <2>1, StackEntry, Length DEF Inv, Regions
    <3>2. QED
      BY <2>1, <3>1 DEF Inv, Deep
  <2>4. 2^(n - 1) * 4 <= nel
    BY <1>1, <2>2, <2>3, Shorter
  <2>5. QED
    BY <1>1, <1>2, <2>2, <2>4
<1>5. CASE n = 0
  <2>1. 2^0 = 1
    OBVIOUS
  <2>2. 2^(n + 1) = 2
    BY <1>2, <1>5, <2>1
  <2>3. QED
    BY <1>1, <2>2
<1>6. QED
  BY <1>3, <1>4, <1>5

LEMMA InvSound == Inv => SortSound
<1> SUFFICES ASSUME Inv PROVE SortSound
  OBVIOUS
<1>1. SortInBounds
  <2>1. CASE Working
    BY <2>1, Ends DEF Inv, Types, Labels, Groups, SortInBounds, Working, Positions
  <2>2. CASE ~Working
    BY <2>2 DEF SortInBounds, Working
  <2>3. QED
    BY <2>1, <2>2
<1>2. SortStackBounded
  BY StackSmall
<1>3. SortedAtEnd
  <2> SUFFICES ASSUME at = "done" PROVE /\ ordered => \A i \in 1..(nel - 1) : a[i] <= a[i + 1]
                                        /\ Same
    BY DEF SortedAtEnd, Same
  <2>1. stack = <<>> /\ ~Working /\ nel \in Nat
    BY Length DEF Inv, Regions, Working
  <2>2. ASSUME ordered, NEW i \in 1..(nel - 1) PROVE a[i] <= a[i + 1]
    <3>1. i \in Positions /\ i + 1 \in Positions /\ i < i + 1
      BY <2>1 DEF Positions
    <3>2. ~InCurrent(i, i + 1) /\ ~OnStack(i, i + 1)
      BY <2>1 DEF InCurrent, OnStack
    <3>3. QED
      BY <2>2, <3>1, <3>2 DEF Inv, Outside
  <2>3. QED
    BY <2>2 DEF Inv
<1>4. QED
  BY <1>1, <1>2, <1>3 DEF SortSound

\* ruby_qsort sorts: when it returns, the elements are those that were given, each
\* as often, in the order of the comparison; and before that, whatever the block
\* answers, it reads and writes nothing outside the array and has never more than
\* log2(nel) - 1 regions on its stack.
THEOREM ArraySorted == SortSpec => []SortSound
<1>1. SortInit => Inv
  BY InitInv
<1>2. Inv /\ [SortNext]_sortVars => Inv'
  BY InvStep
<1>3. Inv => SortSound
  BY InvSound
<1>4. QED
  BY <1>1, <1>2, <1>3, PTL DEF SortSpec

=============================================================================
