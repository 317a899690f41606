---------------------------- MODULE DataPathProofs ----------------------------
(***************************************************************************)
(* What the generated ruleset does with a packet, for any configuration    *)
(* that loads, and any packet: one section decides on it, the same at      *)
(* every hook, and mihomo's connections do not return to mihomo.  And that *)
(* the counters of concurrent commands add up, with one status a layer.    *)
(***************************************************************************)
EXTENDS NetRules, MetricsStore, FiniteSetTheorems, WellFoundedInduction, TLAPS

(* A set of numbers has a least one.                                       *)
LEMMA LeastNatural ==
    ASSUME NEW S, S \subseteq Nat, S # {}
    PROVE  \E n \in S : \A m \in S : n <= m
<1>. DEFINE R == OpToRel(<, Nat)
<1>1. IsWellFoundedOn(R, Nat) BY NatLessThanWellFounded
<1>2. \A x \in Nat : \A y \in Nat : x < y => <<x, y>> \in R BY DEF OpToRel
<1>. HIDE DEF R
<1>3. PICK n \in S : \A m \in S : <<m, n>> \notin R BY <1>1, WFMin
<1>4. ASSUME NEW m \in S PROVE n <= m
  <2>1. m \in Nat /\ n \in Nat /\ ~(m < n) BY <1>2, <1>3
  <2>. QED BY <2>1
<1>. QED BY <1>4

-----------------------------------------------------------------------------
(* Ports                                                                   *)

(* Numbers can be sorted: an induction over their number, by the least     *)
(* one for which they cannot.                                              *)
Sorted(f, n, p) ==
    /\ p \in [1..n -> 1..n] /\ \A k \in 1..n : \E i \in 1..n : p[i] = k
    /\ \A i, j \in 1..n : i < j => f[p[i]] <= f[p[j]]
Unsortable == {n \in Nat : \E f \in [1..n -> Nat] : \A p : ~Sorted(f, n, p)}

(* A number inserted before the first greater one.                         *)
Inserted(n, q, k) == [i \in 1..(n+1) |-> IF i < k THEN q[i] ELSE IF i = k THEN n + 1 ELSE q[i - 1]]

LEMMA InsertedSorted ==
    ASSUME NEW n \in Nat, NEW f \in [1..(n+1) -> Nat], NEW q, Sorted(f, n, q)
    PROVE  \E p : Sorted(f, n + 1, p)
<1>1. \A i \in 1..n : q[i] \in 1..n /\ q[i] \in 1..(n+1)
  <2>1. \A i \in 1..n : q[i] \in 1..n BY DEF Sorted
  <2>. QED BY <2>1
<1>2. n + 1 \in 1..(n+1) /\ f[n+1] \in Nat OBVIOUS
<1>3. \A i \in 1..n : f[q[i]] \in Nat BY <1>1
<1>4. ASSUME NEW i \in 1..n, NEW j \in 1..n, i <= j PROVE f[q[i]] <= f[q[j]]
  <2>1. CASE i = j BY <2>1, <1>3
  <2>2. CASE i < j BY <2>2 DEF Sorted
  <2>. QED BY <2>1, <2>2, <1>4
<1>. DEFINE S == {i \in 1..n : f[q[i]] > f[n+1]} \cup {n+1}
<1>5. S \subseteq Nat /\ n + 1 \in S OBVIOUS
<1>6. PICK k \in S : \A m \in S : k <= m BY <1>5, LeastNatural
<1>7. k \in 1..(n+1) /\ (k # n + 1 => f[n+1] < f[q[k]]) BY <1>2, <1>3
<1>8. \A i \in 1..n : i < k => f[q[i]] <= f[n+1] BY <1>2, <1>3, <1>6, <1>7
<1>9. \A i \in 1..n : k <= i => f[n+1] <= f[q[i]]
  <2>. SUFFICES ASSUME NEW i \in 1..n, k <= i PROVE f[n+1] <= f[q[i]] OBVIOUS
  <2>1. k \in 1..n BY <1>7
  <2>2. f[q[k]] <= f[q[i]] BY <2>1, <1>4
  <2>. QED BY <2>1, <2>2, <1>2, <1>3, <1>7
<1>. HIDE DEF S
<1>. DEFINE p == Inserted(n, q, k)
<1>10. /\ \A m \in 1..(n+1) : m < k => p[m] = q[m] /\ m \in 1..n
       /\ p[k] = n + 1
       /\ \A m \in 1..(n+1) : k < m => p[m] = q[m-1] /\ m - 1 \in 1..n
  BY <1>7 DEF Inserted
<1>11. p \in [1..(n+1) -> 1..(n+1)]
  <2>. HIDE DEF p
  <2>1. ASSUME NEW m \in 1..(n+1) PROVE p[m] \in 1..(n+1)
    <3>1. CASE m < k BY <3>1, <1>1, <1>10
    <3>2. CASE m = k BY <3>2, <1>2, <1>10
    <3>3. CASE k < m BY <3>3, <1>1, <1>10
    <3>. QED BY <3>1, <3>2, <3>3, <1>7
  <2>. QED BY <2>1 DEF p, Inserted
<1>. HIDE DEF p
<1>12. ASSUME NEW m \in 1..(n+1) PROVE \E i \in 1..(n+1) : p[i] = m
  <2>1. CASE m = n + 1 BY <2>1, <1>7, <1>10
  <2>2. CASE m # n + 1
    <3>1. m \in 1..n BY <2>2
    <3>2. PICK i \in 1..n : q[i] = m BY <3>1 DEF Sorted
    <3>3. CASE i < k
      <4>1. i \in 1..(n+1) OBVIOUS
      <4>. QED BY <4>1, <3>2, <3>3, <1>10
    <3>4. CASE ~(i < k)
      <4>1. i + 1 \in 1..(n+1) /\ k < i + 1 /\ (i + 1) - 1 = i BY <3>4, <1>7
      <4>. QED BY <4>1, <3>2, <1>10
    <3>. QED BY <3>3, <3>4
  <2>. QED BY <2>1, <2>2
<1>13. ASSUME NEW i \in 1..(n+1), NEW j \in 1..(n+1), i < j PROVE f[p[i]] <= f[p[j]]
  <2>1. CASE j < k
    <3>1. p[i] = q[i] /\ p[j] = q[j] /\ i \in 1..n /\ j \in 1..n BY <2>1, <1>7, <1>10, <1>13
    <3>. QED BY <3>1, <1>4, <1>13
  <2>2. CASE j = k BY <2>2, <1>8, <1>10, <1>13
  <2>3. CASE i < k /\ k < j
    <3>1. p[i] = q[i] /\ p[j] = q[j-1] /\ i \in 1..n /\ j-1 \in 1..n /\ i <= j-1
      BY <2>3, <1>7, <1>10
    <3>. QED BY <3>1, <1>4
  <2>4. CASE i = k
    <3>1. p[j] = q[j-1] /\ j-1 \in 1..n /\ k <= j-1 BY <2>4, <1>7, <1>10, <1>13
    <3>. QED BY <2>4, <3>1, <1>9, <1>10
  <2>5. CASE k < i
    <3>1. p[i] = q[i-1] /\ p[j] = q[j-1] /\ i-1 \in 1..n /\ j-1 \in 1..n /\ i-1 <= j-1
      BY <2>5, <1>7, <1>10, <1>13
    <3>. QED BY <3>1, <1>4
  <2>. QED BY <2>1, <2>2, <2>3, <2>4, <2>5, <1>7, <1>13
<1>. QED BY <1>11, <1>12, <1>13 DEF Sorted

LEMMA SortingExists ==
    ASSUME NEW n \in Nat, NEW f \in [1..n -> Nat]
    PROVE  \E p : Sorted(f, n, p)
<1>1. ASSUME Unsortable # {} PROVE FALSE
  <2>1. PICK m \in Unsortable : \A k \in Unsortable : m <= k
    BY <1>1, LeastNatural DEF Unsortable
  <2>2. PICK g \in [1..m -> Nat] : \A p : ~Sorted(g, m, p) BY <2>1 DEF Unsortable
  <2>3. m \in Nat BY <2>1 DEF Unsortable
  <2>4. CASE m = 0
    <3>1. Sorted(g, m, [i \in 1..m |-> i]) BY <2>4 DEF Sorted
    <3>. QED BY <2>2, <3>1
  <2>5. CASE m # 0
    <3>1. PICK l \in Nat : m = l + 1
      <4>1. m - 1 \in Nat /\ m = (m - 1) + 1 BY <2>3, <2>5
      <4>. QED BY <4>1
    <3>. DEFINE h == [i \in 1..l |-> g[i]]
    <3>2. l \notin Unsortable BY <2>1, <3>1
    <3>3. h \in [1..l -> Nat]
      <4>1. \A i \in 1..l : i \in 1..m BY <3>1
      <4>. QED BY <4>1
    <3>4. PICK q : Sorted(h, l, q) BY <3>2, <3>3 DEF Unsortable
    <3>5. Sorted(g, l, q) BY <3>4 DEF Sorted
    <3>. QED BY <2>2, <3>1, <3>5, InsertedSorted
  <2>. QED BY <2>4, <2>5
<1>. QED BY <1>1 DEF Unsortable

LEMMA SortingIs ==
    ASSUME NEW l, PortList(l)
    PROVE  /\ Len(l) \in Nat /\ DOMAIN l = 1..Len(l)
           /\ \A i \in 1..Len(l) : l[i] \in Nat \X Nat /\ l[i][1] <= l[i][2]
           /\ Sorting(l) \in [1..Len(l) -> 1..Len(l)]
           /\ \A k \in 1..Len(l) : \E i \in 1..Len(l) : Sorting(l)[i] = k
           /\ \A i, j \in 1..Len(l) : i < j => l[Sorting(l)[i]][1] <= l[Sorting(l)[j]][1]
<1>1. l \in Seq(Nat \X Nat) /\ \A i \in DOMAIN l : l[i][1] <= l[i][2] BY DEF PortList
<1>2. Len(l) \in Nat /\ DOMAIN l = 1..Len(l) /\ \A i \in 1..Len(l) : l[i] \in Nat \X Nat BY <1>1
<1>. DEFINE n == Len(l)
            f == [i \in 1..n |-> l[i][1]]
<1>. HIDE DEF n
<1>3. n \in Nat /\ DOMAIN l = 1..n /\ \A i \in 1..n : l[i] \in Nat \X Nat /\ l[i][1] \in Nat
  BY <1>2 DEF n
<1>4. f \in [1..n -> Nat] BY <1>3
<1>5. PICK p : Sorted(f, n, p) BY <1>3, <1>4, SortingExists
<1>6. \E q \in [DOMAIN l -> DOMAIN l] :
        /\ \A k \in DOMAIN l : \E i \in DOMAIN l : q[i] = k
        /\ \A i, j \in DOMAIN l : i < j => l[q[i]][1] <= l[q[j]][1]
  <2>1. p \in [1..n -> 1..n] /\ \A k \in 1..n : \E i \in 1..n : p[i] = k BY <1>5 DEF Sorted
  <2>2. ASSUME NEW i \in 1..n, NEW j \in 1..n, i < j PROVE l[p[i]][1] <= l[p[j]][1]
    <3>1. f[p[i]] <= f[p[j]] BY <1>5, <2>2 DEF Sorted
    <3>2. p[i] \in 1..n /\ p[j] \in 1..n BY <2>1
    <3>. QED BY <3>1, <3>2
  <2>. HIDE DEF f
  <2>3. p \in [DOMAIN l -> DOMAIN l] BY <1>3, <2>1
  <2>. WITNESS p \in [DOMAIN l -> DOMAIN l]
  <2>. QED BY <1>3, <2>1, <2>2
<1>7. /\ Sorting(l) \in [DOMAIN l -> DOMAIN l]
      /\ \A k \in DOMAIN l : \E i \in DOMAIN l : Sorting(l)[i] = k
      /\ \A i, j \in DOMAIN l : i < j => l[Sorting(l)[i]][1] <= l[Sorting(l)[j]][1]
  BY <1>6 DEF Sorting
<1>. QED BY <1>1, <1>3, <1>7 DEF n

(* The merging is a recursion that has a value: by the least number of     *)
(* ranges for which it had none.                                           *)
MergedBy(l, order, n, f) ==
    f = [i \in 1..n |-> IF i = 1 THEN [closed |-> {}, open |-> l[order[1]]]
                        ELSE MergeRange(f[i - 1], l[order[i]])]
Unmergeable(l, order) == {n \in Nat : \A f : ~MergedBy(l, order, n, f)}

LEMMA MergingExists ==
    ASSUME NEW l, NEW order, NEW n \in Nat
    PROVE  \E f : MergedBy(l, order, n, f)
<1>1. ASSUME Unmergeable(l, order) # {} PROVE FALSE
  <2>1. PICK m \in Unmergeable(l, order) : \A k \in Unmergeable(l, order) : m <= k
    BY <1>1, LeastNatural DEF Unmergeable
  <2>2. m \in Nat /\ \A f : ~MergedBy(l, order, m, f) BY <2>1 DEF Unmergeable
  <2>3. CASE m = 0
    <3>1. MergedBy(l, order, m, [i \in 1..m |-> i]) BY <2>3 DEF MergedBy
    <3>. QED BY <2>2, <3>1
  <2>4. CASE m # 0
    <3>1. PICK k \in Nat : m = k + 1
      <4>1. m - 1 \in Nat /\ m = (m - 1) + 1 BY <2>2, <2>4
      <4>. QED BY <4>1
    <3>2. k \notin Unmergeable(l, order) BY <2>1, <3>1
    <3>3. PICK f : MergedBy(l, order, k, f) BY <3>2 DEF Unmergeable
    <3>. DEFINE Next(i, g) == IF i = 1 THEN [closed |-> {}, open |-> l[order[1]]]
                              ELSE MergeRange(g[i - 1], l[order[i]])
                g == [i \in 1..m |-> IF i = m THEN Next(i, f) ELSE f[i]]
    <3>. HIDE DEF Next
    <3>4. f = [i \in 1..k |-> Next(i, f)] BY <3>3 DEF MergedBy, Next
    <3>5. \A i \in 1..m : Next(i, g) = Next(i, f)
      <4>. SUFFICES ASSUME NEW i \in 1..m PROVE Next(i, g) = Next(i, f) OBVIOUS
      <4>1. CASE i = 1 BY <4>1 DEF Next
      <4>2. CASE i # 1
        <5>1. i - 1 \in 1..m /\ i - 1 # m BY <4>2, <2>2
        <5>2. g[i - 1] = f[i - 1] BY <5>1
        <5>. QED BY <4>2, <5>2 DEF Next
      <4>. QED BY <4>1, <4>2
    <3>6. \A i \in 1..m : g[i] = Next(i, f)
      <4>. SUFFICES ASSUME NEW i \in 1..m, i # m PROVE f[i] = Next(i, f) OBVIOUS
      <4>1. i \in 1..k BY <3>1
      <4>. QED BY <3>4, <4>1
    <3>7. g = [i \in 1..m |-> Next(i, g)] BY <3>5, <3>6
    <3>8. MergedBy(l, order, m, g) BY <3>7 DEF MergedBy, Next
    <3>. QED BY <2>2, <3>8
  <2>. QED BY <2>3, <2>4
<1>. QED BY <1>1 DEF Unmergeable

LEMMA MergingIs ==
    ASSUME NEW l, NEW order, Len(l) \in Nat, DOMAIN l = 1..Len(l)
    PROVE  \E f : MergedBy(l, order, Len(l), f) /\ MergedRanges(l, order) = f[Len(l)]
<1>1. \E f : MergedBy(l, order, Len(l), f) BY MergingExists
<1>. QED BY <1>1 DEF MergedBy, MergedRanges

(* Merging keeps what is covered, as long as the ranges come sorted.       *)
ProperRanges == {r \in Nat \X Nat : r[1] <= r[2]}
Mergeable == [closed : SUBSET ProperRanges, open : ProperRanges]
Covered(ranges, x) == \E r \in ranges : x \in r[1]..r[2]
Ranges(m) == m.closed \cup {m.open}

LEMMA MergeKeeps ==
    ASSUME NEW m \in Mergeable, NEW r \in ProperRanges, m.open[1] <= r[1]
    PROVE  /\ MergeRange(m, r) \in Mergeable /\ MergeRange(m, r).open[1] <= r[1]
           /\ \A x \in Nat : Covered(Ranges(MergeRange(m, r)), x) <=>
                               Covered(Ranges(m), x) \/ x \in r[1]..r[2]
<1>. DEFINE o == m.open
            e == IF r[2] > o[2] THEN r[2] ELSE o[2]
            w == <<o[1], e>>
<1>1. /\ o \in Nat \X Nat /\ o[1] \in Nat /\ o[2] \in Nat /\ o[1] <= o[2]
      /\ r \in Nat \X Nat /\ r[1] \in Nat /\ r[2] \in Nat /\ r[1] <= r[2] /\ o[1] <= r[1]
      /\ m.closed \in SUBSET ProperRanges
  BY DEF Mergeable, ProperRanges
<1>2. CASE r[1] <= o[2] + 1
  <2>1. MergeRange(m, r) = [m EXCEPT !.open = w] BY <1>2 DEF MergeRange
  <2>2. e \in Nat /\ o[1] <= e /\ w[1] = o[1] /\ w[2] = e BY <1>1
  <2>3. w \in ProperRanges BY <1>1, <2>2 DEF ProperRanges
  <2>4. \A x \in Nat : x \in w[1]..w[2] <=> x \in o[1]..o[2] \/ x \in r[1]..r[2]
    BY <1>1, <1>2, <2>2
  <2>. HIDE DEF w, e
  <2>5. /\ MergeRange(m, r) \in Mergeable
        /\ MergeRange(m, r).open = w /\ MergeRange(m, r).closed = m.closed
    BY <2>1, <2>3 DEF Mergeable
  <2>. QED BY <2>5, <2>2, <2>4, <1>1 DEF Covered, Ranges
<1>3. CASE ~(r[1] <= o[2] + 1)
  <2>1. MergeRange(m, r) = [closed |-> m.closed \cup {o}, open |-> r] BY <1>3 DEF MergeRange
  <2>2. o \in ProperRanges BY DEF Mergeable
  <2>3. MergeRange(m, r) \in Mergeable BY <2>1, <2>2, <1>1 DEF Mergeable
  <2>. QED BY <2>1, <2>3, <1>1 DEF Covered, Ranges
<1>. QED BY <1>2, <1>3

(* After i ranges: what the first i of them cover.                         *)
MergedTo(l, order, f, i) ==
    /\ f[i] \in Mergeable /\ f[i].open[1] <= l[order[i]][1]
    /\ \A x \in Nat : Covered(Ranges(f[i]), x) <=>
                        \E j \in 1..i : x \in l[order[j]][1]..l[order[j]][2]
Unmerged(l, order, f) == {i \in 1..Len(l) : ~MergedTo(l, order, f, i)}

LEMMA MergingKeeps ==
    ASSUME NEW l, PortList(l), NEW f, MergedBy(l, Sorting(l), Len(l), f),
           NEW i \in 1..Len(l)
    PROVE  MergedTo(l, Sorting(l), f, i)
<1>. DEFINE n == Len(l)
            p == Sorting(l)
<1>1. /\ n \in Nat /\ p \in [1..n -> 1..n]
      /\ \A k \in 1..n : l[k] \in Nat \X Nat /\ l[k][1] <= l[k][2]
      /\ \A k, j \in 1..n : k < j => l[p[k]][1] <= l[p[j]][1]
  BY SortingIs
<1>2. \A k \in 1..n : l[p[k]] \in ProperRanges BY <1>1 DEF ProperRanges
<1>3. /\ 1 \in 1..n => f[1] = [closed |-> {}, open |-> l[p[1]]]
      /\ \A k \in 1..n : k # 1 => f[k] = MergeRange(f[k-1], l[p[k]])
  BY <1>1 DEF MergedBy
<1>. HIDE DEF n, p
<1>4. ASSUME Unmerged(l, p, f) # {} PROVE FALSE
  <2>1. Unmerged(l, p, f) \subseteq Nat BY <1>1 DEF Unmerged, n
  <2>2. PICK m \in Unmerged(l, p, f) : \A k \in Unmerged(l, p, f) : m <= k
    BY <1>4, <2>1, LeastNatural
  <2>3. m \in 1..n /\ ~MergedTo(l, p, f, m) BY <2>2 DEF Unmerged, n
  <2>4. CASE m = 1
    <3>1. f[1] = [closed |-> {}, open |-> l[p[1]]] /\ l[p[1]] \in ProperRanges
      BY <1>2, <1>3, <2>3, <2>4
    <3>2. l[p[1]][1] \in Nat BY <3>1 DEF ProperRanges
    <3>3. f[1] \in Mergeable /\ f[1].open = l[p[1]] /\ Ranges(f[1]) = {l[p[1]]}
      BY <3>1 DEF Mergeable, Ranges
    <3>4. f[1].open[1] <= l[p[1]][1] BY <3>2, <3>3
    <3>5. \A j \in 1..1 : j = 1 OBVIOUS
    <3>. QED BY <2>3, <2>4, <3>3, <3>4, <3>5 DEF MergedTo, Covered
  <2>5. CASE m # 1
    <3>1. PICK k \in 1..n : m = k + 1
      <4>1. m - 1 \in 1..n /\ m = (m - 1) + 1 BY <1>1, <2>3, <2>5
      <4>. QED BY <4>1
    <3>2. k \notin Unmerged(l, p, f) BY <2>1, <2>2, <3>1
    <3>3. MergedTo(l, p, f, k) BY <3>1, <3>2 DEF Unmerged, n
    <3>4. f[m] = MergeRange(f[k], l[p[m]]) /\ l[p[m]] \in ProperRanges
      <4>1. m - 1 = k BY <3>1
      <4>. QED BY <1>2, <1>3, <2>3, <2>5, <4>1
    <3>5. f[k] \in Mergeable /\ f[k].open[1] <= l[p[m]][1]
      <4>1. l[p[k]][1] <= l[p[m]][1]
        <5>1. k \in 1..n /\ m \in 1..n /\ k < m BY <1>1, <2>3, <3>1
        <5>2. \A i1, i2 \in 1..n : i1 < i2 => l[p[i1]][1] <= l[p[i2]][1] BY <1>1
        <5>. QED BY <5>1, <5>2
      <4>2. f[k] \in Mergeable /\ f[k].open[1] <= l[p[k]][1] BY <3>3 DEF MergedTo
      <4>3. f[k].open[1] \in Nat /\ l[p[k]][1] \in Nat /\ l[p[m]][1] \in Nat
        BY <4>2, <3>1, <2>3, <1>2 DEF Mergeable, ProperRanges
      <4>. QED BY <4>1, <4>2, <4>3
    <3>6. /\ f[m] \in Mergeable /\ f[m].open[1] <= l[p[m]][1]
          /\ \A x \in Nat : Covered(Ranges(f[m]), x) <=>
                              Covered(Ranges(f[k]), x) \/ x \in l[p[m]][1]..l[p[m]][2]
      BY <3>4, <3>5, MergeKeeps
    <3>7. \A j : j \in 1..m <=> j \in 1..k \/ j = m BY <3>1, <2>3
    <3>8. \A x \in Nat : Covered(Ranges(f[k]), x) <=>
                           \E j \in 1..k : x \in l[p[j]][1]..l[p[j]][2]
      BY <3>3 DEF MergedTo
    <3>9. \A x \in Nat : Covered(Ranges(f[m]), x) <=>
                           \E j \in 1..m : x \in l[p[j]][1]..l[p[j]][2]
      BY <3>6, <3>7, <3>8
    <3>. QED BY <2>3, <3>6, <3>9 DEF MergedTo
  <2>. QED BY <2>4, <2>5
<1>. QED BY <1>4 DEF Unmerged, p

(* The merged ranges hold a port when the list does.                       *)
LEMMA PortsKept ==
    ASSUME NEW l, PortList(l), NEW p, p.port \in Nat
    PROVE  /\ InPorts(p, PortRanges(l)) <=> Raw(p, l)
           /\ PortRanges(l) \subseteq ProperRanges
           /\ PortRanges(l) = {} <=> l = <<>>
<1>1. CASE l = <<>> BY <1>1 DEF PortRanges, InPorts, Raw
<1>2. CASE l # <<>>
  <2>. DEFINE n == Len(l)
              q == Sorting(l)
  <2>1. /\ n \in Nat /\ DOMAIN l = 1..n /\ q \in [1..n -> 1..n]
        /\ \A k \in 1..n : \E i \in 1..n : q[i] = k
    BY SortingIs
  <2>2. n \in 1..n
    <3>1. l \in Seq(Nat \X Nat) BY DEF PortList
    <3>2. n # 0 BY <1>2, <3>1
    <3>. QED BY <2>1, <3>2
  <2>3. PICK f : MergedBy(l, q, n, f) /\ MergedRanges(l, q) = f[n] BY <2>1, MergingIs
  <2>4. MergedTo(l, q, f, n) BY <2>2, <2>3, MergingKeeps
  <2>5. PortRanges(l) = Ranges(f[n]) BY <1>2, <2>3 DEF PortRanges, Ranges
  <2>6. Ranges(f[n]) \subseteq ProperRanges /\ Ranges(f[n]) # {}
    BY <2>4 DEF MergedTo, Mergeable, Ranges
  <2>7. Covered(Ranges(f[n]), p.port) <=> \E j \in 1..n : p.port \in l[q[j]][1]..l[q[j]][2]
    BY <2>4 DEF MergedTo
  <2>. HIDE DEF n, q
  <2>8. (\E j \in 1..n : p.port \in l[q[j]][1]..l[q[j]][2])
        <=> \E k \in 1..n : p.port \in l[k][1]..l[k][2]
    BY <2>1
  <2>. QED BY <1>2, <2>1, <2>5, <2>6, <2>7, <2>8 DEF InPorts, Raw, Covered
<1>. QED BY <1>1, <1>2

(* Intersecting keeps the ports that are in both.                          *)
LEMMA IntersectKept ==
    ASSUME NEW a \in SUBSET ProperRanges, NEW b \in SUBSET ProperRanges, NEW p, p.port \in Nat
    PROVE  Intersect(a, b).ok /\ InPorts(p, Intersect(a, b).ports)
             <=> InPorts(p, a) /\ InPorts(p, b)
<1>1. CASE a = {} BY <1>1 DEF Intersect, InPorts
<1>2. CASE a # {} /\ b = {} BY <1>2 DEF Intersect, InPorts
<1>3. CASE a # {} /\ b # {}
  <2>1. /\ Intersect(a, b).ports = Overlapping(a, b)
        /\ Intersect(a, b).ok <=> Overlapping(a, b) # {}
    BY <1>3 DEF Intersect
  <2>2. ASSUME NEW r \in a, NEW s \in b
        PROVE  /\ p.port \in Meeting(r, s)[1]..Meeting(r, s)[2]
                    <=> p.port \in r[1]..r[2] /\ p.port \in s[1]..s[2]
               /\ p.port \in Meeting(r, s)[1]..Meeting(r, s)[2]
                    => Meeting(r, s)[1] <= Meeting(r, s)[2]
    <3>1. r[1] \in Nat /\ r[2] \in Nat /\ s[1] \in Nat /\ s[2] \in Nat BY DEF ProperRanges
    <3>. QED BY <3>1 DEF Meeting
  <2>3. ASSUME NEW m \in Overlapping(a, b), p.port \in m[1]..m[2]
        PROVE  InPorts(p, a) /\ InPorts(p, b)
    <3>1. PICK r \in a, s \in b : m = Meeting(r, s) BY DEF Overlapping
    <3>. QED BY <3>1, <2>2, <2>3 DEF InPorts
  <2>4. ASSUME InPorts(p, a), InPorts(p, b)
        PROVE  \E m \in Overlapping(a, b) : p.port \in m[1]..m[2]
    <3>1. PICK r \in a : p.port \in r[1]..r[2] BY <1>3, <2>4 DEF InPorts
    <3>2. PICK s \in b : p.port \in s[1]..s[2] BY <1>3, <2>4 DEF InPorts
    <3>3. Meeting(r, s) \in Overlapping(a, b) BY <3>1, <3>2, <2>2 DEF Overlapping
    <3>. QED BY <3>1, <3>2, <3>3, <2>2
  <2>. QED BY <2>1, <2>3, <2>4 DEF InPorts
<1>. QED BY <1>1, <1>2, <1>3

-----------------------------------------------------------------------------
(* Chains                                                                  *)

(* The first rule that applies, in a chain of so many.                     *)
LEMMA FirstIs ==
    ASSUME NEW rules, DOMAIN rules \subseteq Nat
    PROVE  /\ (\A i \in DOMAIN rules : ~rules[i].cond) => First(rules) = Silent
           /\ \A i \in DOMAIN rules :
                rules[i].cond /\ (\A j \in DOMAIN rules : j < i => ~rules[j].cond)
                  => First(rules) = rules[i]
<1>. DEFINE hits == {i \in DOMAIN rules : rules[i].cond}
<1>1. CASE hits = {} BY <1>1 DEF First
<1>2. CASE hits # {}
  <2>1. First(rules) = rules[CHOOSE i \in hits : \A j \in hits : i <= j] BY <1>2 DEF First
  <2>2. ASSUME NEW i \in DOMAIN rules, rules[i].cond,
               \A j \in DOMAIN rules : j < i => ~rules[j].cond
        PROVE  First(rules) = rules[i]
    <3>1. i \in hits /\ \A j \in hits : i <= j BY <2>2
    <3>2. \A k \in hits : (\A j \in hits : k <= j) => k = i BY <3>1
    <3>3. (CHOOSE k \in hits : \A j \in hits : k <= j) = i BY <3>1, <3>2
    <3>. QED BY <2>1, <3>3
  <2>. QED BY <1>2, <2>2
<1>. QED BY <1>1, <1>2

(* Unless none does, one of them does.                                     *)
LEMMA FirstIn ==
    ASSUME NEW rules, DOMAIN rules \subseteq Nat
    PROVE  \/ First(rules) = Silent /\ \A i \in DOMAIN rules : ~rules[i].cond
           \/ \E i \in DOMAIN rules :
                /\ First(rules) = rules[i] /\ rules[i].cond
                /\ \A j \in DOMAIN rules : j < i => ~rules[j].cond
<1>. DEFINE hits == {i \in DOMAIN rules : rules[i].cond}
<1>1. CASE hits = {} BY <1>1, FirstIs
<1>2. CASE hits # {}
  <2>1. PICK i \in hits : \A j \in hits : i <= j BY <1>2, LeastNatural
  <2>2. \A j \in DOMAIN rules : j < i => ~rules[j].cond BY <2>1
  <2>. QED BY <2>1, <2>2, FirstIs
<1>. QED BY <1>1, <1>2

(* What a configuration's sections and strategies are.                     *)
LEMMA ConfigFacts ==
    ASSUME NEW c \in Configs
    PROVE  /\ Len(c.sections) \in Nat /\ DOMAIN c.sections = 1..Len(c.sections)
           /\ \A i \in DOMAIN c.sections :
                /\ c.sections[i].name # Unset
                /\ \A j \in DOMAIN c.sections : c.sections[j].name = c.sections[i].name => i = j
                /\ c.sections[i].action \in {"proxy", "direct", "reject", "zapret"}
                /\ c.sections[i].priority \in Int /\ PortList(c.sections[i].ports)
                /\ DOMAIN c.sections[i].strategies \subseteq Nat
                /\ \A k \in DOMAIN c.sections[i].strategies :
                     /\ c.sections[i].strategies[k] \in DOMAIN c.strategies
                     /\ PortList(c.strategies[c.sections[i].strategies[k]].tcp)
                     /\ PortList(c.strategies[c.sections[i].strategies[k]].udp)
<1>1. /\ c.sections \in Seq({c.sections[i] : i \in DOMAIN c.sections})
      /\ \A i \in DOMAIN c.sections :
           /\ c.sections[i].name # Unset
           /\ \A j \in DOMAIN c.sections : c.sections[j].name = c.sections[i].name => i = j
           /\ c.sections[i].action \in {"proxy", "direct", "reject", "zapret"}
           /\ c.sections[i].priority \in Int /\ PortList(c.sections[i].ports)
           /\ c.sections[i].strategies \in Seq(DOMAIN c.strategies)
      /\ \A z \in DOMAIN c.strategies :
           PortList(c.strategies[z].tcp) /\ PortList(c.strategies[z].udp)
  BY NetAssumption DEF NetAssumption, ConfigAssumption
<1>2. \A i \in DOMAIN c.sections :
        /\ DOMAIN c.sections[i].strategies \subseteq Nat
        /\ \A k \in DOMAIN c.sections[i].strategies :
             c.sections[i].strategies[k] \in DOMAIN c.strategies
  BY <1>1
<1>. QED BY <1>1, <1>2

(* Of some sections one comes before all the others.                       *)
Foremost(c, S, i) == i \in S /\ \A j \in S \ {i} : Ahead(c, i, j)
Unled(c) == {n \in Nat : \E S \in SUBSET (DOMAIN c.sections \cap 1..n) :
                           S # {} /\ \A i \in S : ~Foremost(c, S, i)}

LEMMA SomeoneIsForemost ==
    ASSUME NEW c \in Configs, NEW S \in SUBSET (DOMAIN c.sections), S # {}
    PROVE  \E i \in S : Foremost(c, S, i)
<1>1. /\ Len(c.sections) \in Nat /\ DOMAIN c.sections = 1..Len(c.sections)
      /\ \A i \in DOMAIN c.sections : c.sections[i].priority \in Int
  BY ConfigFacts
<1>2. ASSUME Unled(c) # {} PROVE FALSE
  <2>1. PICK n \in Unled(c) : \A k \in Unled(c) : n <= k BY <1>2, LeastNatural DEF Unled
  <2>2. PICK T \in SUBSET (DOMAIN c.sections \cap 1..n) : T # {} /\ \A i \in T : ~Foremost(c, T, i)
    BY <2>1 DEF Unled
  <2>3. n \in Nat /\ n # 0 BY <2>1, <2>2 DEF Unled
  <2>4. PICK k \in Nat : n = k + 1
    <3>1. n - 1 \in Nat /\ n = (n - 1) + 1 BY <2>3
    <3>. QED BY <3>1
  <2>5. k \notin Unled(c) BY <2>1, <2>4
  <2>. DEFINE U == T \ {n}
  <2>6. U \in SUBSET (DOMAIN c.sections \cap 1..k) BY <2>2, <2>4
  <2>7. n \in T
    <3>1. CASE n \notin T
      <4>1. T \in SUBSET (DOMAIN c.sections \cap 1..k) BY <2>6, <3>1
      <4>. QED BY <4>1, <2>2, <2>4, <2>5 DEF Unled
    <3>. QED BY <3>1
  <2>8. U # {}
    <3>1. CASE U = {} BY <3>1, <2>2, <2>7 DEF Foremost
    <3>. QED BY <3>1
  <2>9. PICK i \in U : Foremost(c, U, i) BY <2>4, <2>5, <2>6, <2>8 DEF Unled
  <2>10. i \in DOMAIN c.sections /\ i < n BY <2>6, <2>4
  <2>11. CASE Ahead(c, i, n) BY <2>11, <2>9, <2>2 DEF Foremost
  <2>12. CASE ~Ahead(c, i, n)
    <3>1. \A j \in DOMAIN c.sections : j = i \/ Ahead(c, i, j) => Ahead(c, n, j)
      BY <1>1, <2>2, <2>7, <2>10, <2>12 DEF Ahead
    <3>2. Foremost(c, T, n) BY <3>1, <2>2, <2>7, <2>9 DEF Foremost
    <3>. QED BY <3>2, <2>2, <2>7
  <2>. QED BY <2>11, <2>12
<1>3. Len(c.sections) \notin Unled(c) BY <1>2
<1>. QED BY <1>1, <1>3 DEF Unled

(* A pass over the sections: nothing, or what its foremost section says.   *)
Hit(c, said, i) == i \in DOMAIN c.sections /\ c.sections[i].enabled /\ said[i].cond

LEMMA PassIs ==
    ASSUME NEW c \in Configs, NEW said
    PROVE  \/ SectionPass(c, said) = Silent /\ \A i : ~Hit(c, said, i)
           \/ \E i \in DOMAIN c.sections :
                /\ SectionPass(c, said) = said[i] /\ Hit(c, said, i)
                /\ \A j : Hit(c, said, j) => j = i \/ Ahead(c, i, j)
<1>. DEFINE hits == {i \in DOMAIN c.sections : c.sections[i].enabled /\ said[i].cond}
<1>1. CASE hits = {} BY <1>1 DEF SectionPass, Hit
<1>2. CASE hits # {}
  <2>1. \E i \in hits : \A j \in hits \ {i} : Ahead(c, i, j)
    BY <1>2, SomeoneIsForemost DEF Foremost
  <2>. DEFINE i == CHOOSE k \in hits : \A j \in hits \ {k} : Ahead(c, k, j)
  <2>2. i \in hits /\ \A j \in hits \ {i} : Ahead(c, i, j) BY <2>1
  <2>3. SectionPass(c, said) = said[i] BY <1>2 DEF SectionPass
  <2>. HIDE DEF i
  <2>. QED BY <2>2, <2>3 DEF Hit
<1>. QED BY <1>1, <1>2

-----------------------------------------------------------------------------
(* Sections                                                                *)

(* What a proxy section marks, in terms of its own options.                *)
LEMMA ProxyTakesIs ==
    ASSUME packet \in Packets, conf \in Configs, NEW i \in DOMAIN conf.sections,
           conf.sections[i].action = "proxy"
    PROVE  ProxyTakes(conf.sections[i], packet) <=> MarksIt(conf.sections[i])
<1>. DEFINE s == conf.sections[i]
<1>1. packet.port \in Nat BY NetAssumption DEF NetAssumption, PacketAssumption
<1>2. PortList(s.ports) BY ConfigFacts
<1>3. InPorts(packet, PortRanges(s.ports)) <=> Raw(packet, s.ports) BY <1>1, <1>2, PortsKept
<1>. QED BY <1>3 DEF ProxyTakes, MarksIt, MatchesProtocol

(* What a Zapret section's strategies claim, in terms of its options and   *)
(* theirs.                                                                 *)
LEMMA ClaimsIs ==
    ASSUME packet \in Packets, conf \in Configs, NEW i \in DOMAIN conf.sections,
           conf.sections[i].action = "zapret"
    PROVE  Claims(conf, conf.sections[i], packet) <=> ZapretTakes(conf.sections[i])
<1>. DEFINE s == conf.sections[i]
            z(k) == conf.strategies[s.strategies[k]]
<1>1. packet.port \in Nat BY NetAssumption DEF NetAssumption, PacketAssumption
<1>2. PortList(s.ports) BY ConfigFacts
<1>3. \A k \in DOMAIN s.strategies : PortList(z(k).tcp) /\ PortList(z(k).udp) BY ConfigFacts
<1>4. ASSUME NEW k \in DOMAIN s.strategies
      PROVE  StrategyTakes(ScopedStrategy(conf, s, k), packet) <=>
               /\ s.match = "any" \/ s.match = (IF packet.udp THEN "udp" ELSE "tcp")
               /\ Raw(packet, s.ports)
               /\ IF packet.udp THEN z(k).onUdp /\ Raw(packet, z(k).udp)
                                ELSE z(k).onTcp /\ Raw(packet, z(k).tcp)
  <2>. DEFINE tcp == Intersect(PortRanges(z(k).tcp), PortRanges(s.ports))
              udp == Intersect(PortRanges(z(k).udp), PortRanges(s.ports))
  <2>1. tcp.ok /\ InPorts(packet, tcp.ports) <=> Raw(packet, z(k).tcp) /\ Raw(packet, s.ports)
    BY <1>1, <1>2, <1>3, PortsKept, IntersectKept
  <2>2. udp.ok /\ InPorts(packet, udp.ports) <=> Raw(packet, z(k).udp) /\ Raw(packet, s.ports)
    BY <1>1, <1>2, <1>3, PortsKept, IntersectKept
  <2>3. StrategyTakes(ScopedStrategy(conf, s, k), packet) <=>
          IF packet.udp THEN /\ z(k).onUdp /\ MatchesProtocol(s, TRUE) /\ udp.ok
                             /\ InPorts(packet, udp.ports)
                        ELSE /\ z(k).onTcp /\ MatchesProtocol(s, FALSE) /\ tcp.ok
                             /\ InPorts(packet, tcp.ports)
    BY DEF StrategyTakes, ScopedStrategy, Scoped
  <2>. HIDE DEF tcp, udp
  <2>. QED BY <2>1, <2>2, <2>3 DEF MatchesProtocol
<1>. QED BY <1>4 DEF Claims, ZapretTakes

(* A destination's rule applies when the section holds the destination and *)
(* takes the packet; what it says is the section's kind.                   *)
DestinationSaid(c, p, output) ==
    [i \in DOMAIN c.sections |-> DestinationRule(c, c.sections[i], p, output)]

DestinationSays(c, s, p, output, d) ==
    /\ d.cond => d.to = s.name /\ Holds(c, p, NFTSet(s))
    /\ s.action = "reject" => (d.cond <=> Holds(c, p, NFTSet(s))) /\ d.verdict = "reject"
    /\ s.action = "direct" => (d.cond <=> Holds(c, p, NFTSet(s))) /\ d.verdict = "return"
    /\ s.action = "zapret" =>
         (d.cond <=> Holds(c, p, s.name) /\ Claims(c, s, p)) /\ d.verdict = "return"
    /\ s.action = "proxy" /\ output =>
         (d.cond <=> Holds(c, p, s.name) /\ ProxyTakes(s, p)) /\ d.verdict = "mark"
    /\ s.action = "proxy" /\ ~output =>
         /\ d.cond <=> Holds(c, p, s.name) /\ (BlocksQUIC(s, p) \/ ProxyTakes(s, p))
         /\ d.cond => d.verdict = IF BlocksQUIC(s, p) THEN "reject" ELSE "tproxy"

LEMMA DestinationRuleIs ==
    ASSUME NEW c, NEW p, NEW s, NEW output \in BOOLEAN,
           s.action \in {"proxy", "direct", "reject", "zapret"}
    PROVE  DestinationSays(c, s, p, output, DestinationRule(c, s, p, output))
<1>. DEFINE d == DestinationRule(c, s, p, output)
            held == Holds(c, p, NFTSet(s))
<1>. SUFFICES DestinationSays(c, s, p, output, d) OBVIOUS
<1>. HIDE DEF held
<1>1. CASE s.action = "reject"
  <2>1. d = To(held, "reject", s) BY <1>1 DEF DestinationRule, held
  <2>. QED BY <1>1, <2>1 DEF To, held, DestinationSays
<1>2. CASE s.action = "direct"
  <2>1. d = To(held, "return", s) BY <1>2 DEF DestinationRule, held
  <2>. QED BY <1>2, <2>1 DEF To, held, DestinationSays
<1>3. CASE s.action = "zapret"
  <2>. DEFINE claimed == held /\ Claims(c, s, p)
  <2>1. d = To(claimed, "return", s) BY <1>3 DEF DestinationRule, held
  <2>2. claimed <=> Holds(c, p, s.name) /\ Claims(c, s, p) BY <1>3 DEF NFTSet, held
  <2>3. claimed => Holds(c, p, NFTSet(s)) BY DEF held
  <2>. HIDE DEF claimed
  <2>4. (d.cond <=> claimed) /\ d.verdict = "return" /\ d.to = s.name BY <2>1 DEF To
  <2>. HIDE DEF d
  <2>. QED BY <1>3, <2>2, <2>3, <2>4 DEF DestinationSays
<1>4. CASE s.action = "proxy" /\ output
  <2>. DEFINE marked == held /\ ProxyTakes(s, p)
  <2>1. d = To(marked, "mark", s) BY <1>4 DEF DestinationRule, held
  <2>2. marked <=> Holds(c, p, s.name) /\ ProxyTakes(s, p) BY <1>4 DEF NFTSet, held
  <2>3. marked => Holds(c, p, NFTSet(s)) BY DEF held
  <2>. HIDE DEF marked
  <2>4. (d.cond <=> marked) /\ d.verdict = "mark" /\ d.to = s.name BY <2>1 DEF To
  <2>. HIDE DEF d
  <2>. QED BY <1>4, <2>2, <2>3, <2>4 DEF DestinationSays
<1>5. CASE s.action = "proxy" /\ ~output
  <2>. DEFINE blocked == held /\ BlocksQUIC(s, p)
              taken == held /\ ProxyTakes(s, p)
              rules == << To(blocked, "reject", s), To(taken, "tproxy", s) >>
  <2>1. d = First(rules) BY <1>5 DEF DestinationRule, held
  <2>2. /\ blocked <=> Holds(c, p, s.name) /\ BlocksQUIC(s, p)
        /\ taken <=> Holds(c, p, s.name) /\ ProxyTakes(s, p)
        /\ blocked \/ taken => Holds(c, p, NFTSet(s))
        /\ taken => (blocked <=> BlocksQUIC(s, p))
    BY <1>5 DEF NFTSet, held
  <2>. HIDE DEF blocked, taken
  <2>3. /\ DOMAIN rules = {1, 2}
        /\ (rules[1].cond <=> blocked) /\ rules[1].verdict = "reject" /\ rules[1].to = s.name
        /\ (rules[2].cond <=> taken) /\ rules[2].verdict = "tproxy" /\ rules[2].to = s.name
    BY DEF To
  <2>. HIDE DEF rules
  <2>4. CASE blocked
    <3>1. First(rules) = rules[1] BY <2>3, <2>4, FirstIs
    <3>2. d.cond /\ d.verdict = "reject" /\ d.to = s.name BY <2>1, <2>3, <2>4, <3>1
    <3>. HIDE DEF d
    <3>. QED BY <1>5, <2>2, <2>4, <3>2 DEF DestinationSays
  <2>5. CASE ~blocked /\ taken
    <3>1. First(rules) = rules[2] BY <2>3, <2>5, FirstIs
    <3>2. d.cond /\ d.verdict = "tproxy" /\ d.to = s.name BY <2>1, <2>3, <2>5, <3>1
    <3>. HIDE DEF d
    <3>. QED BY <1>5, <2>2, <2>5, <3>2 DEF DestinationSays
  <2>6. CASE ~blocked /\ ~taken
    <3>1. First(rules) = Silent BY <2>3, <2>6, FirstIs
    <3>2. ~d.cond BY <2>1, <3>1 DEF Silent, Rule
    <3>. HIDE DEF d
    <3>. QED BY <1>5, <2>2, <2>6, <3>2 DEF DestinationSays
  <2>. QED BY <2>4, <2>5, <2>6
<1>. QED BY <1>1, <1>2, <1>3, <1>4, <1>5

LEMMA DestinationPassIs ==
    ASSUME NEW c \in Configs, NEW p, NEW output \in BOOLEAN
    PROVE
           \/ /\ DestinationPass(c, p, output) = Silent
              /\ \A i \in DOMAIN c.sections :
                   c.sections[i].enabled => ~DestinationRule(c, c.sections[i], p, output).cond
           \/ \E i \in DOMAIN c.sections :
                /\ DestinationPass(c, p, output) = DestinationRule(c, c.sections[i], p, output)
                /\ c.sections[i].enabled /\ DestinationRule(c, c.sections[i], p, output).cond
                /\ \A j \in DOMAIN c.sections :
                     c.sections[j].enabled /\ DestinationRule(c, c.sections[j], p, output).cond
                       => j = i \/ Ahead(c, i, j)
<1>. DEFINE said == DestinationSaid(c, p, output)
<1>1. DestinationPass(c, p, output) = SectionPass(c, said) BY DEF DestinationPass, DestinationSaid
<1>2. \A i \in DOMAIN c.sections : said[i] = DestinationRule(c, c.sections[i], p, output)
  BY DEF DestinationSaid
<1>. HIDE DEF said
<1>3. \/ SectionPass(c, said) = Silent /\ \A i : ~Hit(c, said, i)
      \/ \E i \in DOMAIN c.sections :
           /\ SectionPass(c, said) = said[i] /\ Hit(c, said, i)
           /\ \A j : Hit(c, said, j) => j = i \/ Ahead(c, i, j)
  BY PassIs
<1>4. CASE SectionPass(c, said) = Silent /\ \A i : ~Hit(c, said, i) BY <1>1, <1>2, <1>4 DEF Hit
<1>5. CASE \E i \in DOMAIN c.sections :
             /\ SectionPass(c, said) = said[i] /\ Hit(c, said, i)
             /\ \A j : Hit(c, said, j) => j = i \/ Ahead(c, i, j)
  <2>1. PICK i \in DOMAIN c.sections :
             /\ SectionPass(c, said) = said[i] /\ Hit(c, said, i)
             /\ \A j : Hit(c, said, j) => j = i \/ Ahead(c, i, j) BY <1>5
  <2>. QED BY <1>1, <1>2, <2>1 DEF Hit
<1>. QED BY <1>3, <1>4, <1>5

(* What an assignment of the client says.                                  *)
IdentitySays(s, assigned, p, d) ==
    /\ d.cond => assigned /\ d.to = s.name /\ s.action # "zapret"
    /\ s.action = "reject" => (d.cond <=> assigned) /\ d.verdict = "reject"
    /\ s.action = "direct" => (d.cond <=> assigned) /\ d.verdict = "return"
    /\ s.action = "proxy" => (d.cond <=> assigned /\ ProxyTakes(s, p)) /\ d.verdict = "tproxy"

LEMMA IdentityRuleIs ==
    ASSUME NEW s, NEW p, NEW assigned \in BOOLEAN,
           s.action \in {"proxy", "direct", "reject", "zapret"}
    PROVE  IdentitySays(s, assigned, p, IdentityRule(s, assigned, p))
<1>. DEFINE d == IdentityRule(s, assigned, p)
<1>. SUFFICES IdentitySays(s, assigned, p, d) OBVIOUS
<1>1. CASE s.action = "reject"
  <2>1. (d.cond <=> assigned) /\ d.verdict = "reject" /\ d.to = s.name
    BY <1>1 DEF IdentityRule, To
  <2>. HIDE DEF d
  <2>. QED BY <1>1, <2>1 DEF IdentitySays
<1>2. CASE s.action = "direct"
  <2>1. (d.cond <=> assigned) /\ d.verdict = "return" /\ d.to = s.name
    BY <1>2 DEF IdentityRule, To
  <2>. HIDE DEF d
  <2>. QED BY <1>2, <2>1 DEF IdentitySays
<1>3. CASE s.action = "zapret"
  <2>1. ~d.cond BY <1>3 DEF IdentityRule, Silent, Rule
  <2>. HIDE DEF d
  <2>. QED BY <1>3, <2>1 DEF IdentitySays
<1>4. CASE s.action = "proxy"
  <2>. DEFINE taken == assigned /\ ProxyTakes(s, p)
  <2>1. d = To(taken, "tproxy", s) BY <1>4 DEF IdentityRule
  <2>2. taken <=> assigned /\ ProxyTakes(s, p) OBVIOUS
  <2>. HIDE DEF taken
  <2>3. (d.cond <=> taken) /\ d.verdict = "tproxy" /\ d.to = s.name BY <2>1 DEF To
  <2>. HIDE DEF d
  <2>. QED BY <1>4, <2>2, <2>3 DEF IdentitySays
<1>. QED BY <1>1, <1>2, <1>3, <1>4

DeviceOf(c, p, s) == p.mac = s.name /\ (s.action = "proxy" /\ p.v6 => IPv6Routed(c))
SourceOf(c, p, s) == s.name \in p.src /\ (p.v6 => IPv6Routed(c))
DeviceRule(c, p, i) == IdentityRule(c.sections[i], DeviceOf(c, p, c.sections[i]), p)
SourceRule(c, p, i) == IdentityRule(c.sections[i], SourceOf(c, p, c.sections[i]), p)

LEMMA DevicePassIs ==
    ASSUME NEW c \in Configs, NEW p
    PROVE  /\ \/ DevicePass(c, p) = Silent
              \/ \E i \in DOMAIN c.sections :
                   /\ DevicePass(c, p) = DeviceRule(c, p, i)
                   /\ c.sections[i].enabled /\ DeviceRule(c, p, i).cond
           /\ \A i \in DOMAIN c.sections : c.sections[i].enabled /\ DeviceRule(c, p, i).cond =>
                DevicePass(c, p) = DeviceRule(c, p, i)
<1>. DEFINE said == [i \in DOMAIN c.sections |-> DeviceRule(c, p, i)]
<1>1. DevicePass(c, p) = SectionPass(c, said) BY DEF DevicePass, DeviceRule, DeviceOf
<1>2. \A i \in DOMAIN c.sections : said[i] = DeviceRule(c, p, i) OBVIOUS
<1>. HIDE DEF said
<1>3. \A i \in DOMAIN c.sections : DeviceRule(c, p, i).cond => p.mac = c.sections[i].name
  <2>. SUFFICES ASSUME NEW i \in DOMAIN c.sections
                PROVE  DeviceRule(c, p, i).cond => p.mac = c.sections[i].name
    OBVIOUS
  <2>1. c.sections[i].action \in {"proxy", "direct", "reject", "zapret"} BY ConfigFacts
  <2>2. DeviceOf(c, p, c.sections[i]) \in BOOLEAN BY DEF DeviceOf
  <2>3. IdentitySays(c.sections[i], DeviceOf(c, p, c.sections[i]), p, DeviceRule(c, p, i))
    BY <2>1, <2>2, IdentityRuleIs DEF DeviceRule
  <2>. QED BY <2>3 DEF IdentitySays, DeviceOf
<1>4. \/ SectionPass(c, said) = Silent /\ \A i : ~Hit(c, said, i)
      \/ \E i \in DOMAIN c.sections :
           /\ SectionPass(c, said) = said[i] /\ Hit(c, said, i)
           /\ \A j : Hit(c, said, j) => j = i \/ Ahead(c, i, j)
  BY PassIs
<1>5. \A i, j \in DOMAIN c.sections : c.sections[i].name = c.sections[j].name => i = j
  BY ConfigFacts
<1>. QED BY <1>1, <1>2, <1>3, <1>4, <1>5 DEF Hit

LEMMA SourcePassIs ==
    ASSUME NEW c \in Configs, NEW p
    PROVE  \/ SourcePass(c, p) = Silent
           \/ \E i \in DOMAIN c.sections :
                /\ SourcePass(c, p) = SourceRule(c, p, i)
                /\ c.sections[i].enabled /\ SourceRule(c, p, i).cond
<1>. DEFINE said == [i \in DOMAIN c.sections |-> SourceRule(c, p, i)]
<1>1. SourcePass(c, p) = SectionPass(c, said) BY DEF SourcePass, SourceRule, SourceOf
<1>2. \A i \in DOMAIN c.sections : said[i] = SourceRule(c, p, i) OBVIOUS
<1>. HIDE DEF said
<1>3. \/ SectionPass(c, said) = Silent /\ \A i : ~Hit(c, said, i)
      \/ \E i \in DOMAIN c.sections :
           /\ SectionPass(c, said) = said[i] /\ Hit(c, said, i)
           /\ \A j : Hit(c, said, j) => j = i \/ Ahead(c, i, j)
  BY PassIs
<1>. QED BY <1>1, <1>2, <1>3 DEF Hit

(* The identity passes, rule by rule.                                      *)
LEMMA IdentityRulesSay ==
    ASSUME NEW c \in Configs, NEW p, NEW i \in DOMAIN c.sections
    PROVE  /\ IdentitySays(c.sections[i], DeviceOf(c, p, c.sections[i]), p, DeviceRule(c, p, i))
           /\ IdentitySays(c.sections[i], SourceOf(c, p, c.sections[i]), p, SourceRule(c, p, i))
<1>1. c.sections[i].action \in {"proxy", "direct", "reject", "zapret"} BY ConfigFacts
<1>2. /\ DeviceOf(c, p, c.sections[i]) \in BOOLEAN /\ SourceOf(c, p, c.sections[i]) \in BOOLEAN
  BY DEF DeviceOf, SourceOf
<1>. QED BY <1>1, <1>2, IdentityRuleIs DEF DeviceRule, SourceRule

(* The passes of the destination chain, in their order.                    *)
LEMMA SectionsIs ==
    ASSUME NEW c \in Configs, NEW p
    PROVE  LET d == Sections(c, p)
               device == DevicePass(c, p)
               source == SourcePass(c, p)
               pass == DestinationPass(c, p, FALSE)
               clear == ~device.cond /\ ~source.cond IN
           /\ device.cond => d = device
           /\ clear /\ Holds(c, p, "reject") => d.cond /\ d.verdict = "reject"
           /\ clear /\ ~Holds(c, p, "reject") /\ ~Holds(c, p, "direct") /\ pass.cond => d = pass
           /\ d.to # Unset \/ d.verdict = "tproxy" => d \in {device, source, pass} /\ d.cond
<1>. DEFINE device == DevicePass(c, p)
            source == SourcePass(c, p)
            pass == DestinationPass(c, p, FALSE)
            reject == Holds(c, p, "reject")
            direct == Holds(c, p, "direct")
            rules == <<device, source, Rule(reject, "reject"), Rule(direct, "return"), pass>>
<1>1. Sections(c, p) = First(rules) BY DEF Sections
<1>. HIDE DEF device, source, pass, reject, direct
<1>2. /\ DOMAIN rules = {1, 2, 3, 4, 5}
      /\ rules[1] = device /\ rules[2] = source /\ rules[5] = pass
      /\ (rules[3].cond <=> reject) /\ rules[3].verdict = "reject" /\ rules[3].to = Unset
      /\ (rules[4].cond <=> direct) /\ rules[4].to = Unset /\ rules[4].verdict = "return"
  BY DEF Rule
<1>. HIDE DEF rules
<1>3. Silent.to = Unset /\ Silent.verdict = "accept" BY DEF Silent, Rule
<1>4. device.cond => First(rules) = device BY <1>2, FirstIs
<1>5. ~device.cond /\ ~source.cond /\ reject => First(rules) = rules[3] BY <1>2, FirstIs
<1>6. ~device.cond /\ ~source.cond /\ ~reject /\ ~direct /\ pass.cond => First(rules) = pass
  BY <1>2, FirstIs
<1>7. First(rules).to # Unset \/ First(rules).verdict = "tproxy" =>
        First(rules) \in {device, source, pass} /\ First(rules).cond
  <2>1. \/ First(rules) = Silent
        \/ \E i \in DOMAIN rules : First(rules) = rules[i] /\ rules[i].cond
    BY <1>2, FirstIn
  <2>. QED BY <2>1, <1>2, <1>3
<1>8. First(rules) = rules[3] /\ reject => First(rules).cond /\ First(rules).verdict = "reject"
  BY <1>2
<1>. QED BY <1>1, <1>4, <1>5, <1>6, <1>7, <1>8 DEF device, source, pass, reject, direct

(* What every chain lets pass first.                                       *)
Exempted(c, p) ==
    \/ p.private /\ (p.v6 => IPv6Routed(c))
    \/ Holds(c, p, "bypass") \/ Holds(c, p, "proxy server")

LEMMA ExemptIs ==
    ASSUME NEW c, NEW p
    PROVE  /\ First(Exempt(c, p)).cond <=> Exempted(c, p)
           /\ First(Exempt(c, p)).verdict \in {"accept", "return"}
           /\ First(Exempt(c, p)).to = Unset
<1>. DEFINE local == p.private /\ (p.v6 => IPv6Routed(c))
            bypass == Holds(c, p, "bypass")
            server == Holds(c, p, "proxy server")
            rules == << Rule(local, "return"), Rule(bypass, "return"), Rule(server, "return") >>
<1>1. Exempt(c, p) = rules BY DEF Exempt
<1>2. Exempted(c, p) <=> local \/ bypass \/ server BY DEF Exempted
<1>. HIDE DEF local, bypass, server
<1>3. /\ DOMAIN rules = {1, 2, 3}
      /\ (rules[1].cond <=> local) /\ (rules[2].cond <=> bypass) /\ (rules[3].cond <=> server)
      /\ \A i \in {1, 2, 3} : rules[i].verdict = "return" /\ rules[i].to = Unset
  BY DEF Rule
<1>. HIDE DEF rules
<1>4. /\ Silent.to = Unset /\ Silent.verdict = "accept" /\ ~Silent.cond BY DEF Silent, Rule
<1>5. \/ First(rules) = Silent /\ \A i \in DOMAIN rules : ~rules[i].cond
      \/ \E i \in DOMAIN rules : First(rules) = rules[i] /\ rules[i].cond
  BY <1>3, FirstIn
<1>6. CASE First(rules) = Silent /\ \A i \in DOMAIN rules : ~rules[i].cond
  BY <1>1, <1>2, <1>3, <1>4, <1>6
<1>7. CASE \E i \in DOMAIN rules : First(rules) = rules[i] /\ rules[i].cond
  BY <1>1, <1>2, <1>3, <1>7
<1>. QED BY <1>5, <1>6, <1>7

LEMMA OutputIs ==
    ASSUME NEW c, NEW p
    PROVE  LET d == Output(c, p)
               pass == DestinationPass(c, p, TRUE)
               kept == \/ p.from = "mihomo" /\ c.cgroup
                       \/ p.from = "nfqws"
                       \/ "self" \in p.in \/ p.reply \/ Exempted(c, p) IN
           /\ ~kept /\ pass.cond => d = pass
           /\ \/ d.verdict \in {"accept", "return"} /\ d.to = Unset
              \/ ~kept /\ pass.cond /\ d = pass
<1>. DEFINE d == Output(c, p)
            pass == DestinationPass(c, p, TRUE)
            mihomo == p.from = "mihomo" /\ c.cgroup
            nfqws == p.from = "nfqws"
            self == "self" \in p.in
            reply == p.reply
            exempt == First(Exempt(c, p))
            rules == << Rule(mihomo, "return"), Rule(nfqws, "return"), Rule(self, "return"),
                        Rule(reply, "return"), exempt, pass >>
<1>1. d = First(rules) BY DEF Output
<1>2. /\ exempt.cond <=> Exempted(c, p)
      /\ exempt.verdict \in {"accept", "return"} /\ exempt.to = Unset
  BY ExemptIs
<1>3. (p.reply <=> reply) OBVIOUS
<1>. HIDE DEF mihomo, nfqws, self, exempt, pass, reply
<1>4. /\ DOMAIN rules = {1, 2, 3, 4, 5, 6}
      /\ (rules[1].cond <=> mihomo) /\ (rules[2].cond <=> nfqws) /\ (rules[3].cond <=> self)
      /\ (rules[4].cond <=> reply) /\ rules[5] = exempt /\ rules[6] = pass
      /\ \A i \in {1, 2, 3, 4} : rules[i].verdict = "return" /\ rules[i].to = Unset
  BY DEF Rule
<1>. HIDE DEF rules
<1>5. /\ Silent.to = Unset /\ Silent.verdict = "accept" BY DEF Silent, Rule
<1>6. \/ First(rules) = Silent
      \/ \E i \in DOMAIN rules : /\ First(rules) = rules[i] /\ rules[i].cond
                                 /\ \A j \in DOMAIN rules : j < i => ~rules[j].cond
  BY <1>4, FirstIn
<1>. DEFINE free == ~mihomo /\ ~nfqws /\ ~self /\ ~reply /\ ~exempt.cond
<1>7. free /\ pass.cond => First(rules) = pass BY <1>4, FirstIs
<1>8. \/ First(rules).verdict \in {"accept", "return"} /\ First(rules).to = Unset
      \/ free /\ pass.cond /\ First(rules) = pass
  BY <1>2, <1>4, <1>5, <1>6
<1>. HIDE DEF d
<1>. QED BY <1>1, <1>2, <1>3, <1>7, <1>8 DEF d, mihomo, nfqws, self, exempt, pass

(* What comes before the sections at PREROUTING.                           *)
Passed(c, p, lo) ==
    p.reply \/ (lo /\ "self" \in p.in) \/ Exempted(c, p) \/ "bypass" \in p.src \/ p.mac = "excluded"

LEMMA PreroutingIs ==
    ASSUME NEW c, NEW p, NEW lo \in BOOLEAN
    PROVE  /\ ~Passed(c, p, lo) /\ Sections(c, p).cond => Prerouting(c, p, lo) = Sections(c, p)
           /\ Prerouting(c, p, lo).to # Unset \/ Prerouting(c, p, lo).verdict = "tproxy" =>
                Sections(c, p).cond /\ Prerouting(c, p, lo) = Sections(c, p)
<1>. DEFINE sections == Sections(c, p)
            breakers == First(LoopBreakers(p, lo))
            exempt == First(Exempt(c, p))
            excluded == First(Excluded(c, p))
            dot == c.blockDoT /\ ~p.udp /\ p.port = 853
            v6 == p.v6 /\ ~IPv6Routed(c) /\ c.rejectV6
            doq == c.blockDoQ /\ p.udp /\ p.port = 853
            doh3 == c.blockDoH3 /\ Holds(c, p, "doh3") /\ p.udp /\ p.port = 443
            rules == << breakers, exempt, excluded, sections, Rule(dot, "reject"),
                        Rule(v6, "reject"), Rule(doq, "reject"), Rule(doh3, "reject") >>
<1>1. Prerouting(c, p, lo) = First(rules) BY DEF Prerouting
<1>2. /\ exempt.cond <=> Exempted(c, p)
      /\ exempt.to = Unset /\ exempt.verdict # "tproxy"
  BY ExemptIs
<1>3. /\ breakers.cond => p.reply \/ (lo /\ "self" \in p.in)
      /\ breakers.to = Unset /\ breakers.verdict # "tproxy"
  <2>. DEFINE back == lo /\ "self" \in p.in
              reply == p.reply
              two == << Rule(reply, "return"), Rule(back, "return") >>
  <2>1. breakers = First(two) BY DEF LoopBreakers
  <2>2. back <=> lo /\ "self" \in p.in OBVIOUS
  <2>3. reply <=> p.reply OBVIOUS
  <2>. HIDE DEF back, reply
  <2>4. /\ DOMAIN two = {1, 2} /\ (two[1].cond <=> reply) /\ (two[2].cond <=> back)
        /\ \A i \in {1, 2} : two[i].to = Unset /\ two[i].verdict = "return"
    BY DEF Rule
  <2>. HIDE DEF two, breakers
  <2>5. \/ First(two) = Silent \/ \E i \in DOMAIN two : First(two) = two[i] /\ two[i].cond
    BY <2>4, FirstIn
  <2>. QED BY <2>1, <2>2, <2>3, <2>4, <2>5 DEF Silent, Rule
<1>4. /\ excluded.cond => "bypass" \in p.src \/ p.mac = "excluded"
      /\ excluded.to = Unset /\ excluded.verdict # "tproxy"
  <2>. DEFINE source == "bypass" \in p.src /\ (p.v6 => IPv6Routed(c))
              device == p.mac = "excluded"
              two == << Rule(source, "return"), Rule(device, "return") >>
  <2>1. excluded = First(two) BY DEF Excluded
  <2>. HIDE DEF source, device
  <2>2. /\ DOMAIN two = {1, 2} /\ (two[1].cond <=> source) /\ (two[2].cond <=> device)
        /\ \A i \in {1, 2} : two[i].to = Unset /\ two[i].verdict = "return"
    BY DEF Rule
  <2>. HIDE DEF two, excluded
  <2>3. \/ First(two) = Silent \/ \E i \in DOMAIN two : First(two) = two[i] /\ two[i].cond
    BY <2>2, FirstIn
  <2>4. /\ excluded.to = Unset /\ excluded.verdict # "tproxy"
        /\ excluded.cond => source \/ device
    BY <2>1, <2>2, <2>3 DEF Silent, Rule
  <2>. QED BY <2>4 DEF source, device
<1>. HIDE DEF sections, breakers, exempt, excluded, dot, v6, doq, doh3
<1>5. /\ DOMAIN rules = {1, 2, 3, 4, 5, 6, 7, 8}
      /\ rules[1] = breakers /\ rules[2] = exempt /\ rules[3] = excluded /\ rules[4] = sections
      /\ \A i \in {5, 6, 7, 8} : rules[i].to = Unset /\ rules[i].verdict = "reject"
  BY DEF Rule
<1>. HIDE DEF rules
<1>6. ~breakers.cond /\ ~exempt.cond /\ ~excluded.cond /\ sections.cond => First(rules) = sections
  BY <1>5, FirstIs
<1>7. First(rules).to # Unset \/ First(rules).verdict = "tproxy" =>
        sections.cond /\ First(rules) = sections
  <2>1. \/ First(rules) = Silent \/ \E i \in DOMAIN rules : First(rules) = rules[i] /\ rules[i].cond
    BY <1>5, FirstIn
  <2>. QED BY <2>1, <1>2, <1>3, <1>4, <1>5 DEF Silent, Rule
<1>8. ~Passed(c, p, lo) => ~breakers.cond /\ ~exempt.cond /\ ~excluded.cond
  BY <1>2, <1>3, <1>4 DEF Passed
<1>. QED BY <1>1, <1>6, <1>7, <1>8 DEF sections

-----------------------------------------------------------------------------
(* The queue                                                               *)

Queued(c, p, s) == s.action = "zapret" /\ Holds(c, p, s.name) /\ Fresh(p) /\ Claims(c, s, p)

LEMMA QueueRulesSay ==
    ASSUME NEW c, NEW p, NEW s, DOMAIN s.strategies \subseteq Nat
    PROVE  LET d == First(QueueRules(c, s, p)) IN
           /\ d.cond <=> Queued(c, p, s)
           /\ d.cond => \E k \in DOMAIN s.strategies : d.to = c.strategies[s.strategies[k]].name
           /\ ~d.cond => d = Silent
<1>. DEFINE rules == QueueRules(c, s, p)
            taken(k) == /\ s.action = "zapret" /\ Holds(c, p, s.name) /\ Fresh(p)
                        /\ StrategyTakes(ScopedStrategy(c, s, k), p)
<1>1. rules = [k \in DOMAIN s.strategies |-> To(taken(k), "queue", ScopedStrategy(c, s, k))]
  BY DEF QueueRules
<1>2. Queued(c, p, s) <=> \E k \in DOMAIN s.strategies : taken(k) BY DEF Queued, Claims
<1>. HIDE DEF taken, rules
<1>3. \A k \in DOMAIN s.strategies :
        (rules[k].cond <=> taken(k)) /\ rules[k].to = ScopedStrategy(c, s, k).name
  BY <1>1 DEF To
<1>4. DOMAIN rules = DOMAIN s.strategies BY <1>1
<1>5. \A k : ScopedStrategy(c, s, k).name = c.strategies[s.strategies[k]].name
  BY DEF ScopedStrategy, Scoped
<1>6. ~Silent.cond BY DEF Silent, Rule
<1>7. \/ First(rules) = Silent /\ \A k \in DOMAIN rules : ~rules[k].cond
      \/ \E k \in DOMAIN rules : First(rules) = rules[k] /\ rules[k].cond
  BY <1>4, FirstIn
<1>. QED BY <1>2, <1>3, <1>4, <1>5, <1>6, <1>7 DEF rules

LEMMA QueueIs ==
    ASSUME NEW c \in Configs, NEW p
    PROVE  \/ /\ Queue(c, p).to = Unset
              /\ p.reply \/ \A i \in DOMAIN c.sections :
                              c.sections[i].enabled => ~Queued(c, p, c.sections[i])
           \/ \E i \in DOMAIN c.sections :
                /\ c.sections[i].enabled /\ Queued(c, p, c.sections[i])
                /\ \E k \in DOMAIN c.sections[i].strategies :
                     Queue(c, p).to = c.strategies[c.sections[i].strategies[k]].name
                /\ \A j \in DOMAIN c.sections :
                     c.sections[j].enabled /\ Queued(c, p, c.sections[j]) => j = i \/ Ahead(c, i, j)
<1>. DEFINE said == [i \in DOMAIN c.sections |-> First(QueueRules(c, c.sections[i], p))]
            pass == SectionPass(c, said)
            reply == p.reply
            rules == << Rule(reply, "return"), pass >>
<1>1. Queue(c, p) = First(rules) BY DEF Queue
<1>2. \A i \in DOMAIN c.sections :
        /\ said[i].cond <=> Queued(c, p, c.sections[i])
        /\ said[i].cond => \E k \in DOMAIN c.sections[i].strategies :
                             said[i].to = c.strategies[c.sections[i].strategies[k]].name
  <2>. SUFFICES ASSUME NEW i \in DOMAIN c.sections
                PROVE  /\ said[i].cond <=> Queued(c, p, c.sections[i])
                       /\ said[i].cond => \E k \in DOMAIN c.sections[i].strategies :
                            said[i].to = c.strategies[c.sections[i].strategies[k]].name
    OBVIOUS
  <2>1. DOMAIN c.sections[i].strategies \subseteq Nat BY ConfigFacts
  <2>2. said[i] = First(QueueRules(c, c.sections[i], p)) OBVIOUS
  <2>. HIDE DEF said
  <2>. QED BY <2>1, <2>2, QueueRulesSay
<1>3. reply <=> p.reply OBVIOUS
<1>. HIDE DEF said, reply
<1>4. \/ pass = Silent /\ \A i : ~Hit(c, said, i)
      \/ \E i \in DOMAIN c.sections :
           /\ pass = said[i] /\ Hit(c, said, i)
           /\ \A j : Hit(c, said, j) => j = i \/ Ahead(c, i, j)
  BY PassIs
<1>. HIDE DEF pass
<1>5. /\ DOMAIN rules = {1, 2} /\ (rules[1].cond <=> reply) /\ rules[1].to = Unset
      /\ rules[2] = pass
  BY DEF Rule
<1>. HIDE DEF rules
<1>6. Silent.to = Unset /\ ~Silent.cond BY DEF Silent, Rule
<1>7. /\ reply => First(rules) = rules[1]
      /\ ~reply /\ pass.cond => First(rules) = pass
      /\ ~reply /\ ~pass.cond => First(rules) = Silent
  BY <1>5, FirstIs
<1>8. CASE reply BY <1>1, <1>3, <1>5, <1>7, <1>8
<1>9. CASE ~reply /\ pass = Silent /\ \A i : ~Hit(c, said, i)
  BY <1>1, <1>2, <1>6, <1>7, <1>9 DEF Hit
<1>10. CASE ~reply /\ \E i \in DOMAIN c.sections :
             /\ pass = said[i] /\ Hit(c, said, i)
             /\ \A j : Hit(c, said, j) => j = i \/ Ahead(c, i, j)
  <2>1. PICK i \in DOMAIN c.sections :
             /\ pass = said[i] /\ Hit(c, said, i)
             /\ \A j : Hit(c, said, j) => j = i \/ Ahead(c, i, j)
    BY <1>10
  <2>2. First(rules) = said[i] /\ said[i].cond /\ c.sections[i].enabled
    BY <1>7, <1>10, <2>1 DEF Hit
  <2>3. \A j \in DOMAIN c.sections :
          c.sections[j].enabled /\ Queued(c, p, c.sections[j]) => j = i \/ Ahead(c, i, j)
    BY <1>2, <2>1 DEF Hit
  <2>. QED BY <1>1, <1>2, <2>2, <2>3
<1>. QED BY <1>4, <1>8, <1>9, <1>10

(* What a strategy claims at the other hooks is queued by it, or by        *)
(* another of its section.                                                 *)
LEMMA ClaimedIsQueued ==
    ASSUME NEW c \in Configs, NEW p, ~p.reply, Fresh(p), NEW output \in BOOLEAN,
           NEW i \in DOMAIN c.sections, c.sections[i].action = "zapret", c.sections[i].enabled,
           DestinationRule(c, c.sections[i], p, output).cond,
           \A j \in DOMAIN c.sections :
             c.sections[j].enabled /\ DestinationRule(c, c.sections[j], p, output).cond
               => j = i \/ Ahead(c, i, j)
    PROVE  \E k \in DOMAIN c.sections[i].strategies :
             Queue(c, p).to = c.strategies[c.sections[i].strategies[k]].name
<1>1. \A j \in DOMAIN c.sections :
        c.sections[j].action = "zapret" =>
          (DestinationRule(c, c.sections[j], p, output).cond <=> Queued(c, p, c.sections[j]))
  <2>. SUFFICES ASSUME NEW j \in DOMAIN c.sections, c.sections[j].action = "zapret"
                PROVE  DestinationRule(c, c.sections[j], p, output).cond
                         <=> Queued(c, p, c.sections[j])
    OBVIOUS
  <2>1. DestinationSays(c, c.sections[j], p, output, DestinationRule(c, c.sections[j], p, output))
    BY DestinationRuleIs
  <2>. QED BY <2>1 DEF DestinationSays, Queued
<1>2. \A j : Queued(c, p, c.sections[j]) => c.sections[j].action = "zapret" BY DEF Queued
<1>3. \A j, k \in DOMAIN c.sections : Ahead(c, j, k) => ~Ahead(c, k, j)
  <2>1. /\ \A k \in DOMAIN c.sections : c.sections[k].priority \in Int
        /\ DOMAIN c.sections \subseteq Nat
    BY ConfigFacts
  <2>. QED BY <2>1 DEF Ahead
<1>4. PICK k \in DOMAIN c.sections :
        /\ c.sections[k].enabled /\ Queued(c, p, c.sections[k])
        /\ \E m \in DOMAIN c.sections[k].strategies :
             Queue(c, p).to = c.strategies[c.sections[k].strategies[m]].name
        /\ \A j \in DOMAIN c.sections :
             c.sections[j].enabled /\ Queued(c, p, c.sections[j]) => j = k \/ Ahead(c, k, j)
  BY <1>1, QueueIs
<1>5. k = i BY <1>1, <1>2, <1>3, <1>4
<1>. QED BY <1>4, <1>5

-----------------------------------------------------------------------------
(* The packet's way                                                        *)

Sent == IF conf.routerOutput THEN Output(conf, packet) ELSE Silent
Seen == Prerouting(conf, packet, OnRouter)

(* Where a packet is, it is by what the chains behind it said.             *)
WayInv ==
    /\ conf \in Configs /\ packet \in Packets
    /\ hook \in {"output", "prerouting", "postrouting", "direct", "rejected", "lost", "listener"}
    /\ hook = "output" => OnRouter /\ via = Unset
    /\ hook = "prerouting" =>
         IF OnRouter THEN Sent.verdict = "mark" /\ via = Sent.to ELSE via = Unset
    /\ hook \in {"postrouting", "direct"} =>
         IF OnRouter THEN Sent.verdict \notin {"mark", "reject"} /\ via = Sent.to
                     ELSE Seen.verdict \notin {"tproxy", "reject"} /\ via = Seen.to
    /\ hook = "rejected" =>
         \/ OnRouter /\ Sent.verdict = "reject" /\ via = Sent.to
         \/ (OnRouter => Sent.verdict = "mark") /\ Seen.verdict = "reject" /\ via = Seen.to
    /\ hook = "listener" =>
         (OnRouter => Sent.verdict = "mark") /\ Seen.verdict = "tproxy" /\ via = Seen.to
    /\ hook = "lost" =>
         /\ OnRouter /\ Sent.verdict = "mark" /\ Seen.verdict \notin {"tproxy", "reject"}
         /\ via = Seen.to
    /\ queued = IF hook = "direct" THEN Queue(conf, packet).to ELSE Unset

LEMMA WayHolds == NetSpec => []WayInv
<1>1. NetInit => WayInv BY DEF NetInit, WayInv, OnRouter
<1>2. ASSUME WayInv, [NetNext]_netVars PROVE WayInv'
  <2>1. CASE AtOutput
    <3>1. /\ hook = "output" /\ conf' = conf /\ packet' = packet /\ queued' = queued
          /\ hook' = CASE Sent.verdict = "mark" -> "prerouting"
                       [] Sent.verdict = "reject" -> "rejected"
                       [] OTHER -> "postrouting"
          /\ via' = Sent.to
      BY <2>1 DEF AtOutput, Sent
    <3>2. OnRouter' = OnRouter /\ Sent' = Sent BY <3>1 DEF OnRouter, Sent
    <3>3. OnRouter /\ queued = Unset BY <1>2, <3>1 DEF WayInv
    <3>4. CASE Sent.verdict = "mark"
      <4>1. hook' = "prerouting" BY <3>1, <3>4
      <4>. QED BY <1>2, <3>1, <3>2, <3>3, <3>4, <4>1 DEF WayInv
    <3>5. CASE Sent.verdict = "reject"
      <4>1. hook' = "rejected" BY <3>1, <3>5
      <4>. QED BY <1>2, <3>1, <3>2, <3>3, <3>5, <4>1 DEF WayInv
    <3>6. CASE Sent.verdict \notin {"mark", "reject"}
      <4>1. hook' = "postrouting" BY <3>1, <3>6
      <4>. QED BY <1>2, <3>1, <3>2, <3>3, <3>6, <4>1 DEF WayInv
    <3>. QED BY <3>4, <3>5, <3>6
  <2>2. CASE AtPrerouting
    <3>1. /\ hook = "prerouting" /\ conf' = conf /\ packet' = packet /\ queued' = queued
          /\ hook' = CASE Seen.verdict = "tproxy" -> "listener"
                       [] Seen.verdict = "reject" -> "rejected"
                       [] OTHER -> IF packet.from = "client" THEN "postrouting" ELSE "lost"
          /\ via' = Seen.to
      BY <2>2 DEF AtPrerouting, Seen, OnRouter
    <3>2. OnRouter' = OnRouter /\ Sent' = Sent /\ Seen' = Seen BY <3>1 DEF OnRouter, Sent, Seen
    <3>3. (OnRouter => Sent.verdict = "mark") /\ queued = Unset BY <1>2, <3>1 DEF WayInv
    <3>4. CASE Seen.verdict = "tproxy"
      <4>1. hook' = "listener" BY <3>1, <3>4
      <4>. QED BY <1>2, <3>1, <3>2, <3>3, <3>4, <4>1 DEF WayInv
    <3>5. CASE Seen.verdict = "reject"
      <4>1. hook' = "rejected" BY <3>1, <3>5
      <4>. QED BY <1>2, <3>1, <3>2, <3>3, <3>5, <4>1 DEF WayInv
    <3>6. CASE Seen.verdict \notin {"tproxy", "reject"}
      <4>1. hook' = IF OnRouter THEN "lost" ELSE "postrouting" BY <3>1, <3>6 DEF OnRouter
      <4>. QED BY <1>2, <3>1, <3>2, <3>3, <3>6, <4>1 DEF WayInv
    <3>. QED BY <3>4, <3>5, <3>6
  <2>3. CASE AtPostrouting
    <3>1. /\ hook = "postrouting" /\ hook' = "direct" /\ queued' = Queue(conf, packet).to
          /\ conf' = conf /\ packet' = packet /\ via' = via
      BY <2>3 DEF AtPostrouting
    <3>2. /\ OnRouter' = OnRouter /\ Sent' = Sent /\ Seen' = Seen
          /\ Queue(conf, packet)' = Queue(conf, packet)
      BY <3>1 DEF OnRouter, Sent, Seen
    <3>. QED BY <1>2, <3>1, <3>2 DEF WayInv
  <2>4. CASE UNCHANGED netVars
    <3>1. /\ conf' = conf /\ packet' = packet /\ hook' = hook /\ via' = via /\ queued' = queued
      BY <2>4 DEF netVars
    <3>2. /\ OnRouter' = OnRouter /\ Sent' = Sent /\ Seen' = Seen
          /\ Queue(conf, packet)' = Queue(conf, packet)
      BY <3>1 DEF OnRouter, Sent, Seen
    <3>. QED BY <1>2, <3>1, <3>2 DEF WayInv
  <2>. QED BY <1>2, <2>1, <2>2, <2>3, <2>4 DEF NetNext
<1>. QED BY <1>1, <1>2, PTL DEF NetSpec

(* What a chain names is a section, and what the queue names a strategy.   *)
LEMMA NamesAre ==
    ASSUME WayInv
    PROVE  LET names == {conf.sections[i].name : i \in DOMAIN conf.sections} IN
           /\ OnRouter => Sent.to \in names \cup {Unset}
           /\ Seen.to \in names \cup {Unset}
           /\ Seen.verdict = "tproxy" => Seen.to # Unset
           /\ Queue(conf, packet).to \in
                {Unset} \cup {conf.strategies[z].name : z \in DOMAIN conf.strategies}
<1>. DEFINE names == {conf.sections[i].name : i \in DOMAIN conf.sections}
<1>1. conf \in Configs /\ \A i \in DOMAIN conf.sections : conf.sections[i].name # Unset
  BY ConfigFacts DEF WayInv
<1>2. ~Silent.cond /\ Silent.to = Unset BY DEF Silent, Rule
<1>3. ASSUME NEW d, d.cond,
             \/ \E output \in BOOLEAN : d = DestinationPass(conf, packet, output)
             \/ d \in {DevicePass(conf, packet), SourcePass(conf, packet)}
      PROVE  d.to \in names
  <2>1. CASE \E output \in BOOLEAN : d = DestinationPass(conf, packet, output)
    <3>1. PICK output \in BOOLEAN : d = DestinationPass(conf, packet, output) BY <2>1
    <3>2. PICK i \in DOMAIN conf.sections :
            d = DestinationRule(conf, conf.sections[i], packet, output)
      BY <1>1, <1>2, <1>3, <3>1, DestinationPassIs
    <3>3. DestinationSays(conf, conf.sections[i], packet, output, d)
      BY <1>1, <3>2, ConfigFacts, DestinationRuleIs
    <3>. QED BY <1>3, <3>3 DEF DestinationSays
  <2>2. CASE d \in {DevicePass(conf, packet), SourcePass(conf, packet)}
    <3>1. PICK i \in DOMAIN conf.sections :
            d \in {DeviceRule(conf, packet, i), SourceRule(conf, packet, i)}
      BY <1>1, <1>2, <1>3, <2>2, DevicePassIs, SourcePassIs
    <3>. QED BY <1>1, <1>3, <3>1, IdentityRulesSay DEF IdentitySays
  <2>. QED BY <1>3, <2>1, <2>2
<1>4. OnRouter => Sent.to \in names \cup {Unset} BY <1>2, <1>3, OutputIs DEF Sent
<1>5. Seen.to # Unset \/ Seen.verdict = "tproxy" => Seen.to \in names
  <2>. DEFINE d == Sections(conf, packet)
  <2>1. OnRouter \in BOOLEAN BY DEF OnRouter
  <2>2. Seen.to # Unset \/ Seen.verdict = "tproxy" => d.cond /\ Seen = d
    BY <2>1, PreroutingIs DEF Seen
  <2>3. d.to # Unset \/ d.verdict = "tproxy" =>
          d \in {DevicePass(conf, packet), SourcePass(conf, packet),
                 DestinationPass(conf, packet, FALSE)}
    BY <1>1, SectionsIs
  <2>. HIDE DEF names, d
  <2>. QED BY <1>3, <2>2, <2>3
<1>6. Queue(conf, packet).to \in
        {Unset} \cup {conf.strategies[z].name : z \in DOMAIN conf.strategies}
  BY <1>1, QueueIs, ConfigFacts
<1>. QED BY <1>1, <1>4, <1>5, <1>6

(* A packet that goes to a listener goes to one of a section the           *)
(* configuration has, and one that is queued to one of its strategies.     *)
THEOREM NetTypes == NetSpec => []NetTypeOK
<1>1. ASSUME WayInv PROVE NetTypeOK
  <2>. DEFINE names == {conf.sections[i].name : i \in DOMAIN conf.sections}
              strategies == {conf.strategies[z].name : z \in DOMAIN conf.strategies}
  <2>1. /\ OnRouter => Sent.to \in names \cup {Unset}
        /\ Seen.to \in names \cup {Unset}
        /\ Seen.verdict = "tproxy" => Seen.to # Unset
        /\ Queue(conf, packet).to \in {Unset} \cup strategies
    BY <1>1, NamesAre
  <2>. HIDE DEF names, strategies
  <2>2. via \in {Unset} \cup names /\ (hook = "listener" => via # Unset) BY <1>1, <2>1 DEF WayInv
  <2>3. queued \in {Unset} \cup strategies BY <1>1, <2>1 DEF WayInv
  <2>. QED BY <1>1, <2>2, <2>3 DEF WayInv, NetTypeOK, names, strategies
<1>. QED BY <1>1, WayHolds, PTL

(* The router's packets that OUTPUT marks for a section are held by it,    *)
(* and nothing that OUTPUT lets pass stands in their way.                  *)
LEMMA MarkedIs ==
    ASSUME WayInv, OnRouter, Sent.verdict = "mark"
    PROVE  /\ ~Passed(conf, packet, TRUE) /\ ~(packet.from = "mihomo" /\ conf.cgroup)
           /\ \E i \in DOMAIN conf.sections :
                /\ conf.sections[i].enabled /\ conf.sections[i].action = "proxy"
                /\ Holds(conf, packet, conf.sections[i].name)
                /\ ProxyTakes(conf.sections[i], packet)
                /\ \A j \in DOMAIN conf.sections :
                     conf.sections[j].enabled
                       /\ DestinationRule(conf, conf.sections[j], packet, TRUE).cond
                       => j = i \/ Ahead(conf, i, j)
<1>. DEFINE pass == DestinationPass(conf, packet, TRUE)
<1>1. conf \in Configs /\ packet \in Packets BY DEF WayInv
<1>2. Sent = Output(conf, packet) BY DEF Sent, Silent, Rule
<1>3. /\ pass.cond /\ Sent = pass
      /\ ~(\/ packet.from = "mihomo" /\ conf.cgroup
           \/ packet.from = "nfqws"
           \/ "self" \in packet.in \/ packet.reply \/ Exempted(conf, packet))
  BY <1>2, OutputIs
<1>4. packet.mac = Unset /\ packet.src = {}
  BY <1>1, NetAssumption DEF NetAssumption, PacketAssumption, OnRouter
<1>5. ~Passed(conf, packet, TRUE) BY <1>3, <1>4 DEF Passed, Unset
<1>. HIDE DEF pass
<1>6. pass # Silent
  <2>1. ~Silent.cond BY DEF Silent, Rule
  <2>. QED BY <1>3, <2>1
<1>7. PICK i \in DOMAIN conf.sections :
        /\ pass = DestinationRule(conf, conf.sections[i], packet, TRUE)
        /\ conf.sections[i].enabled /\ DestinationRule(conf, conf.sections[i], packet, TRUE).cond
        /\ \A j \in DOMAIN conf.sections :
             conf.sections[j].enabled /\ DestinationRule(conf, conf.sections[j], packet, TRUE).cond
               => j = i \/ Ahead(conf, i, j)
  BY <1>1, <1>6, DestinationPassIs DEF pass
<1>8. conf.sections[i].action \in {"proxy", "direct", "reject", "zapret"} BY <1>1, ConfigFacts
<1>9. DestinationSays(conf, conf.sections[i], packet, TRUE,
                      DestinationRule(conf, conf.sections[i], packet, TRUE))
  BY <1>8, DestinationRuleIs
<1>10. DestinationRule(conf, conf.sections[i], packet, TRUE).verdict = "mark" BY <1>3, <1>7
<1>11. conf.sections[i].action = "proxy" BY <1>8, <1>9, <1>10 DEF DestinationSays
<1>. QED BY <1>3, <1>5, <1>7, <1>9, <1>11 DEF DestinationSays

(* mihomo's own connections never come back to a listener, whatever the    *)
(* sections say: its cgroup's rule comes first, and if that is missing the *)
(* proxy servers' set is among the exemptions before the sections'.        *)
THEOREM ProxyDoesNotLoop == NetSpec => []NoProxyLoop
<1>1. ASSUME WayInv PROVE NoProxyLoop
  <2>. SUFFICES ASSUME packet.from = "mihomo", conf.cgroup \/ "proxy server" \in packet.in,
                       hook \in {"listener", "lost", "prerouting"}
                PROVE  FALSE
    BY DEF NoProxyLoop
  <2>1. OnRouter BY DEF OnRouter
  <2>2. Sent.verdict = "mark" BY <1>1, <2>1 DEF WayInv
  <2>3. /\ ~Passed(conf, packet, TRUE) /\ ~(packet.from = "mihomo" /\ conf.cgroup)
        /\ \E i \in DOMAIN conf.sections : Holds(conf, packet, conf.sections[i].name)
    BY <1>1, <2>1, <2>2, MarkedIs
  <2>4. "proxy server" \in packet.in /\ (packet.v6 => IPv6Routed(conf)) BY <2>3 DEF Holds
  <2>. QED BY <2>3, <2>4 DEF Passed, Exempted, Holds
<1>. QED BY <1>1, WayHolds, PTL

(* One section comes before another, or the other before it.               *)
LEMMA AheadIsStrict ==
    ASSUME NEW c \in Configs, NEW i \in DOMAIN c.sections, NEW j \in DOMAIN c.sections,
           Ahead(c, i, j)
    PROVE  ~Ahead(c, j, i) /\ c.sections[i].priority <= c.sections[j].priority
<1>1. /\ c.sections[i].priority \in Int /\ c.sections[j].priority \in Int
      /\ i \in Nat /\ j \in Nat
  BY ConfigFacts
<1>. QED BY <1>1 DEF Ahead

(* The identity passes leave a packet without an assignment alone.         *)
LEMMA Unassigned ==
    ASSUME NEW c \in Configs, NEW p, p.mac = Unset, p.src = {}
    PROVE  ~DevicePass(c, p).cond /\ ~SourcePass(c, p).cond
<1>1. \A i \in DOMAIN c.sections : ~DeviceRule(c, p, i).cond /\ ~SourceRule(c, p, i).cond
  <2>. SUFFICES ASSUME NEW i \in DOMAIN c.sections
                PROVE  ~DeviceRule(c, p, i).cond /\ ~SourceRule(c, p, i).cond
    OBVIOUS
  <2>1. c.sections[i].name # Unset BY ConfigFacts
  <2>2. ~DeviceOf(c, p, c.sections[i]) /\ ~SourceOf(c, p, c.sections[i])
    BY <2>1 DEF DeviceOf, SourceOf
  <2>. QED BY <2>2, IdentityRulesSay DEF IdentitySays
<1>2. ~Silent.cond BY DEF Silent, Rule
<1>. QED BY <1>1, <1>2, DevicePassIs, SourcePassIs

(* What was marked is taken when it comes back, or rejected.               *)
LEMMA MarkedArrives ==
    ASSUME WayInv, OnRouter, Sent.verdict = "mark", "direct" \notin packet.in
    PROVE  Seen.verdict \in {"tproxy", "reject"}
<1>. DEFINE pass == DestinationPass(conf, packet, FALSE)
            rule(i) == DestinationRule(conf, conf.sections[i], packet, FALSE)
            before(i) == DestinationRule(conf, conf.sections[i], packet, TRUE)
<1>1. conf \in Configs /\ packet \in Packets BY DEF WayInv
<1>2. PICK m \in DOMAIN conf.sections :
        /\ conf.sections[m].enabled /\ conf.sections[m].action = "proxy"
        /\ Holds(conf, packet, conf.sections[m].name)
        /\ ProxyTakes(conf.sections[m], packet)
        /\ \A j \in DOMAIN conf.sections :
             conf.sections[j].enabled /\ before(j).cond => j = m \/ Ahead(conf, m, j)
  BY MarkedIs
<1>3. packet.mac = Unset /\ packet.src = {}
  BY <1>1, NetAssumption DEF NetAssumption, PacketAssumption, OnRouter
<1>4. ~DevicePass(conf, packet).cond /\ ~SourcePass(conf, packet).cond BY <1>1, <1>3, Unassigned
<1>5. ~Holds(conf, packet, "direct") BY DEF Holds
<1>6. \A i \in DOMAIN conf.sections :
        /\ DestinationSays(conf, conf.sections[i], packet, FALSE, rule(i))
        /\ DestinationSays(conf, conf.sections[i], packet, TRUE, before(i))
        /\ conf.sections[i].action \in {"proxy", "direct", "reject", "zapret"}
  BY <1>1, ConfigFacts, DestinationRuleIs
<1>. HIDE DEF rule, before
<1>7. conf.sections[m].enabled /\ rule(m).cond BY <1>2, <1>6 DEF DestinationSays
<1>8. PICK i \in DOMAIN conf.sections :
        /\ pass = rule(i) /\ conf.sections[i].enabled /\ rule(i).cond
        /\ i = m \/ Ahead(conf, i, m)
  BY <1>1, <1>7, DestinationPassIs DEF rule
<1>9. conf.sections[i].action = "proxy"
  <2>1. CASE conf.sections[i].action # "proxy"
    <3>1. before(i).cond BY <1>6, <1>8, <2>1 DEF DestinationSays
    <3>2. i # m BY <1>2, <2>1
    <3>3. Ahead(conf, i, m) /\ Ahead(conf, m, i) BY <1>2, <1>8, <3>1, <3>2
    <3>. QED BY <1>1, <3>3, AheadIsStrict
  <2>. QED BY <2>1
<1>10. pass.cond /\ pass.verdict \in {"tproxy", "reject"}
  BY <1>6, <1>8, <1>9 DEF DestinationSays
<1>. HIDE DEF pass
<1>11. Sections(conf, packet).cond /\ Sections(conf, packet).verdict \in {"tproxy", "reject"}
  BY <1>1, <1>4, <1>5, <1>10, SectionsIs DEF pass
<1>12. Seen = Sections(conf, packet)
  <2>1. ~Passed(conf, packet, TRUE) BY MarkedIs
  <2>. QED BY <1>11, <2>1, PreroutingIs DEF Seen
<1>. QED BY <1>11, <1>12

(* Where a packet is that has arrived.                                     *)
LEMMA ArrivedIs ==
    ASSUME WayInv, Arrived, OnRouter => Sent.verdict = "mark"
    PROVE  /\ Seen.verdict = "tproxy" => hook = "listener" /\ via = Seen.to
           /\ Seen.verdict = "reject" => hook = "rejected"
           /\ ~OnRouter /\ Seen.verdict \notin {"tproxy", "reject"} => hook = "direct"
BY DEF WayInv, Arrived

(* The device decides.                                                     *)
LEMMA DeviceDecidesIt == WayInv => DeviceDecides
<1>. SUFFICES ASSUME WayInv, Arrived, ~OnRouter, ~Skips, NEW s \in Enabled, packet.mac = s.name
              PROVE  /\ s.action = "reject" => hook = "rejected"
                     /\ s.action = "direct" => hook = "direct"
                     /\ s.action = "proxy" /\ MarksIt(s) => hook = "listener" /\ via = s.name
  BY DEF DeviceDecides
<1>1. conf \in Configs /\ packet \in Packets BY DEF WayInv
<1>2. PICK i \in DOMAIN conf.sections : s = conf.sections[i] /\ s.enabled BY DEF Enabled
<1>. DEFINE d == DeviceRule(conf, packet, i)
<1>3. packet.v6 => IPv6Routed(conf) BY DEF Skips
<1>4. DeviceOf(conf, packet, s) BY <1>3 DEF DeviceOf
<1>5. IdentitySays(s, DeviceOf(conf, packet, s), packet, d) BY <1>1, <1>2, IdentityRulesSay
<1>6. s.action = "proxy" => (ProxyTakes(s, packet) <=> MarksIt(s)) BY <1>1, <1>2, ProxyTakesIs
<1>7. d.cond => DevicePass(conf, packet) = d BY <1>1, <1>2, DevicePassIs
<1>. HIDE DEF d
<1>8. d.cond => Sections(conf, packet) = d BY <1>1, <1>7, SectionsIs
<1>9. ~Passed(conf, packet, OnRouter) BY DEF Passed, Exempted, Skips, Holds
<1>10. d.cond => Seen = d
  <2>1. OnRouter \in BOOLEAN BY DEF OnRouter
  <2>. QED BY <1>8, <1>9, <2>1, PreroutingIs DEF Seen
<1>. QED BY <1>4, <1>5, <1>6, <1>10, ArrivedIs DEF IdentitySays

(* A section that takes the packet, and ahead of which none does, is what  *)
(* the destination pass finds, at either hook.                             *)
LEMMA PriorityFinds ==
    ASSUME conf \in Configs, packet \in Packets, NEW m \in DOMAIN conf.sections,
           NEW output \in BOOLEAN,
           conf.sections[m].enabled, conf.sections[m].name \in packet.in,
           packet.v6 => IPv6Routed(conf), packet.in \cap {"direct", "reject"} = {},
           \/ conf.sections[m].action = "proxy" /\ MarksIt(conf.sections[m])
           \/ conf.sections[m].action = "zapret" /\ ZapretTakes(conf.sections[m]),
           \A t \in Enabled \ {conf.sections[m]} : t.priority <= conf.sections[m].priority =>
             ~(t.action = "proxy" /\ MarksIt(t)) /\ ~(t.action = "zapret" /\ ZapretTakes(t))
             /\ ~(t.action = "proxy" /\ t.udpMode = "block_quic")
    PROVE  /\ DestinationPass(conf, packet, output)
                = DestinationRule(conf, conf.sections[m], packet, output)
           /\ DestinationRule(conf, conf.sections[m], packet, output).cond
<1>. DEFINE rule(i) == DestinationRule(conf, conf.sections[i], packet, output)
            s == conf.sections[m]
<1>1. \A i \in DOMAIN conf.sections :
        /\ DestinationSays(conf, conf.sections[i], packet, output, rule(i))
        /\ conf.sections[i].action \in {"proxy", "direct", "reject", "zapret"}
  BY ConfigFacts, DestinationRuleIs
<1>2. \A i \in DOMAIN conf.sections :
        /\ conf.sections[i].action = "proxy" =>
             (ProxyTakes(conf.sections[i], packet) <=> MarksIt(conf.sections[i]))
        /\ conf.sections[i].action = "zapret" =>
             (Claims(conf, conf.sections[i], packet) <=> ZapretTakes(conf.sections[i]))
  BY ProxyTakesIs, ClaimsIs
<1>3. /\ Holds(conf, packet, s.name)
      /\ ~Holds(conf, packet, "direct") /\ ~Holds(conf, packet, "reject")
  BY DEF Holds
<1>. HIDE DEF rule
<1>4. rule(m).cond
  <2>1. DestinationSays(conf, s, packet, output, rule(m)) BY <1>1
  <2>2. CASE s.action = "proxy" /\ MarksIt(s)
    <3>1. ProxyTakes(s, packet) BY <1>2, <2>2
    <3>. QED BY <1>3, <2>1, <2>2, <3>1 DEF DestinationSays
  <2>3. CASE s.action = "zapret" /\ ZapretTakes(s)
    <3>1. Claims(conf, s, packet) BY <1>2, <2>3
    <3>. QED BY <1>3, <2>1, <2>3, <3>1 DEF DestinationSays
  <2>. QED BY <2>2, <2>3
<1>5. PICK i \in DOMAIN conf.sections :
        /\ DestinationPass(conf, packet, output) = rule(i)
        /\ conf.sections[i].enabled /\ rule(i).cond
        /\ i = m \/ Ahead(conf, i, m)
  BY <1>4, DestinationPassIs DEF rule
<1>6. CASE i # m
  <2>. DEFINE t == conf.sections[i]
  <2>1. t.priority <= s.priority BY <1>5, <1>6, AheadIsStrict
  <2>2. t # s BY <1>6, ConfigFacts
  <2>3. t \in Enabled \ {s} BY <1>5, <2>2 DEF Enabled
  <2>4. /\ ~(t.action = "proxy" /\ MarksIt(t)) /\ ~(t.action = "zapret" /\ ZapretTakes(t))
        /\ ~(t.action = "proxy" /\ t.udpMode = "block_quic")
    BY <2>1, <2>3
  <2>5. ~(t.action = "proxy" /\ BlocksQUIC(t, packet)) BY <2>4 DEF BlocksQUIC
  <2>6. DestinationSays(conf, t, packet, output, rule(i)) BY <1>1
  <2>7. t.action \in {"proxy", "direct", "reject", "zapret"} BY <1>1
  <2>8. /\ t.action = "proxy" => ~ProxyTakes(t, packet)
        /\ t.action = "zapret" => ~Claims(conf, t, packet)
    BY <1>2, <2>4
  <2>. HIDE DEF t
  <2>. QED BY <1>3, <1>5, <2>5, <2>6, <2>7, <2>8 DEF DestinationSays, NFTSet
<1>7. CASE i = m BY <1>4, <1>5, <1>7 DEF rule
<1>. QED BY <1>6, <1>7

(* Priority decides.                                                       *)
LEMMA PriorityDecidesIt == WayInv => PriorityDecides
<1>. SUFFICES ASSUME WayInv, Arrived, ~Skips, packet.mac = Unset, packet.src = {},
                     packet.from \in {"client", "router"}, OnRouter => conf.routerOutput,
                     packet.in \cap {"direct", "reject"} = {},
                     NEW s \in Enabled, s.name \in packet.in,
                     (s.action = "proxy" /\ MarksIt(s)) \/ (s.action = "zapret" /\ ZapretTakes(s)),
                     \A t \in Enabled \ {s} : t.priority <= s.priority =>
                       ~(t.action = "proxy" /\ MarksIt(t))
                       /\ ~(t.action = "zapret" /\ ZapretTakes(t))
                       /\ ~(t.action = "proxy" /\ t.udpMode = "block_quic")
              PROVE  \/ s.action = "proxy" /\ hook = "listener" /\ via = s.name
                     \/ s.action = "proxy" /\ s.udpMode = "block_quic" /\ packet.udp
                        /\ packet.port = 443 /\ hook = "rejected"
                     \/ s.action = "zapret" /\ hook = "direct"
  BY DEF PriorityDecides
<1>1. conf \in Configs /\ packet \in Packets BY DEF WayInv
<1>2. PICK m \in DOMAIN conf.sections : s = conf.sections[m] /\ s.enabled BY DEF Enabled
<1>3. packet.v6 => IPv6Routed(conf) BY DEF Skips
<1>. DEFINE rule(output) == DestinationRule(conf, s, packet, output)
<1>4. \A output \in BOOLEAN :
        DestinationPass(conf, packet, output) = rule(output) /\ rule(output).cond
  BY <1>1, <1>2, <1>3, PriorityFinds
<1>5. \A output \in BOOLEAN : DestinationSays(conf, s, packet, output, rule(output))
  BY <1>1, <1>2, ConfigFacts, DestinationRuleIs
<1>. HIDE DEF rule
<1>6. ~DevicePass(conf, packet).cond /\ ~SourcePass(conf, packet).cond BY <1>1, Unassigned
<1>7. Sections(conf, packet) = rule(FALSE)
  <2>1. ~Holds(conf, packet, "reject") /\ ~Holds(conf, packet, "direct") BY DEF Holds
  <2>. QED BY <1>1, <1>4, <1>6, <2>1, SectionsIs
<1>8. ~Passed(conf, packet, OnRouter) BY DEF Passed, Exempted, Skips, Holds
<1>9. Seen = rule(FALSE)
  <2>1. OnRouter \in BOOLEAN BY DEF OnRouter
  <2>. QED BY <1>4, <1>7, <1>8, <2>1, PreroutingIs DEF Seen
<1>10. OnRouter => Sent = rule(TRUE)
  <2>. SUFFICES ASSUME OnRouter PROVE Sent = rule(TRUE) OBVIOUS
  <2>1. Sent = Output(conf, packet) BY DEF Sent
  <2>2. ~(\/ packet.from = "mihomo" /\ conf.cgroup
          \/ packet.from = "nfqws"
          \/ "self" \in packet.in \/ packet.reply \/ Exempted(conf, packet))
    BY <1>8 DEF Passed, OnRouter
  <2>. QED BY <1>4, <2>1, <2>2, OutputIs
<1>11. CASE s.action = "zapret"
  <2>1. rule(TRUE).verdict = "return" /\ rule(FALSE).verdict = "return"
    BY <1>5, <1>11 DEF DestinationSays
  <2>2. hook = "direct" BY <1>9, <1>10, <2>1 DEF WayInv, Arrived
  <2>. QED BY <1>11, <2>2
<1>12. CASE s.action = "proxy"
  <2>1. rule(TRUE).verdict = "mark" BY <1>5, <1>12 DEF DestinationSays
  <2>2. OnRouter => Sent.verdict = "mark" BY <1>10, <2>1
  <2>3. /\ rule(FALSE).to = s.name
        /\ rule(FALSE).verdict = IF BlocksQUIC(s, packet) THEN "reject" ELSE "tproxy"
    BY <1>4, <1>5, <1>12 DEF DestinationSays
  <2>4. CASE BlocksQUIC(s, packet)
    <3>1. hook = "rejected" BY <1>9, <2>2, <2>3, <2>4, ArrivedIs
    <3>. QED BY <1>12, <2>4, <3>1 DEF BlocksQUIC
  <2>5. CASE ~BlocksQUIC(s, packet)
    <3>1. hook = "listener" /\ via = s.name BY <1>9, <2>2, <2>3, <2>5, ArrivedIs
    <3>. QED BY <1>12, <3>1
  <2>. QED BY <2>4, <2>5
<1>. QED BY <1>11, <1>12

(* What is kept from the proxy is queued.                                  *)
LEMMA QueueFollows == WayInv => ClaimIsQueued
<1>. SUFFICES ASSUME WayInv, hook = "direct", ~packet.reply
              PROVE  /\ (via # Unset /\ Section(via).action = "zapret" /\ packet.from # "nfqws") =>
                          \E k \in DOMAIN Section(via).strategies :
                            queued = conf.strategies[Section(via).strategies[k]].name
                     /\ packet.from = "nfqws" => queued = Unset
  BY DEF ClaimIsQueued
<1>1. conf \in Configs /\ packet \in Packets /\ queued = Queue(conf, packet).to BY DEF WayInv
<1>2. packet.from = "nfqws" => queued = Unset
  <2>1. packet.from = "nfqws" => \A s : ~Queued(conf, packet, s) BY DEF Queued, Fresh
  <2>. QED BY <1>1, <2>1, QueueIs
<1>3. ASSUME via # Unset, Section(via).action = "zapret", packet.from # "nfqws"
      PROVE  \E k \in DOMAIN Section(via).strategies :
               queued = conf.strategies[Section(via).strategies[k]].name
  <2>. DEFINE rule(i, output) == DestinationRule(conf, conf.sections[i], packet, output)
  <2>1. \A i \in DOMAIN conf.sections :
          via = conf.sections[i].name => Section(via) = conf.sections[i]
    <3>. SUFFICES ASSUME NEW i \in DOMAIN conf.sections, via = conf.sections[i].name
                  PROVE  Section(via) = conf.sections[i]
      OBVIOUS
    <3>1. \A s \in {conf.sections[j] : j \in DOMAIN conf.sections} :
            s.name = via => s = conf.sections[i]
      BY <1>1, ConfigFacts
    <3>. QED BY <3>1 DEF Section
  <2>2. \E output \in BOOLEAN :
          /\ DestinationPass(conf, packet, output).cond
          /\ via = DestinationPass(conf, packet, output).to
    <3>1. CASE OnRouter
      <4>1. via = Sent.to BY <3>1 DEF WayInv
      <4>2. Sent = Output(conf, packet) BY <1>3, <4>1 DEF Sent, Silent, Rule
      <4>. QED BY <1>3, <4>1, <4>2, OutputIs
    <3>2. CASE ~OnRouter
      <4>1. via = Seen.to BY <3>2 DEF WayInv
      <4>2. OnRouter \in BOOLEAN BY DEF OnRouter
      <4>3. /\ via = Sections(conf, packet).to /\ Sections(conf, packet).cond
            /\ Sections(conf, packet) \in {DevicePass(conf, packet), SourcePass(conf, packet),
                                           DestinationPass(conf, packet, FALSE)}
        BY <1>1, <1>3, <4>1, <4>2, PreroutingIs, SectionsIs DEF Seen
      <4>4. ASSUME NEW d \in {DevicePass(conf, packet), SourcePass(conf, packet)},
                   d.cond, via = d.to
            PROVE  FALSE
        <5>1. ~Silent.cond BY DEF Silent, Rule
        <5>2. PICK i \in DOMAIN conf.sections :
                d \in {DeviceRule(conf, packet, i), SourceRule(conf, packet, i)}
          BY <1>1, <4>4, <5>1, DevicePassIs, SourcePassIs
        <5>3. via = conf.sections[i].name /\ conf.sections[i].action # "zapret"
          BY <1>1, <4>4, <5>2, IdentityRulesSay DEF IdentitySays
        <5>. QED BY <1>3, <2>1, <5>3
      <4>. QED BY <4>3, <4>4
    <3>. QED BY <3>1, <3>2
  <2>3. PICK output \in BOOLEAN :
          /\ DestinationPass(conf, packet, output).cond
          /\ via = DestinationPass(conf, packet, output).to
    BY <2>2
  <2>4. DestinationPass(conf, packet, output) # Silent
    <3>1. ~Silent.cond BY DEF Silent, Rule
    <3>. QED BY <2>3, <3>1
  <2>5. PICK i \in DOMAIN conf.sections :
          /\ DestinationPass(conf, packet, output) = rule(i, output)
          /\ conf.sections[i].enabled /\ rule(i, output).cond
          /\ \A j \in DOMAIN conf.sections :
               conf.sections[j].enabled /\ rule(j, output).cond => j = i \/ Ahead(conf, i, j)
    BY <1>1, <2>4, DestinationPassIs
  <2>6. via = conf.sections[i].name
    <3>1. DestinationSays(conf, conf.sections[i], packet, output, rule(i, output))
      BY <1>1, ConfigFacts, DestinationRuleIs
    <3>. QED BY <2>3, <2>5, <3>1 DEF DestinationSays
  <2>7. Section(via) = conf.sections[i] BY <2>1, <2>6
  <2>8. Fresh(packet) BY <1>3 DEF Fresh
  <2>9. conf.sections[i].action = "zapret" BY <1>3, <2>7
  <2>10. \E k \in DOMAIN conf.sections[i].strategies :
           Queue(conf, packet).to = conf.strategies[conf.sections[i].strategies[k]].name
    BY <1>1, <2>5, <2>8, <2>9, ClaimedIsQueued
  <2>. QED BY <1>1, <2>7, <2>10
<1>. QED BY <1>2, <1>3

(* One section decides on each packet, and the same at every hook          *)
(* (NFTablesWithNative): devices first, then priority; what OUTPUT marks   *)
(* PREROUTING takes; and what a Zapret section's claim keeps from the      *)
(* proxy the queue's rules, cut to the same ports, hand to nfqws.          *)
THEOREM OneSectionDecides == NetSpec => []Dispatched
<1>1. ASSUME WayInv PROVE MarkedIsDispatched
  <2>1. hook = "lost" =>
          OnRouter /\ Sent.verdict = "mark" /\ Seen.verdict \notin {"tproxy", "reject"}
    BY <1>1 DEF WayInv
  <2>. QED BY <1>1, <2>1, MarkedArrives DEF MarkedIsDispatched
<1>2. WayInv => Dispatched
  BY <1>1, DeviceDecidesIt, PriorityDecidesIt, QueueFollows DEF Dispatched
<1>. QED BY <1>2, WayHolds, PTL

-----------------------------------------------------------------------------
(* Counters                                                                *)

AtMostOne(S) == S = {} \/ \E x : S = {x}

Registry == [hits : 0..MaxEvents, status : SUBSET Statuses]
Places == {"run", "read", "write", "write anew", "reset"}

(* The types, but for the lock.                                            *)
Shape ==
    /\ msFile \in Registry \cup {Corrupt}
    /\ msLocal \in [Processes -> Registry]
    /\ msKeep \in [Processes -> SUBSET Statuses]
    /\ msAt \in [Processes -> Places]
    /\ msNext \in [Processes -> Registry]
    /\ msLock \subseteq Commands
    /\ msCounted \in 0..MaxEvents

(* Who is in a dump holds the lock, alone; the daemon never is.            *)
Exclusion ==
    /\ \A p \in Processes : msAt[p] # "run" <=> p \in msLock
    /\ \A p, q \in msLock : p = q

(* A process that recorded a status keeps this one only; the daemon        *)
(* records none.                                                           *)
Own(p) == /\ AtMostOne(msLocal[p].status)
          /\ msKeep[p] = msLocal[p].status
Recorded == /\ \A p \in Processes : Own(p)
            /\ msLocal[Daemon].status = {}

(* What is about to be written is the file, or nothing, and one's own.     *)
Merged ==
    \A p \in Processes :
      /\ msAt[p] = "write" => /\ msFile # Corrupt
                              /\ msNext[p].hits = msFile.hits + msLocal[p].hits
      /\ msAt[p] = "write anew" => msNext[p].hits = msLocal[p].hits
      /\ AtMostOne(msNext[p].status)

Sum == /\ IsFiniteSet(AllUnwritten)
       /\ msCounted = msFile.hits + Cardinality(AllUnwritten)

MetricsInv == Shape /\ Exclusion /\ Recorded /\ Merged /\ Sum /\ AtMostOne(msFile.status)

(* The observations of one process.                                        *)
Mine(p) == {p} \X (1..Unwritten(p))

-----------------------------------------------------------------------------
(* Counting                                                                *)

LEMMA FewAreCounted ==
    ASSUME NEW S, AtMostOne(S)
    PROVE  Cardinality(S) <= 1
  <1>1. Cardinality({}) = 0 /\ \A x : Cardinality({x}) = 1
    BY FS_EmptySet, FS_Singleton
  <1>2. S = {} \/ \E x : S = {x}
    BY DEF AtMostOne
  <1>3. CASE S = {}
    BY <1>1, <1>3
  <1>4. ASSUME NEW x, S = {x} PROVE Cardinality(S) <= 1
    <2>1. Cardinality(S) = 1
      BY <1>1, <1>4
    <2>. QED BY <2>1
  <1>. QED BY <1>2, <1>3, <1>4

LEMMA Members ==
    \A p, n : <<p, n>> \in AllUnwritten <=> p \in Processes /\ n \in 1..Unwritten(p)
  BY DEF AllUnwritten

LEMMA ArePairs ==
    \A x \in AllUnwritten : x = <<x[1], x[2]>>
  BY DEF AllUnwritten

LEMMA MineCounted ==
    ASSUME NEW p \in Processes, Unwritten(p) \in Nat
    PROVE  /\ IsFiniteSet(Mine(p)) /\ Cardinality(Mine(p)) = Unwritten(p)
           /\ Mine(p) \subseteq AllUnwritten
  <1>1. IsFiniteSet(1..Unwritten(p)) /\ Cardinality(1..Unwritten(p)) = Unwritten(p)
    BY FS_Interval
  <1>2. IsFiniteSet({p}) /\ Cardinality({p}) = 1
    BY FS_Singleton
  <1>3. /\ IsFiniteSet({p} \X (1..Unwritten(p)))
        /\ Cardinality({p} \X (1..Unwritten(p))) = 1 * Unwritten(p)
    BY <1>1, <1>2, FS_Product
  <1>. QED BY <1>3 DEF Mine, AllUnwritten

LEMMA BoundType == 0..MaxEvents \subseteq Nat
  BY DaemonAssumption

LEMMA UnwrittenType == Shape => \A p \in Processes : Unwritten(p) \in Nat
  BY BoundType DEF Shape, Registry, Unwritten

(* What a process has not written is part of what was counted.             *)
LEMMA UnwrittenIsCounted ==
    ASSUME MetricsInv, NEW p \in Processes
    PROVE  /\ msFile.hits \in Nat /\ Cardinality(AllUnwritten) \in Nat
           /\ Unwritten(p) \in Nat /\ Unwritten(p) <= Cardinality(AllUnwritten)
  <1>1. msFile.hits \in Nat
    BY BoundType DEF MetricsInv, Shape, Registry, Corrupt
  <1>2. Unwritten(p) \in Nat
    BY UnwrittenType DEF MetricsInv
  <1>3. IsFiniteSet(AllUnwritten) /\ Cardinality(AllUnwritten) \in Nat
    BY FS_CardinalityType DEF MetricsInv, Sum
  <1>4. Cardinality(Mine(p)) <= Cardinality(AllUnwritten)
    BY <1>2, <1>3, MineCounted, FS_Subset
  <1>. QED BY <1>1, <1>2, <1>3, <1>4, MineCounted

(* If nobody's unwritten observations change, nor does their number.       *)
LEMMA SameUnwritten ==
    ASSUME \A q \in Processes : Unwritten(q)' = Unwritten(q)
    PROVE  AllUnwritten' = AllUnwritten
  BY DEF AllUnwritten

(* If one process's go, their number goes down by as many.                 *)
LEMMA MineGone ==
    ASSUME MetricsInv, NEW p \in Processes, Unwritten(p)' = 0,
           \A q \in Processes \ {p} : Unwritten(q)' = Unwritten(q)
    PROVE  /\ IsFiniteSet(AllUnwritten')
           /\ Cardinality(AllUnwritten') = Cardinality(AllUnwritten) - Unwritten(p)
  <1>1. AllUnwritten' = AllUnwritten \ Mine(p)
    BY DEF AllUnwritten, Mine
  <1>2. Mine(p) \subseteq AllUnwritten /\ Cardinality(Mine(p)) = Unwritten(p)
    BY MineCounted, UnwrittenType DEF MetricsInv
  <1>3. AllUnwritten \cap Mine(p) = Mine(p)
    BY <1>2
  <1>4. /\ IsFiniteSet(AllUnwritten \ Mine(p))
        /\ Cardinality(AllUnwritten \ Mine(p)) =
             Cardinality(AllUnwritten) - Cardinality(AllUnwritten \cap Mine(p))
    BY FS_Difference DEF MetricsInv, Sum
  <1>. QED BY <1>1, <1>2, <1>3, <1>4

LEMMA OneMore ==
    ASSUME MetricsInv, NEW p \in Processes, Unwritten(p)' = Unwritten(p) + 1,
           \A q \in Processes \ {p} : Unwritten(q)' = Unwritten(q)
    PROVE  /\ IsFiniteSet(AllUnwritten')
           /\ Cardinality(AllUnwritten') = Cardinality(AllUnwritten) + 1
  <1>1. Unwritten(p) \in Nat
    BY UnwrittenType DEF MetricsInv
  <1>2. AllUnwritten' = AllUnwritten \cup {<<p, Unwritten(p) + 1>>}
    <2>1. 1..(Unwritten(p) + 1) = (1..Unwritten(p)) \cup {Unwritten(p) + 1}
      BY <1>1
    <2>. QED BY <1>1, <2>1 DEF AllUnwritten
  <1>3. <<p, Unwritten(p) + 1>> \notin AllUnwritten
    BY <1>1, Members
  <1>. QED BY <1>2, <1>3, FS_AddElement DEF MetricsInv, Sum

-----------------------------------------------------------------------------
(* The steps                                                               *)

LEMMA MetricsStart == MetricsInit => MetricsInv
  <1>. SUFFICES ASSUME MetricsInit PROVE MetricsInv
    OBVIOUS
  <1>1. Shape
    BY DaemonAssumption DEF MetricsInit, Shape, NoSamples, Registry, Places
  <1>2. Exclusion /\ Recorded /\ Merged /\ AtMostOne(msFile.status)
    BY DEF MetricsInit, NoSamples, Exclusion, Recorded, Own, Merged, AtMostOne, Processes
  <1>3. AllUnwritten = {}
    BY DEF MetricsInit, NoSamples, AllUnwritten, Unwritten
  <1>4. Sum
    BY <1>3, FS_EmptySet DEF MetricsInit, NoSamples, Sum
  <1>. QED BY <1>1, <1>2, <1>3, <1>4 DEF MetricsInv

LEMMA ObserveStep ==
    ASSUME MetricsInv, NEW p \in Processes, Observe(p)
    PROVE  MetricsInv'
  <1>0. msLocal[p].hits + 1 \in 0..MaxEvents
    <2>1. Unwritten(p) = msLocal[p].hits
      BY DEF Observe, Unwritten
    <2>2. /\ msCounted = msFile.hits + Cardinality(AllUnwritten)
          /\ msCounted < MaxEvents /\ msCounted \in 0..MaxEvents
      BY DEF Observe, MetricsInv, Sum, Shape
    <2>. QED BY <2>1, <2>2, UnwrittenIsCounted, DaemonAssumption
  <1>1. /\ msLocal' \in [Processes -> Registry]
        /\ msLocal'[p].hits = msLocal[p].hits + 1
        /\ \A q \in Processes : msLocal'[q].status = msLocal[q].status
        /\ \A q \in Processes \ {p} : msLocal'[q] = msLocal[q]
    BY <1>0 DEF Observe, MetricsInv, Shape, Registry
  <1>2. Unwritten(p)' = Unwritten(p) + 1
    BY <1>1 DEF Observe, Unwritten
  <1>3. \A q \in Processes \ {p} : Unwritten(q)' = Unwritten(q)
    BY <1>1 DEF Observe, Unwritten
  <1>4. Sum'
    BY <1>2, <1>3, OneMore, UnwrittenIsCounted DEF Observe, Sum, MetricsInv
  <1>5. Shape'
    BY <1>1, DaemonAssumption DEF Observe, MetricsInv, Shape
  <1>6. Exclusion' /\ Merged' /\ AtMostOne(msFile.status)'
    BY <1>1 DEF Observe, MetricsInv, Exclusion, Merged
  <1>7. Recorded'
    BY <1>1, DaemonAssumption DEF Observe, MetricsInv, Recorded, Own, Processes
  <1>. QED BY <1>4, <1>5, <1>6, <1>7 DEF MetricsInv

LEMMA RecordStatusStep ==
    ASSUME MetricsInv, NEW p \in Commands, NEW s \in Statuses, RecordStatus(p, s)
    PROVE  MetricsInv'
  <1>0. p \in Processes /\ p # Daemon
    BY DaemonAssumption DEF Processes
  <1>1. /\ msLocal' \in [Processes -> Registry]
        /\ msLocal'[p].status = {s}
        /\ \A q \in Processes : msLocal'[q].hits = msLocal[q].hits
        /\ \A q \in Processes \ {p} : msLocal'[q] = msLocal[q]
    BY <1>0 DEF RecordStatus, SetAndKeep, MetricsInv, Shape, Registry
  <1>2. /\ msKeep' \in [Processes -> SUBSET Statuses]
        /\ msKeep'[p] = {s}
        /\ \A q \in Processes \ {p} : msKeep'[q] = msKeep[q]
    BY <1>0 DEF RecordStatus, MetricsInv, Shape
  <1>3. \A q \in Processes : Unwritten(q)' = Unwritten(q)
    BY <1>1 DEF RecordStatus, Unwritten
  <1>4. Sum'
    BY <1>3, SameUnwritten DEF RecordStatus, Sum, MetricsInv
  <1>5. Shape'
    BY <1>1, <1>2 DEF RecordStatus, MetricsInv, Shape
  <1>6. Exclusion' /\ Merged' /\ AtMostOne(msFile.status)'
    BY <1>1 DEF RecordStatus, MetricsInv, Exclusion, Merged
  <1>7. Recorded'
    BY <1>0, <1>1, <1>2 DEF RecordStatus, MetricsInv, Recorded, Own, AtMostOne, Processes
  <1>. QED BY <1>4, <1>5, <1>6, <1>7 DEF MetricsInv

LEMMA DumpLockStep ==
    ASSUME MetricsInv, NEW p \in Commands, DumpLock(p)
    PROVE  MetricsInv'
  <1>0. p \in Processes
    BY DEF Processes
  <1>1. /\ msAt' \in [Processes -> Places] /\ msAt'[p] = "read"
        /\ \A q \in Processes \ {p} : msAt'[q] = msAt[q]
    BY <1>0 DEF DumpLock, MetricsInv, Shape, Places
  <1>2. \A q \in Processes : Unwritten(q)' = Unwritten(q)
    BY <1>1 DEF DumpLock, Unwritten
  <1>3. Sum'
    BY <1>2, SameUnwritten DEF DumpLock, Sum, MetricsInv
  <1>4. Shape'
    BY <1>1 DEF DumpLock, MetricsInv, Shape
  <1>5. Exclusion'
    BY <1>0, <1>1 DEF DumpLock, CanLock, MetricsInv, Exclusion
  <1>6. Merged' /\ Recorded' /\ AtMostOne(msFile.status)'
    BY <1>1 DEF DumpLock, MetricsInv, Merged, Recorded, Own
  <1>. QED BY <1>3, <1>4, <1>5, <1>6 DEF MetricsInv

(* The sum of what is in the file and one's own is of one status.          *)
LEMMA MergeFacts ==
    ASSUME MetricsInv, NEW p \in Processes, NEW prior \in Registry, AtMostOne(prior.status),
           prior.hits + msLocal[p].hits <= MaxEvents
    PROVE  LET sum == MergePersistent(prior, msLocal[p], msKeep[p]) IN
           /\ sum \in Registry /\ sum.hits = prior.hits + msLocal[p].hits
           /\ AtMostOne(sum.status)
  <1>1. msLocal[p] \in Registry /\ Own(p)
    BY DEF MetricsInv, Shape, Recorded
  <1>2. prior.hits + msLocal[p].hits \in 0..MaxEvents
    BY <1>1, BoundType DEF Registry
  <1>. QED BY <1>1, <1>2 DEF MergePersistent, Own, AtMostOne, Registry

LEMMA DumpReadStep ==
    ASSUME MetricsInv, NEW p \in Commands, DumpRead(p)
    PROVE  MetricsInv'
  <1>0. p \in Processes
    BY DEF Processes
  <1>1. PICK readable \in BOOLEAN :
          LET anew == ~readable \/ msFile = Corrupt
              prior == IF anew THEN NoSamples ELSE msFile IN
          /\ msNext' = [msNext EXCEPT ![p] = MergePersistent(prior, msLocal[p], msKeep[p])]
          /\ msAt' = [msAt EXCEPT ![p] = IF anew THEN "write anew" ELSE "write"]
    BY DEF DumpRead
  <1>. DEFINE anew == ~readable \/ msFile = Corrupt
              prior == IF anew THEN NoSamples ELSE msFile
  <1>2. prior \in Registry /\ AtMostOne(prior.status)
    <2>1. NoSamples \in Registry /\ NoSamples.status = {}
      BY DaemonAssumption DEF Registry, NoSamples
    <2>2. msFile # Corrupt => msFile \in Registry /\ AtMostOne(msFile.status)
      BY DEF MetricsInv, Shape
    <2>. QED BY <2>1, <2>2 DEF AtMostOne
  <1>13. prior.hits + msLocal[p].hits <= MaxEvents
    <2>1. Unwritten(p) = msLocal[p].hits /\ (prior.hits = 0 \/ prior = msFile)
      BY DEF DumpRead, Unwritten, NoSamples
    <2>2. msCounted = msFile.hits + Cardinality(AllUnwritten) /\ msCounted \in 0..MaxEvents
      BY DEF MetricsInv, Sum, Shape
    <2>. QED BY <1>0, <2>1, <2>2, UnwrittenIsCounted, DaemonAssumption
  <1>3. /\ msNext' \in [Processes -> Registry]
        /\ msNext'[p].hits = prior.hits + msLocal[p].hits
        /\ AtMostOne(msNext'[p].status)
        /\ \A q \in Processes \ {p} : msNext'[q] = msNext[q]
    BY <1>0, <1>1, <1>2, <1>13, MergeFacts DEF MetricsInv, Shape
  <1>4. /\ msAt' \in [Processes -> Places]
        /\ msAt'[p] = IF anew THEN "write anew" ELSE "write"
        /\ \A q \in Processes \ {p} : msAt'[q] = msAt[q]
    BY <1>0, <1>1 DEF MetricsInv, Shape, Places
  <1>5. \A q \in Processes : Unwritten(q)' = Unwritten(q)
    BY <1>4 DEF DumpRead, Unwritten
  <1>6. Sum'
    BY <1>5, SameUnwritten DEF DumpRead, Sum, MetricsInv
  <1>7. Shape'
    BY <1>3, <1>4 DEF DumpRead, MetricsInv, Shape
  <1>8. Exclusion' /\ Recorded' /\ AtMostOne(msFile.status)'
    BY <1>4 DEF DumpRead, MetricsInv, Exclusion, Recorded, Own
  <1>9. msLocal[p].hits \in Nat
    BY <1>0, BoundType DEF MetricsInv, Shape, Registry
  <1>10. \A q \in Processes : msAt'[q] = "write" => msFile' # Corrupt /\ msFile' = msFile
    BY <1>4 DEF DumpRead, MetricsInv, Merged
  <1>11. ASSUME NEW q \in Processes
        PROVE  /\ msAt'[q] = "write" => msNext'[q].hits = msFile'.hits + msLocal'[q].hits
               /\ msAt'[q] = "write anew" => msNext'[q].hits = msLocal'[q].hits
               /\ AtMostOne(msNext'[q].status)
    <2>1. CASE q = p
      <3>1. IF anew THEN prior.hits = 0 ELSE prior = msFile
        BY DEF NoSamples
      <3>2. UNCHANGED <<msFile, msLocal>>
        BY DEF DumpRead
      <3>3. msNext'[p].hits = prior.hits + msLocal[p].hits
        BY <1>3
      <3>4. msAt'[p] = IF anew THEN "write anew" ELSE "write"
        BY <1>4
      <3>5. AtMostOne(msNext'[p].status)
        BY <1>3
      <3>. HIDE DEF anew, prior
      <3>6. CASE anew
        <4>1. msNext'[p].hits = msLocal'[p].hits
          BY <1>9, <3>1, <3>2, <3>3, <3>6
        <4>. QED BY <2>1, <3>4, <3>5, <3>6, <4>1
      <3>7. CASE ~anew
        <4>1. msNext'[p].hits = msFile'.hits + msLocal'[p].hits
          BY <3>1, <3>2, <3>3, <3>7
        <4>. QED BY <2>1, <3>4, <3>5, <3>7, <4>1
      <3>. QED BY <3>6, <3>7
    <2>2. CASE q # p
      BY <1>3, <1>4, <2>2 DEF DumpRead, MetricsInv, Merged
    <2>. QED BY <2>1, <2>2
  <1>12. Merged'
    BY <1>10, <1>11 DEF Merged, AtMostOne
  <1>. QED BY <1>6, <1>7, <1>8, <1>12 DEF MetricsInv

LEMMA DumpWriteStep ==
    ASSUME MetricsInv, NEW p \in Commands, DumpWrite(p)
    PROVE  MetricsInv'
  <1>0. p \in Processes /\ msAt[p] \in {"write", "write anew"} /\ Unwritten(p) = msLocal[p].hits
    BY DEF Processes, DumpWrite, Unwritten
  <1>. DEFINE Written == /\ msFile' = msNext[p] /\ msAt' = [msAt EXCEPT ![p] = "reset"]
                         /\ msCounted' = IF msAt[p] = "write" THEN msCounted
                                         ELSE msCounted - msFile.hits
                         /\ UNCHANGED msLock
              Refused == /\ msAt' = [msAt EXCEPT ![p] = "run"] /\ msLock' = msLock \ {p}
                         /\ UNCHANGED <<msFile, msCounted>>
  <1>1. Written \/ Refused
    BY DEF DumpWrite
  <1>2. UNCHANGED <<msLocal, msKeep, msNext>>
    BY DEF DumpWrite
  <1>3. msAt' \in [Processes -> Places] /\ \A q \in Processes \ {p} : msAt'[q] = msAt[q]
    BY <1>0, <1>1 DEF MetricsInv, Shape, Places
  <1>4. Recorded'
    BY <1>2 DEF MetricsInv, Recorded, Own
  <1>5. CASE Refused
    <2>1. msAt'[p] = "run"
      BY <1>0, <1>5 DEF MetricsInv, Shape
    <2>2. \A q \in Processes : Unwritten(q)' = Unwritten(q)
      BY <1>0, <1>2, <1>3, <2>1 DEF Unwritten
    <2>3. Sum'
      BY <1>5, <2>2, SameUnwritten DEF Sum, MetricsInv
    <2>4. Shape'
      BY <1>2, <1>3, <1>5 DEF MetricsInv, Shape
    <2>5. Exclusion'
      BY <1>0, <1>3, <1>5, <2>1 DEF MetricsInv, Exclusion
    <2>6. Merged' /\ AtMostOne(msFile.status)'
      BY <1>0, <1>2, <1>3, <1>5, <2>1 DEF MetricsInv, Merged, AtMostOne
    <2>. QED BY <1>4, <2>3, <2>4, <2>5, <2>6 DEF MetricsInv
  <1>6. CASE Written
    <2>1. msAt'[p] = "reset"
      BY <1>0, <1>6 DEF MetricsInv, Shape
    <2>2. Unwritten(p)' = 0 /\ \A q \in Processes \ {p} : Unwritten(q)' = Unwritten(q)
      BY <1>2, <1>3, <2>1 DEF Unwritten
    <2>3. /\ msFile.hits \in Nat /\ Cardinality(AllUnwritten) \in Nat
          /\ msLocal[p].hits \in Nat /\ msLocal[p].hits <= Cardinality(AllUnwritten)
      BY <1>0, UnwrittenIsCounted
    <2>4. /\ msCounted = msFile.hits + Cardinality(AllUnwritten) /\ msCounted \in 0..MaxEvents
          /\ msNext[p].hits = IF msAt[p] = "write" THEN msFile.hits + msLocal[p].hits
                             ELSE msLocal[p].hits
      BY <1>0 DEF MetricsInv, Sum, Merged, Shape
    <2>5. /\ IsFiniteSet(AllUnwritten')
          /\ Cardinality(AllUnwritten') = Cardinality(AllUnwritten) - msLocal[p].hits
      BY <1>0, <2>2, MineGone
    <2>6. /\ msCounted' = msFile'.hits + Cardinality(AllUnwritten')
          /\ msCounted' \in 0..MaxEvents
      <3>1. CASE msAt[p] = "write"
        BY <1>6, <2>3, <2>4, <2>5, <3>1, DaemonAssumption
      <3>2. CASE msAt[p] = "write anew"
        <4>1. msFile'.hits = msLocal[p].hits /\ msCounted' = msCounted - msFile.hits
          BY <1>6, <2>4, <3>2
        <4>. QED BY <2>3, <2>4, <2>5, <4>1, DaemonAssumption
      <3>. QED BY <1>0, <3>1, <3>2
    <2>11. Sum'
      BY <2>5, <2>6 DEF Sum
    <2>7. Shape'
      BY <1>0, <1>2, <1>3, <1>6, <2>6 DEF MetricsInv, Shape
    <2>8. Exclusion'
      BY <1>0, <1>3, <1>6, <2>1 DEF MetricsInv, Exclusion
    <2>9. \A q \in Processes : msAt'[q] # "write" /\ msAt'[q] # "write anew"
      BY <1>0, <1>3, <2>1 DEF MetricsInv, Exclusion
    <2>10. Merged' /\ AtMostOne(msFile.status)'
      BY <1>0, <1>2, <1>6, <2>9 DEF MetricsInv, Merged, AtMostOne
    <2>. QED BY <1>4, <2>7, <2>8, <2>10, <2>11 DEF MetricsInv
  <1>. QED BY <1>1, <1>5, <1>6

(* A process that forgets what it observed also forgets what it keeps.     *)
LEMMA Forgotten ==
    ASSUME Recorded, NEW p \in Processes,
           msLocal'[p] = NoSamples, \A q \in Processes \ {p} : msLocal'[q] = msLocal[q],
           msKeep'[p] = {}, \A q \in Processes \ {p} : msKeep'[q] = msKeep[q]
    PROVE  Recorded'
  <1>1. NoSamples.status = {} /\ Daemon \in Processes
    BY DEF NoSamples, Processes
  <1>2. ASSUME NEW q \in Processes
        PROVE  /\ msLocal'[q].status = {} \/ \E x : msLocal'[q].status = {x}
               /\ msKeep'[q] = msLocal'[q].status
    BY <1>1 DEF Recorded, Own, AtMostOne
  <1>3. msLocal'[Daemon].status = {}
    BY <1>1 DEF Recorded
  <1>. QED BY <1>2, <1>3 DEF Recorded, Own, AtMostOne

LEMMA DumpResetStep ==
    ASSUME MetricsInv, NEW p \in Commands, DumpReset(p)
    PROVE  MetricsInv'
  <1>0. p \in Processes /\ p # Daemon
    BY DaemonAssumption DEF Processes
  <1>1. /\ msLocal' \in [Processes -> Registry] /\ msLocal'[p] = NoSamples
        /\ \A q \in Processes \ {p} : msLocal'[q] = msLocal[q]
    BY <1>0, DaemonAssumption
    DEF DumpReset, ResetObservations, NoSamples, MetricsInv, Shape, Registry
  <1>2. /\ msAt' \in [Processes -> Places] /\ msAt'[p] = "run"
        /\ \A q \in Processes \ {p} : msAt'[q] = msAt[q]
    BY <1>0 DEF DumpReset, MetricsInv, Shape, Places
  <1>3. /\ msKeep' \in [Processes -> SUBSET Statuses] /\ msKeep'[p] = {}
        /\ \A q \in Processes \ {p} : msKeep'[q] = msKeep[q]
    BY <1>0 DEF DumpReset, MetricsInv, Shape
  <1>4. \A q \in Processes : Unwritten(q)' = Unwritten(q)
    BY <1>1, <1>2 DEF DumpReset, Unwritten, NoSamples
  <1>5. Sum'
    BY <1>4, SameUnwritten DEF DumpReset, Sum, MetricsInv
  <1>6. Shape'
    BY <1>1, <1>2, <1>3 DEF DumpReset, MetricsInv, Shape
  <1>7. Exclusion' /\ Merged' /\ AtMostOne(msFile.status)'
    BY <1>1, <1>2 DEF DumpReset, MetricsInv, Exclusion, Merged, AtMostOne
  <1>8. Recorded'
    BY <1>0, <1>1, <1>3, Forgotten DEF MetricsInv
  <1>. QED BY <1>5, <1>6, <1>7, <1>8 DEF MetricsInv

LEMMA EndProcessStep ==
    ASSUME MetricsInv, NEW p \in Processes, EndProcess(p)
    PROVE  MetricsInv'
  <1>1. /\ msLocal' \in [Processes -> Registry] /\ msLocal'[p] = NoSamples
        /\ \A q \in Processes \ {p} : msLocal'[q] = msLocal[q]
    BY DaemonAssumption DEF EndProcess, NoSamples, MetricsInv, Shape, Registry
  <1>2. /\ msAt' \in [Processes -> Places] /\ msAt'[p] = "run"
        /\ \A q \in Processes \ {p} : msAt'[q] = msAt[q]
    BY DEF EndProcess, MetricsInv, Shape, Places
  <1>3. /\ msKeep' \in [Processes -> SUBSET Statuses] /\ msKeep'[p] = {}
        /\ \A q \in Processes \ {p} : msKeep'[q] = msKeep[q]
    BY DEF EndProcess, MetricsInv, Shape
  <1>4. Unwritten(p)' = 0 /\ \A q \in Processes \ {p} : Unwritten(q)' = Unwritten(q)
    BY <1>1, <1>2 DEF Unwritten, NoSamples
  <1>5. /\ msFile.hits \in Nat /\ Cardinality(AllUnwritten) \in Nat
        /\ Unwritten(p) \in Nat /\ Unwritten(p) <= Cardinality(AllUnwritten)
        /\ msCounted = msFile.hits + Cardinality(AllUnwritten) /\ msCounted \in 0..MaxEvents
    BY UnwrittenIsCounted DEF MetricsInv, Sum, Shape
  <1>6. /\ IsFiniteSet(AllUnwritten')
        /\ Cardinality(AllUnwritten') = Cardinality(AllUnwritten) - Unwritten(p)
    BY <1>4, MineGone
  <1>7. Sum' /\ msCounted' \in 0..MaxEvents
    BY <1>5, <1>6, DaemonAssumption DEF EndProcess, Sum
  <1>8. Shape'
    BY <1>1, <1>2, <1>3, <1>7 DEF EndProcess, MetricsInv, Shape
  <1>9. Exclusion' /\ Merged' /\ AtMostOne(msFile.status)'
    BY <1>1, <1>2 DEF EndProcess, MetricsInv, Exclusion, Merged, AtMostOne
  <1>10. Recorded'
    BY <1>1, <1>3, Forgotten DEF MetricsInv
  <1>. QED BY <1>7, <1>8, <1>9, <1>10 DEF MetricsInv

LEMMA DamageStep ==
    ASSUME MetricsInv, Damage
    PROVE  MetricsInv'
  <1>1. \A q \in Processes : Unwritten(q)' = Unwritten(q)
    BY DEF Damage, Unwritten
  <1>2. /\ msFile.hits \in Nat /\ Cardinality(AllUnwritten) \in Nat
        /\ msCounted = msFile.hits + Cardinality(AllUnwritten) /\ msCounted \in 0..MaxEvents
    BY UnwrittenIsCounted DEF MetricsInv, Sum, Shape, Processes
  <1>3. AllUnwritten' = AllUnwritten
    BY <1>1, SameUnwritten
  <1>4. Sum' /\ msCounted' \in 0..MaxEvents
    BY <1>2, <1>3, DaemonAssumption DEF Damage, Corrupt, Sum, MetricsInv
  <1>5. Shape'
    BY <1>4 DEF Damage, MetricsInv, Shape
  <1>6. \A q \in Processes : msAt[q] = "run"
    BY DEF Damage, MetricsInv, Exclusion
  <1>7. Exclusion' /\ Merged' /\ Recorded' /\ AtMostOne(msFile.status)'
    BY <1>6 DEF Damage, Corrupt, MetricsInv, Exclusion, Merged, Recorded, Own, AtMostOne
  <1>. QED BY <1>4, <1>5, <1>7 DEF MetricsInv

LEMMA MetricsStep == MetricsInv /\ [MetricsNext]_msVars => MetricsInv'
  <1>. SUFFICES ASSUME MetricsInv, [MetricsNext]_msVars PROVE MetricsInv'
    OBVIOUS
  <1>1. CASE UNCHANGED msVars
    <2>1. \A q \in Processes : Unwritten(q)' = Unwritten(q)
      BY <1>1 DEF msVars, Unwritten
    <2>2. Sum'
      BY <1>1, <2>1, SameUnwritten DEF msVars, Sum, MetricsInv
    <2>3. Shape' /\ Exclusion' /\ Recorded' /\ Merged' /\ AtMostOne(msFile.status)'
      BY <1>1 DEF msVars, MetricsInv, Shape, Exclusion, Recorded, Own, Merged, AtMostOne
    <2>. QED BY <2>2, <2>3 DEF MetricsInv
  <1>. QED BY <1>1, ObserveStep, EndProcessStep, RecordStatusStep, DumpLockStep, DumpReadStep,
              DumpWriteStep, DumpResetStep, DamageStep DEF MetricsNext

-----------------------------------------------------------------------------
(* The theorems                                                            *)

LEMMA OneHolds ==
    ASSUME MetricsInv
    PROVE  Cardinality(msLock) <= 1
  <1>1. AtMostOne(msLock)
    BY DEF MetricsInv, Exclusion, AtMostOne
  <1>. QED BY <1>1, FewAreCounted

(* notify.go's lock is exclusive, and no counter, in the file, in a        *)
(* process or about to be written, exceeds what was observed.              *)
THEOREM MetricsTypes == MetricsSpec => []MetricsTypeOK
  <1>1. MetricsInv => MetricsTypeOK
    BY OneHolds DEF MetricsInv, Shape, Registry, Places, MetricsTypeOK
  <1>. QED BY <1>1, MetricsStart, MetricsStep, PTL DEF MetricsSpec

(* dumpMetrics and composeMetrics: whatever the order in which commands    *)
(* observe, merge, write, fail, are killed and find the file damaged, what *)
(* is in the file and what is still unwritten add up to what was observed, *)
(* and neither the file nor a scrape names two statuses for one layer.     *)
THEOREM ReportsAreRight == MetricsSpec => []ReportIsRight
  <1>1. MetricsInv => ReportIsRight
    <2>. SUFFICES ASSUME MetricsInv PROVE ReportIsRight
      OBVIOUS
    <2>1. CountersAddUp
      BY DEF MetricsInv, Sum, CountersAddUp
    <2>2. Daemon \in Processes
      BY DEF Processes
    <2>3. AtMostOne(Composed.status)
      BY <2>2 DEF Composed, MergePersistent, MetricsInv, Recorded, Own, AtMostOne
    <2>4. OneStatus
      BY <2>3, FewAreCounted DEF MetricsInv, OneStatus
    <2>. QED BY <2>1, <2>4 DEF ReportIsRight
  <1>. QED BY <1>1, MetricsStart, MetricsStep, PTL DEF MetricsSpec
=============================================================================
