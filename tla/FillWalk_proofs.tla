---------------------------- MODULE FillWalk_proofs ----------------------------
(***************************************************************************)
(* What is proved of FillWalk for every pair of sorted books, every fee    *)
(* rate, buffer and cap: its type invariant; that the walk ends with the   *)
(* largest size that clears, although it stops early; that what a share    *)
(* leaves never grows along it; that compute_fill_price can buy what it    *)
(* plans; and that a row of size 0 is no trade in either direction.        *)
(***************************************************************************)
EXTENDS FillWalk, SequenceTheorems, WellFoundedInduction, TLAPS

-----------------------------------------------------------------------------
(* Induction on the naturals, stated of sets                               *)

LEMMA LeastOfOrder ==
  ASSUME NEW R, IsWellFoundedOn(R, Nat),
         \A x, y \in Nat : y < x => <<y, x>> \in R,
         NEW T, T \subseteq Nat, T # {}
  PROVE  \E x \in T : \A y \in T : x <= y
<1>1. PICK x \in T : \A y \in T : ~(<<y, x>> \in R)
  BY WFMin, Zenon
<1>2. ASSUME NEW y \in T  PROVE x <= y
  <2>1. ~(y < x)  BY <1>1
  <2>2. QED  BY <2>1
<1>3. QED  BY <1>2

\* A set of naturals that is not empty has a least element.
LEMMA LeastNatural ==
  ASSUME NEW T, T \subseteq Nat, T # {}
  PROVE  \E x \in T : \A y \in T : x <= y
<1>1. IsWellFoundedOn(OpToRel(<, Nat), Nat)  BY NatLessThanWellFounded
<1>2. \A x, y \in Nat : y < x => <<y, x>> \in OpToRel(<, Nat)  BY DEF OpToRel
<1>3. QED  BY <1>1, <1>2, LeastOfOrder

\* A set that holds 0 and the successor of each of its naturals holds them all.
LEMMA SetInduction ==
  ASSUME NEW S, 0 \in S, \A n \in Nat : n \in S => n + 1 \in S
  PROVE  Nat \subseteq S
<1>1. SUFFICES ASSUME NEW T, T = Nat \ S, T # {}  PROVE FALSE  OBVIOUS
<1>2. PICK x \in T : \A y \in T : x <= y  BY <1>1, LeastNatural
<1>3. x # 0 /\ x - 1 \in Nat /\ x - 1 \in S  BY <1>1, <1>2
<1>4. QED  BY <1>1, <1>2, <1>3

-----------------------------------------------------------------------------
(* Totals                                                                  *)

IsTotals(g, s, n) ==
  /\ g \in [0..n -> Nat] /\ g[0] = 0
  /\ \A i \in 1..n : g[i] = g[i - 1] + s[i]

LEMMA TotalsExist ==
  ASSUME NEW s \in Seq(Nat)
  PROVE  \E g : IsTotals(g, s, Len(s))
<1> DEFINE S == {n \in Nat : n <= Len(s) => \E g : IsTotals(g, s, n)}
<1>1. 0 \in S
  <2>1. IsTotals([i \in 0..0 |-> 0], s, 0)  BY DEF IsTotals
  <2>2. QED  BY <2>1
<1>2. ASSUME NEW n \in Nat, n \in S  PROVE n + 1 \in S
  <2>1. SUFFICES ASSUME n + 1 <= Len(s)  PROVE \E g : IsTotals(g, s, n + 1)  OBVIOUS
  <2>2. Len(s) \in Nat  BY LenProperties
  <2>3. PICK g : IsTotals(g, s, n)  BY <1>2, <2>1, <2>2
  <2>4. s[n + 1] \in Nat  BY <2>1, <2>2, ElementOfSeq
  <2> DEFINE h == [i \in 0..(n + 1) |-> IF i = n + 1 THEN g[n] + s[n + 1] ELSE g[i]]
  <2>5. h \in [0..(n + 1) -> Nat] /\ h[0] = 0  BY <2>3, <2>4 DEF IsTotals
  <2>6. ASSUME NEW i \in 1..(n + 1)  PROVE h[i] = h[i - 1] + s[i]
    <3>1. CASE i = n + 1  BY <3>1
    <3>2. CASE i \in 1..n  BY <3>2, <2>3 DEF IsTotals
    <3>3. QED  BY <3>1, <3>2
  <2>7. IsTotals(h, s, n + 1)  BY <2>5, <2>6 DEF IsTotals
  <2>8. QED  BY <2>7
<1> HIDE DEF S
<1>3. Len(s) \in S  BY <1>1, <1>2, SetInduction, LenProperties
<1>4. QED  BY <1>3, LenProperties DEF S

\* What Totals is: 0, and each element added in turn.
LEMMA TotalsEquation ==
  ASSUME NEW s \in Seq(Nat)
  PROVE  IsTotals(Totals(s), s, Len(s))
<1> DEFINE Def(g) == g = [n \in 0..Len(s) |-> IF n = 0 THEN 0 ELSE g[n - 1] + s[n]]
<1>1. PICK g : IsTotals(g, s, Len(s))  BY TotalsExist
<1>2. Len(s) \in Nat /\ \A i \in 1..Len(s) : s[i] \in Nat
  BY LenProperties, ElementOfSeq
<1>3. Def(g)  BY <1>1, <1>2 DEF IsTotals
<1>4. Totals(s) = CHOOSE h : Def(h)  BY DEF Totals
<1>5. Def(Totals(s))  BY <1>3, <1>4
<1> DEFINE t == Totals(s)
           S == {n \in Nat : n <= Len(s) => t[n] \in Nat}
<1> HIDE DEF t
<1>6. 0 \in S /\ \A n \in Nat : n \in S => n + 1 \in S
  BY <1>2, <1>5 DEF t
<1>7. Nat \subseteq S
  <2> HIDE DEF S
  <2>1. QED  BY <1>6, SetInduction
<1>8. Def(t)  BY <1>5 DEF t
<1>9. t[0] = 0 /\ \A i \in 1..Len(s) : t[i] = t[i - 1] + s[i]  BY <1>2, <1>8
<1>10. t \in [0..Len(s) -> Nat]
  <2>1. DOMAIN t = 0..Len(s) /\ t = [n \in DOMAIN t |-> t[n]]  BY <1>8
  <2>2. \A n \in 0..Len(s) : t[n] \in Nat  BY <1>2, <1>7
  <2>3. QED  BY <2>1, <2>2
<1>11. QED  BY <1>9, <1>10 DEF IsTotals, t

LEMMA NextTotal ==
  ASSUME NEW s \in Seq(Nat), NEW k \in Nat, k + 1 <= Len(s)
  PROVE  /\ Totals(s)[k] \in Nat /\ s[k + 1] \in Nat
         /\ Totals(s)[k + 1] = Totals(s)[k] + s[k + 1]
<1>1. Len(s) \in Nat  BY LenProperties
<1>2. k \in 0..Len(s) /\ k + 1 \in 1..Len(s) /\ (k + 1) - 1 = k  BY <1>1
<1>3. QED  BY <1>2, TotalsEquation, ElementOfSeq DEF IsTotals

Rising(s) == \A i, j \in 1..Len(s) : i <= j => s[i] <= s[j]

-----------------------------------------------------------------------------
(* Averages                                                                *)

LEMMA BelowStep ==
  ASSUME NEW k \in Int, NEW t \in Int, NEW x \in Int, NEW y \in Int,
         t <= k * y, x <= y
  PROVE  t + x <= (k + 1) * y
<1>1. (k + 1) * y = k * y + y  OBVIOUS
<1>2. QED  BY <1>1

LEMMA AverageStep ==
  ASSUME NEW n \in Int, NEW k \in Int, NEW tk \in Int, NEW tn \in Int, NEW x \in Int,
         tk <= k * x, n * tk <= k * tn
  PROVE  (n + 1) * tk <= k * (tn + x)
<1>1. (n + 1) * tk = n * tk + tk  OBVIOUS
<1>2. k * (tn + x) = k * tn + k * x  OBVIOUS
<1>3. QED  BY <1>1, <1>2

\* The first k elements of a rising sequence are at most k times a later element.
LEMMA TotalBelow ==
  ASSUME NEW s \in Seq(Nat), Rising(s), NEW j \in 1..Len(s)
  PROVE  \A k \in 0..j : Totals(s)[k] <= k * s[j]
<1> DEFINE t == Totals(s)
           S == {k \in Nat : k <= j => t[k] <= k * s[j]}
<1> HIDE DEF t
<1>1. IsTotals(t, s, Len(s))  BY TotalsEquation DEF t
<1>2. Len(s) \in Nat /\ \A i \in 1..Len(s) : s[i] \in Nat
  BY LenProperties, ElementOfSeq
<1>3. 0 \in S  BY <1>1, <1>2 DEF IsTotals
<1>4. ASSUME NEW k \in Nat, k \in S  PROVE k + 1 \in S
  <2>1. SUFFICES ASSUME k + 1 <= j  PROVE t[k + 1] <= (k + 1) * s[j]  OBVIOUS
  <2>2. t[k + 1] = t[k] + s[k + 1] /\ t[k] \in Nat  BY <2>1, NextTotal DEF t
  <2>3. s[k + 1] <= s[j] /\ s[k + 1] \in Nat /\ s[j] \in Nat  BY <1>2, <2>1 DEF Rising
  <2>4. t[k] <= k * s[j]  BY <1>4, <2>1
  <2>5. k \in Int /\ t[k] \in Int /\ s[k + 1] \in Int /\ s[j] \in Int  BY <2>2, <2>3
  <2>6. t[k] + s[k + 1] <= (k + 1) * s[j]  BY ONLY <2>3, <2>4, <2>5, BelowStep
  <2>7. QED  BY <2>2, <2>6
<1>5. Nat \subseteq S
  <2> HIDE DEF S
  <2>1. QED  BY <1>3, <1>4, SetInduction
<1>6. QED  BY <1>5 DEF t

\* The average of a rising sequence never falls.
LEMMA AverageRises ==
  ASSUME NEW s \in Seq(Nat), Rising(s), NEW k \in 1..Len(s)
  PROVE  \A n \in k..Len(s) : n * Totals(s)[k] <= k * Totals(s)[n]
<1> DEFINE t == Totals(s)
           S == {m \in Nat : k + m <= Len(s) => (k + m) * t[k] <= k * t[k + m]}
<1> HIDE DEF t
<1>1. IsTotals(t, s, Len(s))  BY TotalsEquation DEF t
<1>2. Len(s) \in Nat /\ \A i \in 1..Len(s) : s[i] \in Nat
  BY LenProperties, ElementOfSeq
<1>3. t[k] \in Nat  BY <1>1, <1>2 DEF IsTotals
<1>4. 0 \in S  BY <1>3
<1>5. ASSUME NEW m \in Nat, m \in S  PROVE m + 1 \in S
  <2> DEFINE n == k + m
  <2>1. SUFFICES ASSUME n + 1 <= Len(s)  PROVE (n + 1) * t[k] <= k * t[n + 1]  OBVIOUS
  <2>2. n \in Nat /\ n + 1 \in 1..Len(s) /\ k <= n + 1  BY <1>2, <2>1
  <2>3. t[n + 1] = t[n] + s[n + 1] /\ t[n] \in Nat /\ s[n + 1] \in Nat
    BY <2>1, <2>2, NextTotal DEF t
  <2>4. t[k] <= k * s[n + 1]  BY <2>2, TotalBelow DEF t
  <2>5. n * t[k] <= k * t[n]  BY <1>5, <2>1
  <2>6. n \in Int /\ k \in Int /\ t[k] \in Int /\ t[n] \in Int /\ s[n + 1] \in Int
    BY <1>3, <2>2, <2>3
  <2> HIDE DEF n
  <2>7. (n + 1) * t[k] <= k * (t[n] + s[n + 1])  BY ONLY <2>4, <2>5, <2>6, AverageStep
  <2>8. QED  BY <2>3, <2>7
<1>6. Nat \subseteq S
  <2> HIDE DEF S
  <2>1. QED  BY <1>4, <1>5, SetInduction
<1>7. ASSUME NEW n \in k..Len(s)  PROVE n * t[k] <= k * t[n]
  <2>1. n - k \in S /\ k + (n - k) = n  BY <1>2, <1>6
  <2>2. QED  BY <1>2, <2>1
<1>8. QED  BY <1>7 DEF t

LEMMA OneType == One \in Nat /\ One > 0  BY DEF One

LEMMA Quotient ==
  ASSUME NEW a \in Nat, NEW b \in Nat, b > 0
  PROVE  a \div b \in Nat
OBVIOUS

-----------------------------------------------------------------------------
(* The shares of a ladder                                                  *)

LevelType == [price : Price, size : Nat]

\* The whole shares of each level, and level by level as FlattenSeq joins them.
Counts(depth) == [i \in 1..Len(depth) |-> depth[i].size \div Unit]
LevelShares(depth) ==
  [i \in 1..Len(depth) |-> [s \in 1..(depth[i].size \div Unit) |-> depth[i].price]]

\* f is the shares of the first k levels.
IsShares(f, depth, k) ==
  /\ f \in Seq(Price) /\ Len(f) = Totals(Counts(depth))[k]
  /\ \A i \in 1..k : \A s \in 1..Len(f) :
       /\ Totals(Counts(depth))[i - 1] < s
       /\ s <= Totals(Counts(depth))[i]
       => f[s] = depth[i].price

LEMMA LevelFacts ==
  ASSUME NEW depth \in Seq(LevelType)
  PROVE  /\ Len(depth) \in Nat
         /\ \A i \in 1..Len(depth) : /\ depth[i].price \in Price /\ depth[i].price \in Nat
                                     /\ depth[i].size \in Nat
                                     /\ depth[i].size \div Unit \in Nat
<1>1. Len(depth) \in Nat  BY LenProperties
<1>2. ASSUME NEW i \in 1..Len(depth)
      PROVE  /\ depth[i].price \in Price /\ depth[i].price \in Nat
             /\ depth[i].size \in Nat /\ depth[i].size \div Unit \in Nat
  <2>1. depth[i] \in LevelType  BY ElementOfSeq
  <2>2. depth[i].price \in Price /\ depth[i].size \in Nat  BY <2>1 DEF LevelType
  <2>3. depth[i].price \in Nat
    <3>1. Price \subseteq 0..One  BY FillAssumption
    <3>2. \A p \in Price : p \in Nat  BY <3>1, OneType
    <3>3. QED  BY <2>2, <3>2
  <2>4. Unit \in Nat /\ Unit > 0  BY FillAssumption
  <2>5. QED  BY <2>2, <2>3, <2>4, Quotient
<1>3. QED  BY <1>1, <1>2

LEMMA CountsFacts ==
  ASSUME NEW depth \in Seq(LevelType)
  PROVE  /\ Counts(depth) \in Seq(Nat) /\ Len(Counts(depth)) = Len(depth)
         /\ Totals(Counts(depth))[0] = 0
         /\ \A k \in 0..Len(depth) : Totals(Counts(depth))[k] \in Nat
         /\ \A k \in 1..Len(depth) :
              Totals(Counts(depth))[k] = Totals(Counts(depth))[k - 1] + depth[k].size \div Unit
<1>1. Len(depth) \in Nat /\ \A i \in 1..Len(depth) : depth[i].size \div Unit \in Nat
  BY LevelFacts
<1>2. Counts(depth) = [i \in 1..Len(depth) |-> depth[i].size \div Unit]  BY DEF Counts
<1>3. Counts(depth) \in Seq(Nat) /\ Len(Counts(depth)) = Len(depth)
  BY <1>1, <1>2, IsASeq
<1>4. IsTotals(Totals(Counts(depth)), Counts(depth), Len(depth))
  BY <1>3, TotalsEquation
<1>5. \A k \in 1..Len(depth) : Counts(depth)[k] = depth[k].size \div Unit  BY <1>2
<1>6. QED  BY <1>1, <1>3, <1>4, <1>5 DEF IsTotals

\* Totals of the counts grow.
LEMMA CountsGrow ==
  ASSUME NEW depth \in Seq(LevelType), NEW i \in 0..Len(depth), NEW j \in i..Len(depth)
  PROVE  Totals(Counts(depth))[i] <= Totals(Counts(depth))[j]
<1> DEFINE c == Totals(Counts(depth))
           S == {m \in Nat : i + m <= Len(depth) => c[i] <= c[i + m]}
<1>1. /\ Len(depth) \in Nat /\ \A k \in 0..Len(depth) : c[k] \in Nat
      /\ \A k \in 1..Len(depth) : depth[k].size \div Unit \in Nat
      /\ \A k \in 1..Len(depth) : c[k] = c[k - 1] + depth[k].size \div Unit
  BY LevelFacts, CountsFacts
<1> HIDE DEF c
<1>2. 0 \in S  BY <1>1
<1>3. ASSUME NEW m \in Nat, m \in S  PROVE m + 1 \in S
  <2>1. SUFFICES ASSUME i + m + 1 <= Len(depth)  PROVE c[i] <= c[i + (m + 1)]  BY <1>1
  <2>2. i + m + 1 \in 1..Len(depth) /\ (i + m + 1) - 1 = i + m /\ i + (m + 1) = i + m + 1
        /\ i + m \in 0..Len(depth)
    BY <1>1, <2>1
  <2>3. c[i + m + 1] = c[i + m] + depth[i + m + 1].size \div Unit  BY <1>1, <2>2
  <2>4. depth[i + m + 1].size \div Unit \in Nat /\ c[i + m] \in Nat /\ c[i] \in Nat
    BY <1>1, <2>2
  <2>5. c[i] <= c[i + m]  BY <1>1, <1>3, <2>1
  <2>6. QED  BY <2>2, <2>3, <2>4, <2>5
<1>4. Nat \subseteq S
  <2> HIDE DEF S
  <2>1. QED  BY <1>2, <1>3, SetInduction
<1>5. j - i \in Nat /\ i + (j - i) = j /\ j <= Len(depth)  BY <1>1
<1>6. j - i \in S  BY <1>4, <1>5
<1>7. QED  BY <1>5, <1>6 DEF c

\* Every share lies in a level.
LEMMA ShareInLevel ==
  ASSUME NEW depth \in Seq(LevelType), NEW k \in 0..Len(depth)
  PROVE  \A s \in 1..Totals(Counts(depth))[k] :
           \E i \in 1..k : Totals(Counts(depth))[i - 1] < s /\ s <= Totals(Counts(depth))[i]
<1> DEFINE c == Totals(Counts(depth))
           Lies(n) == \A s \in 1..c[n] : \E i \in 1..n : c[i - 1] < s /\ s <= c[i]
           S == {n \in Nat : n <= Len(depth) => Lies(n)}
<1>1. /\ Len(depth) \in Nat /\ c[0] = 0 /\ \A n \in 0..Len(depth) : c[n] \in Nat
  BY LevelFacts, CountsFacts
<1> HIDE DEF c
<1>2. 0 \in S  BY <1>1
<1>3. ASSUME NEW n \in Nat, n \in S  PROVE n + 1 \in S
  <2>1. SUFFICES ASSUME n + 1 <= Len(depth), NEW s \in 1..c[n + 1]
                 PROVE  \E i \in 1..(n + 1) : c[i - 1] < s /\ s <= c[i]
    OBVIOUS
  <2>2. n \in 0..Len(depth) /\ n + 1 \in 0..Len(depth) /\ c[n] \in Nat /\ c[n + 1] \in Nat
        /\ Lies(n)
    BY <1>1, <1>3, <2>1
  <2>3. CASE s <= c[n]
    <3>1. PICK i \in 1..n : c[i - 1] < s /\ s <= c[i]  BY <2>2, <2>3
    <3>2. QED  BY <3>1
  <2>4. CASE c[n] < s
    <3>1. (n + 1) - 1 = n /\ s <= c[n + 1] /\ n + 1 \in 1..(n + 1)  BY <2>2
    <3>2. QED  BY <2>4, <3>1
  <2>5. QED  BY <2>2, <2>3, <2>4
<1>4. Nat \subseteq S
  <2> HIDE DEF S
  <2>1. QED  BY <1>2, <1>3, SetInduction
<1>5. Lies(k)  BY <1>1, <1>4
<1>6. QED  BY <1>5 DEF c

\* The recursion of FlattenSeq, up to a level.
IsFlatten(g, ss, n) ==
  /\ DOMAIN g = 1..n
  /\ \A i \in 1..n : g[i] = IF i = 1 THEN ss[i] ELSE g[i - 1] \o ss[i]

LEMMA FlattenExist ==
  ASSUME NEW ss, Len(ss) \in Nat
  PROVE  \E g : g = [i \in 1..Len(ss) |-> IF i = 1 THEN ss[i] ELSE g[i - 1] \o ss[i]]
<1> DEFINE S == {n \in Nat : \E g : IsFlatten(g, ss, n)}
<1>1. 0 \in S
  <2>1. IsFlatten([i \in 1..0 |-> 0], ss, 0)  BY DEF IsFlatten
  <2>2. QED  BY <2>1
<1>2. ASSUME NEW n \in Nat, n \in S  PROVE n + 1 \in S
  <2>1. PICK g : IsFlatten(g, ss, n)  BY <1>2
  <2> DEFINE x == IF n + 1 = 1 THEN ss[n + 1] ELSE g[n] \o ss[n + 1]
             h == [i \in 1..(n + 1) |-> IF i = n + 1 THEN x ELSE g[i]]
  <2>2. DOMAIN h = 1..(n + 1)  OBVIOUS
  <2>3. ASSUME NEW i \in 1..(n + 1)
        PROVE  h[i] = IF i = 1 THEN ss[i] ELSE h[i - 1] \o ss[i]
    <3>1. CASE i = n + 1
      <4>1. h[i] = x  BY <3>1
      <4>2. i # 1 => h[i - 1] = g[n]  BY <3>1
      <4>3. QED  BY <3>1, <4>1, <4>2
    <3>2. CASE i \in 1..n
      <4>1. h[i] = g[i] /\ i # n + 1  BY <3>2
      <4>2. i # 1 => h[i - 1] = g[i - 1]  BY <3>2
      <4>3. g[i] = IF i = 1 THEN ss[i] ELSE g[i - 1] \o ss[i]  BY <2>1, <3>2 DEF IsFlatten
      <4>4. QED  BY <4>1, <4>2, <4>3
    <3>3. QED  BY <3>1, <3>2
  <2> HIDE DEF h
  <2>4. IsFlatten(h, ss, n + 1)  BY <2>2, <2>3 DEF IsFlatten
  <2>5. QED  BY <2>4
<1> HIDE DEF S
<1>3. Len(ss) \in S  BY <1>1, <1>2, SetInduction
<1>4. PICK f : IsFlatten(f, ss, Len(ss))  BY <1>3 DEF S
<1> DEFINE g == [i \in 1..Len(ss) |-> f[i]]
<1>5. g = [i \in 1..Len(ss) |-> IF i = 1 THEN ss[i] ELSE g[i - 1] \o ss[i]]
  <2>1. \A i \in 1..Len(ss) : i # 1 => i - 1 \in 1..Len(ss)  OBVIOUS
  <2>2. \A i \in 1..Len(ss) : g[i] = f[i]  OBVIOUS
  <2>3. \A i \in 1..Len(ss) : g[i] = IF i = 1 THEN ss[i] ELSE g[i - 1] \o ss[i]
    BY <1>4, <2>1, <2>2 DEF IsFlatten
  <2>4. DOMAIN g = 1..Len(ss) /\ g = [i \in DOMAIN g |-> g[i]]  OBVIOUS
  <2> HIDE DEF g
  <2>5. QED  BY <2>3, <2>4
<1>6. QED  BY <1>5

\* What FlattenSeq is: the last of the functions that append a level at a time.
LEMMA FlattenEquation ==
  ASSUME NEW ss, Len(ss) \in Nat, Len(ss) # 0
  PROVE  \E g : /\ FlattenSeq(ss) = g[Len(ss)]
                /\ \A i \in 1..Len(ss) : g[i] = IF i = 1 THEN ss[i] ELSE g[i - 1] \o ss[i]
<1> DEFINE Def(g) == g = [i \in 1..Len(ss) |-> IF i = 1 THEN ss[i] ELSE g[i - 1] \o ss[i]]
           h == CHOOSE g : Def(g)
<1>1. \E g : Def(g)  BY FlattenExist
<1>2. Def(h)  BY <1>1
<1>3. FlattenSeq(ss) = h[Len(ss)]  BY DEF FlattenSeq
<1> HIDE DEF h
<1>4. \A i \in 1..Len(ss) : h[i] = IF i = 1 THEN ss[i] ELSE h[i - 1] \o ss[i]
  BY <1>2
<1>5. QED  BY <1>3, <1>4

\* One level more.
LEMMA MoreLevels ==
  ASSUME NEW depth \in Seq(LevelType), NEW k \in Nat, k + 1 <= Len(depth),
         NEW f, IsShares(f, depth, k)
  PROVE  IsShares(f \o LevelShares(depth)[k + 1], depth, k + 1)
<1> DEFINE c == Totals(Counts(depth))
           w == depth[k + 1].size \div Unit
           p == depth[k + 1].price
           g == LevelShares(depth)[k + 1]
           h == f \o g
<1>1. /\ Len(depth) \in Nat /\ w \in Nat /\ p \in Price
      /\ k + 1 \in 1..Len(depth) /\ k \in 0..Len(depth) /\ (k + 1) - 1 = k
  <2>1. Len(depth) \in Nat  BY LevelFacts
  <2>2. k + 1 \in 1..Len(depth) /\ k \in 0..Len(depth) /\ (k + 1) - 1 = k  BY <2>1
  <2>3. QED  BY <2>1, <2>2, LevelFacts
<1>2. c[k] \in Nat /\ c[k + 1] = c[k] + w /\ c[k + 1] \in Nat
  BY <1>1, CountsFacts
<1>3. \A i \in 1..k : c[i] <= c[k]
  <2>1. TAKE i \in 1..k
  <2>2. i \in 0..Len(depth) /\ k \in i..Len(depth)  BY <1>1
  <2>3. QED  BY <2>2, CountsGrow
<1>4. g = [s \in 1..w |-> p]  BY <1>1 DEF LevelShares
<1>5. f \in Seq(Price) /\ Len(f) = c[k]
      /\ \A i \in 1..k : \A s \in 1..Len(f) : c[i - 1] < s /\ s <= c[i] => f[s] = depth[i].price
  BY DEF IsShares
<1> HIDE DEF c, w, p, g
<1>6. g \in Seq(Price) /\ Len(g) = w /\ \A s \in 1..w : g[s] = p
  BY <1>1, <1>4, IsASeq
<1>7. /\ h \in Seq(Price) /\ Len(h) = c[k + 1]
      /\ \A s \in 1..Len(h) : h[s] = IF s <= c[k] THEN f[s] ELSE g[s - c[k]]
  <2>1. /\ h \in Seq(Price) /\ Len(h) = Len(f) + Len(g)
        /\ \A s \in 1..(Len(f) + Len(g)) : h[s] = IF s <= Len(f) THEN f[s] ELSE g[s - Len(f)]
    BY <1>5, <1>6, ConcatProperties
  <2> HIDE DEF h
  <2>2. QED  BY <1>2, <1>5, <1>6, <2>1
<1> HIDE DEF h
<1>8. ASSUME NEW i \in 1..(k + 1), NEW s \in 1..Len(h), c[i - 1] < s, s <= c[i]
      PROVE  h[s] = depth[i].price
  <2>1. CASE i = k + 1
    <3>1. c[k] < s /\ s <= c[k] + w  BY <1>1, <1>2, <1>8, <2>1
    <3>2. s - c[k] \in 1..w  BY <1>1, <1>2, <3>1
    <3>3. h[s] = g[s - c[k]]  BY <1>2, <1>7, <3>1
    <3>4. QED  BY <1>6, <2>1, <3>2, <3>3 DEF p
  <2>2. CASE i \in 1..k
    <3>1. i \in 0..Len(depth) /\ i - 1 \in 0..Len(depth)  BY <1>1, <2>2
    <3>2. c[i] \in Nat  BY <3>1, CountsFacts DEF c
    <3>3. s \in 1..Len(f)  BY <1>2, <1>3, <1>5, <1>7, <1>8, <2>2, <3>2
    <3>4. h[s] = f[s]  BY <1>2, <1>5, <1>7, <3>3
    <3>5. QED  BY <1>5, <1>8, <2>2, <3>3, <3>4
  <2>3. QED  BY <1>1, <2>1, <2>2
<1>9. QED  BY <1>7, <1>8 DEF IsShares, h, c, g

\* The shares of a ladder: as many as its levels hold whole, at the price of the level
\* each lies in.
LEMMA WholeSharesAre ==
  ASSUME NEW depth \in Seq(LevelType)
  PROVE  IsShares(WholeShares(depth), depth, Len(depth))
<1> DEFINE ss == LevelShares(depth)
<1>1. Len(depth) \in Nat /\ Len(ss) = Len(depth)  BY LevelFacts DEF LevelShares
<1>2. WholeShares(depth) = FlattenSeq(ss)  BY DEF WholeShares, LevelShares
<1>3. IsShares(<<>>, depth, 0)
  <2>1. <<>> \in Seq(Price) /\ Len(<<>>) = 0  BY EmptySeq
  <2>2. QED  BY <2>1, CountsFacts DEF IsShares
<1>4. CASE Len(depth) = 0
  <2>1. FlattenSeq(ss) = ss  BY <1>1, <1>4 DEF FlattenSeq
  <2>2. ss = <<>>  BY <1>4 DEF LevelShares
  <2>3. QED  BY <1>2, <1>3, <1>4, <2>1, <2>2
<1>5. CASE Len(depth) # 0
  <2>1. PICK g : /\ FlattenSeq(ss) = g[Len(ss)]
                 /\ \A i \in 1..Len(ss) : g[i] = IF i = 1 THEN ss[i] ELSE g[i - 1] \o ss[i]
    <3> HIDE DEF ss
    <3>1. QED  BY <1>1, <1>5, FlattenEquation
  <2> HIDE DEF ss
  <2> DEFINE S == {n \in Nat : n \in 1..Len(depth) => IsShares(g[n], depth, n)}
  <2>2. 0 \in S  BY <1>1
  <2>3. ASSUME NEW n \in Nat, n \in S  PROVE n + 1 \in S
    <3>1. SUFFICES ASSUME n + 1 \in 1..Len(depth)  PROVE IsShares(g[n + 1], depth, n + 1)
      OBVIOUS
    <3>2. CASE n = 0
      <4>1. IsShares(<<>> \o ss[1], depth, 0 + 1)
        <5>1. 0 + 1 <= Len(depth) /\ 0 \in Nat /\ 0 + 1 = 1  BY <1>1, <3>1, <3>2
        <5>2. QED  BY <1>3, <5>1, MoreLevels DEF ss
      <4>2. ss[1] \in Seq(Price)
        <5>1. 1 \in 1..Len(depth)  BY <1>1, <1>5
        <5>2. ss[1] = [s \in 1..(depth[1].size \div Unit) |-> depth[1].price]
          BY <5>1 DEF ss, LevelShares
        <5>3. QED  BY <5>1, <5>2, LevelFacts, IsASeq
      <4>3. <<>> \o ss[1] = ss[1]  BY <4>2, ConcatEmptySeq
      <4>4. g[1] = ss[1]  BY <1>1, <1>5, <2>1
      <4>5. QED  BY <3>2, <4>1, <4>3, <4>4
    <3>3. CASE n # 0
      <4>1. n \in 1..Len(depth) /\ n + 1 # 1 /\ (n + 1) - 1 = n /\ n + 1 <= Len(depth)
        BY <1>1, <3>1, <3>3
      <4>2. g[n + 1] = g[n] \o ss[n + 1]  BY <1>1, <2>1, <3>1, <4>1
      <4>3. IsShares(g[n], depth, n)  BY <2>3, <4>1
      <4>4. QED  BY <4>1, <4>2, <4>3, MoreLevels DEF ss
    <3>4. QED  BY <3>2, <3>3
  <2>4. Nat \subseteq S
    <3> HIDE DEF S
    <3>1. QED  BY <2>2, <2>3, SetInduction
  <2>5. IsShares(g[Len(depth)], depth, Len(depth))
    <3>1. Len(depth) \in 1..Len(depth) /\ Len(depth) \in S  BY <1>1, <1>5, <2>4
    <3>2. QED  BY <3>1
  <2>6. QED  BY <1>1, <1>2, <2>1, <2>5
<1>6. QED  BY <1>4, <1>5

LEMMA PriceNat == \A p \in Price : p \in Nat /\ p <= One
<1>1. Price \subseteq 0..One  BY FillAssumption
<1>2. QED  BY <1>1, OneType

\* The shares of a ladder get dearer, none is cheaper than its top, and the first
\* is at the top when the top holds a whole one.
LEMMA LadderShares ==
  ASSUME NEW depth \in Seq(LevelType), Sorted(depth)
  PROVE  /\ WholeShares(depth) \in Seq(Price) /\ WholeShares(depth) \in Seq(Nat)
         /\ Len(WholeShares(depth)) \in Nat
         /\ Len(WholeShares(depth)) = Totals(Counts(depth))[Len(depth)]
         /\ Rising(WholeShares(depth))
         /\ \A s \in 1..Len(WholeShares(depth)) :
              /\ WholeShares(depth)[s] \in Price /\ WholeShares(depth)[s] \in Nat
              /\ depth[1].price <= WholeShares(depth)[s]
         /\ depth # <<>> /\ depth[1].size >= Unit =>
              /\ 1 <= Len(WholeShares(depth))
              /\ WholeShares(depth)[1] = depth[1].price
<1> DEFINE f == WholeShares(depth)
           c == Totals(Counts(depth))
           N == Len(depth)
<1>1. IsShares(f, depth, N)  BY WholeSharesAre
<1>2. /\ f \in Seq(Price) /\ Len(f) = c[N]
      /\ \A i \in 1..N : \A s \in 1..Len(f) : c[i - 1] < s /\ s <= c[i] => f[s] = depth[i].price
  BY <1>1 DEF IsShares
<1>3. N \in Nat /\ Len(f) \in Nat  BY <1>2, LevelFacts, LenProperties
<1>4. f \in Seq(Nat)
  <2>1. Price \subseteq Nat  BY PriceNat
  <2> HIDE DEF f
  <2>2. QED  BY <1>2, <2>1, SeqMonotonic
<1>5. \A s \in 1..Len(f) : \E i \in 1..N : c[i - 1] < s /\ s <= c[i] /\ f[s] = depth[i].price
  <2>1. TAKE s \in 1..Len(f)
  <2>2. N \in 0..N /\ s \in 1..c[N]  BY <1>2, <1>3
  <2>3. PICK i \in 1..N : c[i - 1] < s /\ s <= c[i]
    <3> HIDE DEF f
    <3>1. QED  BY <2>2, ShareInLevel
  <2>4. QED  BY <1>2, <2>3
<1>6. \A i \in 1..N : depth[i].price \in Price /\ depth[i].price \in Nat  BY LevelFacts
<1>7. \A k \in 0..N : c[k] \in Nat  BY CountsFacts
<1>8. \A i, j \in 0..N : i <= j => c[i] <= c[j]
  <2>1. TAKE i, j \in 0..N
  <2>2. HAVE i <= j
  <2>3. j \in i..N  BY <1>3, <2>2
  <2> HIDE DEF c
  <2>4. QED  BY <2>3, CountsGrow DEF c
<1>9. \A i, j \in 1..N : i <= j => depth[i].price <= depth[j].price  BY DEF Sorted
<1> HIDE DEF f, c, N
<1>10. Rising(f)
  <2>1. SUFFICES ASSUME NEW s \in 1..Len(f), NEW t \in 1..Len(f), s <= t  PROVE f[s] <= f[t]
    BY DEF Rising
  <2>2. PICK i \in 1..N : c[i - 1] < s /\ s <= c[i] /\ f[s] = depth[i].price  BY <1>5
  <2>3. PICK j \in 1..N : c[j - 1] < t /\ t <= c[j] /\ f[t] = depth[j].price  BY <1>5
  <2>4. i <= j
    <3>1. SUFFICES ASSUME j <= i - 1  PROVE FALSE  BY <1>3
    <3>2. j \in 0..N /\ i - 1 \in 0..N  BY <1>3
    <3>3. c[j] <= c[i - 1]  BY <1>8, <3>1, <3>2
    <3>4. c[j] \in Nat /\ c[i - 1] \in Nat  BY <1>7, <3>2
    <3>5. QED  BY <1>3, <2>1, <2>2, <2>3, <3>3, <3>4
  <2>5. QED  BY <1>9, <2>2, <2>3, <2>4
<1>11. \A s \in 1..Len(f) : f[s] \in Price /\ f[s] \in Nat /\ depth[1].price <= f[s]
  <2>1. TAKE s \in 1..Len(f)
  <2>2. PICK i \in 1..N : c[i - 1] < s /\ s <= c[i] /\ f[s] = depth[i].price  BY <1>5
  <2>3. 1 \in 1..N /\ 1 <= i  BY <1>3
  <2>4. QED  BY <1>6, <1>9, <2>2, <2>3
<1>12. ASSUME depth # <<>>, depth[1].size >= Unit
       PROVE  1 <= Len(f) /\ f[1] = depth[1].price
  <2>1. 1 \in 1..N /\ 0 \in 0..N /\ 1 \in 0..N /\ N \in 0..N /\ 1 - 1 = 0 /\ 1 <= N
    <3>1. N # 0  BY <1>12, EmptySeq DEF N
    <3>2. QED  BY <1>3, <3>1
  <2>2. c[0] = 0 /\ c[1] = c[0] + depth[1].size \div Unit
    BY <2>1, CountsFacts DEF c, N
  <2>3. depth[1].size \div Unit >= 1
    <3>1. depth[1].size \in Nat  BY <2>1, LevelFacts DEF N
    <3>2. Unit \in Nat /\ Unit > 0  BY FillAssumption
    <3> DEFINE z == depth[1].size
    <3>3. z \in Nat /\ z >= Unit  BY <1>12, <3>1
    <3> HIDE DEF z
    <3>4. z \div Unit >= 1  BY <3>2, <3>3
    <3>5. QED  BY <3>4 DEF z
  <2>4. c[1] \in Nat /\ c[1] <= c[N] /\ c[N] \in Nat  BY <1>7, <1>8, <2>1
  <2>5. depth[1].size \div Unit \in Nat  BY <2>1, LevelFacts DEF N
  <2>6. c[0] < 1 /\ 1 <= c[1] /\ 1 <= c[N]  BY <2>2, <2>3, <2>4, <2>5
  <2>7. 1 \in 1..Len(f)  BY <1>2, <1>3, <2>6
  <2>8. QED  BY <1>2, <1>3, <2>1, <2>6, <2>7
<1>13. QED  BY <1>2, <1>3, <1>4, <1>10, <1>11, <1>12 DEF f, c, N

\* Within a level each share costs its price.
LEMMA LevelTotal ==
  ASSUME NEW depth \in Seq(LevelType), Sorted(depth), NEW i \in 1..Len(depth)
  PROVE  \A m \in 0..(depth[i].size \div Unit) :
           Totals(WholeShares(depth))[Totals(Counts(depth))[i - 1] + m]
             = Totals(WholeShares(depth))[Totals(Counts(depth))[i - 1]] + m * depth[i].price
<1> DEFINE f == WholeShares(depth)
           t == Totals(f)
           b == Totals(Counts(depth))[i - 1]
           w == depth[i].size \div Unit
           p == depth[i].price
           S == {m \in Nat : m <= w => t[b + m] = t[b] + m * p}
<1>1. /\ Len(depth) \in Nat /\ w \in Nat /\ p \in Nat /\ b \in Nat
      /\ Totals(Counts(depth))[i] = b + w
  <2>1. Len(depth) \in Nat  BY LevelFacts
  <2>2. i - 1 \in 0..Len(depth)  BY <2>1
  <2>3. QED  BY <2>1, <2>2, LevelFacts, CountsFacts
<1>2. f \in Seq(Nat) /\ Len(f) \in Nat /\ b + w <= Len(f)
  <2>1. Totals(Counts(depth))[i] <= Totals(Counts(depth))[Len(depth)]
    <3>1. i \in 0..Len(depth) /\ Len(depth) \in i..Len(depth)  BY <1>1
    <3>2. QED  BY <3>1, CountsGrow
  <2>2. QED  BY <1>1, <2>1, LadderShares
<1>3. ASSUME NEW s \in 1..Len(f), b < s, s <= b + w  PROVE f[s] = p
  <2>1. IsShares(f, depth, Len(depth))  BY WholeSharesAre
  <2>2. QED  BY <1>1, <1>3, <2>1 DEF IsShares
<1> HIDE DEF f, b, w, p
<1>4. IsTotals(t, f, Len(f))  BY <1>2, TotalsEquation
<1>5. \A n \in 0..Len(f) : t[n] \in Nat  BY <1>4 DEF IsTotals
<1>6. 0 \in S
  <2>1. t[b] \in Nat  BY <1>1, <1>2, <1>5
  <2>2. 0 * p = 0 /\ b + 0 = b  BY <1>1
  <2> HIDE DEF t
  <2>3. QED  BY <1>1, <2>1, <2>2
<1>7. ASSUME NEW m \in Nat, m \in S  PROVE m + 1 \in S
  <2>1. SUFFICES ASSUME m + 1 <= w  PROVE t[b + (m + 1)] = t[b] + (m + 1) * p  OBVIOUS
  <2>2. b + m \in Nat /\ (b + m) + 1 <= Len(f) /\ b + (m + 1) = (b + m) + 1
        /\ b \in 0..Len(f)
    BY <1>1, <1>2, <2>1
  <2>3. t[(b + m) + 1] = t[b + m] + f[(b + m) + 1] /\ t[b + m] \in Nat
    BY <1>2, <2>2, NextTotal
  <2>4. f[(b + m) + 1] = p
    <3>1. (b + m) + 1 \in 1..Len(f) /\ b < (b + m) + 1 /\ (b + m) + 1 <= b + w
      BY <1>1, <1>2, <2>1, <2>2
    <3>2. QED  BY <1>3, <3>1
  <2> HIDE DEF t
  <2>5. t[b + m] = t[b] + m * p  BY <1>1, <1>7, <2>1
  <2>6. (m + 1) * p = m * p + p /\ m * p \in Nat  BY <1>1
  <2>7. t[b] \in Nat  BY <1>5, <2>2
  <2>8. QED  BY <1>1, <2>2, <2>3, <2>4, <2>5, <2>6, <2>7
<1>8. Nat \subseteq S
  <2> HIDE DEF S
  <2>1. QED  BY <1>6, <1>7, SetInduction
<1>9. \A m \in 0..w : t[b + m] = t[b] + m * p  BY <1>1, <1>8
<1>10. QED  BY <1>9 DEF f, t, b, w, p

-----------------------------------------------------------------------------
(* What compute_fill_price does with a ladder                              *)

TakeFrom(have, level) ==
  LET take == IF have.left <= level.size THEN have.left ELSE level.size
  IN  [left |-> have.left - take, cost |-> have.cost + take * level.price]

IsFill(g, depth, shares, n) ==
  /\ DOMAIN g = 0..n /\ g[0] = [left |-> shares * Unit, cost |-> 0]
  /\ \A i \in 1..n : g[i] = TakeFrom(g[i - 1], depth[i])

LEMMA FillExists ==
  ASSUME NEW depth, NEW shares, Len(depth) \in Nat
  PROVE  \E g : IsFill(g, depth, shares, Len(depth))
<1> DEFINE S == {n \in Nat : \E g : IsFill(g, depth, shares, n)}
<1>1. 0 \in S
  <2>1. IsFill([i \in 0..0 |-> [left |-> shares * Unit, cost |-> 0]], depth, shares, 0)
    BY DEF IsFill
  <2>2. QED  BY <2>1
<1>2. ASSUME NEW n \in Nat, n \in S  PROVE n + 1 \in S
  <2>1. PICK g : IsFill(g, depth, shares, n)  BY <1>2
  <2> DEFINE x == TakeFrom(g[n], depth[n + 1])
             h == [i \in 0..(n + 1) |-> IF i = n + 1 THEN x ELSE g[i]]
  <2>2. DOMAIN h = 0..(n + 1) /\ h[0] = [left |-> shares * Unit, cost |-> 0]
    BY <2>1 DEF IsFill
  <2>3. ASSUME NEW i \in 1..(n + 1)  PROVE h[i] = TakeFrom(h[i - 1], depth[i])
    <3>1. CASE i = n + 1
      <4>1. h[i] = x /\ h[i - 1] = g[n]  BY <3>1
      <4>2. QED  BY <3>1, <4>1
    <3>2. CASE i \in 1..n
      <4>1. h[i] = g[i] /\ h[i - 1] = g[i - 1]  BY <3>2
      <4>2. QED  BY <2>1, <3>2, <4>1 DEF IsFill
    <3>3. QED  BY <3>1, <3>2
  <2> HIDE DEF h
  <2>4. IsFill(h, depth, shares, n + 1)  BY <2>2, <2>3 DEF IsFill
  <2>5. QED  BY <2>4
<1> HIDE DEF S
<1>3. Len(depth) \in S  BY <1>1, <1>2, SetInduction
<1>4. QED  BY <1>3 DEF S

\* What Fill is: the last of what is left and paid level by level.
LEMMA FillEquation ==
  ASSUME NEW depth, NEW shares, Len(depth) \in Nat
  PROVE  \E g : IsFill(g, depth, shares, Len(depth)) /\ Fill(depth, shares) = g[Len(depth)]
<1> DEFINE Def(g) == g = [n \in 0..Len(depth) |->
                            IF n = 0 THEN [left |-> shares * Unit, cost |-> 0]
                            ELSE TakeFrom(g[n - 1], depth[n])]
           h == CHOOSE g : Def(g)
<1>1. \E g : Def(g)
  <2>1. PICK f : IsFill(f, depth, shares, Len(depth))  BY FillExists
  <2> DEFINE g == [n \in 0..Len(depth) |-> f[n]]
  <2>2. DOMAIN g = 0..Len(depth) /\ g = [n \in DOMAIN g |-> g[n]]
        /\ \A n \in 0..Len(depth) : g[n] = f[n]
    OBVIOUS
  <2> HIDE DEF g
  <2>3. \A n \in 0..Len(depth) :
          g[n] = IF n = 0 THEN [left |-> shares * Unit, cost |-> 0]
                 ELSE TakeFrom(g[n - 1], depth[n])
    BY <2>1, <2>2 DEF IsFill
  <2>4. Def(g)  BY <2>2, <2>3
  <2>5. QED  BY <2>4
<1>2. Def(h)  BY <1>1
<1>3. Fill(depth, shares) = h[Len(depth)]  BY DEF Fill, TakeFrom
<1> HIDE DEF h
<1>4. IsFill(h, depth, shares, Len(depth))  BY <1>2 DEF IsFill
<1>5. QED  BY <1>3, <1>4

LEMMA Distribute ==
  ASSUME NEW a \in Int, NEW b \in Int, NEW c \in Int
  PROVE  a * (b - c) = a * b - a * c /\ a * (b + c) = a * b + a * c
OBVIOUS

\* A dearer level costs at least as much.
LEMMA Dearer ==
  ASSUME NEW p \in Int, NEW q \in Int, NEW x \in Int, p <= q, 0 <= x
  PROVE  p * x <= q * x
OBVIOUS

\* The arithmetic of one level: F of n shares are bought for c, of which w whole ones
\* cost t; take more at q, of which v more are whole.
LEMMA LevelArithmetic ==
  ASSUME NEW p \in Int, NEW q \in Int, p <= q,
         NEW u \in Int, NEW F \in Int, NEW w \in Int, NEW v \in Int, NEW c \in Int,
         NEW t \in Int, NEW take \in Int,
         w * u <= F, c <= t * u + p * (F - w * u)
  PROVE  c + take * q <= (t + v * q) * u + q * ((F + take) - (w + v) * u)
<1> DEFINE wu == w * u
           vu == v * u
           x == F - wu
<1>1. wu \in Int /\ vu \in Int /\ x \in Int /\ 0 <= x  OBVIOUS
<1>2. (w + v) * u = wu + vu  OBVIOUS
<1>3. (t + v * q) * u = t * u + q * vu
  <2>1. v * q \in Int /\ (v * q) * u = q * vu  OBVIOUS
  <2> DEFINE vq == v * q
  <2> HIDE DEF vq, vu
  <2>2. (t + vq) * u = t * u + vq * u  BY <2>1 DEF vq
  <2>3. QED  BY <2>1, <2>2 DEF vq
<1>4. c <= t * u + p * x  OBVIOUS
<1> HIDE DEF wu, vu, x
<1>5. p * x <= q * x  BY <1>1, Dearer
<1>6. (F + take) - (wu + vu) = (x + take) - vu  BY <1>1 DEF x
<1>7. q * ((x + take) - vu) = q * x + take * q - q * vu
  <2> DEFINE y == x + take
  <2>1. y \in Int /\ q * y = q * x + q * take  BY <1>1, Distribute
  <2>2. q * take = take * q  BY ONLY q \in Int, take \in Int
  <2> HIDE DEF y
  <2>3. q * (y - vu) = q * y - q * vu  BY <1>1, <2>1, Distribute
  <2>4. q * x \in Int /\ take * q \in Int /\ q * vu \in Int /\ q * take \in Int
        /\ q * y \in Int
    BY <1>1, <2>1
  <2>5. q * (y - vu) = q * x + take * q - q * vu  BY ONLY <2>1, <2>2, <2>3, <2>4
  <2>6. QED  BY ONLY <2>5 DEF y
<1>8. /\ t * u \in Int /\ p * x \in Int /\ q * x \in Int /\ q * vu \in Int /\ take * q \in Int
  BY <1>1
<1> DEFINE tu == t * u
           px == p * x
           qx == q * x
           qvu == q * vu
           tq == take * q
<1>9. tu \in Int /\ px \in Int /\ qx \in Int /\ qvu \in Int /\ tq \in Int  BY <1>8
<1>10. c <= tu + px /\ px <= qx  BY <1>4, <1>5
<1>11. (t + v * q) * u = tu + qvu  BY <1>3
<1>12. q * ((F + take) - (w + v) * u) = qx + tq - qvu  BY <1>2, <1>6, <1>7
<1> HIDE DEF tu, px, qx, qvu, tq
<1>13. c + tq <= (tu + qvu) + (qx + tq - qvu)  BY <1>9, <1>10
<1>14. QED  BY <1>11, <1>12, <1>13 DEF tq

\* What a ladder has given after k levels, of shares asked for: no less than the
\* whole shares of those levels, and what is beyond them at no more than the price of
\* the last.
Given(depth, shares, k, have) ==
  LET whole  == Totals(Counts(depth))[k]
      w      == IF shares <= whole THEN shares ELSE whole
      bought == shares * Unit - have.left
      p      == IF k = 0 THEN 0 ELSE depth[k].price
  IN  /\ have.left \in Nat /\ have.cost \in Nat
      /\ w * Unit <= bought
      /\ have.cost <= Totals(WholeShares(depth))[w] * Unit + p * (bought - w * Unit)

LEMMA MoreGiven ==
  ASSUME NEW depth \in Seq(LevelType), Sorted(depth), NEW shares \in Nat,
         NEW k \in Nat, k + 1 <= Len(depth), NEW have, Given(depth, shares, k, have)
  PROVE  Given(depth, shares, k + 1, TakeFrom(have, depth[k + 1]))
<1> DEFINE c == Totals(Counts(depth))
           t == Totals(WholeShares(depth))
           q == depth[k + 1].price
           size == depth[k + 1].size
           count == size \div Unit
           w == IF shares <= c[k] THEN shares ELSE c[k]
           w2 == IF shares <= c[k + 1] THEN shares ELSE c[k + 1]
           bought == shares * Unit - have.left
           p == IF k = 0 THEN 0 ELSE depth[k].price
           take == IF have.left <= size THEN have.left ELSE size
           v == w2 - w
<1>1. /\ Len(depth) \in Nat /\ k + 1 \in 1..Len(depth) /\ k \in 0..Len(depth)
      /\ k + 1 \in 0..Len(depth) /\ (k + 1) - 1 = k
      /\ k # 0 => k \in 1..Len(depth)
  <2>1. Len(depth) \in Nat  BY LevelFacts
  <2>2. QED  BY <2>1
<1>2. /\ q \in Nat /\ size \in Nat /\ count \in Nat /\ Unit \in Nat /\ Unit > 0
  BY <1>1, LevelFacts, FillAssumption
<1>3. c[k] \in Nat /\ c[k + 1] \in Nat /\ c[k + 1] = c[k] + count  BY <1>1, CountsFacts
<1>4. p \in Nat /\ p <= q
  <2>1. CASE k = 0  BY <1>2, <2>1
  <2>2. CASE k # 0
    <3>1. k \in 1..Len(depth) /\ k <= k + 1  BY <1>1, <2>2
    <3>2. depth[k].price \in Nat /\ depth[k].price <= q
      BY <1>1, <3>1, LevelFacts DEF Sorted
    <3>3. QED  BY <2>2, <3>2
  <2>3. QED  BY <2>1, <2>2
<1>5. /\ have.left \in Nat /\ have.cost \in Nat
      /\ w * Unit <= bought
      /\ have.cost <= t[w] * Unit + p * (bought - w * Unit)
  BY DEF Given
<1> HIDE DEF c, t, q, size, count, bought, p
<1>6. /\ w \in Nat /\ w2 \in Nat /\ v \in 0..count /\ w2 = w + v
      /\ v # 0 => w = c[k]
  BY <1>2, <1>3
<1>7. t[w] \in Nat /\ t[w2] = t[w] + v * q
  <2>1. w \in 0..Len(WholeShares(depth))
    <3>1. Len(WholeShares(depth)) \in Nat /\ Len(WholeShares(depth)) = c[Len(depth)]
      BY LadderShares DEF c
    <3>2. c[k] <= c[Len(depth)]
      <4>1. Len(depth) \in k..Len(depth)  BY <1>1
      <4>2. QED  BY <1>1, <4>1, CountsGrow DEF c
    <3>3. QED  BY <1>3, <3>1, <3>2
  <2>2. t[w] \in Nat
    <3>1. IsTotals(t, WholeShares(depth), Len(WholeShares(depth)))
      BY LadderShares, TotalsEquation DEF t
    <3>2. QED  BY <2>1, <3>1 DEF IsTotals
  <2>3. CASE v = 0
    <3>1. w2 = w  BY <1>6, <2>3
    <3>2. v * q = 0  BY <1>2, <2>3
    <3> HIDE DEF w, w2, v
    <3>3. QED  BY <2>2, <3>1, <3>2
  <2>4. CASE v # 0
    <3>1. w = c[k] /\ v \in 0..count  BY <1>6, <2>4
    <3>2. \A m \in 0..count : t[c[k] + m] = t[c[k]] + m * q
      BY <1>1, LevelTotal DEF t, c, q, count, size
    <3> HIDE DEF w, w2, v
    <3>3. t[c[k] + v] = t[c[k]] + v * q  BY <3>1, <3>2
    <3>4. QED  BY <1>6, <2>2, <3>1, <3>3
  <2>5. QED  BY <2>3, <2>4
<1>8. TakeFrom(have, depth[k + 1]) = [left |-> have.left - take, cost |-> have.cost + take * q]
  BY DEF TakeFrom, q, size
<1>9. take \in Nat /\ take <= have.left /\ (take = have.left \/ take = size)
  BY <1>2, <1>5
<1>10. take * q \in Nat  BY <1>2, <1>9
<1>11. shares * Unit \in Int /\ bought \in Int /\ shares * Unit - (have.left - take) = bought + take
  BY <1>2, <1>5, <1>9 DEF bought
<1> HIDE DEF w, w2, v, take
<1>12. w2 * Unit <= bought + take
  <2>1. CASE take = have.left
    <3>1. bought + take = shares * Unit  BY <1>5, <1>11, <2>1
    <3>2. w2 <= shares  BY <1>3 DEF w2
    <3>3. w2 * Unit <= shares * Unit
      BY ONLY <1>2, <1>6, <3>2, shares \in Nat, Dearer
    <3>4. QED  BY <3>1, <3>3
  <2>2. CASE take = size
    <3>1. count * Unit <= size
      BY <1>2 DEF count
    <3>2. v * Unit <= count * Unit
      <4>1. v \in Int /\ count \in Int /\ v <= count /\ Unit \in Int /\ 0 <= Unit  BY <1>2, <1>6
      <4>2. QED  BY ONLY <4>1, Dearer
    <3>3. w2 * Unit = w * Unit + v * Unit
      <4>1. w \in Int /\ v \in Int /\ Unit \in Int /\ w2 = w + v  BY <1>2, <1>6
      <4>2. QED  BY ONLY <4>1
    <3>4. w * Unit \in Int /\ v * Unit \in Int /\ count * Unit \in Int  BY <1>2, <1>6
    <3>5. QED  BY <1>2, <1>5, <1>11, <2>2, <3>1, <3>2, <3>3, <3>4
  <2>3. QED  BY <1>9, <2>1, <2>2
<1>13. have.cost + take * q <= (t[w] + v * q) * Unit + q * ((bought + take) - (w + v) * Unit)
  <2>1. /\ p \in Int /\ q \in Int /\ p <= q /\ Unit \in Int /\ bought \in Int
        /\ w \in Int /\ v \in Int /\ have.cost \in Int /\ t[w] \in Int /\ take \in Int
        /\ w * Unit <= bought
        /\ have.cost <= t[w] * Unit + p * (bought - w * Unit)
    <3>1. p \in Int /\ q \in Int /\ p <= q /\ Unit \in Int  BY <1>2, <1>4
    <3>2. bought \in Int  BY <1>11
    <3>3. w \in Int /\ v \in Int  BY <1>2, <1>6
    <3>4. have.cost \in Int  BY <1>5
    <3>5. t[w] \in Int  BY <1>7
    <3>6. take \in Int  BY <1>9
    <3>7. w * Unit <= bought /\ have.cost <= t[w] * Unit + p * (bought - w * Unit)  BY ONLY <1>5
    <3>8. QED  BY ONLY <3>1, <3>2, <3>3, <3>4, <3>5, <3>6, <3>7
  <2>2. QED  BY ONLY <2>1, LevelArithmetic
<1>14. have.cost + take * q <= t[w2] * Unit + q * ((bought + take) - w2 * Unit)
  BY <1>6, <1>7, <1>13
<1> DEFINE next == TakeFrom(have, depth[k + 1])
<1>15. next.left = have.left - take /\ next.cost = have.cost + take * q  BY <1>8
<1>16. next.left \in Nat /\ next.cost \in Nat /\ shares * Unit - next.left = bought + take
  <2>1. have.left - take \in Nat  BY <1>5, <1>9
  <2>2. have.cost + take * q \in Nat  BY <1>5, <1>10
  <2>3. QED  BY <1>11, <1>15, <2>1, <2>2
<1>17. k + 1 # 0  OBVIOUS
<1> HIDE DEF next
<1>18. Given(depth, shares, k + 1, next)
  <2> DEFINE whole == Totals(Counts(depth))[k + 1]
             ww == IF shares <= whole THEN shares ELSE whole
  <2>1. ww = w2  BY DEF w2, c
  <2>2. (IF k + 1 = 0 THEN 0 ELSE depth[k + 1].price) = q  BY <1>17 DEF q
  <2> HIDE DEF whole, ww
  <2>3. /\ w2 * Unit <= shares * Unit - next.left
        /\ next.cost <= t[w2] * Unit + q * ((shares * Unit - next.left) - w2 * Unit)
    BY <1>12, <1>14, <1>15, <1>16
  <2>4. QED  BY <1>16, <2>1, <2>2, <2>3 DEF Given, ww, whole, t
<1>19. QED  BY <1>18 DEF next

\* Where the whole shares suffice, compute_fill_price is left short of nothing and
\* pays no more than they cost: it also uses the fractions, which are as cheap.
LEMMA FillOfWhole ==
  ASSUME NEW depth \in Seq(LevelType), Sorted(depth), NEW shares \in Nat,
         shares <= Len(WholeShares(depth))
  PROVE  /\ Fill(depth, shares).left = 0 /\ Fill(depth, shares).cost \in Nat
         /\ Fill(depth, shares).cost <= Totals(WholeShares(depth))[shares] * Unit
<1> DEFINE N == Len(depth)
           t == Totals(WholeShares(depth))
<1>1. N \in Nat /\ Unit \in Nat  BY LevelFacts, FillAssumption
<1>2. PICK g : IsFill(g, depth, shares, N) /\ Fill(depth, shares) = g[N]
  BY <1>1, FillEquation
<1>3. Totals(Counts(depth))[0] = 0  BY CountsFacts
<1>4. IsTotals(t, WholeShares(depth), Len(WholeShares(depth))) /\ Len(WholeShares(depth)) \in Nat
  BY LadderShares, TotalsEquation
<1>5. t[0] = 0 /\ t[shares] \in Nat
  <2>1. shares \in 0..Len(WholeShares(depth))  BY <1>4
  <2>2. QED  BY <1>4, <2>1 DEF IsTotals
<1> HIDE DEF N, t
<1> DEFINE S == {n \in Nat : n <= N => Given(depth, shares, n, g[n])}
<1>6. 0 \in S
  <2>1. g[0].left = shares * Unit /\ g[0].cost = 0  BY <1>2 DEF IsFill
  <2>2. shares * Unit \in Nat  BY <1>1
  <2>3. (IF shares <= 0 THEN shares ELSE 0) = 0  OBVIOUS
  <2>4. Given(depth, shares, 0, g[0])
    <3>1. 0 * Unit = 0 /\ shares * Unit - g[0].left = 0 /\ g[0].left \in Nat /\ g[0].cost \in Nat
      BY <1>1, <2>1, <2>2
    <3>2. 0 * 0 = 0 /\ 0 - 0 = 0  OBVIOUS
    <3>3. QED  BY <1>3, <1>5, <2>1, <2>3, <3>1, <3>2 DEF Given, t
  <2>5. QED  BY <2>4
<1>7. ASSUME NEW n \in Nat, n \in S  PROVE n + 1 \in S
  <2>1. SUFFICES ASSUME n + 1 <= N  PROVE Given(depth, shares, n + 1, g[n + 1])  OBVIOUS
  <2>2. Given(depth, shares, n, g[n])  BY <1>1, <1>7, <2>1
  <2>3. n + 1 \in 1..N /\ (n + 1) - 1 = n  BY <1>1, <2>1
  <2>4. g[n + 1] = TakeFrom(g[n], depth[n + 1])  BY <1>2, <2>3 DEF IsFill
  <2>5. QED  BY <2>1, <2>2, <2>4, MoreGiven DEF N
<1>8. Nat \subseteq S
  <2> HIDE DEF S
  <2>1. QED  BY <1>6, <1>7, SetInduction
<1>9. Given(depth, shares, N, g[N])  BY <1>1, <1>8
<1>10. (IF shares <= Totals(Counts(depth))[N] THEN shares ELSE Totals(Counts(depth))[N]) = shares
  BY LadderShares DEF N
<1> DEFINE p == IF N = 0 THEN 0 ELSE depth[N].price
           left == g[N].left
           spent == g[N].cost
<1>11. /\ left \in Nat /\ spent \in Nat
       /\ shares * Unit <= shares * Unit - left
       /\ spent <= t[shares] * Unit + p * ((shares * Unit - left) - shares * Unit)
  BY <1>9, <1>10 DEF Given, t
<1>12. p \in Nat
  <2>1. N # 0 => N \in 1..Len(depth)  BY <1>1 DEF N
  <2>2. QED  BY <2>1, LevelFacts
<1> HIDE DEF p
<1>13. shares * Unit \in Nat /\ t[shares] * Unit \in Nat  BY <1>1, <1>5
<1> HIDE DEF left, spent
<1>14. left = 0  BY <1>11, <1>13
<1>15. (shares * Unit - left) - shares * Unit = 0 /\ p * 0 = 0  BY <1>12, <1>13, <1>14
<1>16. spent <= t[shares] * Unit  BY <1>11, <1>13, <1>15
<1>17. QED  BY <1>2, <1>11, <1>14, <1>16 DEF left, spent, t

-----------------------------------------------------------------------------
(* The two legs of a direction                                             *)

YesShares(d) == WholeShares(YesDepth(d))
NoShares(d)  == WholeShares(NoDepth(d))

LEMMA Legs ==
  ASSUME books \in Pairs, NEW d \in 1..2
  PROVE  /\ YesDepth(d) \in Seq(LevelType) /\ Sorted(YesDepth(d))
         /\ NoDepth(d) \in Seq(LevelType) /\ Sorted(NoDepth(d))
         /\ YesShares(d) \in Seq(Price) /\ Rising(YesShares(d))
         /\ NoShares(d) \in Seq(Price) /\ Rising(NoShares(d))
<1>1. YesVenue(d) \in Venue /\ NoVenue(d) \in Venue  BY DEF YesVenue, NoVenue, Venue
<1>2. \A v \in Venue : books[v] \in [yes : Seq(LevelType), no : Seq(LevelType)]
  BY FillAssumption DEF LevelType
<1>3. \A v \in Venue : Sorted(books[v].yes) /\ Sorted(books[v].no)
  BY FillAssumption
<1>4. /\ YesDepth(d) \in Seq(LevelType) /\ Sorted(YesDepth(d))
      /\ NoDepth(d) \in Seq(LevelType) /\ Sorted(NoDepth(d))
  BY <1>1, <1>2, <1>3 DEF YesDepth, NoDepth
<1>5. QED  BY <1>4, LadderShares DEF YesShares, NoShares

\* A fee is never negative.
LEMMA FeeNonNegative ==
  ASSUME NEW rate \in 0..100, NEW p \in 0..One
  PROVE  QuadraticFee(rate, p) \in Nat
<1>1. rate * p \in Nat /\ One - p \in Nat  BY OneType
<1>2. rate * p * (One - p) \in Nat
  <2> DEFINE a == rate * p
             b == One - p
  <2>1. a \in Nat /\ b \in Nat  BY <1>1
  <2> HIDE DEF a, b
  <2>2. a * b \in Nat  BY <2>1
  <2>3. QED  BY <2>2 DEF a, b
<1> DEFINE c == rate * p * (One - p)
<1> HIDE DEF c
<1>3. c + 50 * One \in Nat /\ 100 * One \in Nat /\ 100 * One > 0
  BY <1>2, OneType DEF c
<1>4. (c + 50 * One) \div (100 * One) \in Nat  BY <1>3, Quotient
<1>5. QED  BY <1>4 DEF QuadraticFee, c

LEMMA FeesNonNegative ==
  ASSUME NEW d \in 1..2, NEW yes \in Price, NEW no \in Price
  PROVE  FeesOf(d, yes, no) \in Nat
<1>1. yes \in 0..One /\ no \in 0..One  BY FillAssumption
<1>2. \A v : Rate(v) \in 0..100  BY FillAssumption DEF Rate
<1>3. QuadraticFee(Rate(YesVenue(d)), yes) \in Nat  BY <1>1, <1>2, FeeNonNegative
<1>4. QuadraticFee(Rate(NoVenue(d)), no) \in Nat  BY <1>1, <1>2, FeeNonNegative
<1>5. QED  BY <1>3, <1>4 DEF FeesOf

\* The number of shares both legs can give, within the cap.
LEMMA SharesWithin ==
  ASSUME books \in Pairs, NEW d \in 1..2
  PROVE  /\ Shares(d) \in Nat
         /\ Shares(d) <= Cap /\ Shares(d) <= Len(YesShares(d)) /\ Shares(d) <= Len(NoShares(d))
         /\ \/ Shares(d) = Cap
            \/ Shares(d) = Len(YesShares(d))
            \/ Shares(d) = Len(NoShares(d))
<1>1. Len(YesShares(d)) \in Nat /\ Len(NoShares(d)) \in Nat /\ Cap \in Nat
  BY Legs, LenProperties, FillAssumption
<1>2. QED  BY <1>1 DEF Shares, YesShares, NoShares

LEMMA OutlaysRise ==
  ASSUME books \in Pairs, NEW d \in 1..2
  PROVE  /\ Outlays(d) \in Seq(Nat) /\ Len(Outlays(d)) = Shares(d) /\ Rising(Outlays(d))
         /\ Charges(d) \in Seq(Nat) /\ Len(Charges(d)) = Shares(d)
<1> DEFINE N == Shares(d)
<1>1. N \in Nat /\ \A i \in 1..N : YesShares(d)[i] \in Price /\ NoShares(d)[i] \in Price
  <2>1. N \in Nat /\ N <= Len(YesShares(d)) /\ N <= Len(NoShares(d))  BY SharesWithin
  <2>2. \A i \in 1..Len(YesShares(d)) : YesShares(d)[i] \in Price  BY Legs, ElementOfSeq
  <2>3. \A i \in 1..Len(NoShares(d)) : NoShares(d)[i] \in Price  BY Legs, ElementOfSeq
  <2>4. Len(YesShares(d)) \in Nat /\ Len(NoShares(d)) \in Nat  BY Legs, LenProperties
  <2>5. QED  BY <2>1, <2>2, <2>3, <2>4
<1>2. \A p \in Price : p \in Nat  BY FillAssumption, OneType
<1>3. Outlays(d) = [i \in 1..N |-> YesShares(d)[i] + NoShares(d)[i]]
  BY DEF Outlays, YesShares, NoShares
<1>4. Charges(d) = [i \in 1..N |-> FeesOf(d, YesShares(d)[i], NoShares(d)[i])]
  BY DEF Charges, YesShares, NoShares
<1>5. \A i, j \in 1..N : i <= j => /\ YesShares(d)[i] <= YesShares(d)[j]
                                   /\ NoShares(d)[i] <= NoShares(d)[j]
  <2>1. N \in Nat /\ N <= Len(YesShares(d)) /\ N <= Len(NoShares(d))  BY SharesWithin
  <2>2. Len(YesShares(d)) \in Nat /\ Len(NoShares(d)) \in Nat  BY Legs, LenProperties
  <2>3. \A i \in 1..N : i \in 1..Len(YesShares(d)) /\ i \in 1..Len(NoShares(d))
    BY <2>1, <2>2
  <2>4. Rising(YesShares(d)) /\ Rising(NoShares(d))  BY Legs
  <2> HIDE DEF N
  <2>5. QED  BY <2>3, <2>4 DEF Rising
<1> HIDE DEF N
<1>6. Outlays(d) \in Seq(Nat) /\ Len(Outlays(d)) = N
  <2>1. \A i \in 1..N : YesShares(d)[i] + NoShares(d)[i] \in Nat
    <3>1. ASSUME NEW i \in 1..N  PROVE YesShares(d)[i] \in Nat /\ NoShares(d)[i] \in Nat
      BY <1>1, <1>2
    <3>2. QED  BY <3>1
  <2>2. QED  BY <1>1, <1>3, <2>1, IsASeq
<1>7. Charges(d) \in Seq(Nat) /\ Len(Charges(d)) = N
  <2>1. \A i \in 1..N : FeesOf(d, YesShares(d)[i], NoShares(d)[i]) \in Nat
    BY <1>1, FeesNonNegative
  <2>2. QED  BY <1>1, <1>4, <2>1, IsASeq
<1>8. Rising(Outlays(d))
  <2>1. ASSUME NEW i \in 1..N, NEW j \in 1..N, i <= j
        PROVE  Outlays(d)[i] <= Outlays(d)[j]
    <3>1. /\ Outlays(d)[i] = YesShares(d)[i] + NoShares(d)[i]
          /\ Outlays(d)[j] = YesShares(d)[j] + NoShares(d)[j]
      BY <1>3
    <3>2. /\ YesShares(d)[i] \in Nat /\ NoShares(d)[i] \in Nat
          /\ YesShares(d)[j] \in Nat /\ NoShares(d)[j] \in Nat  BY <1>1, <1>2
    <3>3. YesShares(d)[i] <= YesShares(d)[j] /\ NoShares(d)[i] <= NoShares(d)[j]
      BY <1>5, <2>1
    <3>4. QED  BY <3>1, <3>2, <3>3
  <2>2. QED  BY <1>6, <2>1 DEF Rising
<1>9. QED  BY <1>6, <1>7, <1>8 DEF N

-----------------------------------------------------------------------------
(* The early exit                                                          *)

LEMMA Cancel ==
  ASSUME NEW k \in Int, k > 0, NEW a \in Int, NEW b \in Int, k * a <= k * b
  PROVE  a <= b
OBVIOUS

LEMMA ExitStays ==
  ASSUME NEW k \in Int, k > 0, NEW n \in Int, n > 0, NEW c \in Int, NEW tk \in Int, NEW tn \in Int,
         tk >= c * k, n * tk <= k * tn
  PROVE  tn >= c * n
<1>1. n * (c * k) <= n * tk
  <2> DEFINE x == c * k
  <2>1. x \in Int /\ x <= tk  OBVIOUS
  <2> HIDE DEF x
  <2>2. n * x <= n * tk  BY <2>1
  <2>3. QED  BY <2>2 DEF x
<1>2. n * (c * k) = k * (c * n)  OBVIOUS
<1>3. c * n \in Int /\ n * tk \in Int /\ k * tn \in Int /\ n * (c * k) \in Int  OBVIOUS
<1>4. k * (c * n) <= k * tn  BY <1>1, <1>2, <1>3
<1>5. QED  BY ONLY <1>3, <1>4, Cancel, k > 0, k \in Int, tn \in Int

\* Once the average leaves no more than the buffer, no larger size clears: the
\* average only rises, and fees are not negative.
LEMMA NoneBeyond ==
  ASSUME books \in Pairs, NEW d \in 1..2, NEW k \in 1..Shares(d),
         Exhausted(k, Totals(Outlays(d))[k])
  PROVE  \A n \in k..Shares(d) : ~SizeClears(d, n)
<1> DEFINE paid == Totals(Outlays(d))
           fees == Totals(Charges(d))
<1>1. Shares(d) \in Nat  BY SharesWithin
<1>2. IsTotals(paid, Outlays(d), Shares(d)) /\ IsTotals(fees, Charges(d), Shares(d))
  BY OutlaysRise, TotalsEquation
<1>3. TAKE n \in k..Shares(d)
<1>4. n \in 1..Shares(d) /\ k \in Int /\ k > 0 /\ n \in Int /\ n > 0  BY <1>1
<1>5. n * paid[k] <= k * paid[n]  BY OutlaysRise, AverageRises
<1>6. paid[k] \in Nat /\ paid[n] \in Nat /\ fees[n] \in Nat
  BY <1>1, <1>2, <1>4 DEF IsTotals
<1>7. One - Buffer \in Int /\ One \in Int /\ Buffer \in Int  BY FillAssumption, OneType
<1>8. paid[k] >= (One - Buffer) * k  BY DEF Exhausted
<1> HIDE DEF paid, fees
<1>9. paid[n] >= (One - Buffer) * n
  <2>1. paid[k] \in Int /\ paid[n] \in Int  BY <1>6
  <2>2. QED  BY ONLY <1>4, <1>5, <1>7, <1>8, <2>1, ExitStays
<1>10. (One - Buffer) * n = One * n - Buffer * n  BY <1>4, <1>7
<1>11. One * n \in Int /\ Buffer * n \in Int  BY <1>4, <1>7
<1>12. ~(One * n - paid[n] - fees[n] > Buffer * n)
  BY <1>6, <1>9, <1>10, <1>11
<1>13. QED  BY <1>12 DEF SizeClears, EdgeAt, paid, fees

-----------------------------------------------------------------------------
(* The inductive invariant                                                 *)

\* What a walk has, in terms of the reference.
Walked ==
  pc # "turn" =>
    /\ YesDepth(turn) # <<>> /\ NoDepth(turn) # <<>>
    /\ filled <= Shares(turn)
    /\ cost = Totals(Outlays(turn))[filled] /\ fee = Totals(Charges(turn))[filled]
    /\ \A n \in 1..Len(edges) : edges[n] = EdgeAt(turn, n)
    /\ best.size > 0 => /\ SizeClears(turn, best.size)
                        /\ best.cost = Totals(Outlays(turn))[best.size]
    /\ \A n \in 1..Len(edges) : SizeClears(turn, n) => n <= best.size
    /\ pc = "walk" => Len(edges) = filled
    /\ pc = "compare" => \/ Len(edges) = Shares(turn)
                         \/ Len(edges) + 1 = filled /\ Exhausted(filled, cost)

IInv == TypeOK /\ Walked

\* Nothing of the reference depends on the walk.
LEMMA SameReference ==
  ASSUME books' = books, turn' = turn
  PROVE  /\ YesDepth(turn)' = YesDepth(turn) /\ NoDepth(turn)' = NoDepth(turn)
         /\ Shares(turn)' = Shares(turn)
         /\ Totals(Outlays(turn))' = Totals(Outlays(turn))
         /\ Totals(Charges(turn))' = Totals(Charges(turn))
         /\ \A n : EdgeAt(turn, n)' = EdgeAt(turn, n)
         /\ \A n : SizeClears(turn, n)' = SizeClears(turn, n)
<1>1. YesDepth(turn)' = YesDepth(turn) /\ NoDepth(turn)' = NoDepth(turn)
  BY DEF YesDepth, NoDepth
<1>2. Shares(turn)' = Shares(turn)  BY <1>1 DEF Shares
<1>3. Outlays(turn)' = Outlays(turn) /\ Charges(turn)' = Charges(turn)
  BY <1>1, <1>2 DEF Outlays, Charges
<1>4. /\ Totals(Outlays(turn))' = Totals(Outlays(turn))
      /\ Totals(Charges(turn))' = Totals(Charges(turn))
  BY <1>3 DEF Totals
<1>5. \A n : EdgeAt(turn, n)' = EdgeAt(turn, n)  BY <1>4 DEF EdgeAt
<1>6. \A n : SizeClears(turn, n)' = SizeClears(turn, n)  BY <1>5 DEF SizeClears
<1>7. QED  BY <1>1, <1>2, <1>4, <1>5, <1>6

LEMMA InitIInv == Init => IInv
<1>1. SUFFICES ASSUME Init  PROVE IInv  OBVIOUS
<1>2. Cap \in Nat  BY FillAssumption
<1>3. TypeOK  BY <1>1, <1>2 DEF Init, TypeOK, NoRow, Nothing
<1>4. Walked  BY <1>1 DEF Init, Walked
<1>5. QED  BY <1>3, <1>4 DEF IInv

LEMMA NextDirectionIInv == IInv /\ NextDirection => IInv'
<1>1. SUFFICES ASSUME IInv, NextDirection  PROVE IInv'  OBVIOUS
<1>2. Cap \in Nat  BY FillAssumption
<1>3. TypeOK'  BY <1>1, <1>2 DEF IInv, NextDirection, TypeOK, Nothing
<1>4. CASE pc' = "turn"  BY <1>3, <1>4 DEF IInv, Walked
<1>5. CASE pc' # "turn"
  <2>1. pc' = "walk" /\ turn' = turn /\ books' = books /\ turn \in 1..2
    BY <1>1, <1>5 DEF NextDirection, IInv, TypeOK
  <2>2. YesDepth(turn) # <<>> /\ NoDepth(turn) # <<>>  BY <1>1, <1>5 DEF NextDirection
  <2>3. books \in Pairs  BY <1>1 DEF IInv, TypeOK
  <2>4. Shares(turn) \in Nat  BY <2>1, <2>3, SharesWithin
  <2>5. Totals(Outlays(turn))[0] = 0 /\ Totals(Charges(turn))[0] = 0
    BY <2>1, <2>3, OutlaysRise, TotalsEquation DEF IsTotals
  <2>6. /\ filled' = 0 /\ cost' = 0 /\ fee' = 0 /\ edges' = <<>> /\ best' = Nothing
    BY <1>1 DEF NextDirection
  <2>7. Walked'  BY <2>1, <2>2, <2>4, <2>5, <2>6, SameReference DEF Walked, Nothing
  <2>8. QED  BY <1>3, <2>7 DEF IInv
<1>6. QED  BY <1>4, <1>5

\* A share more of each leg moves the totals of the walk to the next ones.
LEMMA ShareBought ==
  ASSUME IInv, BuyShare
  PROVE  /\ turn \in 1..2 /\ books \in Pairs
         /\ filled' = filled + 1 /\ filled' \in 1..Shares(turn) /\ Shares(turn) <= Cap
         /\ cost' \in Nat /\ fee' \in Nat
         /\ cost' = Totals(Outlays(turn))[filled'] /\ fee' = Totals(Charges(turn))[filled']
         /\ Edge(filled', cost', fee') = EdgeAt(turn, filled')
         /\ EdgeAt(turn, filled') \in Int
<1> DEFINE yes == WholeShares(YesDepth(turn))[filled']
           no  == WholeShares(NoDepth(turn))[filled']
<1>1. turn \in 1..2 /\ books \in Pairs /\ filled \in Nat /\ Cap \in Nat
  BY FillAssumption DEF IInv, TypeOK, BuyShare
<1>2. filled' = filled + 1 /\ cost' = cost + yes + no /\ fee' = fee + FeesOf(turn, yes, no)
  BY DEF BuyShare
<1>3. /\ cost = Totals(Outlays(turn))[filled] /\ fee = Totals(Charges(turn))[filled]
      /\ filled <= Shares(turn)
  BY DEF IInv, Walked, BuyShare
<1>4. /\ filled < Cap /\ filled < Len(YesShares(turn)) /\ filled < Len(NoShares(turn))
  BY DEF BuyShare, MoreShares, YesShares, NoShares
<1>5. filled' \in 1..Shares(turn) /\ Shares(turn) \in Nat /\ Shares(turn) <= Cap
  BY <1>1, <1>2, <1>3, <1>4, SharesWithin
<1>6. yes \in Price /\ no \in Price
  <2>1. filled' \in 1..Len(YesShares(turn)) /\ filled' \in 1..Len(NoShares(turn))
    <3>1. Len(YesShares(turn)) \in Nat /\ Len(NoShares(turn)) \in Nat
      BY <1>1, Legs, LenProperties
    <3>2. QED  BY <1>1, <1>2, <1>4, <3>1
  <2>2. QED  BY <1>1, <2>1, Legs, ElementOfSeq DEF YesShares, NoShares
<1>7. yes \in Nat /\ no \in Nat
  <2>1. \A p \in Price : p \in Nat  BY FillAssumption, OneType
  <2> HIDE DEF yes, no
  <2>2. QED  BY <1>6, <2>1
<1>8. FeesOf(turn, yes, no) \in Nat  BY <1>1, <1>6, FeesNonNegative
<1>9. /\ Outlays(turn)[filled'] = yes + no
      /\ Charges(turn)[filled'] = FeesOf(turn, yes, no)
  BY <1>5 DEF Outlays, Charges
<1> HIDE DEF yes, no
<1>10. /\ Outlays(turn) \in Seq(Nat) /\ Len(Outlays(turn)) = Shares(turn)
       /\ Charges(turn) \in Seq(Nat) /\ Len(Charges(turn)) = Shares(turn)
  BY <1>1, OutlaysRise
<1>11. /\ Totals(Outlays(turn))[filled] \in Nat
       /\ Totals(Outlays(turn))[filled + 1]
            = Totals(Outlays(turn))[filled] + Outlays(turn)[filled + 1]
       /\ Totals(Charges(turn))[filled] \in Nat
       /\ Totals(Charges(turn))[filled + 1]
            = Totals(Charges(turn))[filled] + Charges(turn)[filled + 1]
  <2>1. filled + 1 <= Shares(turn)  BY <1>2, <1>5
  <2>2. QED  BY <1>1, <1>10, <2>1, NextTotal
<1>12. cost' = Totals(Outlays(turn))[filled'] /\ cost' \in Nat
  BY <1>2, <1>3, <1>7, <1>9, <1>11
<1>13. fee' = Totals(Charges(turn))[filled'] /\ fee' \in Nat
  BY <1>2, <1>3, <1>8, <1>9, <1>11
<1>14. Edge(filled', cost', fee') = EdgeAt(turn, filled')
  BY <1>12, <1>13 DEF Edge, EdgeAt
<1>15. EdgeAt(turn, filled') \in Int
  BY <1>5, <1>12, <1>13, OneType DEF EdgeAt
<1>16. QED  BY <1>1, <1>2, <1>5, <1>12, <1>13, <1>14, <1>15

LEMMA BuyShareIInv == IInv /\ BuyShare => IInv'
<1>1. SUFFICES ASSUME IInv, BuyShare  PROVE IInv'  OBVIOUS
<1>2. /\ turn \in 1..2 /\ books \in Pairs
      /\ filled' = filled + 1 /\ filled' \in 1..Shares(turn) /\ Shares(turn) <= Cap
      /\ cost' \in Nat /\ fee' \in Nat
      /\ cost' = Totals(Outlays(turn))[filled'] /\ fee' = Totals(Charges(turn))[filled']
      /\ Edge(filled', cost', fee') = EdgeAt(turn, filled')
      /\ EdgeAt(turn, filled') \in Int
  BY <1>1, ShareBought
<1>3. books' = books /\ turn' = turn /\ row' = row /\ pc = "walk"  BY <1>1 DEF BuyShare
<1>4. /\ YesDepth(turn) # <<>> /\ NoDepth(turn) # <<>>
      /\ Len(edges) = filled
      /\ \A n \in 1..Len(edges) : edges[n] = EdgeAt(turn, n)
      /\ best.size > 0 => /\ SizeClears(turn, best.size)
                          /\ best.cost = Totals(Outlays(turn))[best.size]
      /\ \A n \in 1..Len(edges) : SizeClears(turn, n) => n <= best.size
  BY <1>1, <1>3 DEF IInv, Walked
<1>5. /\ Cap \in Nat /\ filled \in Nat /\ edges \in Seq(Int) /\ Len(edges) \in Nat
      /\ best \in [size : 0..Cap, cost : Nat, fee : Nat] /\ best.size <= Len(edges)
      /\ row.turn \in 0..2 /\ row.size \in 0..Cap /\ row.shares \in Nat \ {0}
      /\ row.raw \in Int /\ row.edge \in Int /\ Len(row.frontier) \in {0, 3}
  BY <1>1, FillAssumption, LenProperties DEF IInv, TypeOK
<1>6. filled' \in 0..Cap /\ Shares(turn) \in Nat
  <2>1. Shares(turn) \in Nat  BY <1>2, SharesWithin
  <2>2. QED  BY <1>2, <1>5, <2>1
<1>7. CASE Exhausted(filled', cost')
  <2>1. pc' = "compare" /\ edges' = edges /\ best' = best  BY <1>1, <1>7 DEF BuyShare
  <2>2. TypeOK'  BY <1>2, <1>3, <1>4, <1>5, <1>6, <2>1 DEF TypeOK
  <2>3. Exhausted(filled, cost)'  BY <1>7 DEF Exhausted
  <2>4. Walked'
    <3>1. Len(edges') + 1 = filled' /\ filled' <= Shares(turn)
      BY <1>2, <1>4, <1>5, <1>6, <2>1
    <3>2. QED
      BY <1>2, <1>3, <1>4, <2>1, <2>3, <3>1, SameReference DEF Walked
  <2>5. QED  BY <2>2, <2>4 DEF IInv
<1>8. CASE ~Exhausted(filled', cost')
  <2> DEFINE edge == EdgeAt(turn, filled')
  <2>1. /\ pc' = "walk" /\ edges' = Append(edges, edge)
        /\ best' = IF Clears(filled', edge)
                   THEN [size |-> filled', cost |-> cost', fee |-> fee'] ELSE best
    BY <1>1, <1>2, <1>3, <1>8 DEF BuyShare
  <2>2. /\ edges' \in Seq(Int) /\ Len(edges') = Len(edges) + 1
        /\ \A n \in 1..Len(edges) : edges'[n] = edges[n]
        /\ edges'[Len(edges) + 1] = edge
    BY <1>2, <1>5, <2>1, AppendProperties
  <2>3. Clears(filled', edge) <=> SizeClears(turn, filled')  BY DEF Clears, SizeClears
  <2> HIDE DEF edge
  <2>4. best' \in [size : 0..Cap, cost : Nat, fee : Nat] /\ best'.size <= Len(edges')
    <3>1. CASE Clears(filled', edge)
      BY <1>2, <1>4, <1>5, <1>6, <2>1, <2>2, <3>1
    <3>2. CASE ~Clears(filled', edge)
      BY <1>4, <1>5, <2>1, <2>2, <3>2
    <3>3. QED  BY <3>1, <3>2
  <2>5. TypeOK'
    BY <1>2, <1>3, <1>4, <1>5, <1>6, <2>1, <2>2, <2>4 DEF TypeOK
  <2>6. \A n \in 1..Len(edges') : edges'[n] = EdgeAt(turn, n)
    <3>1. TAKE n \in 1..Len(edges')
    <3>2. CASE n \in 1..Len(edges)  BY <1>4, <2>2, <3>2
    <3>3. CASE n = Len(edges) + 1  BY <1>2, <1>4, <2>2, <3>3 DEF edge
    <3>4. QED  BY <1>5, <2>2, <3>1, <3>2, <3>3
  <2>7. best'.size > 0 => /\ SizeClears(turn, best'.size)
                          /\ best'.cost = Totals(Outlays(turn))[best'.size]
    BY <1>2, <1>4, <2>1, <2>3
  <2>8. \A n \in 1..Len(edges') : SizeClears(turn, n) => n <= best'.size
    <3>1. TAKE n \in 1..Len(edges')
    <3>2. HAVE SizeClears(turn, n)
    <3>3. n \in Nat /\ n <= filled' /\ best.size \in Nat /\ best.size <= filled'
      BY <1>2, <1>4, <1>5, <2>2
    <3>4. CASE Clears(filled', edge)  BY <2>1, <3>3, <3>4
    <3>5. CASE ~Clears(filled', edge)
      <4>1. n # filled'  BY <2>3, <3>2, <3>5
      <4>2. n \in 1..Len(edges)  BY <1>2, <1>4, <1>5, <3>3, <4>1
      <4>3. QED  BY <1>4, <2>1, <3>2, <3>5, <4>2
    <3>6. QED  BY <3>4, <3>5
  <2>9. Walked'
    BY <1>2, <1>3, <1>4, <1>5, <1>6, <2>1, <2>2, <2>6, <2>7, <2>8, SameReference DEF Walked
  <2>10. QED  BY <2>5, <2>9 DEF IInv
<1>9. QED  BY <1>7, <1>8

LEMMA RunsOutIInv == IInv /\ RunsOut => IInv'
<1>1. SUFFICES ASSUME IInv, RunsOut  PROVE IInv'  OBVIOUS
<1>2. /\ pc = "walk" /\ pc' = "compare" /\ books' = books /\ turn' = turn
      /\ filled' = filled /\ cost' = cost /\ fee' = fee /\ edges' = edges
      /\ best' = best /\ row' = row
  BY <1>1 DEF RunsOut
<1>3. turn \in 1..2 /\ books \in Pairs /\ filled \in Nat /\ Cap \in Nat
  BY <1>1, <1>2, FillAssumption DEF IInv, TypeOK
<1>4. TypeOK'  BY <1>1, <1>2, <1>3 DEF IInv, TypeOK
<1>5. filled <= Shares(turn) /\ Len(edges) = filled  BY <1>1, <1>2 DEF IInv, Walked
<1>6. ~(filled < Cap /\ filled < Len(YesShares(turn)) /\ filled < Len(NoShares(turn)))
  BY <1>1 DEF RunsOut, MoreShares, YesShares, NoShares
<1>7. Len(edges) = Shares(turn)
  <2>1. Len(YesShares(turn)) \in Nat /\ Len(NoShares(turn)) \in Nat
    BY <1>3, Legs, LenProperties
  <2>2. QED  BY <1>3, <1>5, <1>6, <2>1, SharesWithin
<1>8. Walked'  BY <1>1, <1>2, <1>7, SameReference DEF IInv, Walked
<1>9. QED  BY <1>4, <1>8 DEF IInv

LEMMA CompareIInv == IInv /\ Compare => IInv'
<1>1. SUFFICES ASSUME IInv, Compare  PROVE IInv'  OBVIOUS
<1>2. /\ pc = "compare" /\ pc' = "turn" /\ turn' = turn + 1 /\ books' = books
      /\ filled' = filled /\ cost' = cost /\ fee' = fee /\ edges' = edges
      /\ best' = best /\ (row' = Evaluation \/ row' = row)
  BY <1>1 DEF Compare
<1>3. /\ turn \in 1..2 /\ books \in Pairs /\ Cap \in Nat /\ edges \in Seq(Int)
      /\ best \in [size : 0..Cap, cost : Nat, fee : Nat] /\ best.size <= Len(edges)
  BY <1>1, <1>2, FillAssumption DEF IInv, TypeOK
<1>4. YesAsk \in Price /\ NoAsk \in Price
  <2>1. YesDepth(turn) # <<>> /\ NoDepth(turn) # <<>>  BY <1>1, <1>2 DEF IInv, Walked
  <2>2. 1 \in 1..Len(YesDepth(turn)) /\ 1 \in 1..Len(NoDepth(turn))
    <3>1. /\ YesDepth(turn) \in Seq(LevelType)
          /\ NoDepth(turn) \in Seq(LevelType)
      BY <1>3, Legs
    <3>2. /\ Len(YesDepth(turn)) \in Nat /\ Len(YesDepth(turn)) # 0
          /\ Len(NoDepth(turn)) \in Nat /\ Len(NoDepth(turn)) # 0
      BY <2>1, <3>1, LenProperties, EmptySeq
    <3>3. QED  BY <3>2
  <2>3. /\ YesDepth(turn)[1] \in [price : Price, size : Nat]
        /\ NoDepth(turn)[1] \in [price : Price, size : Nat]
    BY <1>3, <2>2, Legs, ElementOfSeq DEF LevelType
  <2>4. QED  BY <2>3 DEF YesAsk, NoAsk
<1>5. RawTop \in Int
  BY <1>4, FillAssumption, OneType DEF RawTop
<1>6. OneContract \in Int
  <2>1. FeesOf(turn, YesAsk, NoAsk) \in Nat  BY <1>3, <1>4, FeesNonNegative
  <2>2. QED  BY <1>5, <2>1 DEF OneContract
<1>7. /\ Evaluation.turn \in 0..2 /\ Evaluation.size \in 0..Cap
      /\ Evaluation.shares \in Nat \ {0} /\ Evaluation.raw \in Int
      /\ Evaluation.edge \in Int /\ Len(Evaluation.frontier) \in {0, 3}
  <2>1. CASE best.size > 0
    <3>1. Evaluation = [turn |-> turn, size |-> best.size, shares |-> best.size,
                        raw |-> RawTop, edge |-> edges[best.size],
                        frontier |-> Frontier(best.size)]
      BY <2>1 DEF Evaluation
    <3>2. best.size \in 1..Len(edges) /\ best.size \in 0..Cap
      BY <1>3, <2>1, LenProperties
    <3>3. edges[best.size] \in Int  BY <1>3, <3>2, ElementOfSeq
    <3>4. Len(Frontier(best.size)) = 3
      BY DEF Frontier
    <3>5. QED  BY <1>3, <1>5, <3>1, <3>2, <3>3, <3>4
  <2>2. CASE ~(best.size > 0)
    <3>1. Evaluation = [turn |-> turn, size |-> 0, shares |-> 1, raw |-> RawTop,
                        edge |-> OneContract, frontier |-> <<>>]
      BY <2>2 DEF Evaluation
    <3>2. QED  BY <1>3, <1>5, <1>6, <3>1
  <2>3. QED  BY <2>1, <2>2
<1>8. TypeOK'  BY <1>1, <1>2, <1>3, <1>7 DEF IInv, TypeOK
<1>9. Walked'  BY <1>2 DEF Walked
<1>10. QED  BY <1>8, <1>9 DEF IInv

LEMMA StutterIInv == IInv /\ UNCHANGED vars => IInv'
<1>1. SUFFICES ASSUME IInv, UNCHANGED vars  PROVE IInv'  OBVIOUS
<1>2. TypeOK'  BY <1>1 DEF IInv, TypeOK, vars
<1>3. Walked'  BY <1>1, SameReference DEF IInv, Walked, vars
<1>4. QED  BY <1>2, <1>3 DEF IInv

LEMMA StepIInv == IInv /\ [Next]_vars => IInv'
BY NextDirectionIInv, BuyShareIInv, RunsOutIInv, CompareIInv, StutterIInv DEF Next

LEMMA Invariant == Spec => []IInv
<1>1. Init => IInv  BY InitIInv
<1>2. IInv /\ [Next]_vars => IInv'  BY StepIInv
<1>3. QED  BY <1>1, <1>2, PTL DEF Spec

-----------------------------------------------------------------------------
(* The size of a walk                                                      *)

LEMMA WalkedLargest == IInv => LargestSize
<1>1. SUFFICES ASSUME IInv, pc = "compare"
      PROVE  /\ best.size > 0 => best.size <= Shares(turn) /\ SizeClears(turn, best.size)
             /\ \A n \in 1..Shares(turn) : SizeClears(turn, n) => n <= best.size
  BY DEF LargestSize
<1>2. /\ turn \in 1..2 /\ books \in Pairs /\ filled \in Nat
      /\ Len(edges) \in Nat /\ best.size \in Nat /\ best.size <= Len(edges)
  BY <1>1, LenProperties, FillAssumption DEF IInv, TypeOK
<1>3. /\ filled <= Shares(turn) /\ cost = Totals(Outlays(turn))[filled]
      /\ best.size > 0 => SizeClears(turn, best.size)
      /\ \A n \in 1..Len(edges) : SizeClears(turn, n) => n <= best.size
      /\ \/ Len(edges) = Shares(turn)
         \/ Len(edges) + 1 = filled /\ Exhausted(filled, cost)
  BY <1>1 DEF IInv, Walked
<1>4. Shares(turn) \in Nat  BY <1>2, SharesWithin
<1>5. best.size > 0 => best.size <= Shares(turn) /\ SizeClears(turn, best.size)
  BY <1>2, <1>3, <1>4
<1>6. CASE Len(edges) = Shares(turn)  BY <1>3, <1>5, <1>6
<1>7. CASE Len(edges) + 1 = filled /\ Exhausted(filled, cost)
  <2>1. \A n \in filled..Shares(turn) : ~SizeClears(turn, n)
    <3>1. filled \in 1..Shares(turn)  BY <1>2, <1>3, <1>4, <1>7
    <3>2. QED  BY <1>2, <1>3, <1>7, <3>1, NoneBeyond
  <2>2. \A n \in 1..Shares(turn) : SizeClears(turn, n) => n \in 1..Len(edges)
    BY <1>2, <1>4, <1>7, <2>1
  <2>3. QED  BY <1>3, <1>5, <2>2
<1>8. QED  BY <1>3, <1>6, <1>7

-----------------------------------------------------------------------------
(* A share and its fees                                                    *)

LEMMA QuotientRises ==
  ASSUME NEW a \in Int, NEW b \in Int, NEW m \in Int, NEW k \in Nat, k > 0, a <= b + m * k
  PROVE  a \div k <= (b \div k) + m
<1> DEFINE qa == a \div k
           qb == b \div k
           ra == a % k
           rb == b % k
<1>1. /\ qa \in Int /\ qb \in Int /\ a = k * qa + ra /\ b = k * qb + rb
      /\ ra \in 0..(k - 1) /\ rb \in 0..(k - 1)
  OBVIOUS
<1> HIDE DEF qa, qb, ra, rb
<1>2. SUFFICES ASSUME qb + m + 1 <= qa  PROVE FALSE  BY <1>1 DEF qa, qb
<1>3. k * (qb + m + 1) <= k * qa
  <2> DEFINE x == qb + m + 1
  <2>1. x \in Int /\ x <= qa  BY <1>1, <1>2
  <2> HIDE DEF x
  <2>2. k * x <= k * qa  BY <1>1, <2>1
  <2>3. QED  BY <2>2 DEF x
<1>4. k * (qb + m + 1) = k * qb + m * k + k
  <2>1. k * (qb + m) = k * qb + k * m  BY <1>1, Distribute
  <2>2. k * m = m * k  OBVIOUS
  <2> DEFINE x == qb + m
  <2>3. x \in Int /\ k * x = k * qb + m * k  BY <1>1, <2>1, <2>2
  <2> HIDE DEF x
  <2>4. k * (x + 1) = k * x + k  BY <2>3
  <2>5. k * (x + 1) = k * qb + m * k + k  BY <2>3, <2>4
  <2>6. QED  BY <2>5 DEF x
<1>5. k * qa \in Int /\ k * qb \in Int /\ m * k \in Int  BY <1>1
<1>6. QED  BY ONLY <1>1, <1>3, <1>4, <1>5, a <= b + m * k, k \in Int

LEMMA QuadraticStep ==
  ASSUME NEW r \in Int, NEW p \in Int, NEW q \in Int, NEW o \in Int, NEW h \in Int,
         0 <= r, r <= h, p <= q, 0 <= p, q <= o
  PROVE  r * p * (o - p) <= r * q * (o - q) + (q - p) * (h * o)
<1> DEFINE d == q - p
           e == o - p - q
<1>1. d \in Int /\ e \in Int /\ 0 <= d /\ 0 - o <= e  OBVIOUS
<1>2. r * q * (o - q) - r * p * (o - p) = (r * d) * e
  OBVIOUS
<1> HIDE DEF d, e
<1>3. r * d \in Int /\ 0 <= r * d  BY <1>1
<1>4. (r * d) * (0 - o) <= (r * d) * e
  <2> DEFINE x == r * d
             y == 0 - o
  <2>1. x \in Int /\ 0 <= x /\ y \in Int /\ y <= e  BY <1>1, <1>3
  <2> HIDE DEF x, y
  <2>2. x * y <= x * e  BY <1>1, <2>1
  <2>3. QED  BY <2>2 DEF x, y
<1>5. (r * d) * o <= d * (h * o)
  <2>1. r * d <= h * d  BY <1>1
  <2>2. 0 <= o  OBVIOUS
  <2> DEFINE x == r * d
             y == h * d
  <2>3. x \in Int /\ y \in Int /\ x <= y  BY <1>1, <2>1
  <2> HIDE DEF x, y
  <2>4. x * o <= y * o  BY <2>2, <2>3
  <2>5. (h * d) * o = d * (h * o)  BY <1>1
  <2>6. QED  BY <2>4, <2>5 DEF x, y
<1>6. (r * d) * (0 - o) = 0 - (r * d) * o  BY <1>3
<1> DEFINE a == r * p * (o - p)
           b == r * q * (o - q)
           x == (r * d) * e
           y == (r * d) * o
           z == d * (h * o)
<1>7. a \in Int /\ b \in Int /\ x \in Int /\ y \in Int /\ z \in Int
  <2>1. r * p \in Int /\ o - p \in Int /\ r * q \in Int /\ o - q \in Int /\ h * o \in Int  OBVIOUS
  <2>2. QED  BY <1>1, <1>3, <2>1
<1>8. b - a = x /\ 0 - y <= x /\ y <= z  BY <1>2, <1>4, <1>5, <1>6
<1> HIDE DEF a, b, x, y, z
<1>9. a <= b + z  BY <1>7, <1>8
<1>10. QED  BY <1>9 DEF a, b, z, d

\* A dearer share costs at least as much with its fee, although fees fall with the
\* price beyond fifty cents.
LEMMA FeeFallsSlower ==
  ASSUME NEW rate \in 0..100, NEW p \in 0..One, NEW q \in 0..One, p <= q
  PROVE  p + QuadraticFee(rate, p) <= q + QuadraticFee(rate, q)
<1> DEFINE a == rate * p * (One - p)
           b == rate * q * (One - q)
           c == 50 * One
           k == 100 * One
           m == q - p
<1>1. One \in Nat /\ One > 0  BY OneType
<1>2. /\ a \in Int /\ b \in Int /\ c \in Int /\ k \in Nat /\ k > 0 /\ m \in Int
      /\ p \in Int /\ q \in Int
  <2>1. One \in Int /\ p \in Int /\ q \in Int /\ rate \in Int  BY <1>1
  <2> HIDE DEF One
  <2>2. rate * p \in Int /\ rate * q \in Int /\ One - p \in Int /\ One - q \in Int  BY <2>1
  <2>3. a \in Int /\ b \in Int  BY <2>2
  <2>4. QED  BY <1>1, <2>1, <2>3
<1>3. a <= b + m * k
  <2>1. /\ rate \in Int /\ p \in Int /\ q \in Int /\ One \in Int /\ 100 \in Int
        /\ 0 <= rate /\ rate <= 100 /\ p <= q /\ 0 <= p /\ q <= One
    BY <1>1
  <2> HIDE DEF One
  <2>2. QED  BY ONLY <2>1, QuadraticStep
<1> HIDE DEF a, b, c, k, m
<1>4. (a + c) \div k <= ((b + c) \div k) + m
  <2>1. a + c \in Int /\ b + c \in Int /\ a + c <= (b + c) + m * k
    <3>1. m * k \in Int  BY <1>2
    <3>2. QED  BY <1>2, <1>3, <3>1
  <2>2. QED  BY <1>2, <2>1, QuotientRises
<1>5. QuadraticFee(rate, p) = (a + c) \div k /\ QuadraticFee(rate, q) = (b + c) \div k
  BY DEF QuadraticFee, a, b, c, k
<1>6. (a + c) \div k \in Int /\ (b + c) \div k \in Int  BY <1>2
<1>7. QED  BY <1>2, <1>4, <1>5, <1>6 DEF m

-----------------------------------------------------------------------------
(* What a number of shares leaves                                          *)

IsSum(s, a, b) ==
  /\ Len(s) <= Len(a) /\ Len(s) <= Len(b)
  /\ \A i \in 1..Len(s) : s[i] = a[i] + b[i]

LEMMA SumOfTotals ==
  ASSUME NEW s \in Seq(Nat), NEW a \in Seq(Nat), NEW b \in Seq(Nat), IsSum(s, a, b)
  PROVE  \A n \in 0..Len(s) : /\ Totals(a)[n] \in Nat /\ Totals(b)[n] \in Nat
                              /\ Totals(s)[n] = Totals(a)[n] + Totals(b)[n]
<1> DEFINE ts == Totals(s)
           ta == Totals(a)
           tb == Totals(b)
           S == {n \in Nat : n <= Len(s) => /\ ta[n] \in Nat /\ tb[n] \in Nat
                                            /\ ts[n] = ta[n] + tb[n]}
<1>1. Len(s) \in Nat /\ Len(a) \in Nat /\ Len(b) \in Nat /\ Len(s) <= Len(a) /\ Len(s) <= Len(b)
  BY LenProperties DEF IsSum
<1>2. ts[0] = 0 /\ ta[0] = 0 /\ tb[0] = 0
  BY TotalsEquation DEF IsTotals
<1>3. ASSUME NEW k \in Nat, k + 1 <= Len(s)
      PROVE  /\ ts[k + 1] = ts[k] + s[k + 1] /\ ta[k + 1] = ta[k] + a[k + 1]
             /\ tb[k + 1] = tb[k] + b[k + 1] /\ s[k + 1] = a[k + 1] + b[k + 1]
             /\ a[k + 1] \in Nat /\ b[k + 1] \in Nat
  <2>1. k + 1 <= Len(a) /\ k + 1 <= Len(b) /\ k + 1 \in 1..Len(s)  BY <1>1, <1>3
  <2>2. s[k + 1] = a[k + 1] + b[k + 1]  BY <2>1 DEF IsSum
  <2>3. ts[k + 1] = ts[k] + s[k + 1]  BY <1>3, NextTotal
  <2>4. ta[k + 1] = ta[k] + a[k + 1] /\ a[k + 1] \in Nat  BY <2>1, NextTotal
  <2>5. tb[k + 1] = tb[k] + b[k + 1] /\ b[k + 1] \in Nat  BY <2>1, NextTotal
  <2>6. QED  BY <2>2, <2>3, <2>4, <2>5
<1> HIDE DEF ts, ta, tb
<1>4. 0 \in S  BY <1>2
<1>5. ASSUME NEW n \in Nat, n \in S  PROVE n + 1 \in S
  <2>1. SUFFICES ASSUME n + 1 <= Len(s)
                 PROVE  /\ ta[n + 1] \in Nat /\ tb[n + 1] \in Nat
                        /\ ts[n + 1] = ta[n + 1] + tb[n + 1]
    OBVIOUS
  <2>2. (ta[n] \in Nat) /\ (tb[n] \in Nat) /\ (ts[n] = ta[n] + tb[n])  BY <1>1, <1>5, <2>1
  <2>3. ta[n + 1] = ta[n] + a[n + 1] /\ a[n + 1] \in Nat  BY <1>3, <2>1
  <2>4. tb[n + 1] = tb[n] + b[n + 1] /\ b[n + 1] \in Nat  BY <1>3, <2>1
  <2>5. ts[n + 1] = ts[n] + s[n + 1] /\ s[n + 1] = a[n + 1] + b[n + 1]  BY <1>3, <2>1
  <2>6. ta[n + 1] \in Nat  BY <2>2, <2>3
  <2>7. tb[n + 1] \in Nat  BY <2>2, <2>4
  <2>8. ts[n + 1] = (ta[n] + tb[n]) + (a[n + 1] + b[n + 1])  BY ONLY <2>2, <2>5
  <2>9. (ta[n] + tb[n]) + (a[n + 1] + b[n + 1]) = (ta[n] + a[n + 1]) + (tb[n] + b[n + 1])
    <3> DEFINE x == ta[n]
               y == tb[n]
               u == a[n + 1]
               v == b[n + 1]
    <3>1. x \in Nat /\ y \in Nat /\ u \in Nat /\ v \in Nat  BY <2>2, <2>3, <2>4
    <3> HIDE DEF x, y, u, v
    <3>2. (x + y) + (u + v) = (x + u) + (y + v)  BY <3>1
    <3>3. QED  BY ONLY <3>2 DEF x, y, u, v
  <2>10. ts[n + 1] = ta[n + 1] + tb[n + 1]  BY ONLY <2>3, <2>4, <2>8, <2>9
  <2>11. QED  BY <2>6, <2>7, <2>10
<1>6. Nat \subseteq S
  <2> HIDE DEF S
  <2>1. QED  BY <1>4, <1>5, SetInduction
<1>7. QED  BY <1>1, <1>6 DEF ts, ta, tb

\* What each share costs with its fees.
Spendings(d) == [i \in 1..Shares(d) |-> Outlays(d)[i] + Charges(d)[i]]

LEMMA SharePrices ==
  ASSUME books \in Pairs, NEW d \in 1..2, NEW i \in 1..Shares(d)
  PROVE  /\ YesShares(d)[i] \in Price /\ YesShares(d)[i] \in Nat
         /\ NoShares(d)[i] \in Price /\ NoShares(d)[i] \in Nat
         /\ i \in 1..Len(YesShares(d)) /\ i \in 1..Len(NoShares(d))
         /\ Outlays(d)[i] = YesShares(d)[i] + NoShares(d)[i]
         /\ Charges(d)[i] = FeesOf(d, YesShares(d)[i], NoShares(d)[i])
<1>1. Shares(d) \in Nat /\ Shares(d) <= Len(YesShares(d)) /\ Shares(d) <= Len(NoShares(d))
  BY SharesWithin
<1>2. Len(YesShares(d)) \in Nat /\ Len(NoShares(d)) \in Nat  BY Legs, LenProperties
<1>3. i \in 1..Len(YesShares(d)) /\ i \in 1..Len(NoShares(d))  BY <1>1, <1>2
<1>4. YesShares(d)[i] \in Price /\ NoShares(d)[i] \in Price  BY <1>3, Legs, ElementOfSeq
<1>5. YesShares(d)[i] \in Nat /\ NoShares(d)[i] \in Nat  BY <1>4, PriceNat
<1>6. /\ Outlays(d)[i] = YesShares(d)[i] + NoShares(d)[i]
      /\ Charges(d)[i] = FeesOf(d, YesShares(d)[i], NoShares(d)[i])
  BY DEF Outlays, Charges, YesShares, NoShares
<1>7. QED  BY <1>3, <1>4, <1>5, <1>6

\* Of two rising prices, the dearer pair of shares costs at least as much with fees.
LEMMA DearerPair ==
  ASSUME NEW d \in 1..2, NEW y \in Price, NEW n \in Price, NEW y2 \in Price, NEW n2 \in Price,
         y <= y2, n <= n2
  PROVE  y + n + FeesOf(d, y, n) <= y2 + n2 + FeesOf(d, y2, n2)
<1>1. \A v : Rate(v) \in 0..100  BY FillAssumption DEF Rate
<1>2. \A p \in Price : p \in 0..One  BY FillAssumption
<1> DEFINE rk == Rate(YesVenue(d))
           rp == Rate(NoVenue(d))
<1>3. rk \in 0..100 /\ rp \in 0..100  BY <1>1
<1>4. y \in 0..One /\ n \in 0..One /\ y2 \in 0..One /\ n2 \in 0..One  BY <1>2
<1> HIDE DEF rk, rp
<1>5. y + QuadraticFee(rk, y) <= y2 + QuadraticFee(rk, y2)  BY <1>3, <1>4, FeeFallsSlower
<1>6. n + QuadraticFee(rp, n) <= n2 + QuadraticFee(rp, n2)  BY <1>3, <1>4, FeeFallsSlower
<1>7. /\ QuadraticFee(rk, y) \in Nat /\ QuadraticFee(rk, y2) \in Nat
      /\ QuadraticFee(rp, n) \in Nat /\ QuadraticFee(rp, n2) \in Nat
  BY <1>3, <1>4, FeeNonNegative
<1>8. /\ FeesOf(d, y, n) = QuadraticFee(rk, y) + QuadraticFee(rp, n)
      /\ FeesOf(d, y2, n2) = QuadraticFee(rk, y2) + QuadraticFee(rp, n2)
  BY DEF FeesOf, rk, rp
<1>9. y \in Nat /\ n \in Nat /\ y2 \in Nat /\ n2 \in Nat  BY <1>4, OneType
<1>10. QED  BY <1>5, <1>6, <1>7, <1>8, <1>9

LEMMA SpendingsRise ==
  ASSUME books \in Pairs, NEW d \in 1..2
  PROVE  /\ Spendings(d) \in Seq(Nat) /\ Len(Spendings(d)) = Shares(d) /\ Rising(Spendings(d))
         /\ \A n \in 0..Shares(d) :
              /\ Totals(Spendings(d))[n] \in Nat
              /\ Totals(Spendings(d))[n] = Totals(Outlays(d))[n] + Totals(Charges(d))[n]
              /\ EdgeAt(d, n) = One * n - Totals(Spendings(d))[n]
<1> DEFINE N == Shares(d)
           sp == Spendings(d)
<1>1. /\ N \in Nat /\ Outlays(d) \in Seq(Nat) /\ Len(Outlays(d)) = N
      /\ Charges(d) \in Seq(Nat) /\ Len(Charges(d)) = N
  BY SharesWithin, OutlaysRise
<1>2. \A i \in 1..N : Outlays(d)[i] \in Nat /\ Charges(d)[i] \in Nat  BY <1>1, ElementOfSeq
<1>3. sp = [i \in 1..N |-> Outlays(d)[i] + Charges(d)[i]]  BY DEF Spendings
<1> HIDE DEF N, sp
<1>4. \A i \in 1..N : Outlays(d)[i] + Charges(d)[i] \in Nat  BY <1>2
<1>5. sp \in Seq(Nat) /\ Len(sp) = N /\ \A i \in 1..N : sp[i] = Outlays(d)[i] + Charges(d)[i]
  BY <1>1, <1>3, <1>4, IsASeq
<1>6. ASSUME NEW i \in 1..N, NEW j \in 1..N, i <= j  PROVE sp[i] <= sp[j]
  <2> DEFINE y == YesShares(d)[i]
             n == NoShares(d)[i]
             y2 == YesShares(d)[j]
             n2 == NoShares(d)[j]
  <2>1. /\ y \in Price /\ n \in Price /\ y2 \in Price /\ n2 \in Price
        /\ i \in 1..Len(YesShares(d)) /\ i \in 1..Len(NoShares(d))
        /\ j \in 1..Len(YesShares(d)) /\ j \in 1..Len(NoShares(d))
        /\ Outlays(d)[i] = y + n /\ Charges(d)[i] = FeesOf(d, y, n)
        /\ Outlays(d)[j] = y2 + n2 /\ Charges(d)[j] = FeesOf(d, y2, n2)
    BY SharePrices DEF N
  <2>2. y <= y2 /\ n <= n2  BY <1>6, <2>1, Legs DEF Rising
  <2> HIDE DEF y, n, y2, n2
  <2>3. y + n + FeesOf(d, y, n) <= y2 + n2 + FeesOf(d, y2, n2)  BY <2>1, <2>2, DearerPair
  <2>4. QED  BY <1>5, <2>1, <2>3
<1>7. Rising(sp)  BY <1>5, <1>6 DEF Rising
<1>8. \A n \in 0..N : /\ Totals(sp)[n] = Totals(Outlays(d))[n] + Totals(Charges(d))[n]
                      /\ Totals(Outlays(d))[n] \in Nat /\ Totals(Charges(d))[n] \in Nat
  <2>1. IsSum(sp, Outlays(d), Charges(d))  BY <1>1, <1>5 DEF IsSum
  <2>2. QED  BY <1>1, <1>5, <2>1, SumOfTotals
<1>9. ASSUME NEW n \in 0..N
      PROVE  /\ Totals(sp)[n] \in Nat
             /\ Totals(sp)[n] = Totals(Outlays(d))[n] + Totals(Charges(d))[n]
             /\ EdgeAt(d, n) = One * n - Totals(sp)[n]
  <2>1. One * n \in Int  BY <1>1, OneType
  <2>2. EdgeAt(d, n) = One * n - Totals(Outlays(d))[n] - Totals(Charges(d))[n]
    BY DEF EdgeAt
  <2>3. QED  BY <1>8, <2>1, <2>2
<1>10. QED  BY <1>5, <1>7, <1>9 DEF N, sp

LEMMA EdgeArithmetic ==
  ASSUME NEW m \in Int, NEW n \in Int, NEW tm \in Int, NEW tn \in Int, NEW o \in Int,
         n * tm <= m * tn
  PROVE  (o * m - tm) * n >= (o * n - tn) * m
<1>1. (o * m - tm) * n = (o * m) * n - n * tm  OBVIOUS
<1>2. (o * n - tn) * m = (o * n) * m - m * tn  OBVIOUS
<1>3. (o * m) * n = (o * n) * m  OBVIOUS
<1>4. (o * m) * n \in Int /\ n * tm \in Int /\ m * tn \in Int /\ (o * n) * m \in Int  OBVIOUS
<1>5. QED  BY ONLY <1>1, <1>2, <1>3, <1>4, n * tm <= m * tn

\* What a share leaves on average never grows with their number.
LEMMA AverageEdgeFalls ==
  ASSUME books \in Pairs, NEW d \in 1..2, NEW m \in 1..Shares(d), NEW n \in m..Shares(d)
  PROVE  EdgeAt(d, m) * n >= EdgeAt(d, n) * m
<1> DEFINE t == Totals(Spendings(d))
<1>1. Shares(d) \in Nat  BY SharesWithin
<1>2. m \in 0..Shares(d) /\ n \in 0..Shares(d)  BY <1>1
<1>3. n * t[m] <= m * t[n]  BY SpendingsRise, AverageRises
<1>4. /\ t[m] \in Nat /\ t[n] \in Nat
      /\ EdgeAt(d, m) = One * m - t[m] /\ EdgeAt(d, n) = One * n - t[n]
  BY <1>2, SpendingsRise
<1> HIDE DEF t
<1>5. m \in Int /\ n \in Int /\ t[m] \in Int /\ t[n] \in Int /\ One \in Int
  BY <1>1, <1>4, OneType
<1>6. (One * m - t[m]) * n >= (One * n - t[n]) * m  BY ONLY <1>3, <1>5, EdgeArithmetic
<1>7. QED  BY <1>4, <1>6

\* The quarter points of a size lie within it.
LEMMA SampleWithin ==
  ASSUME NEW size \in Nat, size > 0, NEW i \in 1..3
  PROVE  SampleSize(size, 25 * i) \in 1..size
<1>1. i = 1 \/ i = 2 \/ i = 3  OBVIOUS
<1>2. SampleSize(size, 25 * i) = (size * (25 * i) + 99) \div 100  BY DEF SampleSize
<1>3. CASE i = 1
  <2>1. (size * 25 + 99) \div 100 \in 1..size  OBVIOUS
  <2>2. QED  BY <1>2, <1>3, <2>1
<1>4. CASE i = 2
  <2>1. (size * 50 + 99) \div 100 \in 1..size  OBVIOUS
  <2>2. QED  BY <1>2, <1>4, <2>1
<1>5. CASE i = 3
  <2>1. (size * 75 + 99) \div 100 \in 1..size  OBVIOUS
  <2>2. QED  BY <1>2, <1>5, <2>1
<1>6. QED  BY <1>1, <1>3, <1>4, <1>5

-----------------------------------------------------------------------------
(* The top of the book                                                     *)

BothOffered(d) == YesDepth(d) # <<>> /\ NoDepth(d) # <<>>
TopAt(d) == One - YesDepth(d)[1].price - NoDepth(d)[1].price
OneContractAt(d) == TopAt(d) - FeesOf(d, YesDepth(d)[1].price, NoDepth(d)[1].price)

LEMMA TopFacts ==
  ASSUME books \in Pairs, NEW d \in 1..2, BothOffered(d)
  PROVE  /\ YesDepth(d)[1].price \in Price /\ YesDepth(d)[1].price \in Nat
         /\ NoDepth(d)[1].price \in Price /\ NoDepth(d)[1].price \in Nat
         /\ TopAt(d) \in Int /\ OneContractAt(d) \in Int /\ OneContractAt(d) <= TopAt(d)
<1>1. YesDepth(d) \in Seq(LevelType) /\ NoDepth(d) \in Seq(LevelType)  BY Legs
<1>2. 1 \in 1..Len(YesDepth(d)) /\ 1 \in 1..Len(NoDepth(d))
  <2>1. /\ Len(YesDepth(d)) \in Nat /\ Len(YesDepth(d)) # 0
        /\ Len(NoDepth(d)) \in Nat /\ Len(NoDepth(d)) # 0
    BY <1>1, LenProperties, EmptySeq DEF BothOffered
  <2>2. QED  BY <2>1
<1> DEFINE y == YesDepth(d)[1].price
           n == NoDepth(d)[1].price
<1>3. y \in Price /\ y \in Nat /\ n \in Price /\ n \in Nat  BY <1>1, <1>2, LevelFacts
<1> HIDE DEF y, n
<1>4. FeesOf(d, y, n) \in Nat  BY <1>3, FeesNonNegative
<1>5. TopAt(d) = One - y - n /\ OneContractAt(d) = TopAt(d) - FeesOf(d, y, n)
  BY DEF TopAt, OneContractAt, y, n
<1>6. QED  BY <1>3, <1>4, <1>5, OneType DEF y, n

\* The first n elements of a sequence are at least n times a bound of its elements.
LEMMA TotalAbove ==
  ASSUME NEW s \in Seq(Nat), NEW q \in Nat, \A i \in 1..Len(s) : q <= s[i]
  PROVE  \A n \in 0..Len(s) : n * q <= Totals(s)[n]
<1> DEFINE t == Totals(s)
           S == {n \in Nat : n <= Len(s) => n * q <= t[n]}
<1>1. Len(s) \in Nat /\ t[0] = 0
  BY LenProperties, TotalsEquation DEF IsTotals
<1>2. \A k \in Nat : k + 1 <= Len(s) => /\ t[k] \in Nat /\ s[k + 1] \in Nat
                                        /\ t[k + 1] = t[k] + s[k + 1]
  BY NextTotal
<1> HIDE DEF t
<1>3. 0 \in S  BY <1>1
<1>4. ASSUME NEW k \in Nat, k \in S  PROVE k + 1 \in S
  <2>1. SUFFICES ASSUME k + 1 <= Len(s)  PROVE (k + 1) * q <= t[k + 1]  OBVIOUS
  <2>2. k * q <= t[k]  BY <1>1, <1>4, <2>1
  <2>3. q <= s[k + 1]  BY <1>1, <2>1
  <2>4. t[k] \in Nat /\ s[k + 1] \in Nat /\ t[k + 1] = t[k] + s[k + 1]  BY <1>2, <2>1
  <2>5. (k + 1) * q = k * q + q /\ k * q \in Int  OBVIOUS
  <2>6. QED  BY <2>2, <2>3, <2>4, <2>5
<1>5. Nat \subseteq S
  <2> HIDE DEF S
  <2>1. QED  BY <1>3, <1>4, SetInduction
<1>6. QED  BY <1>1, <1>5 DEF t

\* No number of shares leaves more than as many contracts at the top of the book, fees
\* apart.
LEMMA EdgeBelowTop ==
  ASSUME books \in Pairs, NEW d \in 1..2, BothOffered(d), NEW n \in 1..Shares(d)
  PROVE  EdgeAt(d, n) \in Int /\ EdgeAt(d, n) <= n * TopAt(d)
<1> DEFINE q == YesDepth(d)[1].price + NoDepth(d)[1].price
           o == Totals(Outlays(d))[n]
           c == Totals(Charges(d))[n]
<1>1. q \in Nat /\ TopAt(d) = One - q
  BY TopFacts, OneType DEF TopAt
<1>2. \A i \in 1..Shares(d) : q <= Outlays(d)[i]
  <2>1. TAKE i \in 1..Shares(d)
  <2>2. /\ YesDepth(d) \in Seq(LevelType) /\ Sorted(YesDepth(d))
        /\ NoDepth(d) \in Seq(LevelType) /\ Sorted(NoDepth(d))
    BY Legs
  <2>3. /\ YesDepth(d)[1].price <= YesShares(d)[i] /\ NoDepth(d)[1].price <= NoShares(d)[i]
    BY <2>2, SharePrices, LadderShares DEF YesShares, NoShares
  <2>4. /\ YesShares(d)[i] \in Nat /\ NoShares(d)[i] \in Nat
        /\ Outlays(d)[i] = YesShares(d)[i] + NoShares(d)[i]
    BY SharePrices
  <2>5. YesDepth(d)[1].price \in Nat /\ NoDepth(d)[1].price \in Nat  BY TopFacts
  <2>6. QED  BY <2>3, <2>4, <2>5
<1>3. n \in 0..Shares(d) /\ Shares(d) \in Nat  BY SharesWithin
<1> HIDE DEF q
<1>4. n * q <= o  BY <1>1, <1>2, <1>3, OutlaysRise, TotalAbove
<1>5. o \in Nat /\ c \in Nat
  BY <1>3, OutlaysRise, TotalsEquation DEF IsTotals
<1>6. EdgeAt(d, n) = One * n - o - c  BY DEF EdgeAt
<1> HIDE DEF o, c
<1>7. n * (One - q) = n * One - n * q /\ n * One = One * n
  BY <1>1, <1>3, OneType, Distribute
<1>8. One * n \in Int /\ n * q \in Int  BY <1>1, <1>3, OneType
<1>9. QED  BY <1>1, <1>4, <1>5, <1>6, <1>7, <1>8

\* The two directions cannot both leave something at the top of the book: no venue
\* offers both sides for less than a dollar.
LEMMA NotBothAtTop ==
  ASSUME books \in Pairs, BothOffered(1), BothOffered(2)
  PROVE  TopAt(1) + TopAt(2) <= 0
<1>1. \A v \in Venue : books[v].yes # <<>> /\ books[v].no # <<>>
                         => books[v].yes[1].price + books[v].no[1].price >= One
  BY FillAssumption
<1>2. /\ YesDepth(1) = books["kalshi"].yes /\ NoDepth(1) = books["polymarket_us"].no
      /\ YesDepth(2) = books["polymarket_us"].yes /\ NoDepth(2) = books["kalshi"].no
  BY DEF YesDepth, NoDepth, YesVenue, NoVenue
<1>3. /\ books["kalshi"].yes[1].price + books["kalshi"].no[1].price >= One
      /\ books["polymarket_us"].yes[1].price + books["polymarket_us"].no[1].price >= One
  BY <1>1, <1>2 DEF BothOffered, Venue
<1>4. /\ YesDepth(1)[1].price \in Nat /\ NoDepth(1)[1].price \in Nat
      /\ YesDepth(2)[1].price \in Nat /\ NoDepth(2)[1].price \in Nat
  BY TopFacts
<1>5. QED  BY <1>2, <1>3, <1>4, OneType DEF TopAt

LEMMA PositiveFactor ==
  ASSUME NEW n \in Int, n > 0, NEW x \in Int, n * x > 0
  PROVE  x > 0
OBVIOUS

\* So when a size clears in one direction, one contract loses in the other.
LEMMA OtherLoses ==
  ASSUME books \in Pairs, NEW d \in 1..2, NEW e \in 1..2, d # e,
         BothOffered(d), BothOffered(e), NEW n \in 1..Shares(d), SizeClears(d, n)
  PROVE  /\ EdgeAt(d, n) \in Int /\ EdgeAt(d, n) > 0
         /\ OneContractAt(e) \in Int /\ OneContractAt(e) < 0
<1>1. n \in Int /\ n > 0  BY SharesWithin
<1>2. EdgeAt(d, n) \in Int /\ EdgeAt(d, n) <= n * TopAt(d)  BY EdgeBelowTop
<1>3. EdgeAt(d, n) > Buffer * n  BY DEF SizeClears
<1>4. Buffer * n \in Int /\ 0 <= Buffer * n
  <2>1. Buffer \in Nat  BY FillAssumption
  <2>2. QED  BY <1>1, <2>1
<1>5. /\ TopAt(d) \in Int /\ TopAt(e) \in Int
      /\ OneContractAt(e) \in Int /\ OneContractAt(e) <= TopAt(e)
  BY TopFacts
<1>6. n * TopAt(d) \in Int /\ n * TopAt(d) > 0  BY <1>1, <1>2, <1>3, <1>4, <1>5
<1>7. TopAt(d) > 0  BY <1>1, <1>5, <1>6, PositiveFactor
<1>8. TopAt(d) + TopAt(e) <= 0
  <2>1. (d = 1 /\ e = 2) \/ (d = 2 /\ e = 1)  OBVIOUS
  <2>2. TopAt(1) + TopAt(2) <= 0  BY <2>1, NotBothAtTop
  <2>3. CASE d = 1 /\ e = 2  BY <2>2, <2>3
  <2>4. CASE d = 2 /\ e = 1  BY <1>5, <2>2, <2>4
  <2>5. QED  BY <2>1, <2>3, <2>4
<1>9. QED  BY <1>2, <1>3, <1>4, <1>5, <1>7, <1>8

\* Where the top of each leg holds a share, the first share is one contract.
LEMMA FirstShare ==
  ASSUME books \in Pairs, NEW d \in 1..2, BothOffered(d), Cap > 0,
         YesDepth(d)[1].size >= Unit, NoDepth(d)[1].size >= Unit
  PROVE  1 \in 1..Shares(d) /\ EdgeAt(d, 1) = OneContractAt(d)
<1>1. /\ YesDepth(d) \in Seq(LevelType) /\ Sorted(YesDepth(d))
      /\ NoDepth(d) \in Seq(LevelType) /\ Sorted(NoDepth(d))
  BY Legs
<1>2. /\ 1 <= Len(YesShares(d)) /\ YesShares(d)[1] = YesDepth(d)[1].price
      /\ 1 <= Len(NoShares(d)) /\ NoShares(d)[1] = NoDepth(d)[1].price
  BY <1>1, LadderShares DEF YesShares, NoShares, BothOffered
<1>3. 1 \in 1..Shares(d)
  <2>1. Cap \in Nat  BY FillAssumption
  <2>2. QED  BY <1>2, <2>1, SharesWithin
<1> DEFINE y == YesDepth(d)[1].price
           n == NoDepth(d)[1].price
<1>4. Outlays(d)[1] = y + n /\ Charges(d)[1] = FeesOf(d, y, n)
  BY <1>2, <1>3, SharePrices
<1>5. /\ Totals(Outlays(d))[1] = Totals(Outlays(d))[0] + Outlays(d)[1]
      /\ Totals(Charges(d))[1] = Totals(Charges(d))[0] + Charges(d)[1]
  <2>1. /\ Outlays(d) \in Seq(Nat) /\ Len(Outlays(d)) = Shares(d)
        /\ Charges(d) \in Seq(Nat) /\ Len(Charges(d)) = Shares(d)
    BY OutlaysRise
  <2>2. 0 \in Nat /\ 0 + 1 = 1 /\ 0 + 1 <= Shares(d)  BY <1>3, SharesWithin
  <2>3. QED  BY <2>1, <2>2, NextTotal
<1>6. Totals(Outlays(d))[0] = 0 /\ Totals(Charges(d))[0] = 0
  BY OutlaysRise, TotalsEquation DEF IsTotals
<1>7. y \in Nat /\ n \in Nat /\ y \in Price /\ n \in Price  BY TopFacts
<1>8. OneContractAt(d) = One - y - n - FeesOf(d, y, n)  BY DEF OneContractAt, TopAt
<1>9. EdgeAt(d, 1) = One * 1 - Totals(Outlays(d))[1] - Totals(Charges(d))[1]  BY DEF EdgeAt
<1> HIDE DEF y, n
<1>10. FeesOf(d, y, n) \in Nat  BY <1>7, FeesNonNegative
<1>11. Totals(Outlays(d))[1] = y + n /\ Totals(Charges(d))[1] = FeesOf(d, y, n)
  BY <1>4, <1>5, <1>6, <1>7, <1>10
<1>12. EdgeAt(d, 1) = OneContractAt(d)  BY <1>7, <1>8, <1>9, <1>10, <1>11, OneType
<1>13. QED  BY <1>3, <1>12

-----------------------------------------------------------------------------
(* What the walk and the row keep                                          *)

\* The first half of EdgeDecays, which holds of edges alone and so outlives its walk.
Decays == \A m, n \in 1..Len(edges) : m <= n => edges[m] * n >= edges[n] * m

NoneClears(d) == \A n \in 1..Shares(d) : ~SizeClears(d, n)

\* Of the directions before t, r is a row that says a size when one clears.
KeptBy(r, t) ==
  /\ r.turn = 0 => r = NoRow
  /\ r.turn # 0 =>
       /\ r.turn \in 1..2 /\ r.turn < t /\ BothOffered(r.turn)
       /\ r.size = 0 => r.shares = 1 /\ r.edge = OneContractAt(r.turn)
       /\ r.size > 0 =>
            /\ r.size \in 1..Shares(r.turn) /\ r.shares = r.size
            /\ r.edge = EdgeAt(r.turn, r.size) /\ SizeClears(r.turn, r.size)
            /\ \A i \in 1..3 :
                 /\ r.frontier[i].shares = SampleSize(r.size, 25 * i)
                 /\ r.frontier[i].edge = EdgeAt(r.turn, SampleSize(r.size, 25 * i))
  /\ \A d \in 1..2 : d < t /\ BothOffered(d) =>
       r.turn # 0 /\ (r.size = 0 => NoneClears(d))

RowKept == \A r, t : r = row /\ t = turn => KeptBy(r, t)

\* Inductive with IInv: each action moves it to itself from a state of both.
Kept == Decays /\ RowKept

LEMMA SameDirections ==
  ASSUME books' = books, NEW d
  PROVE  /\ BothOffered(d)' = BothOffered(d) /\ Shares(d)' = Shares(d)
         /\ OneContractAt(d)' = OneContractAt(d)
         /\ NoneClears(d)' = NoneClears(d)
         /\ \A n : EdgeAt(d, n)' = EdgeAt(d, n)
         /\ \A n : SizeClears(d, n)' = SizeClears(d, n)
<1>1. YesDepth(d)' = YesDepth(d) /\ NoDepth(d)' = NoDepth(d)
  BY DEF YesDepth, NoDepth
<1>2. Shares(d)' = Shares(d)  BY <1>1 DEF Shares
<1>3. Outlays(d)' = Outlays(d) /\ Charges(d)' = Charges(d)
  BY <1>1, <1>2 DEF Outlays, Charges
<1>4. Totals(Outlays(d))' = Totals(Outlays(d)) /\ Totals(Charges(d))' = Totals(Charges(d))
  BY <1>3 DEF Totals
<1>5. \A n : EdgeAt(d, n)' = EdgeAt(d, n)  BY <1>4 DEF EdgeAt
<1>6. \A n : SizeClears(d, n)' = SizeClears(d, n)  BY <1>5 DEF SizeClears
<1>7. NoneClears(d)' = NoneClears(d)  BY <1>2, <1>6 DEF NoneClears
<1>8. BothOffered(d)' = BothOffered(d)  BY <1>1 DEF BothOffered
<1>9. OneContractAt(d)' = OneContractAt(d)  BY <1>1 DEF OneContractAt, TopAt
<1>10. QED  BY <1>2, <1>5, <1>6, <1>7, <1>8, <1>9

LEMMA SameKept ==
  ASSUME books' = books, NEW r, NEW t
  PROVE  KeptBy(r, t)' = KeptBy(r, t)
<1>1. \A d : /\ BothOffered(d)' = BothOffered(d) /\ Shares(d)' = Shares(d)
             /\ OneContractAt(d)' = OneContractAt(d)
             /\ NoneClears(d)' = NoneClears(d)
             /\ \A n : EdgeAt(d, n)' = EdgeAt(d, n)
             /\ \A n : SizeClears(d, n)' = SizeClears(d, n)
  BY SameDirections
<1>2. QED  BY <1>1 DEF KeptBy

LEMMA RowStays ==
  ASSUME books' = books, \A r, t : r = row' /\ t = turn' => KeptBy(r, t)
  PROVE  RowKept'
<1>1. \A r, t : KeptBy(r, t)' = KeptBy(r, t)  BY SameKept
<1>2. QED  BY <1>1 DEF RowKept

\* While nothing is compared the row keeps what it has.
LEMMA RowUntouched ==
  ASSUME IInv, RowKept, books' = books, row' = row,
         \/ turn' = turn
         \/ turn' = turn + 1 /\ turn \in 1..2 /\ ~BothOffered(turn)
  PROVE  RowKept'
<1>1. SUFFICES ASSUME NEW r, NEW t, r = row', t = turn'  PROVE KeptBy(r, t)
  BY RowStays
<1>2. KeptBy(row, turn)  BY DEF RowKept
<1>3. CASE turn' = turn  BY <1>1, <1>2, <1>3
<1>4. CASE turn' = turn + 1 /\ turn \in 1..2 /\ ~BothOffered(turn)
  <2>1. r = row /\ t = turn + 1 /\ turn \in 1..2  BY <1>1, <1>4
  <2>2. row.turn \in 0..2  BY DEF IInv, TypeOK
  <2>3. row.turn < turn => r.turn < t  BY <2>1, <2>2
  <2>4. ASSUME NEW d \in 1..2, d < t, BothOffered(d)
        PROVE  r.turn # 0 /\ (r.size = 0 => NoneClears(d))
    <3>1. d # turn  BY <1>4, <2>4
    <3>2. d < turn  BY <2>1, <2>4, <3>1
    <3>3. QED  BY <1>2, <2>1, <2>4, <3>2 DEF KeptBy
  <2>5. QED  BY <1>2, <2>1, <2>3, <2>4 DEF KeptBy
<1>5. QED  BY <1>3, <1>4

LEMMA NextDirectionKept == IInv /\ Kept /\ NextDirection => Kept'
<1>1. SUFFICES ASSUME IInv, Kept, NextDirection  PROVE Kept'  OBVIOUS
<1>2. books' = books /\ row' = row /\ edges' = <<>>  BY <1>1 DEF NextDirection
<1>3. Decays'  BY <1>2 DEF Decays
<1>4. \/ turn' = turn
      \/ turn' = turn + 1 /\ turn \in 1..2 /\ ~BothOffered(turn)
  BY <1>1 DEF NextDirection, BothOffered, IInv, TypeOK
<1>5. RowKept'  BY <1>1, <1>2, <1>4, RowUntouched DEF Kept
<1>6. QED  BY <1>3, <1>5 DEF Kept

LEMMA BuyShareKept == IInv /\ Kept /\ BuyShare => Kept'
<1>1. SUFFICES ASSUME IInv, Kept, BuyShare  PROVE Kept'  OBVIOUS
<1>2. books' = books /\ row' = row /\ turn' = turn /\ pc = "walk"  BY <1>1 DEF BuyShare
<1>3. RowKept'  BY <1>1, <1>2, RowUntouched DEF Kept
<1>4. /\ turn \in 1..2 /\ books \in Pairs /\ filled' = filled + 1
      /\ filled' \in 1..Shares(turn)
      /\ Edge(filled', cost', fee') = EdgeAt(turn, filled')
      /\ EdgeAt(turn, filled') \in Int
  BY <1>1, ShareBought
<1>5. /\ edges \in Seq(Int) /\ Len(edges) \in Nat /\ Len(edges) = filled
      /\ \A n \in 1..Len(edges) : edges[n] = EdgeAt(turn, n)
  BY <1>1, <1>2, LenProperties DEF IInv, TypeOK, Walked
<1>6. \A m, n \in 1..Len(edges) : m <= n => edges[m] * n >= edges[n] * m
  BY <1>1 DEF Kept, Decays
<1>7. CASE edges' = edges  BY <1>3, <1>6, <1>7 DEF Kept, Decays
<1>8. CASE edges' = Append(edges, EdgeAt(turn, filled'))
  <2>1. /\ Len(edges') = filled'
        /\ \A n \in 1..Len(edges) : edges'[n] = edges[n]
        /\ edges'[filled'] = EdgeAt(turn, filled')
    BY <1>4, <1>5, <1>8, AppendProperties
  <2>2. ASSUME NEW m \in 1..Len(edges'), NEW n \in 1..Len(edges'), m <= n
        PROVE  edges'[m] * n >= edges'[n] * m
    <3>1. Shares(turn) \in Nat  BY <1>4, SharesWithin
    <3>2. m \in 1..Shares(turn) /\ n \in m..Shares(turn)  BY <1>4, <2>1, <2>2, <3>1
    <3>3. \A k \in 1..Len(edges') : edges'[k] = EdgeAt(turn, k)
      <4>1. TAKE k \in 1..Len(edges')
      <4>2. CASE k = filled'  BY <2>1, <4>2
      <4>3. CASE k # filled'
        <5>1. k \in 1..Len(edges)  BY <1>4, <1>5, <2>1, <4>1, <4>3
        <5>2. QED  BY <1>5, <2>1, <5>1
      <4>4. QED  BY <4>2, <4>3
    <3>4. edges'[m] = EdgeAt(turn, m) /\ edges'[n] = EdgeAt(turn, n)  BY <3>3
    <3>5. EdgeAt(turn, m) * n >= EdgeAt(turn, n) * m  BY <1>4, <3>2, AverageEdgeFalls
    <3>6. QED  BY <3>4, <3>5
  <2>3. Decays'  BY <2>2 DEF Decays
  <2>4. QED  BY <1>3, <2>3 DEF Kept
<1>9. QED  BY <1>1, <1>4, <1>7, <1>8 DEF BuyShare

LEMMA RunsOutKept == IInv /\ Kept /\ RunsOut => Kept'
<1>1. SUFFICES ASSUME IInv, Kept, RunsOut  PROVE Kept'  OBVIOUS
<1>2. books' = books /\ row' = row /\ turn' = turn /\ edges' = edges  BY <1>1 DEF RunsOut
<1>3. RowKept'  BY <1>1, <1>2, RowUntouched DEF Kept
<1>4. Decays'  BY <1>1, <1>2 DEF Kept, Decays
<1>5. QED  BY <1>3, <1>4 DEF Kept

\* What evaluate_pair makes of a direction, by the reference.
LEMMA EvaluationIs ==
  ASSUME IInv, pc = "compare"
  PROVE  /\ turn \in 1..2 /\ books \in Pairs /\ BothOffered(turn) /\ Shares(turn) \in Nat
         /\ Evaluation.turn = turn
         /\ best.size = 0 => /\ Evaluation.size = 0 /\ Evaluation.shares = 1
                             /\ Evaluation.edge = OneContractAt(turn) /\ NoneClears(turn)
         /\ best.size # 0 =>
              /\ Evaluation.size = best.size /\ Evaluation.shares = best.size
              /\ best.size \in 1..Shares(turn)
              /\ Evaluation.edge = EdgeAt(turn, best.size) /\ SizeClears(turn, best.size)
              /\ \A i \in 1..3 :
                   /\ Evaluation.frontier[i].shares = SampleSize(best.size, 25 * i)
                   /\ Evaluation.frontier[i].edge = EdgeAt(turn, SampleSize(best.size, 25 * i))
<1>1. /\ turn \in 1..2 /\ books \in Pairs /\ best.size \in Nat /\ best.size <= Len(edges)
      /\ Len(edges) \in Nat
  BY LenProperties, FillAssumption DEF IInv, TypeOK
<1>2. /\ BothOffered(turn) /\ \A n \in 1..Len(edges) : edges[n] = EdgeAt(turn, n)
      /\ filled <= Shares(turn)
  BY DEF IInv, Walked, BothOffered
<1>3. Shares(turn) \in Nat  BY <1>1, SharesWithin
<1>4. LargestSize  BY WalkedLargest
<1>5. Evaluation.turn = turn  BY DEF Evaluation
<1>6. ASSUME best.size = 0
      PROVE  /\ Evaluation.size = 0 /\ Evaluation.shares = 1
             /\ Evaluation.edge = OneContractAt(turn) /\ NoneClears(turn)
  <2>1. OneContract = OneContractAt(turn)
    BY DEF OneContract, OneContractAt, RawTop, TopAt, YesAsk, NoAsk
  <2>2. Evaluation = [turn |-> turn, size |-> 0, shares |-> 1, raw |-> RawTop,
                      edge |-> OneContract, frontier |-> <<>>]
    BY <1>6 DEF Evaluation
  <2>3. NoneClears(turn)
    <3>1. \A n \in 1..Shares(turn) : SizeClears(turn, n) => n <= 0
      BY <1>4, <1>6 DEF LargestSize
    <3>2. QED  BY <3>1 DEF NoneClears
  <2>4. QED  BY <2>1, <2>2, <2>3
<1>7. ASSUME best.size # 0
      PROVE  /\ Evaluation.size = best.size /\ Evaluation.shares = best.size
             /\ best.size \in 1..Shares(turn)
             /\ Evaluation.edge = EdgeAt(turn, best.size) /\ SizeClears(turn, best.size)
             /\ \A i \in 1..3 :
                  /\ Evaluation.frontier[i].shares = SampleSize(best.size, 25 * i)
                  /\ Evaluation.frontier[i].edge = EdgeAt(turn, SampleSize(best.size, 25 * i))
  <2>1. best.size > 0 /\ best.size \in 1..Len(edges)  BY <1>1, <1>7
  <2>2. Evaluation = [turn |-> turn, size |-> best.size, shares |-> best.size,
                      raw |-> RawTop, edge |-> edges[best.size],
                      frontier |-> Frontier(best.size)]
    BY <2>1 DEF Evaluation
  <2>3. best.size \in 1..Shares(turn) /\ SizeClears(turn, best.size)
    <3>1. best.size <= Shares(turn) /\ SizeClears(turn, best.size)
      BY <1>4, <2>1 DEF LargestSize
    <3>2. QED  BY <1>1, <1>3, <2>1, <3>1
  <2>4. edges[best.size] = EdgeAt(turn, best.size)  BY <1>2, <2>1
  <2>5. ASSUME NEW i \in 1..3
        PROVE  /\ Frontier(best.size)[i].shares = SampleSize(best.size, 25 * i)
               /\ Frontier(best.size)[i].edge = EdgeAt(turn, SampleSize(best.size, 25 * i))
    <3> DEFINE n == SampleSize(best.size, 25 * i)
    <3>1. n \in 1..best.size  BY <1>1, <2>1, SampleWithin
    <3>2. Frontier(best.size)[i]
            = [shares |-> n, edge |-> edges[IF n = 0 THEN Len(edges) ELSE n]]
      BY DEF Frontier
    <3> HIDE DEF n
    <3>3. n # 0 /\ n \in 1..Len(edges)  BY <1>1, <3>1
    <3>4. edges[n] = EdgeAt(turn, n)  BY <1>2, <3>3
    <3>5. QED  BY <3>2, <3>3, <3>4 DEF n
  <2>6. QED  BY <2>2, <2>3, <2>4, <2>5
<1>8. QED  BY <1>1, <1>2, <1>3, <1>5, <1>6, <1>7

LEMMA LossIsNotBetter ==
  ASSUME NEW gain \in Int, NEW loss \in Int, NEW n \in Int, n > 0, gain > 0, loss < 0
  PROVE  ~(loss * n > gain * 1) /\ gain * 1 > loss * n
<1>1. loss * n < 0  OBVIOUS
<1>2. gain * 1 = gain /\ loss * n \in Int  OBVIOUS
<1>3. QED  BY <1>1, <1>2

LEMMA BetterKept ==
  ASSUME IInv, RowKept, pc = "compare", Better(Evaluation)
  PROVE  KeptBy(Evaluation, turn + 1)
<1>1. KeptBy(row, turn)  BY DEF RowKept
<1>2. /\ turn \in 1..2 /\ books \in Pairs /\ BothOffered(turn) /\ Shares(turn) \in Nat
      /\ Evaluation.turn = turn
      /\ best.size = 0 => /\ Evaluation.size = 0 /\ Evaluation.shares = 1
                          /\ Evaluation.edge = OneContractAt(turn) /\ NoneClears(turn)
      /\ best.size # 0 =>
           /\ Evaluation.size = best.size /\ Evaluation.shares = best.size
           /\ best.size \in 1..Shares(turn)
           /\ Evaluation.edge = EdgeAt(turn, best.size) /\ SizeClears(turn, best.size)
           /\ \A i \in 1..3 :
                /\ Evaluation.frontier[i].shares = SampleSize(best.size, 25 * i)
                /\ Evaluation.frontier[i].edge = EdgeAt(turn, SampleSize(best.size, 25 * i))
  BY EvaluationIs
<1> DEFINE ev == Evaluation
<1>3. ev.turn # 0 /\ ev.turn \in 1..2 /\ ev.turn < turn + 1 /\ BothOffered(ev.turn)
  BY <1>2
<1>4. ev.size = 0 => best.size = 0  BY <1>2
<1>5. ev.size > 0 => best.size # 0  BY <1>2
<1>6. row.size \in Nat /\ row.turn \in 0..2
  <2>1. Cap \in Nat  BY FillAssumption
  <2>2. QED  BY <2>1 DEF IInv, TypeOK
<1>7. Better(ev) = (row = NoRow \/ ev.edge * row.shares > row.edge * ev.shares)
  BY DEF Better
<1> HIDE DEF ev
<1>8. ASSUME NEW d \in 1..2, d < turn + 1, BothOffered(d), ev.size = 0  PROVE NoneClears(d)
  <2>1. CASE d = turn  BY <1>2, <1>4, <1>8, <2>1
  <2>2. CASE d # turn
    <3>1. d < turn  BY <1>2, <1>8, <2>2
    <3>2. row.turn # 0 /\ (row.size = 0 => NoneClears(d))
      BY <1>1, <1>8, <3>1 DEF KeptBy
    <3>3. CASE row.size = 0  BY <3>2, <3>3
    <3>4. CASE row.size # 0
      <4>1. row.size > 0  BY <1>6, <3>4
      <4>2. /\ row.turn \in 1..2 /\ row.turn < turn /\ BothOffered(row.turn)
            /\ row.size \in 1..Shares(row.turn) /\ row.shares = row.size
            /\ row.edge = EdgeAt(row.turn, row.size) /\ SizeClears(row.turn, row.size)
        BY <1>1, <3>2, <4>1 DEF KeptBy
      <4>3. row # NoRow  BY <3>2 DEF NoRow
      <4>4. ev.edge = OneContractAt(turn) /\ ev.shares = 1  BY <1>2, <1>4, <1>8 DEF ev
      <4>5. OneContractAt(turn) * row.size > EdgeAt(row.turn, row.size) * 1
        BY <1>7, <4>2, <4>3, <4>4 DEF ev
      <4>6. /\ EdgeAt(row.turn, row.size) \in Int /\ EdgeAt(row.turn, row.size) > 0
            /\ OneContractAt(turn) \in Int /\ OneContractAt(turn) < 0
        <5>1. row.turn # turn  BY <1>2, <4>2
        <5>2. QED  BY <1>2, <4>2, <5>1, OtherLoses
      <4>7. row.size \in Int  BY <1>6
      <4>8. QED  BY ONLY <4>1, <4>5, <4>6, <4>7, LossIsNotBetter
    <3>5. QED  BY <3>3, <3>4
  <2>3. QED  BY <2>1, <2>2
<1>9. ev.size = 0 => ev.shares = 1 /\ ev.edge = OneContractAt(ev.turn)
  BY <1>2, <1>4 DEF ev
<1>10. ASSUME ev.size > 0
       PROVE  /\ ev.size \in 1..Shares(ev.turn) /\ ev.shares = ev.size
              /\ ev.edge = EdgeAt(ev.turn, ev.size) /\ SizeClears(ev.turn, ev.size)
              /\ \A i \in 1..3 :
                   /\ ev.frontier[i].shares = SampleSize(ev.size, 25 * i)
                   /\ ev.frontier[i].edge = EdgeAt(ev.turn, SampleSize(ev.size, 25 * i))
  BY <1>2, <1>5, <1>10 DEF ev
<1>11. KeptBy(ev, turn + 1)  BY <1>3, <1>8, <1>9, <1>10 DEF KeptBy
<1>12. QED  BY <1>11 DEF ev

LEMMA WorseKept ==
  ASSUME IInv, RowKept, pc = "compare", ~Better(Evaluation)
  PROVE  KeptBy(row, turn + 1)
<1>1. KeptBy(row, turn)  BY DEF RowKept
<1>2. /\ turn \in 1..2 /\ books \in Pairs /\ BothOffered(turn)
      /\ best.size = 0 => NoneClears(turn)
      /\ best.size # 0 =>
           /\ Evaluation.shares = best.size /\ best.size \in 1..Shares(turn)
           /\ Evaluation.edge = EdgeAt(turn, best.size) /\ SizeClears(turn, best.size)
  BY EvaluationIs
<1>3. /\ row # NoRow
      /\ ~(Evaluation.edge * row.shares > row.edge * Evaluation.shares)
  BY DEF Better
<1>4. row.turn # 0  BY <1>1, <1>3 DEF KeptBy
<1>5. row.turn \in 1..2 /\ row.turn < turn /\ BothOffered(row.turn)
  BY <1>1, <1>4 DEF KeptBy
<1>6. row.turn < turn + 1  BY <1>2, <1>5
<1>7. ASSUME row.size = 0  PROVE NoneClears(turn)
  <2>1. CASE best.size = 0  BY <1>2, <2>1
  <2>2. CASE best.size # 0
    <3>1. row.shares = 1 /\ row.edge = OneContractAt(row.turn)
      BY <1>1, <1>4, <1>7 DEF KeptBy
    <3>2. /\ EdgeAt(turn, best.size) \in Int /\ EdgeAt(turn, best.size) > 0
          /\ OneContractAt(row.turn) \in Int /\ OneContractAt(row.turn) < 0
      <4>1. row.turn # turn  BY <1>2, <1>5
      <4>2. QED  BY <1>2, <1>5, <2>2, <4>1, OtherLoses
    <3>3. best.size \in Int /\ best.size > 0
      <4>1. Shares(turn) \in Nat  BY <1>2, SharesWithin
      <4>2. QED  BY <1>2, <2>2, <4>1
    <3>4. EdgeAt(turn, best.size) * 1 > OneContractAt(row.turn) * best.size
      BY ONLY <3>2, <3>3, LossIsNotBetter
    <3>5. QED  BY <1>2, <1>3, <2>2, <3>1, <3>4
  <2>3. QED  BY <2>1, <2>2
<1>8. ASSUME NEW d \in 1..2, d < turn + 1, BothOffered(d)
      PROVE  row.size = 0 => NoneClears(d)
  <2>1. CASE d = turn  BY <1>7, <2>1
  <2>2. CASE d # turn
    <3>1. d < turn  BY <1>2, <1>8, <2>2
    <3>2. QED  BY <1>1, <1>8, <3>1 DEF KeptBy
  <2>3. QED  BY <2>1, <2>2
<1>9. QED  BY <1>1, <1>4, <1>6, <1>8 DEF KeptBy

LEMMA CompareKept == IInv /\ Kept /\ Compare => Kept'
<1>1. SUFFICES ASSUME IInv, Kept, Compare  PROVE Kept'  OBVIOUS
<1>2. /\ pc = "compare" /\ books' = books /\ edges' = edges /\ turn' = turn + 1
      /\ row' = IF Better(Evaluation) THEN Evaluation ELSE row
  BY <1>1 DEF Compare
<1>3. Decays'  BY <1>1, <1>2 DEF Kept, Decays
<1>4. CASE Better(Evaluation)
  <2>1. KeptBy(Evaluation, turn + 1)  BY <1>1, <1>2, <1>4, BetterKept DEF Kept
  <2>2. RowKept'  BY <1>2, <1>4, <2>1, RowStays
  <2>3. QED  BY <1>3, <2>2 DEF Kept
<1>5. CASE ~Better(Evaluation)
  <2>1. KeptBy(row, turn + 1)  BY <1>1, <1>2, <1>5, WorseKept DEF Kept
  <2>2. RowKept'  BY <1>2, <1>5, <2>1, RowStays
  <2>3. QED  BY <1>3, <2>2 DEF Kept
<1>6. QED  BY <1>4, <1>5

LEMMA StutterKept == IInv /\ Kept /\ UNCHANGED vars => Kept'
<1>1. SUFFICES ASSUME IInv, Kept, UNCHANGED vars  PROVE Kept'  OBVIOUS
<1>2. books' = books /\ row' = row /\ turn' = turn /\ edges' = edges  BY <1>1 DEF vars
<1>3. RowKept'  BY <1>1, <1>2, RowUntouched DEF Kept
<1>4. Decays'  BY <1>1, <1>2 DEF Kept, Decays
<1>5. QED  BY <1>3, <1>4 DEF Kept

LEMMA InitKept == Init => Kept
<1>1. SUFFICES ASSUME Init  PROVE Kept  OBVIOUS
<1>2. edges = <<>> /\ row = NoRow /\ turn = 1  BY <1>1 DEF Init
<1>3. Decays  BY <1>2 DEF Decays
<1>4. KeptBy(NoRow, 1)
  <2>1. NoRow.turn = 0  BY DEF NoRow
  <2>2. \A d \in 1..2 : ~(d < 1)  OBVIOUS
  <2>3. QED  BY <2>1, <2>2 DEF KeptBy
<1>5. RowKept  BY <1>2, <1>4 DEF RowKept
<1>6. QED  BY <1>3, <1>5 DEF Kept

LEMMA StepKept == IInv /\ Kept /\ [Next]_vars => Kept'
BY NextDirectionKept, BuyShareKept, RunsOutKept, CompareKept, StutterKept DEF Next

LEMMA KeptInvariant == Spec => [](IInv /\ Kept)
<1>1. Init => IInv /\ Kept  BY InitIInv, InitKept
<1>2. (IInv /\ Kept) /\ [Next]_vars => (IInv /\ Kept)'  BY StepIInv, StepKept
<1>3. QED  BY <1>1, <1>2, PTL DEF Spec

-----------------------------------------------------------------------------
(* The frontier, the plan and the row                                      *)

LEMMA KeptDecays == IInv /\ Kept => EdgeDecays
<1>1. SUFFICES ASSUME IInv, Kept  PROVE EdgeDecays  OBVIOUS
<1>2. \A m, n \in 1..Len(edges) : m <= n => edges[m] * n >= edges[n] * m
  BY <1>1 DEF Kept, Decays
<1>3. ASSUME row.size > 0, NEW i \in 1..3
      PROVE  /\ row.frontier[i].shares \in 1..row.size
             /\ row.frontier[i].edge = EdgeAt(row.turn, row.frontier[i].shares)
             /\ row.frontier[i].edge * row.size >= row.edge * row.frontier[i].shares
  <2>1. KeptBy(row, turn)  BY <1>1 DEF Kept, RowKept
  <2>2. row.turn # 0  BY <1>3, <2>1 DEF KeptBy, NoRow
  <2> DEFINE n == row.size
             m == SampleSize(n, 25 * i)
             d == row.turn
  <2>3. /\ d \in 1..2 /\ n \in 1..Shares(d) /\ row.edge = EdgeAt(d, n)
        /\ row.frontier[i].shares = m /\ row.frontier[i].edge = EdgeAt(d, m)
    BY <1>3, <2>1, <2>2 DEF KeptBy
  <2>4. books \in Pairs  BY <1>1 DEF IInv, TypeOK
  <2> HIDE DEF m, n, d
  <2>5. Shares(d) \in Nat  BY <2>3, <2>4, SharesWithin
  <2>6. n \in Nat /\ n > 0  BY <2>3, <2>5
  <2>7. m \in 1..n  BY <2>6, SampleWithin DEF m
  <2>8. m \in 1..Shares(d) /\ n \in m..Shares(d)  BY <2>3, <2>5, <2>7
  <2>9. EdgeAt(d, m) * n >= EdgeAt(d, n) * m  BY <2>3, <2>4, <2>8, AverageEdgeFalls
  <2>10. QED  BY <2>3, <2>7, <2>9 DEF n, d
<1>4. QED  BY <1>2, <1>3 DEF EdgeDecays

LEMMA WalkedFillable == IInv => PlanIsFillable
<1>1. SUFFICES ASSUME IInv, pc = "compare", best.size > 0
      PROVE  /\ Fill(YesDepth(turn), best.size).left = 0
             /\ Fill(NoDepth(turn), best.size).left = 0
             /\ Fill(YesDepth(turn), best.size).cost + Fill(NoDepth(turn), best.size).cost
                  <= best.cost * Unit
  BY DEF PlanIsFillable
<1> DEFINE d == turn
           n == best.size
           y == Totals(YesShares(d))[n]
           o == Totals(NoShares(d))[n]
<1>2. d \in 1..2 /\ books \in Pairs /\ n \in Nat  BY <1>1, FillAssumption DEF IInv, TypeOK
<1>3. n <= Shares(d) /\ best.cost = Totals(Outlays(d))[n]
  <2>1. n <= Shares(d)  BY <1>1, WalkedLargest DEF LargestSize
  <2>2. QED  BY <1>1, <2>1 DEF IInv, Walked
<1> HIDE DEF d, n
<1>4. /\ YesDepth(d) \in Seq(LevelType) /\ Sorted(YesDepth(d))
      /\ NoDepth(d) \in Seq(LevelType) /\ Sorted(NoDepth(d))
  BY <1>2, Legs
<1>5. /\ YesShares(d) \in Seq(Nat) /\ Len(YesShares(d)) \in Nat
      /\ NoShares(d) \in Seq(Nat) /\ Len(NoShares(d)) \in Nat
  BY <1>4, LadderShares DEF YesShares, NoShares
<1>6. /\ Shares(d) \in Nat /\ Shares(d) <= Len(YesShares(d)) /\ Shares(d) <= Len(NoShares(d))
  BY <1>2, SharesWithin
<1>7. Outlays(d) \in Seq(Nat) /\ Len(Outlays(d)) = Shares(d)  BY <1>2, OutlaysRise
<1>8. Totals(Outlays(d))[n] = y + o /\ y \in Nat /\ o \in Nat
  <2>1. IsSum(Outlays(d), YesShares(d), NoShares(d))
    BY <1>2, <1>6, <1>7, SharePrices DEF IsSum
  <2>2. n \in 0..Len(Outlays(d))  BY <1>2, <1>3, <1>6, <1>7
  <2>3. QED  BY <1>5, <1>7, <2>1, <2>2, SumOfTotals
<1>9. n <= Len(WholeShares(YesDepth(d))) /\ n <= Len(WholeShares(NoDepth(d)))
  BY <1>2, <1>3, <1>5, <1>6 DEF YesShares, NoShares
<1>10. /\ Fill(YesDepth(d), n).left = 0 /\ Fill(YesDepth(d), n).cost \in Nat
       /\ Fill(YesDepth(d), n).cost <= y * Unit
  BY <1>2, <1>4, <1>9, FillOfWhole DEF YesShares
<1>11. /\ Fill(NoDepth(d), n).left = 0 /\ Fill(NoDepth(d), n).cost \in Nat
       /\ Fill(NoDepth(d), n).cost <= o * Unit
  BY <1>2, <1>4, <1>9, FillOfWhole DEF NoShares
<1> HIDE DEF y, o
<1>12. (y + o) * Unit = y * Unit + o * Unit /\ y * Unit \in Int /\ o * Unit \in Int
  <2>1. Unit \in Nat  BY FillAssumption
  <2>2. QED  BY <1>8, <2>1
<1>13. Fill(YesDepth(d), n).cost + Fill(NoDepth(d), n).cost <= (y + o) * Unit
  BY <1>10, <1>11, <1>12
<1>14. QED  BY <1>3, <1>8, <1>10, <1>11, <1>13 DEF d, n

LEMMA KeptZero == IInv /\ Kept => ZeroIsNoTrade
<1>1. SUFFICES ASSUME IInv, Kept  PROVE ZeroIsNoTrade  OBVIOUS
<1>2. KeptBy(row, turn)  BY <1>1 DEF Kept, RowKept
<1>3. books \in Pairs /\ turn \in 1..3  BY <1>1 DEF IInv, TypeOK
<1>4. ASSUME turn = 3, row.size = 0, NEW d \in 1..2, YesDepth(d) # <<>>, NoDepth(d) # <<>>
      PROVE  \A n \in 1..Shares(d) : ~SizeClears(d, n)
  <2>1. NoneClears(d)  BY <1>2, <1>4 DEF KeptBy, BothOffered
  <2>2. QED  BY <2>1 DEF NoneClears
<1>5. ASSUME row.turn # 0, row.size = 0, Cap > 0,
             YesDepth(row.turn)[1].size >= Unit, NoDepth(row.turn)[1].size >= Unit
      PROVE  row.edge <= Buffer
  <2> DEFINE d == row.turn
  <2>1. /\ d \in 1..2 /\ d < turn /\ BothOffered(d) /\ row.edge = OneContractAt(d)
    BY <1>2, <1>5 DEF KeptBy
  <2>2. NoneClears(d)  BY <1>2, <1>5, <2>1 DEF KeptBy
  <2>3. 1 \in 1..Shares(d) /\ EdgeAt(d, 1) = OneContractAt(d)
    BY <1>3, <1>5, <2>1, FirstShare
  <2>4. OneContractAt(d) \in Int  BY <1>3, <2>1, TopFacts
  <2>5. ~(OneContractAt(d) > Buffer * 1)  BY <2>2, <2>3 DEF NoneClears, SizeClears
  <2>6. Buffer \in Nat /\ Buffer * 1 = Buffer  BY FillAssumption
  <2>7. QED  BY <2>1, <2>4, <2>5, <2>6
<1>6. QED  BY <1>4, <1>5 DEF ZeroIsNoTrade

-----------------------------------------------------------------------------
(* The theorems                                                            *)

\* The walk's variables keep their types, the size stays within the cap, and a row
\* has three quarter points or none.
THEOREM FillTypeCorrect == Spec => []TypeOK
<1>1. IInv => TypeOK  BY DEF IInv
<1>2. QED  BY <1>1, Invariant, PTL

\* Whatever the ladders, the fee rates, the buffer and the cap, the walk ends with the
\* largest size that clears: stopping at the first average beyond the gate
\* (spread.py:155) gives up no size that would have cleared.
THEOREM FillLargestSize == Spec => []LargestSize
<1>1. IInv => LargestSize  BY WalkedLargest
<1>2. QED  BY <1>1, Invariant, PTL

\* Whatever the ladders, rates, buffer and cap, what a share leaves on average never
\* grows along a walk, and the quarter points of a row (spread.py:84-107) lie within its
\* size and are no worse than its own edge: with rates of at most one, a fee falls
\* slower than the price it is charged on rises.
THEOREM FillEdgeDecays == Spec => []EdgeDecays
<1>1. IInv /\ Kept => EdgeDecays  BY KeptDecays
<1>2. QED  BY <1>1, KeptInvariant, PTL

\* Whatever the ladders and the sizes of their levels, compute_fill_price (spread.py:68)
\* has the liquidity for the size of a plan and pays no more than the walk, which leaves
\* the fractions of a share aside.
THEOREM FillPlanIsFillable == Spec => []PlanIsFillable
<1>1. IInv => PlanIsFillable  BY WalkedFillable
<1>2. QED  BY <1>1, Invariant, PTL

\* Whatever the uncrossed books, a row of size 0 means that no size clears in either
\* direction (main.py:263), and that one contract at the top is within the buffer
\* wherever the top of each leg holds one.
THEOREM FillZeroIsNoTrade == Spec => []ZeroIsNoTrade
<1>1. IInv /\ Kept => ZeroIsNoTrade  BY KeptZero
<1>2. QED  BY <1>1, KeptInvariant, PTL
=============================================================================
