-------------------------- MODULE RetrievalProofs --------------------------
(***************************************************************************)
(* Proofs about Retrieval, for any knowledge bases, chunks, texts, sizes,  *)
(* conversations and limits.                                               *)
(***************************************************************************)
EXTENDS Retrieval, FiniteSetTheorems, SequenceTheorems, NaturalsInduction, WellFoundedInduction, TLAPS

-----------------------------------------------------------------------------
(* Lists *)

\* Before orders the members of I.
Orderly(I, Before) ==
    /\ \A i \in I : <<i, i>> \notin Before
    /\ \A i, j \in I : i # j => <<i, j>> \in Before \/ <<j, i>> \in Before
    /\ \A i, j, k \in I : <<i, j>> \in Before /\ <<j, k>> \in Before => <<i, k>> \in Before

\* order runs through I, the earlier before the later.
RunsThrough(order, I, Before) ==
    /\ order \in [1 .. Cardinality(I) -> I]
    /\ \A a, b \in 1 .. Cardinality(I) : a < b <=> <<order[a], order[b]>> \in Before
    /\ \A i \in I : \E a \in 1 .. Cardinality(I) : order[a] = i

\* Who is before whom can be told by how many are.
LEMMA RankedRunsThrough ==
    ASSUME NEW I, IsFiniteSet(I), NEW Before, Orderly(I, Before)
    PROVE  RunsThrough(Ranked(I, Before), I, Before)
<1> DEFINE Below(i) == {j \in I : <<j, i>> \in Before}
           n == Cardinality(I)
           c == [i \in I |-> Cardinality(Below(i)) + 1]
           R == Ranked(I, Before)
<1>1. \A i \in I : IsFiniteSet(Below(i)) /\ Cardinality(Below(i)) \in Nat
  <2> TAKE i \in I
  <2>1. Below(i) \in SUBSET I
    OBVIOUS
  <2>2. QED
    BY <2>1, FS_Subset, FS_CardinalityType
<1>2. n \in Nat
  BY FS_CardinalityType
<1>3. ASSUME NEW i \in I, NEW j \in I, <<i, j>> \in Before
      PROVE  Cardinality(Below(i)) < Cardinality(Below(j))
  <2>1. Below(i) \in SUBSET Below(j) /\ i \in Below(j) /\ i \notin Below(i)
    BY <1>3 DEF Orderly
  <2>2. /\ Cardinality(Below(i)) <= Cardinality(Below(j))
        /\ Cardinality(Below(j)) = Cardinality(Below(i)) => Below(j) = Below(i)
    BY <1>1, <2>1, FS_Subset
  <2>3. QED
    BY <1>1, <2>1, <2>2
<1>4. \A i \in I : Cardinality(Below(i)) < n
  <2> TAKE i \in I
  <2>1. Below(i) \in SUBSET I /\ i \in I /\ i \notin Below(i)
    BY DEF Orderly
  <2>2. Cardinality(Below(i)) <= n /\ (n = Cardinality(Below(i)) => I = Below(i))
    BY <2>1, FS_Subset
  <2>3. QED
    BY <1>1, <1>2, <2>1, <2>2
<1> HIDE DEF Below, n
<1>5. \A i \in I : c[i] = Cardinality(Below(i)) + 1 /\ c[i] \in 1 .. n
  BY <1>1, <1>2, <1>4
<1>17. c \in [I -> 1 .. n]
  BY <1>5
<1> HIDE DEF c
<1>6. ASSUME NEW i \in I, NEW j \in I, c[i] = c[j] PROVE i = j
  <2>1. Cardinality(Below(i)) = Cardinality(Below(j))
    BY <1>1, <1>5, <1>6
  <2>2. <<i, j>> \notin Before /\ <<j, i>> \notin Before
    BY <1>1, <1>3, <2>1
  <2>3. QED
    BY <2>2 DEF Orderly
<1>7. c \in Injection(I, 1 .. n)
  <2>1. DOMAIN c = I
    BY <1>17
  <2>2. IsInjective(c)
    BY <1>6, <2>1, Zenon DEF IsInjective
  <2>3. QED
    BY <1>17, <2>2, Zenon DEF Injection
<1>8. IsFiniteSet(1 .. n) /\ Cardinality(1 .. n) = n
  <2>1. n >= 0 /\ 1 \in Int /\ n \in Int
    BY <1>2
  <2>2. QED
    BY <2>1, FS_Interval
<1>9. c \in Surjection(I, 1 .. n)
  BY <1>7, <1>8, FS_Injection DEF n
<1>10. \A k \in 1 .. n : \E i \in I : Cardinality(Below(i)) = k - 1
  <2> TAKE k \in 1 .. n
  <2>1. PICK i \in I : c[i] = k
    BY <1>9 DEF Surjection
  <2>2. QED
    BY <1>1, <1>5, <2>1
<1> DEFINE who(k) == CHOOSE i \in I : Cardinality(Below(i)) = k - 1
<1>12. R = [k \in 1 .. n |-> who(k)]
  BY DEF Ranked, n, Below
<1> HIDE DEF R
<1>18. \A k \in 1 .. n : who(k) \in I /\ Cardinality(Below(who(k))) = k - 1
  BY <1>10
<1> HIDE DEF who
<1>11. \A k \in 1 .. n : R[k] \in I /\ Cardinality(Below(R[k])) = k - 1
  BY <1>12, <1>18
<1>13. R \in [1 .. n -> I]
  BY <1>12, <1>18
<1>14. ASSUME NEW a \in 1 .. n, NEW b \in 1 .. n PROVE a < b <=> <<R[a], R[b]>> \in Before
  <2>1. CASE <<R[a], R[b]>> \in Before
    BY <1>2, <1>3, <1>11, <2>1
  <2>2. CASE <<R[b], R[a]>> \in Before
    <3>1. b < a
      BY <1>2, <1>3, <1>11, <2>2
    <3>2. <<R[a], R[b]>> \notin Before
      BY <1>11, <2>2 DEF Orderly
    <3>3. QED
      BY <1>2, <3>1, <3>2
  <2>3. CASE R[a] = R[b]
    BY <1>2, <1>11, <2>3 DEF Orderly
  <2>4. QED
    BY <1>11, <2>1, <2>2, <2>3 DEF Orderly
<1>15. ASSUME NEW i \in I PROVE \E a \in 1 .. n : R[a] = i
  <2>1. c[i] \in 1 .. n /\ Cardinality(Below(R[c[i]])) = c[i] - 1 /\ R[c[i]] \in I
    BY <1>5, <1>11
  <2>2. c[R[c[i]]] = c[i]
    BY <1>2, <1>5, <2>1
  <2>3. QED
    BY <1>6, <2>1, <2>2
<1>16. QED
  BY <1>13, <1>14, <1>15 DEF RunsThrough, n, R

LEMMA UpToFinite ==
    ASSUME NEW n \in Nat
    PROVE  IsFiniteSet(1 .. n) /\ Cardinality(1 .. n) = n
<1>1. 1 \in Int /\ n \in Int /\ (IF 1 > n THEN 0 ELSE n - 1 + 1) = n
  OBVIOUS
<1>2. IsFiniteSet(1 .. n) /\ Cardinality(1 .. n) = IF 1 > n THEN 0 ELSE n - 1 + 1
  BY <1>1, FS_Interval
<1>3. QED
  BY <1>1, <1>2

LEMMA PlacesFinite ==
    ASSUME NEW S, NEW s \in Seq(S), NEW I \in SUBSET (DOMAIN s)
    PROVE  IsFiniteSet(I) /\ Cardinality(I) \in Nat /\ Cardinality(I) <= Len(s) /\ I \subseteq 1 .. Len(s)
<1>1. DOMAIN s = 1 .. Len(s) /\ Len(s) \in Nat
  OBVIOUS
<1>2. IsFiniteSet(1 .. Len(s)) /\ Cardinality(1 .. Len(s)) = Len(s)
  BY <1>1, UpToFinite
<1>3. I \in SUBSET (1 .. Len(s))
  BY <1>1
<1>4. QED
  BY <1>2, <1>3, FS_Subset, FS_CardinalityType

LEMMA ArrangedRuns ==
    ASSUME NEW S, NEW s \in Seq(S), NEW I \in SUBSET (DOMAIN s), NEW Before, Orderly(I, Before)
    PROVE  /\ Arranged(s, I, Before) \in Seq(S)
           /\ Len(Arranged(s, I, Before)) = Cardinality(I)
           /\ \E f : /\ RunsThrough(f, I, Before)
                     /\ \A a \in 1 .. Cardinality(I) : Arranged(s, I, Before)[a] = s[f[a]]
<1>1. IsFiniteSet(I) /\ Cardinality(I) \in Nat
  BY PlacesFinite
<1> DEFINE f == Ranked(I, Before)
<1>2. RunsThrough(f, I, Before)
  BY <1>1, RankedRunsThrough
<1>3. Arranged(s, I, Before) = [a \in 1 .. Cardinality(I) |-> s[f[a]]]
  BY DEF Arranged
<1> HIDE DEF f
<1>4. \A a \in 1 .. Cardinality(I) : f[a] \in I /\ s[f[a]] \in S
  BY <1>2 DEF RunsThrough
<1>5. QED
  BY <1>1, <1>2, <1>3, <1>4

\* What was kept is in the order it had.
Follows(f, t, s, I) ==
    /\ f \in [1 .. Len(t) -> I]
    /\ \A a \in 1 .. Len(t) : t[a] = s[f[a]]
    /\ \A a, b \in 1 .. Len(t) : a < b <=> f[a] < f[b]
    /\ \A i \in I : \E a \in 1 .. Len(t) : f[a] = i

LEMMA KeptFollows ==
    ASSUME NEW S, NEW s \in Seq(S), NEW I \in SUBSET (DOMAIN s)
    PROVE  /\ Kept(s, I) \in Seq(S)
           /\ Len(Kept(s, I)) <= Len(s)
           /\ Kept(s, I) = <<>> <=> I = {}
           /\ \E f : Follows(f, Kept(s, I), s, I)
<1>1. I \subseteq 1 .. Len(s) /\ Cardinality(I) <= Len(s) /\ Cardinality(I) \in Nat /\ IsFiniteSet(I)
  BY PlacesFinite
<1>9. \A i, j : <<i, j>> \in Ascending(I) <=> i \in I /\ j \in I /\ i < j
  BY DEF Ascending
<1>2. Orderly(I, Ascending(I))
  BY <1>1, <1>9 DEF Orderly
<1>3. /\ Kept(s, I) \in Seq(S) /\ Len(Kept(s, I)) = Cardinality(I)
      /\ \E f : /\ RunsThrough(f, I, Ascending(I))
                /\ \A a \in 1 .. Cardinality(I) : Kept(s, I)[a] = s[f[a]]
  <2> DEFINE K == Arranged(s, I, Ascending(I))
  <2>1. Kept(s, I) = K
    BY DEF Kept
  <2>5. K \in Seq(S)
    BY <1>2, ArrangedRuns
  <2>6. Len(K) = Cardinality(I)
    BY <1>2, ArrangedRuns
  <2>7. \E f : /\ RunsThrough(f, I, Ascending(I))
               /\ \A a \in 1 .. Cardinality(I) : K[a] = s[f[a]]
    BY <1>2, ArrangedRuns
  <2>2. /\ K \in Seq(S) /\ Len(K) = Cardinality(I)
        /\ \E f : /\ RunsThrough(f, I, Ascending(I))
                  /\ \A a \in 1 .. Cardinality(I) : K[a] = s[f[a]]
    BY <2>5, <2>6, <2>7
  <2>3. QED
    BY <2>1, <2>2, Zenon
<1>4. PICK f : /\ RunsThrough(f, I, Ascending(I))
               /\ \A a \in 1 .. Cardinality(I) : Kept(s, I)[a] = s[f[a]]
  BY <1>3
<1>5. \A a, b \in 1 .. Cardinality(I) : a < b <=> f[a] < f[b]
  BY <1>1, <1>4, <1>9 DEF RunsThrough
<1>6. Follows(f, Kept(s, I), s, I)
  BY <1>3, <1>4, <1>5 DEF Follows, RunsThrough
<1>7. Kept(s, I) = <<>> <=> I = {}
  <2>1. Cardinality(I) = 0 <=> I = {}
    BY <1>1, FS_EmptySet
  <2>2. Kept(s, I) = <<>> <=> Len(Kept(s, I)) = 0
    BY <1>3, EmptySeq
  <2>3. QED
    BY <1>3, <2>1, <2>2
<1>8. QED
  BY <1>1, <1>3, <1>6, <1>7

-----------------------------------------------------------------------------
(* Counting up: the theorems on induction take an operator, a set does as well *)

LEMMA CountUp ==
    ASSUME NEW n \in Nat, NEW T, 0 \in T, \A i \in 1 .. n : i - 1 \in T => i \in T
    PROVE  \A i \in 0 .. n : i \in T
<1> DEFINE Bad == {i \in Nat : i \in 0 .. n /\ i \notin T}
<1>1. SUFFICES ASSUME Bad # {} PROVE FALSE
  OBVIOUS
<1>2. PICK k \in Bad : \A j \in Bad : ~(j < k)
  <2>1. Bad \subseteq Nat
    OBVIOUS
  <2> HIDE DEF Bad
  <2>2. \E k \in Bad : \A j \in Bad : <<j, k>> \notin OpToRel(<, Nat)
    BY <1>1, <2>1, NatLessThanWellFounded, WFMin, Zenon
  <2>3. QED
    BY <2>1, <2>2 DEF OpToRel
<1>3. k \in 1 .. n /\ k - 1 \in 0 .. n /\ k - 1 \in Nat /\ k - 1 < k
  BY <1>2
<1>4. QED
  BY <1>2, <1>3

\* f starts at base, and step takes each of its values to the next.
Steps(n, D, base, step, f) ==
    /\ f \in [0 .. n -> D] /\ f[0] = base
    /\ \A i \in 1 .. n : f[i] = step[<<i, f[i - 1]>>]

LEMMA StepsExist ==
    ASSUME NEW n \in Nat, NEW D, NEW base \in D, NEW step \in [(1 .. n) \X D -> D]
    PROVE  \E f : Steps(n, D, base, step, f)
<1> DEFINE Upto(k) == \E f \in [0 .. k -> D] : f[0] = base /\ \A i \in 1 .. k : f[i] = step[<<i, f[i - 1]>>]
           T == {k \in 0 .. n : Upto(k)}
<1>1. 0 \in T
  <2> DEFINE f == [i \in 0 .. 0 |-> base]
  <2>1. f \in [0 .. 0 -> D] /\ f[0] = base
    OBVIOUS
  <2> HIDE DEF f
  <2>2. \A i \in 1 .. 0 : f[i] = step[<<i, f[i - 1]>>]
    OBVIOUS
  <2>3. 0 \in 0 .. n
    OBVIOUS
  <2>4. QED
    BY <2>1, <2>2, <2>3
<1>2. ASSUME NEW k \in 1 .. n, k - 1 \in T PROVE k \in T
  <2>1. PICK f \in [0 .. k - 1 -> D] : f[0] = base /\ \A i \in 1 .. k - 1 : f[i] = step[<<i, f[i - 1]>>]
    BY <1>2
  <2> DEFINE g == [i \in 0 .. k |-> IF i = k THEN step[<<k, f[k - 1]>>] ELSE f[i]]
  <2>2. step[<<k, f[k - 1]>>] \in D
    <3>1. k - 1 \in 0 .. k - 1
      OBVIOUS
    <3>2. QED
      BY <3>1
  <2>3. \A i \in 0 .. k : i # k => i \in 0 .. k - 1 /\ f[i] \in D
    OBVIOUS
  <2>4. g \in [0 .. k -> D]
    BY <2>2, <2>3
  <2>5. /\ g[0] = base
        /\ g[k] = step[<<k, f[k - 1]>>]
        /\ \A i \in 0 .. k - 1 : g[i] = f[i]
    <3>1. 0 \in 0 .. k /\ 0 # k /\ k \in 0 .. k
      OBVIOUS
    <3>2. \A i \in 0 .. k - 1 : i \in 0 .. k /\ i # k
      OBVIOUS
    <3>3. QED
      BY <2>1, <3>1, <3>2
  <2> HIDE DEF g
  <2>6. ASSUME NEW i \in 1 .. k PROVE g[i] = step[<<i, g[i - 1]>>]
    <3>1. i - 1 \in 0 .. k - 1 /\ (i # k => i \in 1 .. k - 1 /\ i \in 0 .. k - 1)
      OBVIOUS
    <3>2. QED
      BY <2>1, <2>5, <3>1
  <2>7. QED
    BY <2>4, <2>5, <2>6
<1> HIDE DEF T
<1>3. \A i \in 0 .. n : i \in T
  BY <1>1, <1>2, CountUp
<1>4. n \in T
  BY <1>3
<1>5. QED
  BY <1>4 DEF T, Steps

LEMMA TotalSteps ==
    ASSUME NEW s \in Seq(Nat)
    PROVE  \E u \in [0 .. Len(s) -> Nat] :
             /\ u[0] = 0
             /\ \A i \in 1 .. Len(s) : u[i] = u[i - 1] + s[i]
             /\ Total(s) = u[Len(s)]
<1> DEFINE n == Len(s)
           step == [p \in (1 .. n) \X Nat |-> p[2] + s[p[1]]]
           sums(u) == [i \in 0 .. n |-> IF i = 0 THEN 0 ELSE u[i - 1] + s[i]]
           g == CHOOSE u : u = sums(u)
<1>1. n \in Nat /\ \A i \in 1 .. n : s[i] \in Nat
  OBVIOUS
<1>2. step \in [(1 .. n) \X Nat -> Nat]
  BY <1>1
<1>3. \A i \in 1 .. n, x \in Nat : step[<<i, x>>] = x + s[i]
  OBVIOUS
<1> HIDE DEF step
<1>4. PICK f : Steps(n, Nat, 0, step, f)
  BY <1>1, <1>2, StepsExist
<1> HIDE DEF n
<1>5. f \in [0 .. n -> Nat] /\ f[0] = 0
  BY <1>4 DEF Steps
<1>6. \A i \in 1 .. n : i - 1 \in 0 .. n /\ f[i] = f[i - 1] + s[i]
  <2> TAKE i \in 1 .. n
  <2>1. i - 1 \in 0 .. n
    BY <1>1
  <2>2. f[i] = step[<<i, f[i - 1]>>]
    BY <1>4 DEF Steps
  <2>3. QED
    BY <1>3, <1>5, <2>1, <2>2
<1>7. f = sums(f)
  <2>1. \A i \in 0 .. n : f[i] = IF i = 0 THEN 0 ELSE f[i - 1] + s[i]
    <3> TAKE i \in 0 .. n
    <3>1. i = 0 \/ i \in 1 .. n
      BY <1>1
    <3>2. QED
      BY <1>5, <1>6, <3>1
  <2>2. f = [i \in 0 .. n |-> f[i]]
    BY <1>5
  <2>3. QED
    BY <2>1, <2>2
<1>8. g = sums(g)
  BY <1>7
<1>9. Total(s) = g[n]
  BY DEF Total, n
<1> HIDE DEF g
<1>10. g[0] = 0
  <2>1. 0 \in 0 .. n
    BY <1>1
  <2>2. QED
    BY <1>8, <2>1
<1>11. \A i \in 1 .. n : g[i] = g[i - 1] + s[i]
  <2> TAKE i \in 1 .. n
  <2>1. i \in 0 .. n /\ i # 0
    BY <1>1
  <2>2. QED
    BY <1>8, <2>1
<1>12. DOMAIN g = 0 .. n
  BY <1>8
<1> DEFINE T == {i \in 0 .. n : g[i] \in Nat}
<1>13. \A i \in 0 .. n : i \in T
  <2>1. 0 \in T
    BY <1>1, <1>10
  <2>2. ASSUME NEW i \in 1 .. n, i - 1 \in T PROVE i \in T
    <3>1. i \in 0 .. n /\ g[i - 1] \in Nat
      BY <1>1, <2>2
    <3>2. g[i] \in Nat
      BY <1>1, <1>11, <3>1
    <3>3. QED
      BY <3>1, <3>2
  <2> HIDE DEF T
  <2>3. QED
    BY <1>1, <2>1, <2>2, CountUp
<1>14. g = [i \in 0 .. n |-> g[i]]
  BY <1>8, <1>12
<1>15. g \in [0 .. n -> Nat]
  BY <1>13, <1>14
<1>16. QED
  BY <1>9, <1>10, <1>11, <1>15 DEF n

LEMMA TotalFacts ==
    ASSUME NEW s \in Seq(Nat)
    PROVE  /\ Total(s) \in Nat
           /\ \A i \in 1 .. Len(s) : s[i] <= Total(s)
           /\ \A j \in 1 .. Len(s) : (\A i \in 1 .. Len(s) : i # j => s[i] = 0) => Total(s) = s[j]
           /\ (\A i \in 1 .. Len(s) : s[i] = 0) => Total(s) = 0
<1> DEFINE n == Len(s)
<1>1. n \in Nat /\ \A i \in 1 .. n : s[i] \in Nat
  OBVIOUS
<1>2. PICK u \in [0 .. n -> Nat] : /\ u[0] = 0
                                   /\ \A i \in 1 .. n : u[i] = u[i - 1] + s[i]
                                   /\ Total(s) = u[n]
  BY TotalSteps
<1> HIDE DEF n
<1>3. n \in 0 .. n /\ \A i \in 1 .. n : i - 1 \in 0 .. n /\ u[i - 1] \in Nat
  BY <1>1
<1>4. Total(s) \in Nat
  BY <1>2, <1>3
<1>5. \A i \in 1 .. n : s[i] <= Total(s)
  <2> DEFINE T == {m \in 0 .. n : \A i \in 1 .. m : s[i] <= u[m]}
  <2>1. 0 \in T
    BY <1>1
  <2>2. ASSUME NEW m \in 1 .. n, m - 1 \in T PROVE m \in T
    <3>1. \A i \in 1 .. m - 1 : s[i] <= u[m - 1]
      BY <2>2
    <3>2. u[m] = u[m - 1] + s[m] /\ u[m - 1] \in Nat /\ s[m] \in Nat
      BY <1>1, <1>2, <1>3
    <3>3. ASSUME NEW i \in 1 .. m PROVE s[i] <= u[m]
      <4>1. s[i] \in Nat
        BY <1>1
      <4>2. CASE i = m
        BY <3>2, <4>2
      <4>3. CASE i # m
        <5>1. i \in 1 .. m - 1
          BY <1>1, <4>3
        <5>2. QED
          BY <3>1, <3>2, <4>1, <5>1
      <4>4. QED
        BY <4>2, <4>3
    <3>4. QED
      BY <1>1, <3>3
  <2> HIDE DEF T
  <2>3. n \in T
    BY <1>1, <1>3, <2>1, <2>2, CountUp
  <2>4. QED
    BY <1>2, <2>3 DEF T
<1>6. ASSUME NEW j \in 1 .. n, \A i \in 1 .. n : i # j => s[i] = 0
      PROVE  Total(s) = s[j]
  <2> DEFINE T == {m \in 0 .. n : u[m] = IF m < j THEN 0 ELSE s[j]}
  <2>1. 0 \in T
    BY <1>1, <1>2
  <2>2. ASSUME NEW m \in 1 .. n, m - 1 \in T PROVE m \in T
    <3>1. u[m - 1] = IF m - 1 < j THEN 0 ELSE s[j]
      BY <2>2
    <3>2. u[m] = u[m - 1] + s[m] /\ s[j] \in Nat /\ m \in 0 .. n
      BY <1>1, <1>2
    <3>3. u[m] = IF m < j THEN 0 ELSE s[j]
      <4>1. CASE m = j
        BY <1>1, <3>1, <3>2, <4>1
      <4>2. CASE m # j
        <5>1. s[m] = 0 /\ (m - 1 < j <=> m < j)
          BY <1>1, <1>6, <4>2
        <5>2. QED
          BY <3>1, <3>2, <5>1
      <4>3. QED
        BY <4>1, <4>2
    <3>4. QED
      BY <3>2, <3>3
  <2> HIDE DEF T
  <2>3. n \in T
    BY <1>1, <1>3, <2>1, <2>2, CountUp
  <2>4. QED
    BY <1>1, <1>2, <2>3 DEF T
<1>7. ASSUME \A i \in 1 .. n : s[i] = 0 PROVE Total(s) = 0
  <2> DEFINE T == {m \in 0 .. n : u[m] = 0}
  <2>1. 0 \in T
    BY <1>1, <1>2
  <2>2. ASSUME NEW m \in 1 .. n, m - 1 \in T PROVE m \in T
    BY <1>1, <1>2, <1>7, <2>2
  <2> HIDE DEF T
  <2>3. n \in T
    BY <1>1, <1>3, <2>1, <2>2, CountUp
  <2>4. QED
    BY <1>2, <2>3 DEF T
<1>8. QED
  BY <1>4, <1>5, <1>6, <1>7 DEF n

LEMMA FlattenFacts ==
    ASSUME NEW S, NEW seqs \in Seq(Seq(S))
    PROVE  /\ FlattenSeq(seqs) \in Seq(S)
           /\ FlattenSeq(seqs) = <<>> => \A i \in 1 .. Len(seqs) : seqs[i] = <<>>
<1> DEFINE n == Len(seqs)
           step == [p \in (1 .. n) \X Seq(S) |-> p[2] \o seqs[p[1]]]
           joins(u) == [i \in 1 .. n |-> IF i = 1 THEN seqs[i] ELSE u[i - 1] \o seqs[i]]
           g == CHOOSE u : u = joins(u)
<1>1. n \in Nat /\ \A i \in 1 .. n : seqs[i] \in Seq(S)
  OBVIOUS
<1>5. FlattenSeq(seqs) = IF n = 0 THEN seqs ELSE g[n]
  BY DEF FlattenSeq
<1>6. n = 0 => seqs = <<>>
  BY EmptySeq
<1>7. n = Len(seqs)
  OBVIOUS
<1>8. step \in [(1 .. n) \X Seq(S) -> Seq(S)]
  BY <1>1
<1>9. \A i \in 1 .. n, x \in Seq(S) : step[<<i, x>>] = x \o seqs[i]
  OBVIOUS
<1> HIDE DEF n, step
<1>10. ASSUME NEW x \in Seq(S), NEW y \in Seq(S), x \o y = <<>> PROVE x = <<>> /\ y = <<>>
  <2>1. Len(x \o y) = Len(x) + Len(y) /\ Len(x \o y) = 0
    BY <1>10, ConcatProperties
  <2>2. Len(x) \in Nat /\ Len(y) \in Nat
    OBVIOUS
  <2>3. Len(x) = 0 /\ Len(y) = 0
    BY <2>1, <2>2
  <2>4. QED
    BY <2>3, EmptySeq
<1>2. CASE n = 0
  <2>1. FlattenSeq(seqs) = seqs
    BY <1>2, <1>5
  <2>2. seqs = <<>>
    BY <1>2, <1>6
  <2>3. QED
    BY <1>2, <1>7, <2>1, <2>2
<1>3. CASE n # 0
  <2>3. <<>> \in Seq(S)
    OBVIOUS
  <2>4. PICK f : Steps(n, Seq(S), <<>>, step, f)
    BY <1>1, <1>8, <2>3, StepsExist
  <2>5. f \in [0 .. n -> Seq(S)] /\ f[0] = <<>>
    BY <2>4 DEF Steps
  <2>6. ASSUME NEW i \in 1 .. n PROVE f[i] = IF i = 1 THEN seqs[i] ELSE f[i - 1] \o seqs[i]
    <3>1. i - 1 \in 0 .. n /\ f[i - 1] \in Seq(S) /\ seqs[i] \in Seq(S)
      BY <1>1, <2>5
    <3>2. f[i] = f[i - 1] \o seqs[i]
      BY <1>9, <2>4, <3>1 DEF Steps
    <3>3. CASE i = 1
      <4>3. i - 1 = 0
        BY <3>3
      <4>1. f[i] = <<>> \o seqs[i]
        BY <2>5, <3>2, <4>3
      <4>2. QED
        BY <3>1, <3>3, <4>1
    <3>4. QED
      BY <3>2, <3>3
  <2> DEFINE h == [i \in 1 .. n |-> f[i]]
  <2>7. h = joins(h)
    <3>1. \A i \in 1 .. n : i # 1 => i - 1 \in 1 .. n
      BY <1>1
    <3>2. \A i \in 1 .. n : h[i] = IF i = 1 THEN seqs[i] ELSE h[i - 1] \o seqs[i]
      BY <2>6, <3>1
    <3>3. QED
      BY <3>2
  <2> HIDE DEF h
  <2>8. g = joins(g)
    BY <2>7
  <2>9. FlattenSeq(seqs) = g[n]
    BY <1>3, <1>5
  <2> HIDE DEF g
  <2>10. g[1] = seqs[1]
    <3>1. 1 \in 1 .. n
      BY <1>1, <1>3
    <3>2. QED
      BY <2>8, <3>1
  <2>11. \A i \in 1 .. n : i # 1 => g[i] = g[i - 1] \o seqs[i]
    BY <2>8
  <2> DEFINE Fine(m) == /\ g[m] \in Seq(S)
                        /\ g[m] = <<>> => \A i \in 1 .. m : seqs[i] = <<>>
             T == {m \in 0 .. n : m # 0 => Fine(m)}
  <2>12. 0 \in T
    BY <1>1
  <2>13. ASSUME NEW m \in 1 .. n, m - 1 \in T PROVE m \in T
    <3>1. CASE m = 1
      <4>1. g[m] = seqs[m] /\ g[m] \in Seq(S) /\ \A i \in 1 .. m : i = m
        BY <1>1, <2>10, <3>1
      <4>2. Fine(m)
        BY <4>1
      <4> HIDE DEF Fine
      <4>3. QED
        BY <1>1, <4>2
    <3>2. CASE m # 1
      <4>1. Fine(m - 1)
        <5>1. m - 1 # 0
          BY <3>2
        <5> HIDE DEF Fine
        <5>2. QED
          BY <2>13, <5>1
      <4>2. g[m] = g[m - 1] \o seqs[m] /\ seqs[m] \in Seq(S)
        BY <1>1, <2>11, <3>2
      <4>3. g[m] \in Seq(S)
        BY <4>1, <4>2
      <4>4. ASSUME g[m] = <<>> PROVE g[m - 1] = <<>> /\ seqs[m] = <<>>
        BY <1>10, <4>1, <4>2, <4>4
      <4>5. \A i \in 1 .. m : i = m \/ i \in 1 .. m - 1
        BY <1>1
      <4>6. Fine(m)
        BY <4>1, <4>3, <4>4, <4>5
      <4> HIDE DEF Fine
      <4>7. QED
        BY <1>1, <4>6
    <3>3. QED
      BY <3>1, <3>2
  <2> HIDE DEF T
  <2>14. n \in T
    <3>1. n \in 0 .. n
      BY <1>1
    <3>2. QED
      BY <1>1, <2>12, <2>13, <3>1, CountUp
  <2>16. Fine(n)
    <3> HIDE DEF Fine
    <3>1. QED
      BY <1>3, <2>14 DEF T
  <2>15. QED
    BY <1>7, <2>9, <2>16
<1>4. QED
  BY <1>2, <1>3

-----------------------------------------------------------------------------
(* Hits *)

Found == [doc : Docs, score : Int]

LEMMA BestFirstRuns ==
    ASSUME NEW h \in Seq(Found)
    PROVE  /\ BestFirst(h) \in Seq(Found) /\ Len(BestFirst(h)) = Len(h)
           /\ \E f \in [1 .. Len(h) -> 1 .. Len(h)] :
                /\ \A a \in 1 .. Len(h) : BestFirst(h)[a] = h[f[a]]
                /\ \A a, b \in 1 .. Len(h) : a < b <=> <<f[a], f[b]>> \in Better(h)
                /\ \A i \in 1 .. Len(h) : \E a \in 1 .. Len(h) : f[a] = i
<1> DEFINE I == DOMAIN h
           K == Arranged(h, I, Better(h))
<1>1. I = 1 .. Len(h) /\ Len(h) \in Nat /\ I \in SUBSET (DOMAIN h)
  OBVIOUS
<1>2. \A i \in I : h[i].score \in Int
  <2> TAKE i \in I
  <2>1. h[i] \in Found
    OBVIOUS
  <2>2. QED
    BY <2>1 DEF Found
<1>3. \A i, j : <<i, j>> \in Better(h) <=>
        /\ i \in I /\ j \in I
        /\ (h[i].score > h[j].score \/ (h[i].score = h[j].score /\ i < j))
  BY DEF Better
<1>4. BestFirst(h) = K
  BY DEF BestFirst
<1> HIDE DEF I
<1>5. Orderly(I, Better(h))
  <2>1. \A i \in I : <<i, i>> \notin Better(h)
    BY <1>1, <1>2, <1>3
  <2>2. \A i, j \in I : i # j => <<i, j>> \in Better(h) \/ <<j, i>> \in Better(h)
    BY <1>1, <1>2, <1>3
  <2>3. \A i, j, k \in I : <<i, j>> \in Better(h) /\ <<j, k>> \in Better(h) => <<i, k>> \in Better(h)
    BY <1>1, <1>2, <1>3
  <2>4. QED
    BY <2>1, <2>2, <2>3 DEF Orderly
<1>6. Cardinality(I) = Len(h)
  BY <1>1, UpToFinite
<1>7. K \in Seq(Found)
  BY <1>1, <1>5, ArrangedRuns
<1>8. Len(K) = Cardinality(I)
  BY <1>1, <1>5, ArrangedRuns
<1>9. \E f : RunsThrough(f, I, Better(h)) /\ \A a \in 1 .. Cardinality(I) : K[a] = h[f[a]]
  <2>1. I \in SUBSET (DOMAIN h) /\ h \in Seq(Found)
    BY <1>1
  <2>2. QED
    BY <1>5, <2>1, ArrangedRuns
<1>10. PICK f : RunsThrough(f, I, Better(h)) /\ \A a \in 1 .. Cardinality(I) : K[a] = h[f[a]]
  BY <1>9
<1> HIDE DEF K
<1>11. f \in [1 .. Len(h) -> 1 .. Len(h)]
  BY <1>1, <1>6, <1>10 DEF RunsThrough
<1>12. \A a \in 1 .. Len(h) : BestFirst(h)[a] = h[f[a]]
  BY <1>4, <1>6, <1>10
<1>13. /\ \A a, b \in 1 .. Len(h) : a < b <=> <<f[a], f[b]>> \in Better(h)
       /\ \A i \in 1 .. Len(h) : \E a \in 1 .. Len(h) : f[a] = i
  BY <1>1, <1>6, <1>10 DEF RunsThrough
<1>14. QED
  BY <1>4, <1>6, <1>7, <1>8, <1>11, <1>12, <1>13

LEMMA TopFacts ==
    ASSUME NEW S, NEW s \in Seq(S), NEW n \in Nat
    PROVE  /\ Top(n, s) \in Seq(S)
           /\ Len(Top(n, s)) = IF n < Len(s) THEN n ELSE Len(s)
           /\ \A i \in 1 .. Len(Top(n, s)) : Top(n, s)[i] = s[i]
           /\ n > 0 /\ Top(n, s) = <<>> => s = <<>>
<1> DEFINE m == IF n < Len(s) THEN n ELSE Len(s)
<1>1. m \in Nat /\ m <= Len(s) /\ Len(s) \in Nat /\ Top(n, s) = SubSeq(s, 1, m)
  BY DEF Top
<1>2. SubSeq(s, 1, m) \in Seq(S) /\ Len(SubSeq(s, 1, m)) = m /\ \A i \in 1 .. m : SubSeq(s, 1, m)[i] = s[i]
  <2> HIDE DEF m
  <2>1. \A i \in 1 .. m : i \in 1 .. Len(s)
    BY <1>1
  <2>2. QED
    BY <1>1, <2>1, SubSeqProperties
<1>3. ASSUME n > 0, Top(n, s) = <<>> PROVE s = <<>>
  <2>1. m = 0
    BY <1>1, <1>2, <1>3
  <2>2. Len(s) = 0
    BY <1>1, <1>3, <2>1
  <2>3. QED
    BY <2>2, EmptySeq
<1>4. QED
  BY <1>1, <1>2, <1>3

\* The best of nothing is nothing, and only of nothing.
LEMMA GatherFacts ==
    ASSUME NEW perKb \in [KBs -> Seq(Found)]
    PROVE  /\ Gather(perKb) \in Seq(Found)
           /\ Len(Gather(perKb)) <= Limit
           /\ Gather(perKb) = <<>> => \A kb \in KBs : perKb[kb] = <<>>
<1> DEFINE lists == [i \in DOMAIN KbIds |-> perKb[KbIds[i]]]
           all == FlattenSeq(lists)
<1>1. DOMAIN KbIds = 1 .. Len(KbIds) /\ Len(KbIds) \in Nat
  BY ListsAssumption
<1>2. \A i \in DOMAIN KbIds : KbIds[i] \in KBs
  BY DEF KBs
<1>3. lists \in Seq(Seq(Found)) /\ Len(lists) = Len(KbIds)
  BY <1>1, <1>2
<1>4. \A i \in 1 .. Len(lists) : lists[i] = perKb[KbIds[i]]
  BY <1>1, <1>3
<1> HIDE DEF lists
<1>5. all \in Seq(Found) /\ (all = <<>> => \A i \in 1 .. Len(lists) : lists[i] = <<>>)
  BY <1>3, FlattenFacts
<1>6. Gather(perKb) = Top(Limit, BestFirst(all))
  BY DEF Gather, lists
<1> HIDE DEF all
<1>7. BestFirst(all) \in Seq(Found) /\ Len(BestFirst(all)) = Len(all)
  BY <1>5, BestFirstRuns
<1>8. Limit \in Nat /\ Limit > 0
  BY SizesAssumption DEF Limit
<1>9. Top(Limit, BestFirst(all)) \in Seq(Found)
  BY <1>7, <1>8, TopFacts
<1>10. ASSUME Gather(perKb) = <<>>, NEW kb \in KBs PROVE perKb[kb] = <<>>
  <2>1. BestFirst(all) = <<>>
    BY <1>6, <1>7, <1>8, <1>10, TopFacts
  <2>2. all = <<>>
    <3>1. Len(all) = 0
      BY <1>7, <2>1
    <3>2. QED
      BY <1>5, <3>1, EmptySeq
  <2>3. PICK i \in DOMAIN KbIds : kb = KbIds[i]
    BY DEF KBs
  <2>4. QED
    BY <1>1, <1>3, <1>4, <1>5, <2>2, <2>3
<1>11. Len(Gather(perKb)) <= Limit
  <2>1. Len(BestFirst(all)) \in Nat
    BY <1>5, <1>7
  <2>2. Len(Top(Limit, BestFirst(all))) = IF Limit < Len(BestFirst(all)) THEN Limit ELSE Len(BestFirst(all))
    BY <1>7, <1>8, TopFacts
  <2>3. QED
    BY <1>6, <1>8, <2>1, <2>2
<1>12. QED
  BY <1>6, <1>9, <1>10, <1>11

LEMMA Least ==
    ASSUME NEW T \in SUBSET Nat, T # {}
    PROVE  \E k \in T : \A j \in T : k <= j
<1>1. \E k \in T : \A j \in T : <<j, k>> \notin OpToRel(<, Nat)
  BY NatLessThanWellFounded, WFMin, Zenon
<1>2. PICK k \in T : \A j \in T : <<j, k>> \notin OpToRel(<, Nat)
  BY <1>1
<1>3. \A j \in T : ~(j < k)
  BY <1>2 DEF OpToRel
<1>4. QED
  BY <1>3

\* What occurs occurs for a first time.
LEMMA FirstOccurs ==
    ASSUME NEW S, NEW s \in Seq(S), NEW m \in 1 .. Len(s)
    PROVE  \E i \in Firsts(s) : s[i] = s[m] /\ i <= m /\ i \in 1 .. Len(s)
<1> DEFINE T == {i \in 1 .. Len(s) : s[i] = s[m]}
<1>1. T \in SUBSET Nat /\ m \in T
  OBVIOUS
<1> HIDE DEF T
<1>2. PICK i \in T : \A j \in T : i <= j
  BY <1>1, Least
<1>3. i \in 1 .. Len(s) /\ s[i] = s[m] /\ i <= m
  BY <1>1, <1>2 DEF T
<1>4. \A j \in 1 .. (i - 1) : s[j] # s[i]
  <2> TAKE j \in 1 .. (i - 1)
  <2>1. j \in 1 .. Len(s) /\ ~(i <= j)
    BY <1>3
  <2>2. QED
    BY <1>2, <1>3, <2>1 DEF T
<1>5. i \in Firsts(s)
  BY <1>3, <1>4 DEF Firsts
<1>6. QED
  BY <1>3, <1>5

LEMMA FirstsOnce ==
    ASSUME NEW S, NEW s \in Seq(S), NEW i \in Firsts(s), NEW j \in 1 .. Len(s), s[i] = s[j]
    PROVE  i <= j /\ i \in 1 .. Len(s)
<1>1. i \in 1 .. Len(s) /\ \A m \in 1 .. (i - 1) : s[m] # s[i]
  BY DEF Firsts
<1>2. j < i => j \in 1 .. (i - 1)
  BY <1>1
<1>3. QED
  BY <1>1, <1>2

-----------------------------------------------------------------------------
(* Scores *)

LEMMA DivDef ==
    ASSUME NEW u \in Nat, NEW a \in Nat, a > 0
    PROVE  a * (u \div a) <= u /\ u < a * (u \div a) + a
  OBVIOUS
LEMMA DivMono ==
    ASSUME NEW u \in Nat, NEW a \in Nat, NEW b \in Nat, a > 0, a <= b
    PROVE  u \div b <= u \div a
<1> DEFINE q == u \div b
           r == u \div a
<1>1. q \in Nat /\ r \in Nat
  OBVIOUS
<1>2. b * q <= u /\ u < a * r + a
  BY DivDef
<1> HIDE DEF q, r
<1>3. a * q <= b * q
  BY <1>1
<1>4. SUFFICES ASSUME r < q PROVE FALSE
  BY <1>1 DEF q, r
<1>5. r + 1 <= q
  BY <1>1, <1>4
<1>6. a * (r + 1) <= a * q
  BY <1>1, <1>5
<1>7. a * (r + 1) = a * r + a
  BY <1>1
<1>8. a * r \in Int /\ a * q \in Int /\ b * q \in Int /\ a * (r + 1) \in Int
  BY <1>1
<1>9. QED
  BY <1>1, <1>2, <1>3, <1>6, <1>7, <1>8

\* What the position i is worth.
Worth(i) == Unit \div (60 + i)

LEMMA WorthLess ==
    ASSUME NEW i \in Nat, NEW j \in Nat, i <= j
    PROVE  Worth(i) \in Nat /\ Worth(j) \in Nat /\ Worth(j) <= Worth(i)
<1>1. Unit \in Nat
  BY UnitAssumption
<1>2. 60 + i \in Nat /\ 60 + j \in Nat /\ 60 + i > 0 /\ 60 + j > 0 /\ 60 + i <= 60 + j
  OBVIOUS
<1>3. Worth(j) <= Worth(i)
  BY <1>1, <1>2, DivMono DEF Worth
<1>4. Worth(i) \in Nat /\ Worth(j) \in Nat
  BY <1>1, <1>2 DEF Worth
<1>5. QED
  BY <1>3, <1>4

LEMMA ShareFacts ==
    ASSUME NEW hits \in Seq(Found), NEW w \in Nat, NEW d
    PROVE  /\ Share(hits, w, d) \in Nat
           /\ \A i \in 1 .. Len(hits) : hits[i].doc = d => w * Worth(i) <= Share(hits, w, d)
           /\ \A i \in 1 .. Len(hits) : hits[i].doc = d /\ Once(hits, d) => Share(hits, w, d) = w * Worth(i)
           /\ d \notin DocsOf(hits) => Share(hits, w, d) = 0
<1> DEFINE n == Len(hits)
           s == [i \in DOMAIN hits |-> IF hits[i].doc = d THEN w * (Unit \div (60 + i)) ELSE 0]
<1>1. n \in Nat /\ DOMAIN hits = 1 .. n
  OBVIOUS
<1>2. \A i \in 1 .. n : w * Worth(i) \in Nat
  <2> TAKE i \in 1 .. n
  <2>1. Worth(i) \in Nat
    BY <1>1, WorthLess
  <2>2. QED
    BY <2>1
<1>3. \A i \in 1 .. n : s[i] = IF hits[i].doc = d THEN w * Worth(i) ELSE 0
  BY <1>1 DEF Worth
<1>4. s = [i \in 1 .. n |-> s[i]]
  BY <1>1
<1>5. Share(hits, w, d) = Total(s)
  BY DEF Share
<1> HIDE DEF s
<1>6. s \in Seq(Nat) /\ Len(s) = n
  BY <1>1, <1>2, <1>3, <1>4
<1>7. Total(s) \in Nat /\ \A i \in 1 .. n : s[i] <= Total(s)
  BY <1>6, TotalFacts
<1>8. ASSUME NEW i \in 1 .. n, hits[i].doc = d, Once(hits, d) PROVE Total(s) = w * Worth(i)
  <2>1. \A j \in 1 .. n : j # i => s[j] = 0
    BY <1>1, <1>3, <1>8 DEF Once
  <2>2. Total(s) = s[i]
    BY <1>6, <2>1, TotalFacts
  <2>3. QED
    BY <1>3, <1>8, <2>2
<1>9. ASSUME d \notin DocsOf(hits) PROVE Total(s) = 0
  <2>1. \A j \in 1 .. n : s[j] = 0
    BY <1>1, <1>3, <1>9 DEF DocsOf
  <2>2. QED
    BY <1>6, <2>1, TotalFacts
<1>10. QED
  BY <1>3, <1>5, <1>7, <1>8, <1>9

LEMMA PositionFacts ==
    ASSUME NEW hits \in Seq(Found), NEW d
    PROVE  /\ d \in DocsOf(hits) => Position(hits, d) \in 1 .. Len(hits) /\ hits[Position(hits, d)].doc = d
           /\ d \notin DocsOf(hits) => Position(hits, d) = Limit + 1
<1>1. DOMAIN hits = 1 .. Len(hits)
  OBVIOUS
<1>2. ASSUME d \in DocsOf(hits)
      PROVE  Position(hits, d) \in 1 .. Len(hits) /\ hits[Position(hits, d)].doc = d
  <2>1. \E i \in DOMAIN hits : hits[i].doc = d
    BY <1>2 DEF DocsOf
  <2>2. Position(hits, d) = CHOOSE i \in DOMAIN hits : hits[i].doc = d
    BY <1>2 DEF Position
  <2>3. QED
    BY <1>1, <2>1, <2>2
<1>3. QED
  BY <1>2 DEF Position

\* A search that has e has d as well if it ranks it higher.
LEMMA HigherIsFound ==
    ASSUME NEW hits \in Seq(Found), Len(hits) <= Limit, NEW d, NEW e,
           e \in DocsOf(hits), Position(hits, d) <= Position(hits, e)
    PROVE  d \in DocsOf(hits)
<1>1. Position(hits, e) \in 1 .. Len(hits)
  BY PositionFacts
<1>2. Limit \in Nat /\ Len(hits) \in Nat
  BY SizesAssumption DEF Limit
<1>3. QED
  BY <1>1, <1>2, PositionFacts

LEMMA ShareAbove ==
    ASSUME NEW hits \in Seq(Found), Len(hits) <= Limit, NEW w \in Nat, NEW d, NEW e,
           Position(hits, d) <= Position(hits, e), Once(hits, e)
    PROVE  Share(hits, w, e) <= Share(hits, w, d)
<1>1. Share(hits, w, d) \in Nat
  BY ShareFacts
<1>2. CASE e \notin DocsOf(hits)
  <2>1. Share(hits, w, e) = 0
    BY <1>2, ShareFacts
  <2>2. QED
    BY <1>1, <2>1
<1>3. CASE e \in DocsOf(hits)
  <2>1. d \in DocsOf(hits)
    BY <1>3, HigherIsFound
  <2> DEFINE i == Position(hits, d)
             j == Position(hits, e)
  <2>2. i \in 1 .. Len(hits) /\ hits[i].doc = d /\ j \in 1 .. Len(hits) /\ hits[j].doc = e /\ i <= j
    BY <1>3, <2>1, PositionFacts
  <2> HIDE DEF i, j
  <2>3. Share(hits, w, e) = w * Worth(j)
    BY <2>2, ShareFacts
  <2>4. w * Worth(i) <= Share(hits, w, d)
    BY <2>2, ShareFacts
  <2>5. Worth(i) \in Nat /\ Worth(j) \in Nat /\ Worth(j) <= Worth(i)
    BY <2>2, WorthLess
  <2>6. w * Worth(j) <= w * Worth(i)
    BY <2>5
  <2>7. w * Worth(j) \in Nat /\ w * Worth(i) \in Nat
    BY <2>5
  <2>8. QED
    BY <1>1, <2>3, <2>4, <2>6, <2>7
<1>4. QED
  BY <1>2, <1>3

LEMMA ScoreAbove ==
    ASSUME NEW v \in Seq(Found), NEW k \in Seq(Found), Len(v) <= Limit, Len(k) <= Limit, NEW d, NEW e
    PROVE  /\ Score(v, k, d) \in Nat
           /\ Above(v, k, d, e) => Score(v, k, e) <= Score(v, k, d)
<1>1. /\ Share(v, 7, d) \in Nat /\ Share(k, 3, d) \in Nat
      /\ Share(v, 7, e) \in Nat /\ Share(k, 3, e) \in Nat
  BY ShareFacts
<1>2. ASSUME Above(v, k, d, e) PROVE Score(v, k, e) <= Score(v, k, d)
  <2>1. Share(v, 7, e) <= Share(v, 7, d)
    BY <1>2, ShareAbove DEF Above
  <2>2. Share(k, 3, e) <= Share(k, 3, d)
    BY <1>2, ShareAbove DEF Above
  <2>3. QED
    BY <1>1, <2>1, <2>2 DEF Score
<1>3. QED
  BY <1>1, <1>2 DEF Score

-----------------------------------------------------------------------------
(* Fusion *)

Rated == [doc : Docs, score : Nat]

\* What both searches rank higher comes first where each chunk is listed once.
LEMMA FirstAbove ==
    ASSUME NEW v \in Seq(Found), NEW k \in Seq(Found), Len(v) <= Limit, Len(k) <= Limit,
           NEW found \in Seq(Docs), Len(found) = Len(v) + Len(k),
           \A i \in 1 .. Len(v) : found[i] = v[i].doc,
           \A i \in 1 .. Len(k) : found[Len(v) + i] = k[i].doc,
           NEW i \in Firsts(found), NEW j \in Firsts(found), Above(v, k, found[j], found[i])
    PROVE  j < i
<1> DEFINE d == found[j]
           e == found[i]
<1>1. /\ i \in 1 .. Len(found) /\ j \in 1 .. Len(found)
      /\ \A m \in 1 .. Len(found) : found[m] = d => j <= m
  <2>1. DOMAIN found = 1 .. Len(found)
    OBVIOUS
  <2>2. i \in 1 .. Len(found) /\ j \in 1 .. Len(found)
    BY <2>1 DEF Firsts
  <2>3. \A m \in 1 .. Len(found) : found[m] = d => j <= m
    BY FirstsOnce
  <2>4. QED
    BY <2>2, <2>3
<1>2. Len(v) \in Nat /\ Len(k) \in Nat /\ d # e
  BY DEF Above
<1>3. /\ Position(v, d) <= Position(v, e) /\ Once(v, e)
      /\ Position(k, d) <= Position(k, e) /\ Once(k, e)
  BY DEF Above
<1>4. \E m \in 1 .. Len(found) : found[m] = d /\ m <= i
  <2>1. CASE i <= Len(v)
    <3>1. i \in 1 .. Len(v) /\ v[i].doc = e
      BY <1>1, <1>2, <2>1
    <3>2. e \in DocsOf(v)
      BY <3>1 DEF DocsOf
    <3>3. Position(v, e) = i
      BY <1>3, <3>1, <3>2, PositionFacts DEF Once
    <3>4. d \in DocsOf(v)
      BY <1>3, <3>2, HigherIsFound
    <3>5. Position(v, d) \in 1 .. Len(v) /\ v[Position(v, d)].doc = d /\ Position(v, d) <= i
      BY <1>3, <3>3, <3>4, PositionFacts
    <3>6. Position(v, d) \in 1 .. Len(found) /\ found[Position(v, d)] = d
      BY <1>2, <3>5
    <3>7. QED
      BY <3>5, <3>6
  <2>2. CASE i > Len(v)
    <3> DEFINE p == i - Len(v)
    <3>1. p \in 1 .. Len(k) /\ i = Len(v) + p
      BY <1>1, <1>2, <2>2
    <3> HIDE DEF p
    <3>2. k[p].doc = e
      BY <3>1
    <3>3. e \in DocsOf(k)
      BY <3>1, <3>2 DEF DocsOf
    <3>10. Position(k, e) \in 1 .. Len(k) /\ k[Position(k, e)].doc = e /\ DOMAIN k = 1 .. Len(k)
      BY <3>3, PositionFacts
    <3>4. Position(k, e) = p
      BY <1>3, <3>1, <3>2, <3>10 DEF Once
    <3>5. d \in DocsOf(k)
      BY <1>3, <3>3, HigherIsFound
    <3>6. Position(k, d) \in 1 .. Len(k) /\ k[Position(k, d)].doc = d /\ Position(k, d) <= p
      BY <1>3, <3>4, <3>5, PositionFacts
    <3>7. Len(v) + Position(k, d) \in 1 .. Len(found) /\ found[Len(v) + Position(k, d)] = d
      BY <1>2, <3>6
    <3>8. Len(v) + Position(k, d) <= i
      BY <1>2, <3>1, <3>6
    <3>9. QED
      BY <3>7, <3>8
  <2>3. QED
    BY <1>1, <1>2, <2>1, <2>2
<1>5. PICK m \in 1 .. Len(found) : found[m] = d /\ m <= i
  BY <1>4
<1>6. j <= m
  BY <1>1, <1>5
<1>7. j # i
  BY <1>2
<1>8. QED
  BY <1>1, <1>5, <1>6, <1>7

LEMMA ScoredFacts ==
    ASSUME NEW v \in Seq(Found), NEW k \in Seq(Found), Len(v) <= Limit, Len(k) <= Limit
    PROVE  /\ Scored(v, k) \in Seq(Rated)
           /\ \A i \in 1 .. Len(Scored(v, k)) : Scored(v, k)[i].score = Score(v, k, Scored(v, k)[i].doc)
           /\ \A d \in DocsOf(v) \cup DocsOf(k) : \E i \in 1 .. Len(Scored(v, k)) : Scored(v, k)[i].doc = d
           /\ \A i, j \in 1 .. Len(Scored(v, k)) :
                Above(v, k, Scored(v, k)[j].doc, Scored(v, k)[i].doc) => j < i
<1> DEFINE found == [i \in DOMAIN (v \o k) |-> (v \o k)[i].doc]
           seen == Kept(found, Firsts(found))
           t == [i \in DOMAIN seen |-> Hit(seen[i], Score(v, k, seen[i]))]
<1>1. /\ v \o k \in Seq(Found) /\ Len(v \o k) = Len(v) + Len(k)
      /\ \A i \in 1 .. Len(v) + Len(k) : (v \o k)[i] = IF i <= Len(v) THEN v[i] ELSE k[i - Len(v)]
  BY ConcatProperties
<1>2. Len(v) \in Nat /\ Len(k) \in Nat
  OBVIOUS
<1>3. DOMAIN (v \o k) = 1 .. Len(v) + Len(k)
  BY <1>1
<1>4. \A i \in 1 .. Len(v) + Len(k) : (v \o k)[i].doc \in Docs
  <2> TAKE i \in 1 .. Len(v) + Len(k)
  <2>1. (v \o k)[i] \in Found
    BY <1>1, <1>3
  <2>2. QED
    BY <2>1 DEF Found
<1>5. found \in Seq(Docs) /\ Len(found) = Len(v) + Len(k)
  BY <1>2, <1>3, <1>4
<1>6. \A i \in 1 .. Len(v) + Len(k) : found[i] = (v \o k)[i].doc
  BY <1>3
<1>7. \A i \in 1 .. Len(v) : found[i] = v[i].doc
  BY <1>1, <1>2, <1>6
<1>8. \A i \in 1 .. Len(k) : found[Len(v) + i] = k[i].doc
  <2> TAKE i \in 1 .. Len(k)
  <2>1. Len(v) + i \in 1 .. Len(v) + Len(k) /\ ~(Len(v) + i <= Len(v)) /\ (Len(v) + i) - Len(v) = i
    BY <1>2
  <2>2. QED
    BY <1>1, <1>6, <2>1
<1>9. Scored(v, k) = t
  BY DEF Scored
<1> HIDE DEF found
<1> DEFINE I == Firsts(found)
<1>10. I \in SUBSET (DOMAIN found) /\ I \in SUBSET (1 .. Len(found))
  BY <1>5 DEF Firsts
<1>11. seen \in Seq(Docs)
  BY <1>5, <1>10, KeptFollows
<1>12. \E f : Follows(f, seen, found, I)
  BY <1>5, <1>10, KeptFollows
<1> HIDE DEF seen
<1>13. PICK f : Follows(f, seen, found, I)
  BY <1>12
<1> DEFINE n == Len(seen)
<1>14. n \in Nat /\ DOMAIN seen = 1 .. n /\ \A i \in 1 .. n : seen[i] \in Docs
  BY <1>11
<1>15. \A i \in 1 .. n : Score(v, k, seen[i]) \in Nat
  BY ScoreAbove
<1>16. \A i \in 1 .. n : t[i].doc = seen[i] /\ t[i].score = Score(v, k, seen[i]) /\ t[i] \in Rated
  BY <1>14, <1>15 DEF Hit, Rated
<1>17. t = [i \in 1 .. n |-> t[i]]
  BY <1>14
<1> HIDE DEF t
<1>18. t \in Seq(Rated) /\ Len(t) = n
  BY <1>14, <1>16, <1>17
<1>19. ASSUME NEW d \in DocsOf(v) \cup DocsOf(k) PROVE \E i \in 1 .. n : seen[i] = d
  <2>1. \E m \in 1 .. Len(found) : found[m] = d
    <3>1. CASE d \in DocsOf(v)
      <4>1. PICK i \in 1 .. Len(v) : v[i].doc = d
        BY <3>1 DEF DocsOf
      <4>2. i \in 1 .. Len(found)
        BY <1>2, <1>5
      <4>3. QED
        BY <1>7, <4>1, <4>2
    <3>2. CASE d \in DocsOf(k)
      <4>1. PICK i \in 1 .. Len(k) : k[i].doc = d
        BY <3>2 DEF DocsOf
      <4>2. Len(v) + i \in 1 .. Len(found)
        BY <1>2, <1>5
      <4>3. QED
        BY <1>8, <4>1, <4>2
    <3>3. QED
      BY <1>19, <3>1, <3>2
  <2>2. PICK m \in 1 .. Len(found) : found[m] = d
    BY <2>1
  <2>3. PICK i \in I : found[i] = d
    BY <1>5, <2>2, FirstOccurs
  <2>4. PICK a \in 1 .. n : f[a] = i
    BY <1>13 DEF Follows
  <2>5. QED
    BY <1>13, <2>3, <2>4 DEF Follows
<1>20. ASSUME NEW i \in 1 .. n, NEW j \in 1 .. n, Above(v, k, seen[j], seen[i]) PROVE j < i
  <2>1. f[i] \in I /\ f[j] \in I /\ seen[i] = found[f[i]] /\ seen[j] = found[f[j]]
    BY <1>13 DEF Follows
  <2>2. f[j] < f[i]
    BY <1>5, <1>7, <1>8, <1>20, <2>1, FirstAbove
  <2>3. QED
    BY <1>13, <2>2 DEF Follows
<1>21. QED
  BY <1>9, <1>16, <1>18, <1>19, <1>20

LEMMA RatedIsFound == Rated \subseteq Found /\ Seq(Rated) \subseteq Seq(Found)
<1>1. Rated \subseteq Found
  BY DEF Rated, Found
<1> HIDE DEF Rated, Found
<1>2. QED
  BY <1>1

\* The best come first, and where both searches rank d higher than a hit, its
\* text came before.
BestOf(t, v, k) ==
    /\ t \in Seq(Rated)
    /\ \A i, j \in 1 .. Len(t) : i < j => t[j].score <= t[i].score
    /\ \A i \in 1 .. Len(t) : \A d \in DocsOf(v) \cup DocsOf(k) :
         Above(v, k, d, t[i].doc) => \E j \in 1 .. Len(t) : j < i /\ Content[t[j].doc] = Content[d]

NoCopies(t) == \A i, j \in 1 .. Len(t) : i < j => Content[t[i].doc] # Content[t[j].doc]

LEMMA SortedIsBest ==
    ASSUME NEW v \in Seq(Found), NEW k \in Seq(Found), Len(v) <= Limit, Len(k) <= Limit
    PROVE  /\ BestOf(BestFirst(Scored(v, k)), v, k)
           /\ BestFirst(Scored(v, k)) = <<>> => v = <<>> /\ k = <<>>
<1> DEFINE s == Scored(v, k)
           t == BestFirst(s)
           n == Len(s)
<1>1. /\ s \in Seq(Rated)
      /\ \A i \in 1 .. n : s[i].score = Score(v, k, s[i].doc)
      /\ \A d \in DocsOf(v) \cup DocsOf(k) : \E i \in 1 .. n : s[i].doc = d
      /\ \A i, j \in 1 .. n : Above(v, k, s[j].doc, s[i].doc) => j < i
  BY ScoredFacts
<1> HIDE DEF s
<1>2. s \in Seq(Found)
  BY <1>1, RatedIsFound
<1>3. t \in Seq(Found) /\ Len(t) = n
  BY <1>2, BestFirstRuns
<1>4. \E f \in [1 .. n -> 1 .. n] :
        /\ \A a \in 1 .. n : t[a] = s[f[a]]
        /\ \A a, b \in 1 .. n : a < b <=> <<f[a], f[b]>> \in Better(s)
        /\ \A i \in 1 .. n : \E a \in 1 .. n : f[a] = i
  BY <1>2, BestFirstRuns
<1> HIDE DEF t
<1>5. PICK f \in [1 .. n -> 1 .. n] :
        /\ \A a \in 1 .. n : t[a] = s[f[a]]
        /\ \A a, b \in 1 .. n : a < b <=> <<f[a], f[b]>> \in Better(s)
        /\ \A i \in 1 .. n : \E a \in 1 .. n : f[a] = i
  BY <1>4
<1>6. n \in Nat /\ DOMAIN s = 1 .. n /\ DOMAIN t = 1 .. n
  BY <1>1, <1>3
<1>7. \A i, j : <<i, j>> \in Better(s) <=>
        /\ i \in 1 .. n /\ j \in 1 .. n
        /\ (s[i].score > s[j].score \/ (s[i].score = s[j].score /\ i < j))
  BY <1>6 DEF Better
<1> HIDE DEF n
<1>8. \A i \in 1 .. n : s[i] \in Rated
  BY <1>1 DEF n
<1>9. \A i \in 1 .. n : s[i].score \in Nat
  BY <1>8 DEF Rated
<1>10. t \in Seq(Rated)
  <2>1. t = [i \in 1 .. n |-> t[i]]
    BY <1>3, <1>6
  <2>2. \A i \in 1 .. n : t[i] \in Rated
    BY <1>5, <1>8
  <2>3. t \in [1 .. n -> Rated]
    BY <2>1, <2>2
  <2>4. QED
    BY <1>6, <2>3
<1>11. ASSUME NEW i \in 1 .. n, NEW j \in 1 .. n, i < j PROVE t[j].score <= t[i].score
  <2>1. <<f[i], f[j]>> \in Better(s)
    BY <1>5, <1>11
  <2>2. s[f[i]].score > s[f[j]].score \/ s[f[i]].score = s[f[j]].score
    BY <1>7, <2>1
  <2>3. t[i] = s[f[i]] /\ t[j] = s[f[j]] /\ s[f[i]].score \in Nat /\ s[f[j]].score \in Nat
    BY <1>5, <1>9
  <2>4. QED
    BY <2>2, <2>3
<1>12. ASSUME NEW i \in 1 .. n, NEW d \in DocsOf(v) \cup DocsOf(k), Above(v, k, d, t[i].doc)
       PROVE  \E j \in 1 .. n : j < i /\ t[j].doc = d
  <2>1. PICK m \in 1 .. n : s[m].doc = d
    BY <1>1 DEF n
  <2>2. t[i] = s[f[i]] /\ f[i] \in 1 .. n
    BY <1>5
  <2>3. m < f[i]
    BY <1>1, <1>12, <2>1, <2>2 DEF n
  <2>4. s[f[i]].score <= s[m].score
    BY <1>1, <1>12, <2>1, <2>2, ScoreAbove DEF n
  <2>5. <<m, f[i]>> \in Better(s)
    BY <1>7, <1>9, <2>2, <2>3, <2>4
  <2>6. PICK j \in 1 .. n : f[j] = m
    BY <1>5
  <2>7. j < i /\ t[j] = s[m]
    BY <1>5, <2>5, <2>6
  <2>8. QED
    BY <2>1, <2>7
<1>13. BestOf(t, v, k)
  <2>1. \A i \in 1 .. n : \A d \in DocsOf(v) \cup DocsOf(k) :
         Above(v, k, d, t[i].doc) => \E j \in 1 .. n : j < i /\ Content[t[j].doc] = Content[d]
    BY <1>12
  <2>2. QED
    BY <1>3, <1>10, <1>11, <2>1 DEF BestOf
<1>14. ASSUME t = <<>> PROVE v = <<>> /\ k = <<>>
  <2>1. n = 0
    BY <1>3, <1>14
  <2>2. DocsOf(v) = {} /\ DocsOf(k) = {}
    BY <1>1, <2>1 DEF n
  <2>3. Len(v) = 0
    <3>1. SUFFICES ASSUME Len(v) # 0 PROVE FALSE
      OBVIOUS
    <3>2. DOMAIN v = 1 .. Len(v) /\ Len(v) \in Nat
      OBVIOUS
    <3>3. 1 \in DOMAIN v
      BY <3>1, <3>2
    <3>4. v[1].doc \in DocsOf(v)
      BY <3>3, Zenon DEF DocsOf
    <3>5. QED
      BY <2>2, <3>4
  <2>4. Len(k) = 0
    <3>1. SUFFICES ASSUME Len(k) # 0 PROVE FALSE
      OBVIOUS
    <3>2. DOMAIN k = 1 .. Len(k) /\ Len(k) \in Nat
      OBVIOUS
    <3>3. 1 \in DOMAIN k
      BY <3>1, <3>2
    <3>4. k[1].doc \in DocsOf(k)
      BY <3>3, Zenon DEF DocsOf
    <3>5. QED
      BY <2>2, <3>4
  <2>5. QED
    BY <2>3, <2>4, EmptySeq
<1>15. QED
  BY <1>13, <1>14 DEF t, s

\* The first of a list keep what holds of it.
LEMMA FirstStayBest ==
    ASSUME NEW v, NEW k, NEW t, BestOf(t, v, k), NEW I \in SUBSET (DOMAIN t),
           \A i \in I : \A j \in 1 .. Len(t) : j < i => j \in I
    PROVE  /\ BestOf(Kept(t, I), v, k)
           /\ NoCopies(t) => NoCopies(Kept(t, I))
           /\ Len(Kept(t, I)) <= Len(t)
           /\ Kept(t, I) = <<>> => I = {}
<1> DEFINE u == Kept(t, I)
<1>1. t \in Seq(Rated)
  BY DEF BestOf
<1>2. u \in Seq(Rated) /\ Len(u) <= Len(t) /\ (u = <<>> => I = {})
  BY <1>1, KeptFollows
<1>3. \E f : Follows(f, u, t, I)
  BY <1>1, KeptFollows
<1> HIDE DEF u
<1>4. PICK f : Follows(f, u, t, I)
  BY <1>3
<1>5. /\ \A a \in 1 .. Len(u) : f[a] \in I /\ f[a] \in 1 .. Len(t) /\ u[a] = t[f[a]]
      /\ \A a, b \in 1 .. Len(u) : a < b <=> f[a] < f[b]
      /\ \A i \in I : \E a \in 1 .. Len(u) : f[a] = i
  BY <1>1, <1>4 DEF Follows
<1>6. \A i, j \in 1 .. Len(u) : i < j => u[j].score <= u[i].score
  BY <1>5 DEF BestOf
<1>7. ASSUME NEW i \in 1 .. Len(u), NEW d \in DocsOf(v) \cup DocsOf(k), Above(v, k, d, u[i].doc)
      PROVE  \E j \in 1 .. Len(u) : j < i /\ Content[u[j].doc] = Content[d]
  <2>1. PICK j \in 1 .. Len(t) : j < f[i] /\ Content[t[j].doc] = Content[d]
    BY <1>5, <1>7 DEF BestOf
  <2>2. j \in I
    BY <1>5, <2>1
  <2>3. PICK a \in 1 .. Len(u) : f[a] = j
    BY <1>5, <2>2
  <2>4. QED
    BY <1>5, <2>1, <2>3
<1>8. NoCopies(t) => NoCopies(u)
  BY <1>5 DEF NoCopies
<1>9. QED
  BY <1>2, <1>6, <1>7, <1>8 DEF BestOf, u

LEMMA FuseIsBest ==
    ASSUME NEW v \in Seq(Found), NEW k \in Seq(Found), Len(v) <= Limit, Len(k) <= Limit
    PROVE  /\ BestOf(Fuse(v, k), v, k) /\ Len(Fuse(v, k)) <= TopK
           /\ Fuse(v, k) = <<>> => v = <<>> /\ k = <<>>
<1> DEFINE s == BestFirst(Scored(v, k))
           t == Top(TopK, s)
<1>1. BestOf(s, v, k) /\ (s = <<>> => v = <<>> /\ k = <<>>)
  BY SortedIsBest
<1>2. Fuse(v, k) = t
  BY DEF Fuse
<1> HIDE DEF s
<1>3. s \in Seq(Rated) /\ Len(s) \in Nat
  BY <1>1 DEF BestOf
<1>4. TopK \in Nat /\ TopK > 0
  BY SizesAssumption
<1>5. t \in Seq(Rated)
  BY <1>3, <1>4, TopFacts
<1>6. Len(t) <= TopK /\ Len(t) <= Len(s) /\ Len(t) \in Nat
  BY <1>3, <1>4, TopFacts
<1>7. \A i \in 1 .. Len(t) : t[i] = s[i] /\ i \in 1 .. Len(s)
  <2>1. \A i \in 1 .. Len(t) : t[i] = s[i]
    BY <1>3, <1>4, TopFacts
  <2>2. QED
    BY <1>3, <1>6, <2>1
<1>8. t = <<>> => v = <<>> /\ k = <<>>
  BY <1>1, <1>3, <1>4, TopFacts
<1> HIDE DEF t
<1>9. \A i, j \in 1 .. Len(t) : i < j => t[j].score <= t[i].score
  BY <1>1, <1>7 DEF BestOf
<1>10. ASSUME NEW i \in 1 .. Len(t), NEW d \in DocsOf(v) \cup DocsOf(k), Above(v, k, d, t[i].doc)
       PROVE  \E j \in 1 .. Len(t) : j < i /\ Content[t[j].doc] = Content[d]
  <2>1. PICK j \in 1 .. Len(s) : j < i /\ Content[s[j].doc] = Content[d]
    BY <1>1, <1>7, <1>10 DEF BestOf
  <2>2. j \in 1 .. Len(t)
    BY <1>6, <2>1
  <2>3. QED
    BY <1>7, <2>1, <2>2
<1>11. QED
  BY <1>2, <1>5, <1>6, <1>8, <1>9, <1>10 DEF BestOf

LEMMA RetrieveIsBest ==
    ASSUME NEW v \in Seq(Found), NEW k \in Seq(Found), Len(v) <= Limit, Len(k) <= Limit
    PROVE  /\ BestOf(Retrieve(v, k), v, k) /\ NoCopies(Retrieve(v, k))
           /\ Len(Retrieve(v, k)) <= TopK
           /\ Retrieve(v, k) = <<>> => v = <<>> /\ k = <<>>
<1> DEFINE t == Fuse(v, k)
           texts == [i \in DOMAIN t |-> Content[t[i].doc]]
           I == Firsts(texts)
           u == Kept(t, I)
<1>1. BestOf(t, v, k) /\ Len(t) <= TopK /\ (t = <<>> => v = <<>> /\ k = <<>>)
  BY FuseIsBest
<1>2. Retrieve(v, k) = u
  BY DEF Retrieve, Deduplicate
<1> HIDE DEF t
<1>3. t \in Seq(Rated) /\ Len(t) \in Nat /\ DOMAIN t = 1 .. Len(t)
  BY <1>1 DEF BestOf
<1> DEFINE Texts == {Content[t[i].doc] : i \in DOMAIN t}
<1>4. texts \in Seq(Texts) /\ Len(texts) = Len(t)
  BY <1>3
<1>5. \A i \in 1 .. Len(t) : texts[i] = Content[t[i].doc]
  BY <1>3
<1> HIDE DEF texts, Texts
<1>6. I \in SUBSET (DOMAIN t) /\ I \in SUBSET (1 .. Len(texts))
  BY <1>3, <1>4 DEF Firsts
<1>7. u \in Seq(Rated) /\ Len(u) <= Len(t) /\ (u = <<>> => I = {})
  BY <1>3, <1>6, KeptFollows
<1>8. \E f : Follows(f, u, t, I)
  BY <1>3, <1>6, KeptFollows
<1> HIDE DEF u
<1>9. PICK f : Follows(f, u, t, I)
  BY <1>8
<1> HIDE DEF I
<1>10. /\ \A a \in 1 .. Len(u) : f[a] \in I /\ f[a] \in 1 .. Len(t) /\ u[a] = t[f[a]]
       /\ \A a, b \in 1 .. Len(u) : a < b <=> f[a] < f[b]
       /\ \A i \in I : \E a \in 1 .. Len(u) : f[a] = i
  BY <1>4, <1>6, <1>9 DEF Follows
<1>11. ASSUME NEW i \in 1 .. Len(u), NEW j \in 1 .. Len(u), i < j
       PROVE  u[j].score <= u[i].score
  <2>1. f[i] \in 1 .. Len(t) /\ f[j] \in 1 .. Len(t) /\ f[i] < f[j]
    BY <1>10, <1>11
  <2>2. t[f[j]].score <= t[f[i]].score
    BY <1>1, <2>1 DEF BestOf
  <2>3. u[i] = t[f[i]] /\ u[j] = t[f[j]]
    BY <1>10
  <2>4. QED
    BY <2>2, <2>3
<1>12. ASSUME NEW i \in 1 .. Len(u), NEW d \in DocsOf(v) \cup DocsOf(k), Above(v, k, d, u[i].doc)
       PROVE  \E j \in 1 .. Len(u) : j < i /\ Content[u[j].doc] = Content[d]
  <2>1. PICK j \in 1 .. Len(t) : j < f[i] /\ Content[t[j].doc] = Content[d]
    BY <1>1, <1>10, <1>12 DEF BestOf
  <2>2. PICK m \in I : texts[m] = texts[j] /\ m <= j /\ m \in 1 .. Len(texts)
    BY <1>4, <2>1, FirstOccurs DEF I
  <2>3. PICK a \in 1 .. Len(u) : f[a] = m
    BY <1>10
  <2>4. a < i
    BY <1>3, <1>10, <2>1, <2>2, <2>3
  <2>5. Content[u[a].doc] = Content[d]
    BY <1>4, <1>5, <1>10, <2>1, <2>2, <2>3
  <2>6. QED
    BY <2>4, <2>5
<1>13. ASSUME NEW i \in 1 .. Len(u), NEW j \in 1 .. Len(u), i < j
       PROVE  Content[u[i].doc] # Content[u[j].doc]
  <2>1. f[i] < f[j] /\ f[j] \in I /\ f[i] \in 1 .. Len(t) /\ f[j] \in 1 .. Len(t)
    BY <1>10, <1>13
  <2>2. texts[f[i]] # texts[f[j]]
    BY <1>4, <2>1, FirstsOnce DEF I
  <2>3. u[i] = t[f[i]] /\ u[j] = t[f[j]]
    BY <1>10
  <2>4. texts[f[i]] = Content[t[f[i]].doc] /\ texts[f[j]] = Content[t[f[j]].doc]
    BY <1>5, <2>1
  <2>5. QED
    BY <2>2, <2>3, <2>4
<1>14. ASSUME u = <<>> PROVE v = <<>> /\ k = <<>>
  <2>1. I = {}
    BY <1>7, <1>14
  <2>2. Len(t) = 0
    <3>1. SUFFICES ASSUME Len(t) # 0 PROVE FALSE
      OBVIOUS
    <3>2. 1 \in 1 .. Len(texts)
      BY <1>3, <1>4, <3>1
    <3>3. QED
      BY <1>4, <2>1, <3>2, FirstOccurs DEF I
  <2>3. QED
    BY <1>1, <1>3, <2>2, EmptySeq
<1>15. Len(u) <= TopK
  <2>1. Len(u) \in Nat /\ TopK \in Nat
    BY <1>7, SizesAssumption
  <2>2. QED
    BY <1>1, <1>3, <1>7, <2>1
<1>16. QED
  BY <1>2, <1>7, <1>11, <1>12, <1>13, <1>14, <1>15 DEF BestOf, NoCopies

\* What is left of a list that is best first, when nothing before it goes.
Fits(t, u, v, k) ==
    /\ BestOf(u, v, k)
    /\ NoCopies(t) => NoCopies(u)
    /\ Len(u) <= Len(t)
    /\ u = <<>> => t = <<>>

LEMMA RelevantFits ==
    ASSUME NEW v, NEW k, NEW t, BestOf(t, v, k)
    PROVE  Fits(t, Relevant(t), v, k)
<1> DEFINE I == {i \in DOMAIN t : 10 * t[i].score >= 3 * t[1].score}
<1>1. t \in Seq(Rated) /\ Len(t) \in Nat /\ DOMAIN t = 1 .. Len(t)
  BY DEF BestOf
<1>2. \A i \in 1 .. Len(t) : t[i].score \in Nat
  <2> TAKE i \in 1 .. Len(t)
  <2>1. t[i] \in Rated
    BY <1>1
  <2>2. QED
    BY <2>1 DEF Rated
<1>3. ASSUME NEW i \in I, NEW j \in 1 .. Len(t), j < i PROVE j \in I
  <2>1. i \in 1 .. Len(t) /\ 10 * t[i].score >= 3 * t[1].score /\ 1 \in 1 .. Len(t)
    BY <1>1
  <2>2. t[i].score <= t[j].score
    BY <1>3, <2>1 DEF BestOf
  <2>3. t[i].score \in Nat /\ t[j].score \in Nat /\ t[1].score \in Nat
    BY <1>2, <2>1
  <2>4. QED
    BY <1>1, <2>1, <2>2, <2>3
<1>4. ASSUME I = {} PROVE t = <<>>
  <2>1. SUFFICES ASSUME Len(t) # 0 PROVE FALSE
    BY <1>1, EmptySeq
  <2>2. 1 \in 1 .. Len(t)
    BY <1>1, <2>1
  <2>3. t[1].score \in Nat
    BY <1>2, <2>2
  <2>4. 1 \in I
    BY <1>1, <2>2, <2>3
  <2>5. QED
    BY <1>4, <2>4
<1>5. Relevant(t) = Kept(t, I)
  BY DEF Relevant
<1>6. I \in SUBSET (DOMAIN t)
  OBVIOUS
<1> HIDE DEF I
<1>7. QED
  BY <1>3, <1>4, <1>5, <1>6, FirstStayBest DEF Fits

\* What is in order already stays as it is.
LEMMA BestIsOrdered ==
    ASSUME NEW v, NEW k, NEW t, BestOf(t, v, k)
    PROVE  BestFirst(t) = Kept(t, DOMAIN t)
<1>1. t \in Seq(Rated) /\ Len(t) \in Nat /\ DOMAIN t = 1 .. Len(t)
  BY DEF BestOf
<1>2. \A i \in 1 .. Len(t) : t[i].score \in Nat
  <2> TAKE i \in 1 .. Len(t)
  <2>1. t[i] \in Rated
    BY <1>1
  <2>2. QED
    BY <2>1 DEF Rated
<1>3. ASSUME NEW i \in 1 .. Len(t), NEW j \in 1 .. Len(t)
      PROVE  (t[i].score > t[j].score \/ (t[i].score = t[j].score /\ i < j)) <=> i < j
  <2>1. t[i].score \in Nat /\ t[j].score \in Nat
    BY <1>2
  <2>2. i < j => t[j].score <= t[i].score
    BY DEF BestOf
  <2>3. j < i => t[i].score <= t[j].score
    BY DEF BestOf
  <2>4. CASE i < j
    BY <2>1, <2>2, <2>4
  <2>5. CASE j < i
    BY <2>1, <2>3, <2>5
  <2>6. CASE i = j
    BY <2>1, <2>6
  <2>7. QED
    BY <2>4, <2>5, <2>6
<1>4. Better(t) = Ascending(DOMAIN t)
  <2>1. ASSUME NEW p \in (DOMAIN t) \X (DOMAIN t)
        PROVE  (t[p[1]].score > t[p[2]].score \/ (t[p[1]].score = t[p[2]].score /\ p[1] < p[2])) <=> p[1] < p[2]
    BY <1>1, <1>3
  <2>2. QED
    BY <2>1, Zenon DEF Better, Ascending
<1>5. QED
  BY <1>4 DEF BestFirst, Kept

LEMMA FormatFits ==
    ASSUME NEW v, NEW k, NEW t, BestOf(t, v, k)
    PROVE  Fits(t, Format(t), v, k)
<1> DEFINE best == BestFirst(t)
           I == {i \in DOMAIN best : \A j \in 1 .. i : Chars(SubSeq(best, 1, j - 1)) < MaxKnowledgeChars}
<1>1. best = Kept(t, DOMAIN t)
  BY BestIsOrdered
<1>2. t \in Seq(Rated) /\ Len(t) \in Nat /\ DOMAIN t = 1 .. Len(t)
  BY DEF BestOf
<1>3. /\ BestOf(best, v, k)
      /\ NoCopies(t) => NoCopies(best)
      /\ Len(best) <= Len(t)
      /\ best = <<>> => DOMAIN t = {}
  BY <1>1, <1>2, FirstStayBest
<1>4. Format(t) = Kept(best, I)
  BY DEF Format
<1> HIDE DEF best
<1>5. best \in Seq(Rated) /\ Len(best) \in Nat /\ DOMAIN best = 1 .. Len(best)
  BY <1>3 DEF BestOf
<1>6. ASSUME NEW i \in I, NEW j \in 1 .. Len(best), j < i PROVE j \in I
  <2>1. i \in 1 .. Len(best) /\ \A m \in 1 .. i : Chars(SubSeq(best, 1, m - 1)) < MaxKnowledgeChars
    BY <1>5
  <2>2. \A m \in 1 .. j : m \in 1 .. i
    BY <1>6, <2>1
  <2>3. QED
    BY <1>5, <2>1, <2>2
<1>7. ASSUME I = {} PROVE best = <<>>
  <2>1. SUFFICES ASSUME Len(best) # 0 PROVE FALSE
    BY <1>5, EmptySeq
  <2>2. 1 \in DOMAIN best
    BY <1>5, <2>1
  <2>3. SubSeq(best, 1, 1 - 1) = <<>>
    BY <1>5
  <2>4. Chars(<<>>) = Total(<<>>)
    BY DEF Chars
  <2>5. Total(<<>>) = 0
    <3>1. SUFFICES ASSUME NEW none, none = <<>> PROVE Total(none) = 0
      BY Zenon
    <3>2. none \in Seq(Nat) /\ Len(none) = 0
      BY <3>1
    <3>3. \A i \in 1 .. Len(none) : none[i] = 0
      BY <3>2
    <3>4. QED
      BY <3>2, <3>3, TotalFacts
  <2>6. 0 < MaxKnowledgeChars
    BY SizesAssumption
  <2>7. \A j \in 1 .. 1 : Chars(SubSeq(best, 1, j - 1)) < MaxKnowledgeChars
    <3> TAKE j \in 1 .. 1
    <3>1. j = 1
      OBVIOUS
    <3>2. Chars(SubSeq(best, 1, j - 1)) = 0
      BY <2>3, <2>4, <2>5, <3>1
    <3>3. QED
      BY <2>6, <3>2
  <2>8. 1 \in I
    BY <2>2, <2>7
  <2>9. QED
    BY <1>7, <2>8
<1>8. I \in SUBSET (DOMAIN best)
  OBVIOUS
<1> HIDE DEF I
<1>9. BestOf(Kept(best, I), v, k) /\ (NoCopies(best) => NoCopies(Kept(best, I)))
  BY <1>3, <1>6, <1>8, FirstStayBest
<1>10. Len(Kept(best, I)) <= Len(best) /\ (Kept(best, I) = <<>> => I = {})
  BY <1>3, <1>6, <1>8, FirstStayBest
<1>11. Len(Kept(best, I)) \in Nat
  BY <1>9 DEF BestOf
<1>12. ASSUME best = <<>> PROVE t = <<>>
  <2>1. DOMAIN t = {}
    BY <1>3, <1>12
  <2>2. Len(t) = 0
    BY <1>2, <2>1
  <2>3. QED
    BY <1>2, <2>2, EmptySeq
<1>13. QED
  BY <1>2, <1>3, <1>4, <1>5, <1>7, <1>9, <1>10, <1>11, <1>12 DEF Fits

\* What the assembler and the tool tell of the two searches' hits.
LEMMA ToldIsBest ==
    ASSUME NEW v \in Seq(Found), NEW k \in Seq(Found), Len(v) <= Limit, Len(k) <= Limit,
           NEW t \in {Retrieve(v, k), Format(Relevant(Retrieve(v, k)))}
    PROVE  BestOf(t, v, k) /\ NoCopies(t) /\ Len(t) <= TopK /\ (t = <<>> => v = <<>> /\ k = <<>>)
<1> DEFINE r == Retrieve(v, k)
           s == Relevant(r)
           u == Format(s)
<1>1. BestOf(r, v, k) /\ NoCopies(r) /\ Len(r) <= TopK /\ (r = <<>> => v = <<>> /\ k = <<>>)
  BY RetrieveIsBest
<1>2. t = r \/ t = u
  OBVIOUS
<1> HIDE DEF r
<1>3. Fits(r, s, v, k)
  BY <1>1, RelevantFits
<1> HIDE DEF s
<1>4. Fits(s, u, v, k)
  BY <1>3, FormatFits DEF Fits
<1> HIDE DEF u
<1>5. Len(r) \in Nat /\ Len(s) \in Nat /\ Len(u) \in Nat /\ TopK \in Nat
  BY <1>1, <1>3, <1>4, SizesAssumption DEF Fits, BestOf
<1>6. BestOf(u, v, k) /\ NoCopies(u) /\ Len(u) <= TopK /\ (u = <<>> => v = <<>> /\ k = <<>>)
  BY <1>1, <1>3, <1>4, <1>5 DEF Fits
<1>7. QED
  BY <1>1, <1>2, <1>6

-----------------------------------------------------------------------------
(* The conversation *)

\* The provers do not know a literal for a member of STRING.
Turns == [role : STRING \cup {"system", "user"}, says : STRING \cup {"knowledge", "summary", "query"}]

\* The newest n of a list: its last n, or all of it.
LEMMA NewestFacts ==
    ASSUME NEW S, NEW s \in Seq(S), NEW n \in Nat \ {0}
    PROVE  /\ Newest(n, s) \in Seq(S)
           /\ Len(Newest(n, s)) = IF n < Len(s) THEN n ELSE Len(s)
           /\ \A i \in 1 .. Len(Newest(n, s)) : Newest(n, s)[i] = s[Len(s) - Len(Newest(n, s)) + i]
<1> DEFINE first == IF n < Len(s) THEN Len(s) - n + 1 ELSE 1
           t == SubSeq(s, first, Len(s))
<1>1. Newest(n, s) = t
  BY DEF Newest
<1>2. Len(s) \in Nat /\ first \in Int /\ first >= 1
  OBVIOUS
<1>3. Len(s) - first + 1 = IF n < Len(s) THEN n ELSE Len(s)
  BY <1>2
<1> HIDE DEF first
<1>4. \A i \in first .. Len(s) : s[i] \in S
  BY <1>2
<1>5. /\ t \in Seq(S)
      /\ Len(t) = IF first <= Len(s) THEN Len(s) - first + 1 ELSE 0
      /\ \A i \in 1 .. Len(s) - first + 1 : t[i] = s[first + i - 1]
  BY <1>2, <1>4, SubSeqProperties
<1> HIDE DEF t
<1>6. Len(t) = Len(s) - first + 1
  BY <1>2, <1>3, <1>5
<1>7. ASSUME NEW i \in 1 .. Len(t) PROVE t[i] = s[Len(s) - Len(t) + i]
  <2>1. i \in 1 .. Len(s) - first + 1
    BY <1>6
  <2>2. t[i] = s[first + i - 1]
    BY <1>5, <2>1
  <2>3. first + i - 1 = Len(s) - Len(t) + i
    BY <1>2, <1>6, <2>1
  <2>4. QED
    BY <2>2, <2>3
<1>8. QED
  BY <1>1, <1>3, <1>5, <1>6, <1>7

LEMMA EndFacts ==
    ASSUME NEW S, NEW s \in Seq(S), NEW n \in Nat, n <= Len(s)
    PROVE  /\ End(n, s) \in Seq(S) /\ Len(End(n, s)) = n
           /\ \A i \in 1 .. n : End(n, s)[i] = s[Len(s) - n + i]
<1> DEFINE first == Len(s) - n + 1
<1>1. Len(s) \in Nat /\ first \in Int /\ first >= 1 /\ Len(s) - first + 1 = n
  OBVIOUS
<1>2. End(n, s) = SubSeq(s, first, Len(s))
  BY DEF End
<1> HIDE DEF first
<1>3. \A i \in first .. Len(s) : s[i] \in S
  BY <1>1
<1>4. /\ SubSeq(s, first, Len(s)) \in Seq(S)
      /\ Len(SubSeq(s, first, Len(s))) = IF first <= Len(s) THEN Len(s) - first + 1 ELSE 0
      /\ \A i \in 1 .. Len(s) - first + 1 : SubSeq(s, first, Len(s))[i] = s[first + i - 1]
  BY <1>1, <1>3, SubSeqProperties
<1>5. \A i \in 1 .. n : SubSeq(s, first, Len(s))[i] = s[Len(s) - n + i]
  BY <1>1, <1>4 DEF first
<1>6. QED
  BY <1>1, <1>2, <1>4, <1>5

\* What is put before the model ends with the newest turns and the question, and
\* keeps the summary where there is room for it.
LEMMA MessagesEndNewest ==
    ASSUME turn.context \in Contexts, turn.messages = BuildMessages(turn.context)
    PROVE  NewestTurns
<1> DEFINE context == turn.context
           turns == Remembered(context)
           conv == Conversation(context)
           B == MaxHistoryBackstop
           new == Newest(B, conv)
           know == Message("system", "knowledge")
           sum == Message("system", "summary")
           ask == Message("user", "query")
           msgs == turn.messages
           n == IF Len(turns) < B THEN Len(turns) ELSE B
           s == IF context.summary THEN 1 ELSE 0
<1>1. B \in Nat \ {0}
  BY SizesAssumption
<1>2. know \in Turns /\ sum \in Turns /\ ask \in Turns
  BY DEF Message, Turns
<1>3. turns \in Seq(Turns)
  <2> DEFINE all == context.messages
             I == {i \in DOMAIN all : all[i].role \in MemoryRoles /\ all[i].says # ""}
  <2>1. context \in [summary : BOOLEAN, messages : Seq([role : STRING, says : STRING])]
    BY ListsAssumption
  <2>2. all \in Seq(Turns)
    <3>1. all \in Seq([role : STRING, says : STRING])
      BY <2>1
    <3>2. [role : STRING, says : STRING] \subseteq Turns
      BY DEF Turns
    <3> HIDE DEF all
    <3>3. QED
      BY <3>1, <3>2, SeqMonotonic
  <2>3. turns = Kept(all, I)
    BY DEF Remembered
  <2>4. I \in SUBSET (DOMAIN all)
    OBVIOUS
  <2> HIDE DEF all, I
  <2>5. QED
    BY <2>2, <2>3, <2>4, KeptFollows
<1>4. msgs = (<<know>> \o new) \o <<ask>>
  BY DEF BuildMessages
<1>5. conv = (IF context.summary THEN <<sum>> ELSE <<>>) \o turns
  BY DEF Conversation
<1> HIDE DEF turns, conv, know, sum, ask, B, msgs
<1>6. /\ conv \in Seq(Turns) /\ Len(conv) = s + Len(turns)
      /\ \A i \in 1 .. Len(turns) : conv[s + i] = turns[i]
      /\ context.summary => conv[1] = sum
  <2>1. CASE context.summary
    <3>1. <<sum>> \in Seq(Turns) /\ Len(<<sum>>) = 1 /\ <<sum>>[1] = sum
      BY <1>2
    <3>2. conv = <<sum>> \o turns
      BY <1>5, <2>1
    <3>3. /\ conv \in Seq(Turns) /\ Len(conv) = 1 + Len(turns)
          /\ \A i \in 1 .. 1 + Len(turns) : conv[i] = IF i <= 1 THEN <<sum>>[i] ELSE turns[i - 1]
      BY <1>3, <3>1, <3>2, ConcatProperties
    <3>4. s = 1 /\ Len(turns) \in Nat
      BY <1>3, <2>1
    <3>5. \A i \in 1 .. Len(turns) : 1 + i \in 1 .. 1 + Len(turns) /\ ~(1 + i <= 1) /\ (1 + i) - 1 = i
      BY <3>4
    <3>6. \A i \in 1 .. Len(turns) : conv[1 + i] = turns[i]
      BY <3>3, <3>5
    <3>7. conv[1] = sum
      BY <3>1, <3>3, <3>4
    <3> HIDE DEF s
    <3>8. QED
      BY <3>3, <3>4, <3>6, <3>7
  <2>2. CASE ~context.summary
    <3>1. conv = turns
      BY <1>3, <1>5, <2>2, ConcatEmptySeq
    <3>2. QED
      BY <1>3, <2>2, <3>1
  <2>3. QED
    BY <2>1, <2>2
<1>7. /\ new \in Seq(Turns)
      /\ Len(new) = IF B < Len(conv) THEN B ELSE Len(conv)
      /\ \A i \in 1 .. Len(new) : new[i] = conv[Len(conv) - Len(new) + i]
  BY <1>1, <1>6, NewestFacts
<1> HIDE DEF new
<1>8. /\ msgs \in Seq(Turns) /\ Len(msgs) = Len(new) + 2
      /\ msgs[Len(new) + 2] = ask
      /\ \A i \in 1 .. Len(new) : msgs[i + 1] = new[i]
  <2> DEFINE front == <<know>> \o new
  <2>1. <<know>> \in Seq(Turns) /\ Len(<<know>>) = 1 /\ <<ask>> \in Seq(Turns) /\ Len(<<ask>>) = 1
    BY <1>2
  <2>2. <<ask>>[1] = ask
    OBVIOUS
  <2>3. /\ front \in Seq(Turns) /\ Len(front) = 1 + Len(new)
        /\ \A i \in 1 .. 1 + Len(new) : front[i] = IF i <= 1 THEN <<know>>[i] ELSE new[i - 1]
    BY <1>7, <2>1, ConcatProperties
  <2> HIDE DEF front
  <2>4. msgs = front \o <<ask>>
    BY <1>4 DEF front
  <2>5. Len(new) \in Nat
    BY <1>7
  <2>6. /\ msgs \in Seq(Turns) /\ Len(msgs) = Len(front) + 1
        /\ \A i \in 1 .. Len(front) + 1 : msgs[i] = IF i <= Len(front) THEN front[i] ELSE <<ask>>[i - Len(front)]
    BY <2>1, <2>3, <2>4, ConcatProperties
  <2>7. msgs[Len(new) + 2] = ask
    <3>1. Len(new) + 2 \in 1 .. Len(front) + 1 /\ ~(Len(new) + 2 <= Len(front)) /\ (Len(new) + 2) - Len(front) = 1
      BY <2>3, <2>5
    <3>2. QED
      BY <2>2, <2>6, <3>1
  <2>8. \A i \in 1 .. Len(new) : msgs[i + 1] = new[i]
    <3> TAKE i \in 1 .. Len(new)
    <3>1. i + 1 \in 1 .. Len(front) + 1 /\ i + 1 <= Len(front) /\ i + 1 \in 1 .. 1 + Len(new) /\ ~(i + 1 <= 1)
      BY <2>3, <2>5
    <3>2. msgs[i + 1] = front[i + 1]
      BY <2>6, <3>1
    <3>3. front[i + 1] = new[(i + 1) - 1] /\ (i + 1) - 1 = i
      BY <2>3, <3>1
    <3>4. QED
      BY <3>2, <3>3
  <2>9. QED
    BY <2>3, <2>5, <2>6, <2>7, <2>8
<1>9. /\ Len(turns) \in Nat /\ Len(conv) \in Nat /\ Len(new) \in Nat /\ B \in Nat /\ B > 0
      /\ s \in {0, 1} /\ n \in Nat /\ n <= Len(turns) /\ n <= Len(new)
  BY <1>1, <1>3, <1>6, <1>7
<1> HIDE DEF n, s
<1>10. End(n + 1, msgs) = Append(End(n, turns), ask)
  <2> DEFINE e == End(n, turns)
             a == Append(e, ask)
             m == End(n + 1, msgs)
  <2>1. e \in Seq(Turns) /\ Len(e) = n /\ \A i \in 1 .. n : e[i] = turns[Len(turns) - n + i]
    BY <1>3, <1>9, EndFacts
  <2> HIDE DEF e
  <2>2. /\ a \in Seq(Turns) /\ Len(a) = n + 1 /\ a[n + 1] = ask
        /\ \A i \in 1 .. n : a[i] = e[i]
    BY <1>2, <2>1, AppendProperties
  <2> HIDE DEF a
  <2>3. /\ m \in Seq(Turns) /\ Len(m) = n + 1
        /\ \A i \in 1 .. n + 1 : m[i] = msgs[Len(msgs) - (n + 1) + i]
    <3> DEFINE c == n + 1
    <3>1. c \in Nat /\ c <= Len(msgs) /\ msgs \in Seq(Turns)
      BY <1>8, <1>9
    <3> HIDE DEF c
    <3>2. /\ End(c, msgs) \in Seq(Turns) /\ Len(End(c, msgs)) = c
          /\ \A i \in 1 .. c : End(c, msgs)[i] = msgs[Len(msgs) - c + i]
      BY <3>1, EndFacts
    <3>3. QED
      BY <3>2 DEF m, c
  <2> HIDE DEF m
  <2>4. m[n + 1] = ask
    <3>1. Len(msgs) - (n + 1) + (n + 1) = Len(new) + 2 /\ n + 1 \in 1 .. n + 1
      BY <1>8, <1>9
    <3>2. QED
      BY <1>8, <2>3, <3>1
  <2>5. ASSUME NEW i \in 1 .. n PROVE m[i] = a[i]
    <3>1. Len(msgs) - (n + 1) + i = (Len(new) - n + i) + 1 /\ Len(new) - n + i \in 1 .. Len(new) /\ i \in 1 .. n + 1
      BY <1>8, <1>9
    <3>2. m[i] = new[Len(new) - n + i]
      BY <1>8, <2>3, <3>1
    <3>3. new[Len(new) - n + i] = conv[Len(conv) - Len(new) + (Len(new) - n + i)]
      BY <1>7, <3>1
    <3>4. /\ Len(conv) - Len(new) + (Len(new) - n + i) = s + (Len(turns) - n + i)
          /\ Len(turns) - n + i \in 1 .. Len(turns)
      BY <1>6, <1>9
    <3>5. conv[s + (Len(turns) - n + i)] = turns[Len(turns) - n + i]
      BY <1>6, <3>4
    <3>6. QED
      BY <2>1, <2>2, <3>2, <3>3, <3>4, <3>5
  <2>6. \A i \in 1 .. n + 1 : m[i] = a[i]
    BY <1>9, <2>2, <2>4, <2>5
  <2>7. m = a
    BY <2>2, <2>3, <2>6, SeqEqual
  <2>8. QED
    BY <2>7 DEF m, a, e
<1>11. context.summary /\ Len(turns) < B => msgs[2] = sum
  <2>1. SUFFICES ASSUME context.summary, Len(turns) < B PROVE msgs[2] = sum
    OBVIOUS
  <2>2. s = 1
    BY <2>1 DEF s
  <2>3. Len(new) = Len(conv) /\ 1 \in 1 .. Len(new)
    BY <1>6, <1>7, <1>9, <2>1, <2>2
  <2>4. msgs[1 + 1] = new[1]
    BY <1>8, <2>3
  <2>5. new[1] = conv[Len(conv) - Len(new) + 1] /\ Len(conv) - Len(new) + 1 = 1
    <3>1. new[1] = conv[Len(conv) - Len(new) + 1]
      BY <1>7, <2>3
    <3>2. Len(conv) - Len(new) + 1 = 1
      BY <1>9, <2>3
    <3>3. QED
      BY <3>1, <3>2
  <2>6. 1 + 1 = 2
    OBVIOUS
  <2>7. QED
    BY <1>6, <2>1, <2>4, <2>5, <2>6
<1>12. QED
  BY <1>10, <1>11 DEF NewestTurns, n, turns, B, msgs, sum, ask

-----------------------------------------------------------------------------
(* The turn *)

States == {"pending", "found", "done", "failed"}
Leg == [state : States, hits : Seq(Found)]

Turn ==
    [pc : {"embed", "raised", "search", "told"}, context : Contexts,
     told : {"", "unavailable", "nothing", "chunks"}, chunks : Seq(Rated),
     messages : {<<>>} \cup {BuildMessages(context) : context \in Contexts}, failed : BOOLEAN,
     vector : [KBs -> Leg], keyword : [KBs -> Leg]]

Shapes ==
    /\ store \in [KBs -> SUBSET Docs]
    /\ turn \in Turn
    /\ edits \in 0 .. MaxEdits

SomeBroken == \E kb \in KBs : turn.vector[kb] = Broken \/ turn.keyword[kb] = Broken

\* A failure is known by the search that failed, for as long as nothing is told.
FailuresShow ==
    /\ turn.pc = "embed" => ~turn.failed
    /\ turn.pc = "raised" => turn.failed
    /\ SomeBroken => turn.failed
    /\ turn.failed => SomeBroken \/ turn.pc \in {"raised", "told"}

NothingSaidYet == turn.pc # "told" => turn.told = "" /\ turn.chunks = <<>> /\ turn.messages = <<>>

\* What is told comes from the hits of the searches as they came back.
ToldFromHits ==
    turn.pc = "told" =>
        /\ turn.messages \in {<<>>, BuildMessages(turn.context)}
        /\ \/ turn.told = "unavailable" /\ turn.failed /\ turn.chunks = <<>>
           \/ /\ ~turn.failed
              /\ turn.told = IF turn.chunks = <<>> THEN "nothing" ELSE "chunks"
              /\ LET hits == Retrieve(Hits(turn.vector), Hits(turn.keyword))
                 IN turn.chunks \in {hits, Format(Relevant(hits))}

RetrievalInv ==
    /\ Shapes
    /\ FailuresShow
    /\ NothingSaidYet
    /\ ToldFromHits

\* The hits of the searches are lists of chunks, no longer than the limit, and
\* empty only if every search came back empty.
LEMMA HitsFacts ==
    ASSUME NEW legs \in [KBs -> Leg]
    PROVE  /\ Hits(legs) \in Seq(Found) /\ Len(Hits(legs)) <= Limit
           /\ Hits(legs) = <<>> => \A kb \in KBs : legs[kb].hits = <<>>
<1> DEFINE perKb == [kb \in KBs |-> legs[kb].hits]
<1>1. perKb \in [KBs -> Seq(Found)] /\ \A kb \in KBs : perKb[kb] = legs[kb].hits
  BY DEF Leg
<1>2. Hits(legs) = Gather(perKb)
  BY DEF Hits
<1> HIDE DEF perKb
<1>3. /\ Gather(perKb) \in Seq(Found) /\ Len(Gather(perKb)) <= Limit
      /\ Gather(perKb) = <<>> => \A kb \in KBs : perKb[kb] = <<>>
  BY <1>1, GatherFacts
<1>4. QED
  BY <1>1, <1>2, <1>3

\* What the invariant says of the chunks told.
LEMMA ToldFacts ==
    ASSUME Shapes, NEW t,
           LET hits == Retrieve(Hits(turn.vector), Hits(turn.keyword))
           IN t \in {hits, Format(Relevant(hits))}
    PROVE  /\ BestOf(t, Hits(turn.vector), Hits(turn.keyword)) /\ NoCopies(t) /\ Len(t) <= TopK
           /\ t = <<>> => \A leg \in Legs : leg.hits = <<>>
<1> DEFINE v == Hits(turn.vector)
           k == Hits(turn.keyword)
<1>1. turn.vector \in [KBs -> Leg] /\ turn.keyword \in [KBs -> Leg]
  BY DEF Shapes, Turn
<1>2. v \in Seq(Found) /\ Len(v) <= Limit /\ (v = <<>> => \A kb \in KBs : turn.vector[kb].hits = <<>>)
  BY <1>1, HitsFacts
<1>3. k \in Seq(Found) /\ Len(k) <= Limit /\ (k = <<>> => \A kb \in KBs : turn.keyword[kb].hits = <<>>)
  BY <1>1, HitsFacts
<1>4. t \in {Retrieve(v, k), Format(Relevant(Retrieve(v, k)))}
  OBVIOUS
<1> HIDE DEF v, k
<1>5. BestOf(t, v, k) /\ NoCopies(t) /\ Len(t) <= TopK /\ (t = <<>> => v = <<>> /\ k = <<>>)
  BY <1>2, <1>3, <1>4, ToldIsBest
<1>6. ASSUME t = <<>>, NEW leg \in Legs PROVE leg.hits = <<>>
  <2>1. PICK kb \in KBs : leg = turn.vector[kb] \/ leg = turn.keyword[kb]
    BY DEF Legs
  <2>2. QED
    BY <1>2, <1>3, <1>5, <1>6, <2>1
<1>7. QED
  BY <1>5, <1>6 DEF v, k

LEMMA LegsAre ==
    /\ Pending \in Leg /\ Broken \in Leg /\ Pending # Broken
    /\ \A hits \in Seq(Found) : Answer(hits) \in Leg /\ Answer(hits) # Broken
    /\ \A hits \in Seq(Found) : [state |-> "found", hits |-> hits] \in Leg
    /\ \A leg : leg.state # "failed" => leg # Broken
<1>1. <<>> \in Seq(Found)
  OBVIOUS
<1>2. \A st \in States, hits \in Seq(Found) : [state |-> st, hits |-> hits] \in Leg
  BY DEF Leg
<1>3. \A st \in {"pending", "found", "done"}, hits \in Seq(Found) : [state |-> st, hits |-> hits] \in Leg
  BY <1>2 DEF States
<1>4. Pending \in Leg /\ Broken \in Leg
  BY <1>1, <1>2 DEF Pending, Broken, States
<1>5. Pending # Broken
  BY DEF Pending, Broken
<1>6. \A hits \in Seq(Found) : Answer(hits) \in Leg
  BY <1>3 DEF Answer
<1>7. \A leg : leg.state # "failed" => leg # Broken
  BY DEF Broken
<1>8. \A hits : Answer(hits) # Broken
  BY DEF Answer, Broken
<1>9. QED
  BY <1>3, <1>4, <1>5, <1>6, <1>7, <1>8

LEMMA InitHolds == Init => RetrievalInv
<1> SUFFICES ASSUME Init PROVE RetrievalInv
  OBVIOUS
<1>1. store \in [KBs -> SUBSET Docs]
  <2>1. PICK held \in Stored : store = [kb \in KBs |-> held[kb]]
    BY DEF Init
  <2>2. \A kb \in KBs : held[kb] \subseteq Docs
    BY SizesAssumption DEF KBs
  <2>3. QED
    BY <2>1, <2>2
<1>2. PICK context \in Contexts : turn = Start(context)
  BY DEF Init
<1> DEFINE pend == [kb \in KBs |-> Pending]
<1>3. pend \in [KBs -> Leg] /\ \A kb \in KBs : pend[kb] # Broken
  BY LegsAre
<1>4. /\ turn.pc = "embed" /\ turn.context = context /\ turn.told = "" /\ turn.chunks = <<>> /\ turn.messages = <<>>
      /\ turn.failed = FALSE /\ turn.vector = pend /\ turn.keyword = pend
  BY <1>2 DEF Start
<1>5. turn = [pc |-> turn.pc, context |-> turn.context, told |-> turn.told, chunks |-> turn.chunks,
              messages |-> turn.messages, failed |-> turn.failed, vector |-> turn.vector, keyword |-> turn.keyword]
  BY <1>2 DEF Start
<1> HIDE DEF pend
<1>6. <<>> \in Seq(Rated)
  OBVIOUS
<1>7. turn \in Turn
  BY <1>3, <1>4, <1>5, <1>6 DEF Turn
<1>8. edits \in 0 .. MaxEdits
  BY SizesAssumption DEF Init
<1>9. FailuresShow
  BY <1>3, <1>4 DEF FailuresShow, SomeBroken
<1>10. NothingSaidYet /\ ToldFromHits
  BY <1>4 DEF NothingSaidYet, ToldFromHits
<1>11. QED
  BY <1>1, <1>7, <1>8, <1>9, <1>10 DEF RetrievalInv, Shapes

\* A search of kb moves on: the one by vector, or the one by keyword.
LEMMA SearchMoves ==
    ASSUME RetrievalInv, turn.pc = "search", NEW kb \in KBs, NEW leg \in Leg, NEW failed \in BOOLEAN,
           failed <=> (turn.failed \/ leg = Broken), UNCHANGED <<store, edits>>,
           \/ /\ turn.vector[kb] # Broken
              /\ turn' = [turn EXCEPT !.vector[kb] = leg, !.failed = failed]
           \/ /\ turn.keyword[kb] # Broken
              /\ turn' = [turn EXCEPT !.keyword[kb] = leg, !.failed = failed]
    PROVE  RetrievalInv'
<1>1. turn \in Turn
  BY DEF RetrievalInv, Shapes
<1>2. turn.vector \in [KBs -> Leg] /\ turn.keyword \in [KBs -> Leg]
  BY <1>1 DEF Turn
<1>3. turn' \in Turn
  <2> DEFINE vec == [turn.vector EXCEPT ![kb] = leg]
             key == [turn.keyword EXCEPT ![kb] = leg]
  <2>1. vec \in [KBs -> Leg] /\ key \in [KBs -> Leg]
    BY <1>2
  <2>2. turn' = [turn EXCEPT !.vector = vec, !.failed = failed] \/ turn' = [turn EXCEPT !.keyword = key, !.failed = failed]
    OBVIOUS
  <2> HIDE DEF vec, key
  <2>3. ASSUME turn' = [turn EXCEPT !.vector = vec, !.failed = failed] PROVE turn' \in Turn
    BY <1>1, <2>1, <2>3 DEF Turn
  <2>4. ASSUME turn' = [turn EXCEPT !.keyword = key, !.failed = failed] PROVE turn' \in Turn
    BY <1>1, <2>1, <2>4 DEF Turn
  <2>5. QED
    BY <2>2, <2>3, <2>4
<1>4. /\ turn'.pc = "search" /\ turn'.told = turn.told /\ turn'.chunks = turn.chunks /\ turn'.messages = turn.messages
      /\ turn'.failed = failed
  BY <1>1 DEF Turn
<1>5. \/ /\ turn.vector[kb] # Broken /\ turn'.keyword = turn.keyword
         /\ turn'.vector = [turn.vector EXCEPT ![kb] = leg]
      \/ /\ turn.keyword[kb] # Broken /\ turn'.vector = turn.vector
         /\ turn'.keyword = [turn.keyword EXCEPT ![kb] = leg]
  BY <1>1 DEF Turn
<1>6. SomeBroken' <=> SomeBroken \/ leg = Broken
  <2>1. CASE turn.vector[kb] # Broken /\ turn'.keyword = turn.keyword /\ turn'.vector = [turn.vector EXCEPT ![kb] = leg]
    BY <1>2, <2>1 DEF SomeBroken
  <2>2. CASE turn.keyword[kb] # Broken /\ turn'.vector = turn.vector /\ turn'.keyword = [turn.keyword EXCEPT ![kb] = leg]
    BY <1>2, <2>2 DEF SomeBroken
  <2>3. QED
    BY <1>5, <2>1, <2>2
<1>7. Shapes'
  BY <1>3 DEF RetrievalInv, Shapes
<1>8. FailuresShow'
  BY <1>4, <1>6 DEF RetrievalInv, FailuresShow
<1>9. NothingSaidYet' /\ ToldFromHits'
  BY <1>4 DEF RetrievalInv, NothingSaidYet, ToldFromHits
<1>10. QED
  BY <1>7, <1>8, <1>9 DEF RetrievalInv

LEMMA FoundLists ==
    ASSUME store \in [KBs -> SUBSET Docs], NEW kb \in KBs, NEW found \in Orders(store[kb]),
           NEW score \in [DOMAIN found -> Int]
    PROVE  [i \in DOMAIN found |-> Hit(found[i], score[i])] \in Seq(Found)
<1>1. PICK m \in 0 .. Limit : found \in [1 .. m -> store[kb]]
  BY DEF Orders, BoundedSeq, SeqOf
<1>2. m \in Nat /\ DOMAIN found = 1 .. m /\ \A i \in 1 .. m : found[i] \in Docs
  BY <1>1 DEF Limit
<1>3. \A i \in 1 .. m : Hit(found[i], score[i]) \in Found
  BY <1>2 DEF Hit, Found
<1>4. QED
  BY <1>2, <1>3

LEMMA QueryHolds == ASSUME RetrievalInv, NEW kb \in KBs, Query(kb) PROVE RetrievalInv'
<1>1. PICK found \in Orders(store[kb]) :
         turn' = [turn EXCEPT !.vector[kb] = [state |-> "found", hits |-> [i \in DOMAIN found |-> Hit(found[i], Limit - i)]]]
  BY DEF Query
<1> DEFINE score == [i \in DOMAIN found |-> Limit - i]
           hits == [i \in DOMAIN found |-> Hit(found[i], Limit - i)]
           leg == [state |-> "found", hits |-> hits]
<1>2. hits \in Seq(Found)
  <2>1. store \in [KBs -> SUBSET Docs]
    BY DEF RetrievalInv, Shapes
  <2>2. DOMAIN found \subseteq Int
    BY DEF Orders, BoundedSeq, SeqOf
  <2>3. Limit \in Int
    BY SizesAssumption DEF Limit
  <2>4. score \in [DOMAIN found -> Int] /\ \A i \in DOMAIN found : score[i] = Limit - i
    BY <2>2, <2>3
  <2>5. [i \in DOMAIN found |-> Hit(found[i], score[i])] \in Seq(Found)
    BY <2>1, <2>4, FoundLists
  <2>6. hits = [i \in DOMAIN found |-> Hit(found[i], score[i])]
    BY <2>4
  <2>7. QED
    BY <2>5, <2>6
<1> HIDE DEF hits
<1>3. leg \in Leg /\ leg # Broken
  BY <1>2, LegsAre
<1>4. turn' = [turn EXCEPT !.vector[kb] = leg]
  BY <1>1 DEF hits
<1>5. turn.failed \in BOOLEAN /\ turn \in Turn
  BY DEF RetrievalInv, Shapes, Turn
<1>6. turn' = [turn EXCEPT !.vector[kb] = leg, !.failed = turn.failed]
  BY <1>4, <1>5 DEF Turn
<1>7. turn.vector[kb] # Broken /\ turn.pc = "search" /\ UNCHANGED <<store, edits>>
  BY LegsAre DEF Query
<1> HIDE DEF leg
<1>8. QED
  BY <1>3, <1>5, <1>6, <1>7, SearchMoves

LEMMA FetchHolds == ASSUME RetrievalInv, NEW kb \in KBs, Fetch(kb) PROVE RetrievalInv'
<1> DEFINE old == turn.vector[kb].hits
           I == {i \in DOMAIN old : old[i].doc \in store[kb]}
           leg == Answer(Kept(old, I))
<1>1. turn \in Turn /\ turn.failed \in BOOLEAN /\ turn.vector \in [KBs -> Leg]
  BY DEF RetrievalInv, Shapes, Turn
<1>2. old \in Seq(Found)
  BY <1>1 DEF Leg
<1>3. turn' = [turn EXCEPT !.vector[kb] = leg]
  BY <1>1 DEF Fetch, Turn
<1>4. I \in SUBSET (DOMAIN old)
  OBVIOUS
<1> HIDE DEF I, old
<1>5. Kept(old, I) \in Seq(Found)
  BY <1>2, <1>4, KeptFollows
<1>6. leg \in Leg /\ leg # Broken
  BY <1>5, LegsAre
<1> HIDE DEF leg
<1>7. turn' = [turn EXCEPT !.vector[kb] = leg, !.failed = turn.failed]
  BY <1>1, <1>3 DEF Turn
<1>8. turn.vector[kb] # Broken /\ turn.pc = "search" /\ UNCHANGED <<store, edits>>
  BY LegsAre DEF Fetch
<1>9. QED
  BY <1>1, <1>6, <1>7, <1>8, SearchMoves

LEMMA MatchHolds == ASSUME RetrievalInv, NEW kb \in KBs, Match(kb) PROVE RetrievalInv'
<1>1. PICK found \in Orders(store[kb]) : \E rank \in [DOMAIN found -> 1 .. MaxMatch] :
         turn' = [turn EXCEPT !.keyword[kb] = Answer([i \in DOMAIN found |-> Hit(found[i], rank[i])])]
  BY DEF Match
<1>2. PICK rank \in [DOMAIN found -> 1 .. MaxMatch] :
         turn' = [turn EXCEPT !.keyword[kb] = Answer([i \in DOMAIN found |-> Hit(found[i], rank[i])])]
  BY <1>1
<1> DEFINE hits == [i \in DOMAIN found |-> Hit(found[i], rank[i])]
           leg == Answer(hits)
<1>3. hits \in Seq(Found)
  <2>1. store \in [KBs -> SUBSET Docs]
    BY DEF RetrievalInv, Shapes
  <2>2. rank \in [DOMAIN found -> Int]
    OBVIOUS
  <2>3. QED
    BY <2>1, <2>2, FoundLists
<1>4. turn' = [turn EXCEPT !.keyword[kb] = leg]
  BY <1>2
<1> HIDE DEF hits
<1>5. leg \in Leg /\ leg # Broken
  BY <1>3, LegsAre
<1> HIDE DEF leg
<1>6. turn.failed \in BOOLEAN /\ turn \in Turn
  BY DEF RetrievalInv, Shapes, Turn
<1>7. turn' = [turn EXCEPT !.keyword[kb] = leg, !.failed = turn.failed]
  BY <1>4, <1>6 DEF Turn
<1>8. turn.keyword[kb] # Broken /\ turn.pc = "search" /\ UNCHANGED <<store, edits>>
  BY LegsAre DEF Match
<1>9. QED
  BY <1>5, <1>6, <1>7, <1>8, SearchMoves

LEMMA FailureHolds ==
    ASSUME RetrievalInv, NEW kb \in KBs, SearchFails(kb) \/ MatchFails(kb)
    PROVE  RetrievalInv'
<1>1. Broken \in Leg /\ TRUE \in BOOLEAN
  BY LegsAre
<1>2. turn.pc = "search" /\ UNCHANGED <<store, edits>>
  BY DEF SearchFails, MatchFails
<1>3. \/ turn.vector[kb] # Broken /\ turn' = [turn EXCEPT !.vector[kb] = Broken, !.failed = TRUE]
      \/ turn.keyword[kb] # Broken /\ turn' = [turn EXCEPT !.keyword[kb] = Broken, !.failed = TRUE]
  BY LegsAre DEF SearchFails, MatchFails
<1>4. QED
  BY <1>1, <1>2, <1>3, SearchMoves

LEMMA EmbedHolds == ASSUME RetrievalInv, Embed PROVE RetrievalInv'
<1>1. turn \in Turn /\ turn.pc = "embed"
  BY DEF RetrievalInv, Shapes, Embed
<1>2. \/ turn' = [turn EXCEPT !.pc = "raised", !.failed = TRUE]
      \/ turn' = [turn EXCEPT !.pc = "search"]
  BY DEF Embed
<1>3. turn' \in Turn
  BY <1>1, <1>2 DEF Turn
<1>4. /\ turn'.told = turn.told /\ turn'.chunks = turn.chunks /\ turn'.messages = turn.messages
      /\ turn'.vector = turn.vector /\ turn'.keyword = turn.keyword
      /\ (turn'.pc = "raised" /\ turn'.failed) \/ (turn'.pc = "search" /\ turn'.failed = turn.failed)
  BY <1>1, <1>2 DEF Turn
<1>5. SomeBroken' <=> SomeBroken
  BY <1>4 DEF SomeBroken
<1>6. UNCHANGED <<store, edits>>
  BY DEF Embed
<1>7. Shapes'
  BY <1>3, <1>6 DEF RetrievalInv, Shapes
<1>8. FailuresShow'
  BY <1>1, <1>4, <1>5 DEF RetrievalInv, FailuresShow
<1>9. NothingSaidYet' /\ ToldFromHits'
  BY <1>1, <1>4 DEF RetrievalInv, NothingSaidYet, ToldFromHits
<1>10. QED
  BY <1>7, <1>8, <1>9 DEF RetrievalInv

\* Something is told: what it says, and that nothing else changes.
LEMMA SayIs ==
    ASSUME turn \in Turn, NEW told \in {"unavailable", "nothing", "chunks"}, NEW chunks \in Seq(Rated),
           NEW messages \in {BuildMessages(turn.context), <<>>}, Say(told, messages, chunks)
    PROVE  /\ turn' \in Turn
           /\ turn'.pc = "told" /\ turn'.told = told /\ turn'.chunks = chunks /\ turn'.messages = messages
           /\ turn'.context = turn.context /\ turn'.failed = turn.failed
           /\ turn'.vector = turn.vector /\ turn'.keyword = turn.keyword
<1>1. messages \in {<<>>} \cup {BuildMessages(context) : context \in Contexts}
  BY DEF Turn
<1>2. turn' = [turn EXCEPT !.pc = "told", !.told = told, !.messages = messages, !.chunks = chunks]
  BY DEF Say
<1>3. turn' \in Turn
  BY <1>1, <1>2 DEF Turn
<1>4. QED
  BY <1>2, <1>3 DEF Turn

LEMMA UnavailableHolds == ASSUME RetrievalInv, TellUnavailable PROVE RetrievalInv'
<1>1. turn \in Turn /\ UNCHANGED <<store, edits>>
  BY DEF RetrievalInv, Shapes, TellUnavailable
<1>2. PICK messages \in {BuildMessages(turn.context), <<>>} : Say("unavailable", messages, <<>>)
  BY DEF TellUnavailable
<1>3. /\ turn' \in Turn
      /\ turn'.pc = "told" /\ turn'.told = "unavailable" /\ turn'.chunks = <<>> /\ turn'.messages = messages
      /\ turn'.context = turn.context /\ turn'.failed = turn.failed
      /\ turn'.vector = turn.vector /\ turn'.keyword = turn.keyword
  <2>1. <<>> \in Seq(Rated)
    OBVIOUS
  <2>2. QED
    BY <1>1, <1>2, <2>1, SayIs
<1>4. turn.failed
  <2>1. CASE turn.pc = "raised"
    BY <2>1 DEF RetrievalInv, FailuresShow
  <2>2. CASE Broken \in Legs
    <3>1. SomeBroken
      BY <2>2 DEF Legs, SomeBroken
    <3>2. QED
      BY <3>1 DEF RetrievalInv, FailuresShow
  <2>3. QED
    BY <2>1, <2>2 DEF TellUnavailable
<1>5. Shapes'
  BY <1>1, <1>3 DEF RetrievalInv, Shapes
<1>6. FailuresShow'
  BY <1>3, <1>4 DEF FailuresShow
<1>7. NothingSaidYet' /\ ToldFromHits'
  BY <1>2, <1>3, <1>4 DEF NothingSaidYet, ToldFromHits
<1>8. QED
  BY <1>5, <1>6, <1>7 DEF RetrievalInv

LEMMA KnowledgeHolds == ASSUME RetrievalInv, TellKnowledge PROVE RetrievalInv'
<1> DEFINE hits == Retrieve(Hits(turn.vector), Hits(turn.keyword))
           short == Format(Relevant(hits))
<1>1. turn \in Turn /\ turn.pc = "search" /\ Shapes /\ UNCHANGED <<store, edits>>
  BY DEF RetrievalInv, Shapes, TellKnowledge
<1>2. Tell(BuildMessages(turn.context), short) \/ Tell(<<>>, hits)
  BY DEF TellKnowledge
<1>3. hits \in Seq(Rated) /\ short \in Seq(Rated)
  BY <1>1, ToldFacts DEF BestOf
<1>4. ~turn.failed
  <2>1. \A leg \in Legs : leg # Broken
    BY LegsAre DEF TellKnowledge
  <2>2. ~SomeBroken
    BY <2>1 DEF Legs, SomeBroken
  <2>3. QED
    BY <1>1, <2>2 DEF RetrievalInv, FailuresShow
<1>5. PICK chunks \in {hits, short}, messages \in {BuildMessages(turn.context), <<>>} : Tell(messages, chunks)
  BY <1>2
<1> DEFINE told == IF chunks = <<>> THEN "nothing" ELSE "chunks"
<1>6. chunks \in Seq(Rated)
  BY <1>3
<1>7. Say(told, messages, chunks) /\ told \in {"unavailable", "nothing", "chunks"}
  BY <1>5 DEF Tell
<1>8. /\ turn' \in Turn
      /\ turn'.pc = "told" /\ turn'.told = told /\ turn'.chunks = chunks /\ turn'.messages = messages
      /\ turn'.context = turn.context /\ turn'.failed = turn.failed
      /\ turn'.vector = turn.vector /\ turn'.keyword = turn.keyword
  <2> HIDE DEF told
  <2>1. QED
    BY <1>1, <1>6, <1>7, SayIs
<1>9. Shapes'
  BY <1>1, <1>8 DEF Shapes
<1>10. SomeBroken' <=> SomeBroken
  BY <1>8 DEF SomeBroken
<1>11. FailuresShow'
  BY <1>1, <1>4, <1>8, <1>10 DEF RetrievalInv, FailuresShow
<1>12. NothingSaidYet'
  BY <1>8 DEF NothingSaidYet
<1>13. ToldFromHits'
  <2>1. Hits(turn'.vector) = Hits(turn.vector) /\ Hits(turn'.keyword) = Hits(turn.keyword)
    BY <1>8
  <2>2. turn'.chunks \in {hits, short}
    BY <1>8
  <2>3. LET found == Retrieve(Hits(turn'.vector), Hits(turn'.keyword))
        IN turn'.chunks \in {found, Format(Relevant(found))}
    BY <2>1, <2>2, Zenon
  <2>4. turn'.messages \in {<<>>, BuildMessages(turn'.context)}
    BY <1>8
  <2>5. ~turn'.failed /\ turn'.told = IF turn'.chunks = <<>> THEN "nothing" ELSE "chunks"
    BY <1>4, <1>8
  <2>6. QED
    BY <2>3, <2>4, <2>5, Zenon DEF ToldFromHits
<1>14. QED
  BY <1>9, <1>11, <1>12, <1>13 DEF RetrievalInv

LEMMA IngestHolds == ASSUME RetrievalInv, Ingest PROVE RetrievalInv'
<1>1. store' \in [KBs -> SUBSET Docs]
  BY DEF RetrievalInv, Shapes, Ingest
<1>2. edits' \in 0 .. MaxEdits
  BY SizesAssumption DEF RetrievalInv, Shapes, Ingest
<1>3. turn' = turn
  BY DEF Ingest
<1>4. Shapes'
  BY <1>1, <1>2, <1>3 DEF RetrievalInv, Shapes
<1>5. QED
  BY <1>3, <1>4 DEF RetrievalInv, FailuresShow, SomeBroken, NothingSaidYet, ToldFromHits

\* Whatever the searches find, fail at or miss while the store changes, a
\* retrieval keeps to the invariant.
THEOREM RetrievalInvariant == Spec => []RetrievalInv
<1>1. RetrievalInv /\ [Next]_vars => RetrievalInv'
  <2> SUFFICES ASSUME RetrievalInv, [Next]_vars PROVE RetrievalInv'
    OBVIOUS
  <2>1. CASE Embed
    BY <2>1, EmbedHolds
  <2>2. CASE TellUnavailable
    BY <2>2, UnavailableHolds
  <2>3. CASE TellKnowledge
    BY <2>3, KnowledgeHolds
  <2>4. CASE Ingest
    BY <2>4, IngestHolds
  <2>5. ASSUME NEW kb \in KBs, Query(kb) \/ Fetch(kb) \/ Match(kb) \/ SearchFails(kb) \/ MatchFails(kb)
        PROVE  RetrievalInv'
    BY <2>5, QueryHolds, FetchHolds, MatchHolds, FailureHolds
  <2>6. CASE UNCHANGED vars
    BY <2>6 DEF vars, RetrievalInv, Shapes, FailuresShow, SomeBroken, NothingSaidYet, ToldFromHits
  <2>7. QED
    BY <2>1, <2>2, <2>3, <2>4, <2>5, <2>6 DEF Next
<1>2. QED
  BY InitHolds, <1>1, PTL DEF Spec

\* The state keeps its type: what is told are chunks, and no more than top_k.
THEOREM RetrievalTypeCorrect == Spec => []TypeOK
<1>1. ASSUME RetrievalInv PROVE TypeOK
  <2>1. turn \in Turn /\ Shapes
    BY <1>1 DEF RetrievalInv, Shapes
  <2>2. turn.chunks \in Seq(Rated)
    BY <2>1 DEF Turn
  <2>3. DocsOf(turn.chunks) \subseteq Docs
    <3>1. \A i \in DOMAIN turn.chunks : turn.chunks[i] \in Rated
      BY <2>2
    <3>2. QED
      BY <3>1 DEF DocsOf, Rated
  <2>4. Len(turn.chunks) <= TopK
    <3>1. turn.chunks = <<>> => Len(turn.chunks) = 0
      OBVIOUS
    <3>2. TopK \in Nat
      BY SizesAssumption
    <3>3. ASSUME turn.chunks # <<>> PROVE Len(turn.chunks) <= TopK
      BY <1>1, <2>1, <3>3, ToldFacts DEF RetrievalInv, NothingSaidYet, ToldFromHits
    <3>4. QED
      BY <3>1, <3>2, <3>3
  <2>5. QED
    BY <1>1, <2>1, <2>3, <2>4 DEF RetrievalInv, Shapes, TypeOK, Turn
<1>2. QED
  BY <1>1, RetrievalInvariant, PTL

\* "No relevant knowledge" is said only of searches that all came back, and came
\* back empty; and the model is given the newest turns, in order.
THEOREM OnlyKnownIsTold == Spec => []SaysWhatItKnows
<1>1. ASSUME RetrievalInv PROVE SaysWhatItKnows
  <2>1. turn \in Turn /\ Shapes
    BY <1>1 DEF RetrievalInv, Shapes
  <2>2. turn.told \in {"nothing", "chunks"} => ~turn.failed
    BY <1>1, <2>1 DEF RetrievalInv, NothingSaidYet, ToldFromHits, Turn
  <2>3. ASSUME turn.told = "nothing" PROVE \A leg \in Legs : leg.hits = <<>>
    <3>1. turn.pc = "told" /\ turn.chunks = <<>>
      BY <1>1, <2>3 DEF RetrievalInv, NothingSaidYet, ToldFromHits
    <3>2. LET hits == Retrieve(Hits(turn.vector), Hits(turn.keyword))
          IN turn.chunks \in {hits, Format(Relevant(hits))}
      BY <1>1, <2>3, <3>1 DEF RetrievalInv, ToldFromHits
    <3>3. QED
      BY <2>1, <3>1, <3>2, ToldFacts
  <2>4. turn.told = "unavailable" => turn.failed
    BY <1>1 DEF RetrievalInv, NothingSaidYet, ToldFromHits
  <2>5. ASSUME turn.messages # <<>> PROVE NewestTurns
    <3>1. turn.messages = BuildMessages(turn.context)
      BY <1>1, <2>5 DEF RetrievalInv, NothingSaidYet, ToldFromHits
    <3>2. turn.context \in Contexts
      BY <2>1 DEF Turn
    <3>3. QED
      BY <3>1, <3>2, MessagesEndNewest
  <2>6. QED
    BY <2>2, <2>3, <2>4, <2>5 DEF SaysWhatItKnows
<1>2. QED
  BY <1>1, RetrievalInvariant, PTL

\* However many bases, chunks and ties: no chunk that both searches rank higher is
\* passed over for a lower one, and what is told is told best first, no text twice.
THEOREM TheBestIsTold == Spec => []BestTold
<1>1. ASSUME RetrievalInv PROVE BestTold
  <2> SUFFICES ASSUME turn.told = "chunks" PROVE BestTold
    BY DEF BestTold
  <2> DEFINE v == Hits(turn.vector)
             k == Hits(turn.keyword)
             t == turn.chunks
  <2>1. Shapes
    BY <1>1 DEF RetrievalInv
  <2>2. LET hits == Retrieve(Hits(turn.vector), Hits(turn.keyword))
        IN turn.chunks \in {hits, Format(Relevant(hits))}
    BY <1>1 DEF RetrievalInv, NothingSaidYet, ToldFromHits
  <2>3. BestOf(t, v, k) /\ NoCopies(t)
    BY <2>1, <2>2, ToldFacts
  <2> HIDE DEF v, k, t
  <2>4. t \in Seq(Rated) /\ Len(t) \in Nat /\ DOMAIN t = 1 .. Len(t)
    BY <2>3 DEF BestOf
  <2>5. ASSUME NEW d \in DocsOf(v) \cup DocsOf(k), NEW e \in DocsOf(t), Above(v, k, d, e)
        PROVE  Content[d] \in {Content[x] : x \in DocsOf(t)}
    <3>1. PICK i \in 1 .. Len(t) : e = t[i].doc
      BY <2>4 DEF DocsOf
    <3>2. PICK j \in 1 .. Len(t) : Content[t[j].doc] = Content[d]
      BY <2>3, <2>5, <3>1 DEF BestOf
    <3>3. t[j].doc \in DocsOf(t)
      BY <2>4, <3>2 DEF DocsOf
    <3>4. QED
      BY <3>2, <3>3
  <2>6. ASSUME NEW i \in DOMAIN t, NEW j \in DOMAIN t, i < j
        PROVE  t[i].score >= t[j].score /\ Content[t[i].doc] # Content[t[j].doc]
    <3>1. t[i] \in Rated /\ t[j] \in Rated
      BY <2>4
    <3>2. t[i].score \in Nat /\ t[j].score \in Nat
      BY <3>1 DEF Rated
    <3>3. t[j].score <= t[i].score
      BY <2>3, <2>4, <2>6 DEF BestOf
    <3>4. Content[t[i].doc] # Content[t[j].doc]
      BY <2>3, <2>4, <2>6 DEF NoCopies
    <3>5. QED
      BY <3>2, <3>3, <3>4
  <2>7. QED
    BY <2>5, <2>6, Zenon DEF BestTold, v, k, t
<1>2. QED
  BY <1>1, RetrievalInvariant, PTL

=============================================================================
