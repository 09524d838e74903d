------------------------- MODULE HistoryReadsProofs -------------------------
(***************************************************************************)
(* History for any entities, devices, windows and row limits, against a    *)
(* recorder that commits, compiles and purges at any time.                 *)
(*                                                                         *)
(* First what the answer is built with: rows put in the order of time      *)
(* (InOrderMeans) and lists laid end to end (FlattenMeans).  Then what is  *)
(* known between the three jobs, by induction over the steps: what was     *)
(* read is recorded (ReadIsRecorded), and nothing owed was overlooked      *)
(* (StatesComplete); the answer inherits both when it is put together.     *)
(***************************************************************************)
EXTENDS HistoryReads, SequenceTheorems, FiniteSetTheorems, WellFoundedInduction, TLAPS

-----------------------------------------------------------------------------
(* Numbers.                                                                 *)

\* Every non-empty set of numbers has a least one.
LEMMA LeastNumber ==
    ASSUME NEW S \in SUBSET Nat, S # {}
    PROVE  \E x \in S : \A y \in S : x <= y
<1> DEFINE R == OpToRel(<, Nat)
<1>1. IsWellFoundedOn(R, Nat)
  BY NatLessThanWellFounded
<1>2. ASSUME NEW x \in Nat, NEW y \in Nat, x < y PROVE <<x, y>> \in R
  BY <1>2 DEF OpToRel
<1>. HIDE DEF R
<1>3. PICK x \in S : \A y \in S : ~(<<y, x>> \in R)
  BY <1>1, WFMin
<1>4. \A y \in S : ~(y < x)
  BY <1>2, <1>3
<1>5. \A y \in S : x <= y
  BY <1>4
<1>. QED  BY <1>5

\* What holds of 0, and of every number whenever it holds of the one before, holds up
\* to any number.
LEMMA OneByOne ==
    ASSUME NEW S, NEW n \in Nat, 0 \in S, \A k \in 1..n : k - 1 \in S => k \in S
    PROVE  n \in S
<1> DEFINE Bad == {k \in 0..n : k \notin S}
<1>1. SUFFICES ASSUME Bad # {} PROVE FALSE
  OBVIOUS
<1>2. PICK k \in Bad : \A m \in Bad : k <= m
  <2>1. Bad \in SUBSET Nat
    OBVIOUS
  <2>. HIDE DEF Bad
  <2>. QED  BY <1>1, <2>1, LeastNumber
<1>3. k \in 1..n /\ k - 1 \in 0..n /\ ~(k <= k - 1)
  OBVIOUS
<1>4. k - 1 \in S
  BY <1>2, <1>3
<1>. QED  BY <1>3, <1>4

\* Of a set of times one is the earliest, and another the last.
LEMMA LastTime ==
    ASSUME NEW S \in SUBSET Time, S # {}
    PROVE  \E t \in S : \A u \in S : u <= t
<1> DEFINE A == {MaxTime - t : t \in S}
<1>1. MaxTime \in Nat /\ \A t \in S : t \in Int /\ t <= MaxTime
  BY HistoryAssumption DEF Time
<1>2. A \in SUBSET Nat /\ A # {}
  BY <1>1
<1>3. PICK x \in A : \A y \in A : x <= y
  <2>. HIDE DEF A
  <2>. QED  BY <1>2, LeastNumber
<1>4. PICK t \in S : x = MaxTime - t
  OBVIOUS
<1>5. \A u \in S : MaxTime - t <= MaxTime - u
  BY <1>3, <1>4
<1>6. \A u \in S : u <= t
  BY <1>1, <1>5
<1>. QED  BY <1>6

\* A statistics row begins with the hour its time is in.
LEMMA HourMeans ==
    ASSUME NEW t \in Nat
    PROVE  \E h \in Nat : /\ HourOf(t) = h * HourLength
                          /\ h * HourLength <= t /\ t < (h + 1) * HourLength
<1>1. HourLength \in Nat \ {0}
  BY HistoryAssumption
<1>2. PICK q \in Int : q = t \div HourLength
  BY <1>1
<1>3. q * HourLength <= t /\ t < (q + 1) * HourLength
  BY <1>1, <1>2
<1>4. q \in Nat
  BY <1>1, <1>3
<1>. QED  BY <1>2, <1>3, <1>4 DEF HourOf

\* ... and hours compiled are those that ended before some time.
LEMMA HourBefore ==
    ASSUME NEW h \in Nat, NEW c \in Nat, h * HourLength < c * HourLength
    PROVE  h < c
<1>1. HourLength \in Nat \ {0}
  BY HistoryAssumption
<1>2. c <= h => c * HourLength <= h * HourLength
  BY <1>1
<1>3. h * HourLength \in Nat /\ c * HourLength \in Nat
  BY <1>1
<1>. QED  BY <1>2, <1>3

-----------------------------------------------------------------------------
(* Rows in the order of time.                                               *)

\* Rows that can be put in order: no two of one time.
Distinct(rows) == \A p, q \in rows : p.at = q.at => p = q

\* s lists some rows in the order of time.
Listing(s, rows) ==
    /\ s \in [1..Cardinality(rows) -> rows]
    /\ \A i, j \in DOMAIN s : i < j => s[i].at < s[j].at

LEMMA DistinctFinite ==
    ASSUME NEW rows \in SUBSET Row, Distinct(rows)
    PROVE  IsFiniteSet(rows) /\ Cardinality(rows) \in Nat
<1> DEFINE f == [r \in rows |-> r.at]
<1>1. \A r \in rows : r.at \in Time
  BY DEF Row
<1>2. f \in Injection(rows, Time)
  BY <1>1 DEF Injection, IsInjective, Distinct
<1>3. IsFiniteSet(Time)
  BY HistoryAssumption, FS_Interval DEF Time
<1>. HIDE DEF f
<1>4. IsFiniteSet(rows)
  BY <1>2, <1>3, FS_Injection
<1>. QED  BY <1>4, FS_CardinalityType

\* There is an order of them.
LEMMA ListExists ==
    ASSUME NEW rows \in SUBSET Row, Distinct(rows)
    PROVE  \E s : Listing(s, rows)
<1> DEFINE Good == {n \in Nat : \A R \in SUBSET Row :
                       Distinct(R) /\ Cardinality(R) = n => \E s : Listing(s, R)}
<1>1. 0 \in Good
  <2>1. ASSUME NEW R \in SUBSET Row, Distinct(R), Cardinality(R) = 0 PROVE \E s : Listing(s, R)
    <3>1. R = {}
      BY <2>1, DistinctFinite, FS_EmptySet
    <3>2. 1..0 = {}
      OBVIOUS
    <3>3. Listing([i \in {} |-> i], R)
      BY <2>1, <3>1, <3>2 DEF Listing
    <3>. QED  BY <3>3
  <2>. QED  BY <2>1
<1>2. ASSUME NEW n \in Nat \ {0}, n - 1 \in Good PROVE n \in Good
  <2>1. ASSUME NEW R \in SUBSET Row, Distinct(R), Cardinality(R) = n PROVE \E s : Listing(s, R)
    <3> DEFINE T == {r.at : r \in R}
    <3>1. IsFiniteSet(R) /\ R # {}
      BY <2>1, DistinctFinite, FS_EmptySet
    <3>2. PICK t \in T : \A u \in T : u <= t
      <4>1. T \in SUBSET Time /\ T # {}
        BY <3>1 DEF Row
      <4>. HIDE DEF T
      <4>. QED  BY <4>1, LastTime
    <3>3. PICK last \in R : \A r \in R : r.at <= last.at
      BY <3>2
    <3> DEFINE Q == R \ {last}
    <3>4. Cardinality(Q) = n - 1 /\ n - 1 \in Nat
      <4>1. Cardinality(Q) = Cardinality(R) - 1
        BY <3>1, FS_RemoveElement
      <4>. QED  BY <2>1, <4>1
    <3>5. Q \in SUBSET Row /\ Distinct(Q)
      BY <2>1 DEF Distinct
    <3>6. \A r \in Q : r.at < last.at
      <4>1. \A r \in R : r.at \in Int
        BY HistoryAssumption DEF Row, Time
      <4>2. \A r \in Q : r \in R /\ r.at # last.at
        BY <2>1 DEF Distinct
      <4>. QED  BY <3>3, <4>1, <4>2
    <3>7. PICK s : Listing(s, Q)
      BY <1>2, <3>4, <3>5
    <3>8. s \in [1..(n - 1) -> Q] /\ \A i, j \in 1..(n - 1) : i < j => s[i].at < s[j].at
      BY <3>4, <3>7 DEF Listing
    <3> DEFINE l == [i \in 1..n |-> IF i = n THEN last ELSE s[i]]
    <3>9. \A i \in 1..n : i = n \/ i \in 1..(n - 1)
      OBVIOUS
    <3>10. l \in [1..n -> R]
      BY <3>8, <3>9
    <3>11. ASSUME NEW i \in 1..n, NEW j \in 1..n, i < j PROVE l[i].at < l[j].at
      <4>1. i # n /\ i \in 1..(n - 1)
        BY <3>11
      <4>2. l[i] = s[i] /\ s[i] \in Q
        BY <3>8, <4>1
      <4>3. CASE j = n
        BY <3>6, <4>2, <4>3
      <4>4. CASE j # n
        <5>1. j \in 1..(n - 1) /\ l[j] = s[j]
          BY <4>4
        <5>. QED  BY <3>8, <3>11, <4>1, <4>2, <5>1
      <4>. QED  BY <4>3, <4>4
    <3>. HIDE DEF l
    <3>12. Listing(l, R)
      BY <2>1, <3>10, <3>11 DEF Listing
    <3>. QED  BY <3>12
  <2>. QED  BY <2>1
<1>3. Cardinality(rows) \in Good
  <2>1. \A k \in 1..Cardinality(rows) : k - 1 \in Good => k \in Good
    <3>. HIDE DEF Good
    <3>. QED  BY <1>2
  <2>. HIDE DEF Good
  <2>. QED  BY <1>1, <2>1, DistinctFinite, OneByOne
<1>. QED  BY <1>3

\* What InOrder returns: the rows, all of them, and the earlier ones first.
LEMMA InOrderMeans ==
    ASSUME NEW rows \in SUBSET Row, Distinct(rows)
    PROVE  /\ InOrder(rows) \in Seq(rows) /\ InOrder(rows) \in Seq(Row)
           /\ \A i, j \in DOMAIN InOrder(rows) : i < j => InOrder(rows)[i].at < InOrder(rows)[j].at
           /\ \A r \in rows : \E i \in DOMAIN InOrder(rows) : InOrder(rows)[i] = r
<1> DEFINE s == InOrder(rows)
           n == Cardinality(rows)
<1>1. Listing(s, rows)
  BY ListExists DEF Listing, InOrder
<1>2. n \in Nat /\ IsFiniteSet(rows)
  BY DistinctFinite
<1>. HIDE DEF s
<1>3. s \in [1..n -> rows] /\ DOMAIN s = 1..n
  BY <1>1 DEF Listing
<1>4. \A i \in 1..n : s[i] \in Row /\ s[i].at \in Int
  BY <1>3, HistoryAssumption DEF Row, Time
<1>5. ASSUME NEW i \in 1..n, NEW j \in 1..n, s[i] = s[j] PROVE i = j
  <2>1. i < j => s[i].at < s[j].at
    BY <1>1, <1>3 DEF Listing
  <2>2. j < i => s[j].at < s[i].at
    BY <1>1, <1>3 DEF Listing
  <2>. HIDE DEF n
  <2>. QED  BY <1>2, <1>4, <1>5, <2>1, <2>2
<1>6. s \in Injection(1..n, rows)
  BY <1>3, <1>5 DEF Injection, IsInjective
<1>7. Cardinality(1..n) = n
  BY <1>2, FS_Interval
<1>8. s \in Surjection(1..n, rows)
  <2>. HIDE DEF n
  <2>. QED  BY <1>2, <1>6, <1>7, FS_Injection DEF n
<1>9. \A r \in rows : \E i \in 1..n : s[i] = r
  BY <1>8 DEF Surjection
<1>10. s \in Seq(rows)
  BY <1>2, <1>3
<1>11. s \in Seq(Row)
  BY <1>10, SeqMonotonic
<1>. QED  BY <1>1, <1>3, <1>9, <1>10, <1>11 DEF s, Listing

-----------------------------------------------------------------------------
(* Lists laid end to end.                                                   *)

\* FlattenSeq goes from list to list.
LEMMA FlattenUnfolds ==
    ASSUME NEW S, NEW lists \in Seq(Seq(S)), lists # <<>>
    PROVE  \E f : /\ FlattenSeq(lists) = f[Len(lists)]
                  /\ \A i \in 1..Len(lists) :
                        f[i] = IF i = 1 THEN lists[i] ELSE f[i - 1] \o lists[i]
<1> DEFINE n == Len(lists)
           After(f, i) == IF i = 1 THEN lists[i] ELSE f[i - 1] \o lists[i]
           Good(k, f) == f = [i \in 1..k |-> After(f, i)]
           S1 == {k \in Nat : \E f : Good(k, f)}
<1>1. n \in Nat \ {0} /\ DOMAIN lists = 1..n
  BY EmptySeq, LenProperties
<1>2. 0 \in S1
  <2>1. Good(0, [i \in 1..0 |-> i])
    OBVIOUS
  <2>. QED  BY <2>1
<1>3. ASSUME NEW k \in 1..n, k - 1 \in S1 PROVE k \in S1
  <2>1. PICK g : Good(k - 1, g)
    BY <1>3
  <2> DEFINE f == [i \in 1..k |-> IF i < k THEN g[i] ELSE After(g, i)]
  <2>2. ASSUME NEW i \in 1..k PROVE f[i] = After(f, i)
    <3>1. i # 1 => i - 1 \in 1..k /\ i - 1 < k /\ i - 1 \in 1..(k - 1)
      OBVIOUS
    <3>2. i # 1 => f[i - 1] = g[i - 1]
      BY <3>1
    <3>3. i < k => g[i] = After(g, i)
      <4>1. i < k => i \in 1..(k - 1)
        OBVIOUS
      <4>. HIDE DEF After
      <4>. QED  BY <2>1, <4>1
    <3>4. i >= k => i = k
      OBVIOUS
    <3>5. f[i] = After(g, i)
      BY <3>3, <3>4
    <3>. HIDE DEF f
    <3>. QED  BY <3>2, <3>5
  <2>3. f = [i \in 1..k |-> f[i]]
    OBVIOUS
  <2>. HIDE DEF f
  <2>4. Good(k, f)
    <3>. HIDE DEF After
    <3>. QED  BY <2>2, <2>3
  <2>. HIDE DEF Good
  <2>. QED  BY <2>4
<1>4. n \in S1
  <2>. HIDE DEF S1, n
  <2>. QED  BY <1>1, <1>2, <1>3, OneByOne
<1>5. PICK f0 : Good(n, f0)
  BY <1>4
<1> DEFINE f == CHOOSE f : f = [i \in 1..n |-> After(f, i)]
<1>6. Good(n, f)
  BY <1>5
<1>7. FlattenSeq(lists) = f[n]
  BY <1>1 DEF FlattenSeq
<1>. HIDE DEF f
<1>8. \A i \in 1..n : f[i] = After(f, i)
  <2>. HIDE DEF n, After
  <2>. QED  BY <1>6
<1>. QED  BY <1>7, <1>8

\* The items i and j of F are of two of the first k lists, or one before the other in one.
Follows(F, lists, k, i, j) ==
    \E l1, l2 \in 1..k : \E m1 \in 1..Len(lists[l1]), m2 \in 1..Len(lists[l2]) :
        /\ F[i] = lists[l1][m1] /\ F[j] = lists[l2][m2]
        /\ l1 < l2 \/ (l1 = l2 /\ m1 < m2)

\* F holds the first k lists, one after the other.
LaidOut(F, lists, k) ==
    /\ \A i \in 1..Len(F) : \E l \in 1..k : \E m \in 1..Len(lists[l]) : F[i] = lists[l][m]
    /\ \A l \in 1..k : \A m \in 1..Len(lists[l]) : \E i \in 1..Len(F) : F[i] = lists[l][m]
    /\ \A i, j \in 1..Len(F) : i < j => Follows(F, lists, k, i, j)

LEMMA LayOneMore ==
    ASSUME NEW S, NEW F \in Seq(S), NEW lists, NEW k \in Nat \ {0}, lists[k] \in Seq(S),
           LaidOut(F, lists, k - 1)
    PROVE  F \o lists[k] \in Seq(S) /\ LaidOut(F \o lists[k], lists, k)
<1> DEFINE t == lists[k]
           G == F \o t
           a == Len(F)
           b == Len(t)
<1>1. a \in Nat /\ b \in Nat
  BY LenProperties
<1>2. /\ G \in Seq(S) /\ Len(G) = a + b
      /\ \A i \in 1..(a + b) : G[i] = IF i <= a THEN F[i] ELSE t[i - a]
  BY ConcatProperties
<1>3. \A l \in 1..k : l = k \/ l \in 1..(k - 1)
  OBVIOUS
<1>4. \A l \in 1..(k - 1) : l \in 1..k /\ l < k
  OBVIOUS
<1>5. k \in 1..k
  OBVIOUS
<1>. HIDE DEF G
<1>6. ASSUME NEW i \in 1..(a + b), i <= a
      PROVE  i \in 1..a /\ G[i] = F[i]
  BY <1>1, <1>2, <1>6
<1>7. ASSUME NEW i \in 1..(a + b), ~(i <= a)
      PROVE  i - a \in 1..b /\ G[i] = t[i - a]
  BY <1>1, <1>2, <1>7
<1>8. \A i \in 1..a : i \in 1..(a + b) /\ i <= a
  BY <1>1
<1>9. \A m \in 1..b : m + a \in 1..(a + b) /\ ~(m + a <= a) /\ (m + a) - a = m
  BY <1>1
<1>10. ASSUME NEW i \in 1..(a + b)
       PROVE  \E l \in 1..k : \E m \in 1..Len(lists[l]) : G[i] = lists[l][m]
  <2>1. CASE i <= a
    <3>1. PICK l \in 1..(k - 1) : \E m \in 1..Len(lists[l]) : F[i] = lists[l][m]
      BY <1>6, <2>1 DEF LaidOut
    <3>. QED  BY <1>4, <1>6, <2>1, <3>1
  <2>2. CASE ~(i <= a)
    BY <1>5, <1>7, <2>2
  <2>. QED  BY <2>1, <2>2
<1>11. ASSUME NEW l \in 1..k, NEW m \in 1..Len(lists[l])
       PROVE  \E i \in 1..(a + b) : G[i] = lists[l][m]
  <2>1. CASE l = k
    <3>1. m \in 1..b
      BY <2>1
    <3>2. m + a \in 1..(a + b) /\ G[m + a] = t[m]
      BY <1>7, <1>9, <3>1
    <3>. QED  BY <2>1, <3>2
  <2>2. CASE l # k
    <3>1. PICK i \in 1..a : F[i] = lists[l][m]
      BY <1>3, <2>2 DEF LaidOut
    <3>. QED  BY <1>6, <1>8, <3>1
  <2>. QED  BY <2>1, <2>2
<1>12. ASSUME NEW i \in 1..(a + b), NEW j \in 1..(a + b), i < j
       PROVE  Follows(G, lists, k, i, j)
  <2>1. CASE j <= a
    <3>1. i <= a
      BY <1>1, <1>12, <2>1
    <3>2. i \in 1..Len(F) /\ j \in 1..Len(F)
      BY <1>6, <2>1, <3>1
    <3>3. Follows(F, lists, k - 1, i, j)
      BY <1>12, <3>2 DEF LaidOut
    <3>4. PICK l1 \in 1..(k - 1), l2 \in 1..(k - 1) :
             \E m1 \in 1..Len(lists[l1]), m2 \in 1..Len(lists[l2]) :
                /\ F[i] = lists[l1][m1] /\ F[j] = lists[l2][m2]
                /\ l1 < l2 \/ (l1 = l2 /\ m1 < m2)
      BY <3>3 DEF Follows
    <3>5. PICK m1 \in 1..Len(lists[l1]), m2 \in 1..Len(lists[l2]) :
             /\ F[i] = lists[l1][m1] /\ F[j] = lists[l2][m2]
             /\ l1 < l2 \/ (l1 = l2 /\ m1 < m2)
      BY <3>4
    <3>6. l1 \in 1..k /\ l2 \in 1..k /\ G[i] = lists[l1][m1] /\ G[j] = lists[l2][m2]
      BY <1>4, <1>6, <2>1, <3>1, <3>5
    <3>. QED  BY <3>5, <3>6 DEF Follows
  <2>2. CASE i <= a /\ ~(j <= a)
    <3>1. i \in 1..Len(F)
      BY <1>6, <2>2
    <3>2. PICK l \in 1..(k - 1) : \E m \in 1..Len(lists[l]) : F[i] = lists[l][m]
      BY <3>1 DEF LaidOut
    <3>3. PICK m \in 1..Len(lists[l]) : F[i] = lists[l][m]
      BY <3>2
    <3>4. /\ G[i] = lists[l][m] /\ G[j] = lists[k][j - a]
          /\ l \in 1..k /\ l < k /\ j - a \in 1..Len(lists[k])
      BY <1>4, <1>6, <1>7, <2>2, <3>3
    <3>. QED  BY <1>5, <3>4 DEF Follows
  <2>3. CASE ~(i <= a)
    <3>1. ~(j <= a) /\ i - a < j - a
      BY <1>1, <1>12, <2>3
    <3>2. /\ G[i] = lists[k][i - a] /\ G[j] = lists[k][j - a]
          /\ i - a \in 1..Len(lists[k]) /\ j - a \in 1..Len(lists[k])
      BY <1>7, <2>3, <3>1
    <3>. QED  BY <1>5, <3>1, <3>2 DEF Follows
  <2>. QED  BY <2>1, <2>2, <2>3
<1>13. LaidOut(G, lists, k)
  <2>. HIDE DEF a, b, t
  <2>. QED  BY <1>2, <1>10, <1>11, <1>12 DEF LaidOut
<1>. QED  BY <1>2, <1>13 DEF G

\* What FlattenSeq returns: every list, one after the other.
LEMMA FlattenMeans ==
    ASSUME NEW S, NEW lists \in Seq(Seq(S))
    PROVE  FlattenSeq(lists) \in Seq(S) /\ LaidOut(FlattenSeq(lists), lists, Len(lists))
<1> DEFINE n == Len(lists)
<1>1. n \in Nat /\ DOMAIN lists = 1..n /\ \A i \in 1..n : lists[i] \in Seq(S)
  BY LenProperties, ElementOfSeq
<1>2. <<>> \in Seq(S) /\ LaidOut(<<>>, lists, 0)
  BY EmptySeq DEF LaidOut
<1>3. CASE lists = <<>>
  <2>1. n = 0 /\ FlattenSeq(lists) = <<>>
    BY <1>3 DEF FlattenSeq
  <2>. QED  BY <1>2, <2>1
<1>4. CASE lists # <<>>
  <2>1. PICK f : /\ FlattenSeq(lists) = f[n]
                 /\ \A i \in 1..n : f[i] = IF i = 1 THEN lists[i] ELSE f[i - 1] \o lists[i]
    BY <1>4, FlattenUnfolds
  <2> DEFINE F(k) == IF k = 0 THEN <<>> ELSE f[k]
             Good == {k \in Nat : F(k) \in Seq(S) /\ LaidOut(F(k), lists, k)}
  <2>2. 0 \in Good
    BY <1>2
  <2>3. ASSUME NEW k \in 1..n, k - 1 \in Good PROVE k \in Good
    <3>1. k \in Nat \ {0} /\ lists[k] \in Seq(S) /\ F(k - 1) \in Seq(S)
          /\ LaidOut(F(k - 1), lists, k - 1)
      BY <1>1, <2>3
    <3>2. F(k) = F(k - 1) \o lists[k]
      <4>1. <<>> \o lists[k] = lists[k]
        BY <3>1, ConcatEmptySeq
      <4>2. F(k) = f[k] /\ F(k - 1) = IF k = 1 THEN <<>> ELSE f[k - 1]
        BY <3>1
      <4>3. f[k] = IF k = 1 THEN lists[k] ELSE f[k - 1] \o lists[k]
        BY <2>1
      <4>. HIDE DEF F
      <4>. QED  BY <4>1, <4>2, <4>3
    <3>. HIDE DEF F
    <3>3. F(k) \in Seq(S) /\ LaidOut(F(k), lists, k)
      BY <3>1, <3>2, LayOneMore
    <3>. QED  BY <3>1, <3>3
  <2>4. n \in Good
    <3>. HIDE DEF Good, n
    <3>. QED  BY <1>1, <2>2, <2>3, OneByOne
  <2>5. n # 0
    BY <1>4, EmptySeq
  <2>. QED  BY <2>1, <2>4, <2>5
<1>. QED  BY <1>3, <1>4

-----------------------------------------------------------------------------
(* The invariant.                                                           *)

\* What the request asks for was committed when it came.
AskedOfTheRecorder == req.upTo <= committed

\* A request reads, and answers with, recorded states alone.
ReadIsRecorded ==
    /\ \A e \in Entities : \A r \in req.states[e] : r \in readings[e] /\ r.at < committed
    /\ \A i \in DOMAIN req.rows :
          ~req.rows[i].mean =>
              \E r \in readings[req.rows[i].entity] : r.at = req.rows[i].at /\ r.at < committed

\* The states a request is owed.
Owed(e) == {r \in readings[e] : /\ InWindow(r.at) /\ r.at < req.upTo
                                /\ e \in Structured \/ r.changed}

\* The job that reads its states is done.
IsRead(e) == req.pc = "statistics" \/ (req.pc = "structured" /\ e \notin Structured)

\* A state was overlooked only because it was purged before the job, and then nothing
\* older than it was read either: the means begin there.
StatesComplete ==
    \A e \in Range(Involved(req.ids)) :
        IsRead(e) => \A r \in Owed(e) :
            r \in req.states[e] \/ (r.at < purged /\ \A q \in req.states[e] : r.at < q.at)

WrittenAfterRead == put.pc # "idle" => req.pc = "done"

HistoryInv ==
    /\ TypeOK /\ AskedOfTheRecorder /\ ReadIsRecorded /\ StatesComplete /\ WrittenAfterRead
    /\ NothingSilentlyMissing /\ Chronological /\ PartialIsTold /\ WriteBackAccepted

-----------------------------------------------------------------------------
(* What an answer is made of.                                               *)

LEMMA InvolvedTyped ==
    ASSUME NEW ids \in Requests \cup {<<>>}
    PROVE  Involved(ids) \in Seq(Entities)
<1> DEFINE lists == [i \in DOMAIN ids |->
                        IF ids[i] \in Devices THEN Components[ids[i]] ELSE <<ids[i]>>]
<1>1. ids \in Seq(Entities \cup Devices)
  BY HistoryAssumption, EmptySeq
<1>2. DOMAIN ids = 1..Len(ids) /\ Len(ids) \in Nat
  BY <1>1, LenProperties
<1>3. ASSUME NEW i \in DOMAIN ids PROVE lists[i] \in Seq(Entities)
  <2>1. ids[i] \in Entities \cup Devices
    BY <1>1, <1>2, ElementOfSeq
  <2>2. CASE ids[i] \in Devices
    BY <2>2, HistoryAssumption
  <2>3. CASE ids[i] \notin Devices
    BY <2>1, <2>3
  <2>. QED  BY <2>2, <2>3
<1>4. lists \in Seq(Seq(Entities))
  <2>1. lists \in [1..Len(ids) -> Seq(Entities)]
    BY <1>2, <1>3
  <2>. HIDE DEF lists
  <2>. QED  BY <1>2, <2>1
<1>. QED  BY <1>4, FlattenMeans DEF Involved

\* The first state read is where the recorder takes over.
LEMMA CutoffMeans ==
    ASSUME NEW e \in Entities, req.states[e] \in SUBSET Reading
    PROVE  /\ Cutoff(e) \in Nat
           /\ \A r \in req.states[e] : Cutoff(e) <= r.at
           /\ req.states[e] = {} => Cutoff(e) = MaxTime + 1
           /\ req.states[e] # {} => \E r \in req.states[e] : Cutoff(e) = r.at
<1> DEFINE T == {r.at : r \in req.states[e]}
<1>1. MaxTime \in Nat
  BY HistoryAssumption
<1>2. \A r \in req.states[e] : r.at \in Nat
  BY <1>1 DEF Reading, Time
<1>3. CASE req.states[e] = {}
  BY <1>1, <1>3 DEF Cutoff
<1>4. CASE req.states[e] # {}
  <2>1. T \in SUBSET Nat /\ T # {}
    BY <1>2, <1>4
  <2>2. \E t \in T : \A u \in T : t <= u
    <3>. HIDE DEF T
    <3>. QED  BY <2>1, LeastNumber
  <2>3. \E t \in T : \A r \in req.states[e] : t <= r.at
    BY <2>2
  <2>4. Cutoff(e) = CHOOSE t \in T : \A r \in req.states[e] : t <= r.at
    BY <1>4 DEF Cutoff
  <2>5. Cutoff(e) \in T /\ \A r \in req.states[e] : Cutoff(e) <= r.at
    <3>. HIDE DEF T
    <3>. QED  BY <2>3, <2>4
  <2>. QED  BY <1>2, <1>4, <2>5
<1>. QED  BY <1>3, <1>4

\* The rows of an entity are its means, all of them before its states, in order.
LEMMA SourceRowsMeans ==
    ASSUME NEW e \in Entities, NEW means \in SUBSET Time, req.states[e] \in SUBSET Reading,
           \A t \in means : \A r \in req.states[e] : t < r.at
    PROVE  LET rows == SourceRows(e, means)
           IN  /\ rows \in Seq(Row)
               /\ \A i, j \in 1..Len(rows) : i < j => rows[i].at < rows[j].at
               /\ \A i \in 1..Len(rows) :
                     \/ \E t \in means : rows[i] = [entity |-> e, at |-> t, mean |-> TRUE]
                     \/ \E r \in req.states[e] :
                           rows[i] = [entity |-> e, at |-> r.at, mean |-> FALSE]
               /\ \A t \in means :
                     \E i \in 1..Len(rows) : rows[i] = [entity |-> e, at |-> t, mean |-> TRUE]
               /\ \A r \in req.states[e] :
                     \E i \in 1..Len(rows) : rows[i] = [entity |-> e, at |-> r.at, mean |-> FALSE]
<1> DEFINE M == {[entity |-> e, at |-> t, mean |-> TRUE] : t \in means}
           S == {[entity |-> e, at |-> r.at, mean |-> FALSE] : r \in req.states[e]}
           p == InOrder(M)
           q == InOrder(S)
           rows == p \o q
           a == Len(p)
           b == Len(q)
<1>1. /\ M \in SUBSET Row /\ Distinct(M)
      /\ S \in SUBSET Row /\ Distinct(S)
  <2>1. \A t \in Time, m \in BOOLEAN : [entity |-> e, at |-> t, mean |-> m] \in Row
    BY DEF Row
  <2>2. \A r \in req.states[e] : r.at \in Time
    BY DEF Reading
  <2>3. M \subseteq Row /\ S \subseteq Row
    <3>. HIDE DEF Row
    <3>. QED  BY <2>1, <2>2
  <2>4. \A x \in M : x = [entity |-> e, at |-> x.at, mean |-> TRUE]
    OBVIOUS
  <2>5. \A x \in S : x = [entity |-> e, at |-> x.at, mean |-> FALSE]
    OBVIOUS
  <2>. HIDE DEF M, S
  <2>6. Distinct(M) /\ Distinct(S)
    BY <2>4, <2>5, Zenon DEF Distinct
  <2>. QED  BY <2>3, <2>6
<1>2. \A x \in M : \A y \in S : x.at < y.at
  OBVIOUS
<1>3. \A x \in Row : x.at \in Int
  BY HistoryAssumption DEF Row, Time
<1>4. /\ p \in Seq(M) /\ p \in Seq(Row) /\ q \in Seq(S) /\ q \in Seq(Row)
      /\ \A i, j \in DOMAIN p : i < j => p[i].at < p[j].at
      /\ \A i, j \in DOMAIN q : i < j => q[i].at < q[j].at
      /\ \A x \in M : \E i \in DOMAIN p : p[i] = x
      /\ \A x \in S : \E i \in DOMAIN q : q[i] = x
  <2>. HIDE DEF M, S
  <2>. QED  BY <1>1, InOrderMeans
<1>. HIDE DEF p, q
<1>5. a \in Nat /\ b \in Nat /\ DOMAIN p = 1..a /\ DOMAIN q = 1..b
  BY <1>4, LenProperties
<1>6. /\ \A i \in 1..a : p[i] \in M
      /\ \A i \in 1..b : q[i] \in S
  <2>. HIDE DEF M, S
  <2>. QED  BY <1>4, ElementOfSeq
<1>7. /\ rows \in Seq(Row) /\ Len(rows) = a + b
      /\ \A i \in 1..(a + b) : rows[i] = IF i <= a THEN p[i] ELSE q[i - a]
  BY <1>4, ConcatProperties
<1>8. rows = SourceRows(e, means)
  BY DEF SourceRows, p, q
<1>. HIDE DEF rows
<1>9. \A i \in 1..(a + b) : i <= a => i \in 1..a /\ rows[i] = p[i]
  BY <1>5, <1>7
<1>10. \A i \in 1..(a + b) : ~(i <= a) => i - a \in 1..b /\ rows[i] = q[i - a]
  BY <1>5, <1>7
<1>11. ASSUME NEW i \in 1..(a + b), NEW j \in 1..(a + b), i < j
       PROVE  rows[i].at < rows[j].at
  <2>. HIDE DEF M, S
  <2>1. CASE j <= a
    <3>1. i <= a
      BY <1>5, <1>11, <2>1
    <3>. QED  BY <1>4, <1>5, <1>9, <1>11, <2>1, <3>1
  <2>2. CASE i <= a /\ ~(j <= a)
    BY <1>2, <1>6, <1>9, <1>10, <2>2
  <2>3. CASE ~(i <= a)
    <3>1. ~(j <= a) /\ i - a < j - a
      BY <1>5, <1>11, <2>3
    <3>2. i - a \in DOMAIN q /\ j - a \in DOMAIN q
      BY <1>5, <1>10, <2>3, <3>1
    <3>3. q[i - a].at < q[j - a].at
      BY <1>4, <3>1, <3>2
    <3>. QED  BY <1>10, <2>3, <3>1, <3>3
  <2>. QED  BY <2>1, <2>2, <2>3
<1>12. ASSUME NEW i \in 1..(a + b) PROVE rows[i] \in M \cup S
  <2>. HIDE DEF M, S
  <2>. QED  BY <1>6, <1>9, <1>10
<1>13. ASSUME NEW x \in M PROVE \E i \in 1..(a + b) : rows[i] = x
  <2>. HIDE DEF M, S
  <2>1. PICK i \in 1..a : p[i] = x
    BY <1>4, <1>5
  <2>2. i \in 1..(a + b) /\ i <= a
    BY <1>5
  <2>. QED  BY <1>9, <2>1, <2>2
<1>14. ASSUME NEW x \in S PROVE \E i \in 1..(a + b) : rows[i] = x
  <2>. HIDE DEF M, S
  <2>1. PICK i \in 1..b : q[i] = x
    BY <1>4, <1>5
  <2>2. i + a \in 1..(a + b) /\ ~(i + a <= a) /\ (i + a) - a = i
    BY <1>5
  <2>. QED  BY <1>7, <2>1, <2>2
<1>15. \A i \in 1..(a + b) :
          \/ \E t \in means : rows[i] = [entity |-> e, at |-> t, mean |-> TRUE]
          \/ \E r \in req.states[e] : rows[i] = [entity |-> e, at |-> r.at, mean |-> FALSE]
  BY <1>12
<1>16. \A t \in means :
          \E i \in 1..(a + b) : rows[i] = [entity |-> e, at |-> t, mean |-> TRUE]
  BY <1>13
<1>17. \A r \in req.states[e] :
          \E i \in 1..(a + b) : rows[i] = [entity |-> e, at |-> r.at, mean |-> FALSE]
  BY <1>14
<1>. HIDE DEF a, b, M, S
<1>. QED  BY <1>7, <1>8, <1>11, <1>15, <1>16, <1>17

\* The statistics begin before the states.
LEMMA BackfillMeans ==
    ASSUME TypeOK, NEW e \in Entities
    PROVE  /\ Backfill(e) \in SUBSET Time
           /\ \A t \in Backfill(e) : \A r \in req.states[e] : t < r.at
<1>1. /\ req.states[e] \in SUBSET Reading /\ req.end \in Time /\ req.start \in Time
      /\ MaxTime \in Nat /\ HourLength \in Nat
  BY HistoryAssumption DEF TypeOK, Post
<1>2. Cutoff(e) \in Nat /\ \A r \in req.states[e] : Cutoff(e) <= r.at
  BY <1>1, CutoffMeans
<1>3. ASSUME NEW t \in Backfill(e)
      PROVE  t \in Time /\ t < Cutoff(e)
  <2>1. t \in HourRows(e) /\ InWindow(t) /\ t < Cutoff(e)
    BY DEF Backfill, Means
  <2>2. t \in Int
    BY <1>1, <2>1 DEF HourRows
  <2>. QED  BY <1>1, <2>1, <2>2 DEF InWindow, Time
<1>4. \A r \in req.states[e] : r.at \in Int
  BY <1>1 DEF Reading, Time
<1>5. ASSUME NEW t \in Backfill(e), NEW r \in req.states[e] PROVE t < r.at
  BY <1>1, <1>2, <1>3, <1>4 DEF Time
<1>. QED  BY <1>3, <1>5

\* All that is to be shown, before the limit.
Shown == Involved(req.ids)
Lists == [i \in DOMAIN Shown |-> SourceRows(Shown[i], Backfill(Shown[i]))]
All   == FlattenSeq(Lists)

LEMMA ShownTyped ==
    ASSUME TypeOK
    PROVE  /\ Shown \in Seq(Entities) /\ DOMAIN Shown = 1..Len(Shown) /\ Len(Shown) \in Nat
           /\ \A l \in 1..Len(Shown) : Shown[l] \in Entities
           /\ Range(Shown) \subseteq Entities
<1>1. req.ids \in Requests \cup {<<>>}
  BY DEF TypeOK, Post
<1>2. Shown \in Seq(Entities)
  BY <1>1, InvolvedTyped DEF Shown
<1>. QED  BY <1>2, LenProperties, ElementOfSeq, RangeOfSeq

\* The rows of one entity shown.
LEMMA ListMeans ==
    ASSUME TypeOK, NEW l \in 1..Len(Shown)
    PROVE  LET e == Shown[l]  rows == Lists[l]
           IN  /\ rows \in Seq(Row)
               /\ \A i, j \in 1..Len(rows) : i < j => rows[i].at < rows[j].at
               /\ \A i \in 1..Len(rows) :
                     \/ \E t \in Backfill(e) : rows[i] = [entity |-> e, at |-> t, mean |-> TRUE]
                     \/ \E r \in req.states[e] :
                           rows[i] = [entity |-> e, at |-> r.at, mean |-> FALSE]
               /\ \A t \in Backfill(e) :
                     \E i \in 1..Len(rows) : rows[i] = [entity |-> e, at |-> t, mean |-> TRUE]
               /\ \A r \in req.states[e] :
                     \E i \in 1..Len(rows) : rows[i] = [entity |-> e, at |-> r.at, mean |-> FALSE]
<1> DEFINE e == Shown[l]
           means == Backfill(e)
<1>1. e \in Entities /\ l \in DOMAIN Shown
  BY ShownTyped
<1>2. means \in SUBSET Time /\ \A t \in means : \A r \in req.states[e] : t < r.at
  BY <1>1, BackfillMeans
<1>3. req.states[e] \in SUBSET Reading
  BY <1>1 DEF TypeOK, Post
<1>4. Lists[l] = SourceRows(e, means)
  BY <1>1 DEF Lists
<1>. HIDE DEF e, means
<1>5. LET rows == SourceRows(e, means)
      IN  /\ rows \in Seq(Row)
          /\ \A i, j \in 1..Len(rows) : i < j => rows[i].at < rows[j].at
          /\ \A i \in 1..Len(rows) :
                \/ \E t \in means : rows[i] = [entity |-> e, at |-> t, mean |-> TRUE]
                \/ \E r \in req.states[e] : rows[i] = [entity |-> e, at |-> r.at, mean |-> FALSE]
          /\ \A t \in means :
                \E i \in 1..Len(rows) : rows[i] = [entity |-> e, at |-> t, mean |-> TRUE]
          /\ \A r \in req.states[e] :
                \E i \in 1..Len(rows) : rows[i] = [entity |-> e, at |-> r.at, mean |-> FALSE]
  BY <1>1, <1>2, <1>3, SourceRowsMeans
<1>. QED  BY <1>4, <1>5 DEF e, means

\* Where a row of all comes from, and what all has in it.
LEMMA AllMeans ==
    ASSUME TypeOK
    PROVE  /\ All \in Seq(Row)
           /\ \A i \in 1..Len(All) : ~All[i].mean =>
                 All[i].entity \in Entities
                 /\ \E r \in req.states[All[i].entity] : r.at = All[i].at
           /\ \A e \in Range(Shown) :
                 /\ \A t \in Backfill(e) :
                       \E i \in 1..Len(All) : All[i] = [entity |-> e, at |-> t, mean |-> TRUE]
                 /\ \A r \in req.states[e] :
                       \E i \in 1..Len(All) : All[i] = [entity |-> e, at |-> r.at, mean |-> FALSE]
           /\ \A i, j \in 1..Len(All) :
                 (i < j /\ All[i].entity = All[j].entity /\ All[i].at >= All[j].at) =>
                     \E k, l \in DOMAIN Shown :
                         k # l /\ Shown[k] = All[i].entity /\ Shown[l] = All[i].entity
<1> DEFINE n == Len(Shown)
<1>1. n \in Nat /\ DOMAIN Shown = 1..n /\ \A l \in 1..n : Shown[l] \in Entities
  BY ShownTyped
<1>2. \A l \in 1..n : Lists[l] \in Seq(Row)
  BY ListMeans
<1>3. Lists \in Seq(Seq(Row)) /\ Len(Lists) = n
  <2>1. Lists \in [1..n -> Seq(Row)]
    <3>1. Lists = [l \in 1..n |-> Lists[l]]
      BY <1>1 DEF Lists
    <3>. QED  BY <1>2, <3>1
  <2>. HIDE DEF n
  <2>. QED  BY <1>1, <2>1
<1>4. All \in Seq(Row) /\ LaidOut(All, Lists, n)
  BY <1>3, FlattenMeans DEF All
<1>5. ASSUME NEW l \in 1..n, NEW m \in 1..Len(Lists[l])
      PROVE  /\ Lists[l][m].entity = Shown[l]
             /\ ~Lists[l][m].mean => \E r \in req.states[Shown[l]] : r.at = Lists[l][m].at
             /\ Lists[l][m].at \in Int
  <2>1. \/ \E t \in Backfill(Shown[l]) :
              Lists[l][m] = [entity |-> Shown[l], at |-> t, mean |-> TRUE]
        \/ \E r \in req.states[Shown[l]] :
              Lists[l][m] = [entity |-> Shown[l], at |-> r.at, mean |-> FALSE]
    BY ListMeans
  <2>2. Lists[l][m] \in Row
    BY <1>2, ElementOfSeq
  <2>3. Lists[l][m].at \in Int
    BY <2>2, HistoryAssumption DEF Row, Time
  <2> DEFINE row == Lists[l][m]
  <2>4. ASSUME NEW t, row = [entity |-> Shown[l], at |-> t, mean |-> TRUE]
        PROVE  row.entity = Shown[l] /\ row.mean
    BY <2>4
  <2>5. ASSUME NEW r \in req.states[Shown[l]],
               row = [entity |-> Shown[l], at |-> r.at, mean |-> FALSE]
        PROVE  row.entity = Shown[l] /\ row.at = r.at
    BY <2>5
  <2>6. row.entity = Shown[l] /\ (~row.mean => \E r \in req.states[Shown[l]] : r.at = row.at)
    <3>. HIDE DEF row
    <3>1. CASE \E t \in Backfill(Shown[l]) : row = [entity |-> Shown[l], at |-> t, mean |-> TRUE]
      BY <2>4, <3>1
    <3>2. CASE \E r \in req.states[Shown[l]] :
                  row = [entity |-> Shown[l], at |-> r.at, mean |-> FALSE]
      BY <2>5, <3>2
    <3>. QED  BY <2>1, <3>1, <3>2 DEF row
  <2>. QED  BY <2>3, <2>6
<1>6. ASSUME NEW i \in 1..Len(All), ~All[i].mean
      PROVE  All[i].entity \in Entities /\ \E r \in req.states[All[i].entity] : r.at = All[i].at
  <2>1. PICK l \in 1..n : \E m \in 1..Len(Lists[l]) : All[i] = Lists[l][m]
    BY <1>4 DEF LaidOut
  <2>2. PICK m \in 1..Len(Lists[l]) : All[i] = Lists[l][m]
    BY <2>1
  <2>3. /\ All[i].entity = Shown[l] /\ Shown[l] \in Entities
        /\ \E r \in req.states[Shown[l]] : r.at = All[i].at
    BY <1>1, <1>5, <1>6, <2>2
  <2>. QED  BY <2>3
<1>7. ASSUME NEW e \in Range(Shown)
      PROVE  /\ \A t \in Backfill(e) :
                   \E i \in 1..Len(All) : All[i] = [entity |-> e, at |-> t, mean |-> TRUE]
             /\ \A r \in req.states[e] :
                   \E i \in 1..Len(All) : All[i] = [entity |-> e, at |-> r.at, mean |-> FALSE]
  <2>1. PICK l \in 1..n : Shown[l] = e
    BY <1>1 DEF Range
  <2>2. /\ \A t \in Backfill(e) :
              \E i \in 1..Len(Lists[l]) : Lists[l][i] = [entity |-> e, at |-> t, mean |-> TRUE]
        /\ \A r \in req.states[e] :
              \E i \in 1..Len(Lists[l]) : Lists[l][i] = [entity |-> e, at |-> r.at, mean |-> FALSE]
    BY <2>1, ListMeans
  <2>3. \A m \in 1..Len(Lists[l]) : \E i \in 1..Len(All) : All[i] = Lists[l][m]
    BY <1>4 DEF LaidOut
  <2>. QED  BY <2>2, <2>3
<1>8. ASSUME NEW i \in 1..Len(All), NEW j \in 1..Len(All), i < j,
             All[i].entity = All[j].entity, All[i].at >= All[j].at
      PROVE  \E k, l \in DOMAIN Shown :
                 k # l /\ Shown[k] = All[i].entity /\ Shown[l] = All[i].entity
  <2>1. Follows(All, Lists, n, i, j)
    BY <1>4, <1>8 DEF LaidOut
  <2>2. PICK k \in 1..n, l \in 1..n :
           \E m1 \in 1..Len(Lists[k]), m2 \in 1..Len(Lists[l]) :
              /\ All[i] = Lists[k][m1] /\ All[j] = Lists[l][m2]
              /\ k < l \/ (k = l /\ m1 < m2)
    BY <2>1 DEF Follows
  <2>3. PICK m1 \in 1..Len(Lists[k]), m2 \in 1..Len(Lists[l]) :
              /\ All[i] = Lists[k][m1] /\ All[j] = Lists[l][m2]
              /\ k < l \/ (k = l /\ m1 < m2)
    BY <2>2
  <2>4. Shown[k] = All[i].entity /\ Shown[l] = All[i].entity
    BY <1>5, <1>8, <2>3
  <2>5. ~(k = l /\ m1 < m2)
    <3>1. k = l /\ m1 < m2 => Lists[k][m1].at < Lists[l][m2].at
      BY ListMeans
    <3>2. All[i].at \in Int /\ All[j].at \in Int
      BY <1>5, <2>3
    <3>. QED  BY <1>8, <2>3, <3>1, <3>2
  <2>6. k # l
    <3>. HIDE DEF n
    <3>. QED  BY <1>1, <2>3, <2>5
  <2>. QED  BY <1>1, <2>4, <2>6
<1>. QED  BY <1>4, <1>6, <1>7, <1>8

\* The limit keeps a beginning, and says so when it is not all.
LEMMA CutMeans ==
    ASSUME NEW all \in Seq(Row)
    PROVE  /\ Cut(all).rows \in Seq(Row) /\ Cut(all).truncated \in BOOLEAN
           /\ Len(Cut(all).rows) <= MaxHistoryRows
           /\ Cut(all).truncated => Len(Cut(all).rows) = MaxHistoryRows
           /\ ~Cut(all).truncated => Cut(all).rows = all
           /\ \A i \in 1..Len(Cut(all).rows) : i \in 1..Len(all) /\ Cut(all).rows[i] = all[i]
<1> DEFINE m == MaxHistoryRows
           rows == Cut(all).rows
           truncated == Cut(all).truncated
<1>1. m \in Nat /\ Len(all) \in Nat
  BY HistoryAssumption, LenProperties
<1>2. /\ rows = IF Len(all) > m THEN SubSeq(all, 1, m) ELSE all
      /\ truncated \in BOOLEAN /\ (truncated <=> Len(all) > m)
  <2> DEFINE over == Len(all) > MaxHistoryRows
             first == IF over THEN SubSeq(all, 1, m) ELSE all
  <2>1. Cut(all) = [rows |-> first, truncated |-> over]
    BY Zenon DEF Cut
  <2>2. over \in BOOLEAN
    OBVIOUS
  <2>. HIDE DEF first, over
  <2>3. rows = first /\ truncated = over
    BY <2>1
  <2>. QED  BY <2>2, <2>3, Zenon DEF first, over
<1>. HIDE DEF rows, truncated, m
<1>3. CASE Len(all) > m
  <2>1. \A i \in 1..m : i \in 1..Len(all) /\ all[i] \in Row
    BY <1>1, <1>3, ElementOfSeq
  <2>2. /\ SubSeq(all, 1, m) \in Seq(Row)
        /\ Len(SubSeq(all, 1, m)) = IF 1 <= m THEN m - 1 + 1 ELSE 0
        /\ \A i \in 1..(m - 1 + 1) : SubSeq(all, 1, m)[i] = all[1 + i - 1]
    BY <1>1, <2>1, SubSeqProperties
  <2>3. Len(SubSeq(all, 1, m)) = m
    BY <1>1, <2>2
  <2>4. \A i \in 1..m : SubSeq(all, 1, m)[i] = all[i]
    <3>1. \A i \in 1..m : 1 + i - 1 = i /\ i \in 1..(m - 1 + 1)
      BY <1>1
    <3>. QED  BY <2>2, <3>1
  <2>5. /\ rows \in Seq(Row) /\ truncated /\ truncated \in BOOLEAN /\ Len(rows) = m
        /\ m <= m /\ \A i \in 1..Len(rows) : i \in 1..Len(all) /\ rows[i] = all[i]
    BY <1>1, <1>2, <1>3, <2>1, <2>2, <2>3, <2>4
  <2>. QED  BY <2>5 DEF rows, truncated, m
<1>4. CASE ~(Len(all) > m)
  <2>1. rows = all /\ ~truncated /\ truncated \in BOOLEAN /\ Len(rows) <= m
    BY <1>1, <1>2, <1>4
  <2>. QED  BY <2>1 DEF rows, truncated, m
<1>. QED  BY <1>3, <1>4

-----------------------------------------------------------------------------
(* Types.                                                                   *)

LEMMA TypeInit == Init => TypeOK
<1>. SUFFICES ASSUME Init PROVE TypeOK
  OBVIOUS
<1>1. 0 \in Time /\ MaxTime \in Nat /\ HourLength \in Nat
  BY HistoryAssumption DEF Time
<1>2. NoSource \in [Entities -> SUBSET Reading] /\ <<>> \in Seq(Row)
  BY EmptySeq DEF NoSource
<1>3. NoReq \in Post
  <2>. HIDE DEF NoSource
  <2>. QED  BY <1>1, <1>2 DEF NoReq, Post
<1>4. NoPut \in Put /\ NoPut.pc = "idle"
  BY DEF NoPut, Put
<1>5. readings \in [Entities -> SUBSET Reading]
  BY DEF Init
<1>6. compiled * HourLength = 0 /\ 0 \in 0..(MaxTime + 1) /\ 0 \in 0..0
  BY <1>1 DEF Init
<1>. QED  BY <1>1, <1>3, <1>4, <1>5, <1>6 DEF Init, TypeOK

\* What a job reads is recorded, in the window, and of one kind.
LEMMA StatesReadTyped ==
    ASSUME TypeOK, NEW ids, NEW significantOnly \in BOOLEAN
    PROVE  StatesRead(ids, significantOnly) \in [Entities -> SUBSET Reading]
<1>1. \A e \in Entities : req.states[e] \in SUBSET Reading /\ Recorded(e) \in SUBSET Reading
  BY DEF TypeOK, Post, Recorded
<1>. QED  BY <1>1 DEF StatesRead

LEMMA TypeNext == TypeOK /\ [Next]_vars => TypeOK'
<1>. SUFFICES ASSUME TypeOK, [Next]_vars PROVE TypeOK'
  OBVIOUS
<1>1. /\ MaxTime \in Nat /\ HourLength \in Nat \ {0} /\ now \in Nat /\ now <= MaxTime
      /\ committed \in Nat /\ committed <= MaxTime + 1 /\ compiled \in Nat /\ purged \in Nat
      /\ purged <= compiled * HourLength /\ compiled * HourLength <= committed
      /\ compiled * HourLength \in Nat
  <2>1. MaxTime \in Nat /\ HourLength \in Nat \ {0}
    BY HistoryAssumption
  <2>2. compiled \in Nat /\ compiled * HourLength \in Nat
    BY <2>1 DEF TypeOK
  <2>. QED  BY <2>1, <2>2 DEF TypeOK, Time
<1>2. ASSUME NEW e \in Entities, Report(e) PROVE TypeOK'
  <2>1. PICK changed \in BOOLEAN :
           readings' = [readings EXCEPT ![e] = @ \cup {[at |-> now, changed |-> changed]}]
    BY <1>2 DEF Report
  <2>2. [at |-> now, changed |-> changed] \in Reading
    BY DEF TypeOK, Reading
  <2>3. readings' \in [Entities -> SUBSET Reading]
    <3>. HIDE DEF Reading
    <3>. QED  BY <2>1, <2>2 DEF TypeOK
  <2>. QED  BY <1>2, <2>3 DEF TypeOK, Report
<1>3. CASE Tick
  <2>1. now' \in Time
    BY <1>1, <1>3 DEF Tick, Time
  <2>. QED  BY <1>3, <2>1 DEF TypeOK, Tick
<1>4. CASE Commit
  <2>1. committed' \in 0..MaxTime + 1 /\ compiled * HourLength <= committed'
    BY <1>1, <1>4 DEF Commit
  <2>. QED  BY <1>4, <2>1 DEF TypeOK, Commit
<1>5. CASE Compile
  <2>1. compiled' \in Nat /\ compiled' * HourLength <= committed'
    BY <1>1, <1>5 DEF Compile
  <2>2. compiled' * HourLength = compiled * HourLength + HourLength
    BY <1>1, <1>5 DEF Compile
  <2>3. purged' \in 0..(compiled' * HourLength)
    BY <1>1, <1>5, <2>2 DEF Compile
  <2>. QED  BY <1>5, <2>1, <2>3 DEF TypeOK, Compile
<1>6. CASE Purge
  <2>1. purged' \in 0..(compiled' * HourLength)
    BY <1>1, <1>6 DEF Purge
  <2>. QED  BY <1>6, <2>1 DEF TypeOK, Purge
<1>7. CASE Ask
  <2>1. PICK ids \in Requests, w \in Windows :
          req' = [NoReq EXCEPT !.pc    = "scalar", !.ids = ids,
                               !.start = IF w[1] > w[2] THEN w[2] ELSE w[1],
                               !.end   = IF w[1] > w[2] THEN w[1] ELSE w[2],
                               !.upTo  = committed]
    BY <1>7 DEF Ask
  <2> DEFINE s == IF w[1] > w[2] THEN w[2] ELSE w[1]
             t == IF w[1] > w[2] THEN w[1] ELSE w[2]
  <2>2. s \in Time /\ t \in Time
    BY HistoryAssumption DEF Time
  <2>. HIDE DEF s, t
  <2>3. req' = [pc |-> "scalar", ids |-> ids, start |-> s, end |-> t, upTo |-> committed,
                states |-> NoSource, rows |-> <<>>, truncated |-> FALSE]
    <3>. HIDE DEF NoSource
    <3>. QED  BY <2>1 DEF NoReq, s, t
  <2>4. NoSource \in [Entities -> SUBSET Reading] /\ <<>> \in Seq(Row)
    BY EmptySeq DEF NoSource
  <2>5. committed \in 0..MaxTime + 1
    BY DEF TypeOK
  <2>6. req' \in Post
    <3>. HIDE DEF NoSource
    <3>. QED  BY <2>2, <2>3, <2>4, <2>5 DEF Post
  <2>. QED  BY <1>7, <2>6 DEF TypeOK, Ask
<1>8. CASE ReadScalar
  <2>1. req' \in Post
    <3>1. StatesRead(Entities \ Structured, TRUE) \in [Entities -> SUBSET Reading]
      BY StatesReadTyped
    <3>. QED  BY <1>8, <3>1 DEF ReadScalar, TypeOK, Post
  <2>. QED  BY <1>8, <2>1 DEF TypeOK, ReadScalar
<1>9. CASE ReadStructured
  <2>1. req' \in Post
    <3>1. StatesRead(Structured, FALSE) \in [Entities -> SUBSET Reading]
      BY StatesReadTyped
    <3>. QED  BY <1>9, <3>1 DEF ReadStructured, TypeOK, Post
  <2>. QED  BY <1>9, <2>1 DEF TypeOK, ReadStructured
<1>10. CASE ReadStatistics
  <2>1. req' \in Post
    <3>1. Answer.rows \in Seq(Row) /\ Answer.truncated \in BOOLEAN
      BY AllMeans, CutMeans DEF Answer, All, Lists, Shown
    <3>2. NoSource \in [Entities -> SUBSET Reading]
      BY DEF NoSource
    <3>. HIDE DEF NoSource, Answer
    <3>. QED  BY <1>10, <3>1, <3>2 DEF ReadStatistics, TypeOK, Post
  <2>. QED  BY <1>10, <2>1 DEF TypeOK, ReadStatistics
<1>11. CASE PutPoint
  <2>1. PICK p \in [entity : Entities, at : 0..now, same : BOOLEAN] :
          put' = [pc       |-> IF IsCurrent(p) THEN "done" ELSE "lookup",
                  point    |-> p,
                  accepted |-> IsCurrent(p)]
    BY <1>11 DEF PutPoint
  <2>2. p \in Point
    BY <1>1 DEF Point, Time
  <2>3. IsCurrent(p) \in BOOLEAN
    BY DEF IsCurrent
  <2>4. put' \in Put /\ put'.point \in Point
    <3>. HIDE DEF IsCurrent, Point
    <3>. QED  BY <2>1, <2>2, <2>3 DEF Put
  <2>. QED  BY <1>11, <2>4 DEF TypeOK, PutPoint
<1>12. CASE Lookup
  <2>1. Match(put.point) \in BOOLEAN
    BY DEF Match
  <2>2. put' \in Put /\ put'.point \in Point
    <3>. HIDE DEF Match, Point
    <3>. QED  BY <1>12, <2>1 DEF Lookup, TypeOK, Put
  <2>. QED  BY <1>12, <2>2 DEF TypeOK, Lookup
<1>13. CASE UNCHANGED vars
  BY <1>13 DEF TypeOK, vars
<1>. QED  BY <1>2, <1>3, <1>4, <1>5, <1>6, <1>7, <1>8, <1>9, <1>10, <1>11, <1>12, <1>13 DEF Next

-----------------------------------------------------------------------------
(* Steps of Home Assistant and its recorder, between those of a request.    *)

\* What the recorder has it keeps until it is purged, and new states come after those.
Goes ==
    /\ \A e \in Entities : \A r \in readings[e] : r \in readings'[e]
    /\ \A e \in Entities : \A r \in readings'[e] :
          r \in readings[e] \/ (r.at \in Nat /\ r.at >= committed)
    /\ committed <= committed' /\ purged <= purged'
    /\ committed \in Nat /\ committed' \in Nat /\ purged \in Nat /\ purged' \in Nat

LEMMA RecorderGoes == TypeOK /\ [Next]_vars => Goes
<1>. SUFFICES ASSUME TypeOK, [Next]_vars PROVE Goes
  OBVIOUS
<1>1. /\ committed \in Nat /\ purged \in Nat /\ now \in Nat
      /\ committed' \in Nat /\ purged' \in Nat
  <2>1. TypeOK'
    BY TypeNext
  <2>2. MaxTime \in Nat /\ HourLength \in Nat
    BY HistoryAssumption
  <2>3. compiled * HourLength \in Int /\ compiled' * HourLength \in Int
    BY <2>1, <2>2 DEF TypeOK
  <2>. QED  BY <2>1, <2>2, <2>3 DEF TypeOK, Time
<1>2. CASE UNCHANGED <<readings, committed, purged>>
  BY <1>1, <1>2 DEF Goes
<1>3. ASSUME NEW e \in Entities, Report(e) PROVE Goes
  <2>1. PICK changed \in BOOLEAN :
           readings' = [readings EXCEPT ![e] = @ \cup {[at |-> now, changed |-> changed]}]
    BY <1>3 DEF Report
  <2>2. committed <= now /\ [at |-> now, changed |-> changed].at = now
    BY <1>3 DEF Report
  <2> DEFINE new == [at |-> now, changed |-> changed]
  <2>. HIDE DEF new
  <2>3. \A d \in Entities : readings'[d] = IF d = e THEN readings[d] \cup {new} ELSE readings[d]
    BY <2>1 DEF TypeOK, new
  <2>4. new.at \in Nat /\ new.at >= committed
    BY <1>1, <2>2 DEF new
  <2>5. committed' = committed /\ purged' = purged
    BY <1>3 DEF Report
  <2>6. \A d \in Entities : \A r \in readings[d] : r \in readings'[d]
    BY <2>3
  <2>7. \A d \in Entities : \A r \in readings'[d] : r \in readings[d] \/ r = new
    BY <2>3
  <2>8. \A d \in Entities : \A r \in readings'[d] :
           r \in readings[d] \/ (r.at \in Nat /\ r.at >= committed)
    BY <2>4, <2>7
  <2>9. committed <= committed' /\ purged <= purged'
    BY <1>1, <2>5
  <2>. QED  BY <1>1, <2>6, <2>8, <2>9 DEF Goes
<1>4. CASE Commit \/ Purge
  BY <1>1, <1>4 DEF Commit, Purge, Goes
<1>5. CASE Tick \/ Compile \/ UNCHANGED vars
  BY <1>2, <1>5 DEF Tick, Compile, vars
<1>6. CASE Ask \/ ReadScalar \/ ReadStructured \/ ReadStatistics \/ PutPoint \/ Lookup
  BY <1>2, <1>6 DEF Ask, ReadScalar, ReadStructured, ReadStatistics, PutPoint, Lookup
<1>. QED  BY <1>3, <1>4, <1>5, <1>6 DEF Next

LEMMA AskedNumbers ==
    ASSUME TypeOK
    PROVE  /\ req.upTo \in Nat /\ req.start \in Nat /\ req.end \in Nat
           /\ \A e \in Entities : \A r \in readings[e] : r.at \in Nat /\ r \in Reading
           /\ \A e \in Entities : \A r \in req.states[e] : r.at \in Nat
           /\ put.pc # "idle" => put.point.entity \in Entities /\ put.point.at \in Nat
           /\ \A i \in DOMAIN req.rows : req.rows[i] \in Row
           /\ DOMAIN req.rows = 1..Len(req.rows)
           /\ Range(Involved(req.ids)) \subseteq Entities
<1>1. MaxTime \in Nat
  BY HistoryAssumption
<1>2. req \in Post
  BY DEF TypeOK
<1>3. req.upTo \in Nat /\ req.start \in Nat /\ req.end \in Nat
  BY <1>1, <1>2 DEF Post, Time
<1>4. \A e \in Entities : \A r \in readings[e] : r.at \in Nat /\ r \in Reading
  BY <1>1 DEF TypeOK, Reading, Time
<1>5. \A e \in Entities : \A r \in req.states[e] : r.at \in Nat
  BY <1>1, <1>2 DEF Post, Reading, Time
<1>6. put.pc # "idle" => put.point.entity \in Entities /\ put.point.at \in Nat
  BY <1>1 DEF TypeOK, Point, Time
<1>7. req.rows \in Seq(Row)
  BY <1>2 DEF Post
<1>8. DOMAIN req.rows = 1..Len(req.rows) /\ \A i \in DOMAIN req.rows : req.rows[i] \in Row
  BY <1>7, LenProperties, ElementOfSeq
<1>9. Range(Involved(req.ids)) \subseteq Entities
  BY ShownTyped DEF Shown
<1>. QED  BY <1>3, <1>4, <1>5, <1>6, <1>8, <1>9

\* While a request waits, the recorder takes nothing from it.
LEMMA WaitKeepsReads ==
    ASSUME TypeOK, Goes, req' = req, AskedOfTheRecorder, ReadIsRecorded, StatesComplete
    PROVE  AskedOfTheRecorder' /\ ReadIsRecorded' /\ StatesComplete'
<1>1. AskedOfTheRecorder'
  BY AskedNumbers DEF Goes, AskedOfTheRecorder
<1>2. ASSUME NEW e \in Entities, NEW r \in req'.states[e]
      PROVE  r \in readings'[e] /\ r.at < committed'
  BY <1>2, AskedNumbers DEF Goes, ReadIsRecorded
<1>3. ASSUME NEW i \in DOMAIN req'.rows, ~req'.rows[i].mean
      PROVE  \E r \in readings'[req'.rows[i].entity] :
                r.at = req'.rows[i].at /\ r.at < committed'
  <2>1. PICK r \in readings[req.rows[i].entity] : r.at = req.rows[i].at /\ r.at < committed
    BY <1>3 DEF ReadIsRecorded
  <2>2. req.rows[i].entity \in Entities
    BY AskedNumbers DEF Row
  <2>3. r.at \in Nat
    BY <2>2, AskedNumbers
  <2>. QED  BY <2>1, <2>2, <2>3 DEF Goes
<1>4. ASSUME NEW e \in Range(Involved(req'.ids)), IsRead(e)', NEW r \in Owed(e)'
      PROVE  r \in req'.states[e] \/ (r.at < purged' /\ \A q \in req'.states[e] : r.at < q.at)
  <2>1. e \in Entities /\ e \in Range(Involved(req.ids)) /\ IsRead(e)
    BY <1>4, AskedNumbers DEF IsRead
  <2>2. /\ r \in readings'[e] /\ req.start <= r.at /\ r.at <= req.end /\ r.at < req.upTo
        /\ e \in Structured \/ r.changed
    BY <1>4 DEF Owed, InWindow
  <2>3. r \in readings[e]
    <3>1. r \in readings[e] \/ (r.at \in Nat /\ r.at >= committed)
      BY <2>1, <2>2 DEF Goes
    <3>2. r.at \in Nat => ~(r.at >= committed)
      BY <2>2, AskedNumbers DEF Goes, AskedOfTheRecorder
    <3>. QED  BY <3>1, <3>2
  <2>4. r \in Owed(e)
    BY <2>2, <2>3 DEF Owed, InWindow
  <2>5. r \in req.states[e] \/ (r.at < purged /\ \A q \in req.states[e] : r.at < q.at)
    BY <2>1, <2>4 DEF StatesComplete
  <2>. QED  BY <2>1, <2>3, <2>5, AskedNumbers DEF Goes
<1>5. ReadIsRecorded'
  BY <1>2, <1>3 DEF ReadIsRecorded
<1>6. StatesComplete'
  BY <1>4 DEF StatesComplete
<1>. QED  BY <1>1, <1>5, <1>6

\* What was answered stays right, whatever becomes of the recorder.
LEMMA AnswerStaysRight ==
    ASSUME TypeOK, Goes, req' = req, AskedOfTheRecorder,
           NothingSilentlyMissing, Chronological, PartialIsTold
    PROVE  NothingSilentlyMissing' /\ Chronological' /\ PartialIsTold'
<1>1. ASSUME req'.pc = "done", ~req'.truncated, NEW e \in Range(Involved(req'.ids)),
             NEW r \in readings'[e], InWindow(r.at)', r.at < req'.upTo,
             e \in Structured \/ r.changed
      PROVE  \/ [entity |-> e, at |-> r.at, mean |-> FALSE] \in RowsOf(e)'
             \/ [entity |-> e, at |-> HourOf(r.at), mean |-> TRUE] \in RowsOf(e)'
             \/ r.at < purged' /\ (e \notin Numeric \/ HourOf(r.at) < req'.start)
  <2>1. e \in Entities
    BY <1>1, AskedNumbers
  <2>2. r \in readings[e]
    <3>1. r \in readings[e] \/ (r.at \in Nat /\ r.at >= committed)
      BY <2>1 DEF Goes
    <3>2. r.at \in Nat => ~(r.at >= committed)
      BY <1>1, AskedNumbers DEF Goes, AskedOfTheRecorder
    <3>. QED  BY <3>1, <3>2
  <2>3. InWindow(r.at)
    BY <1>1 DEF InWindow
  <2>4. r \in {q \in readings[e] : /\ InWindow(q.at) /\ q.at < req.upTo
                                   /\ e \in Structured \/ q.changed}
    BY <1>1, <2>2, <2>3
  <2>5. \/ [entity |-> e, at |-> r.at, mean |-> FALSE] \in RowsOf(e)
        \/ [entity |-> e, at |-> HourOf(r.at), mean |-> TRUE] \in RowsOf(e)
        \/ r.at < purged /\ (e \notin Numeric \/ HourOf(r.at) < req.start)
    BY <1>1, <2>4, Zenon DEF NothingSilentlyMissing
  <2>6. RowsOf(e)' = RowsOf(e)
    BY DEF RowsOf
  <2>7. r.at < purged => r.at < purged'
    BY <2>1, <2>2, AskedNumbers DEF Goes
  <2>. QED  BY <2>5, <2>6, <2>7
<1>2. NothingSilentlyMissing'
  BY <1>1, Zenon DEF NothingSilentlyMissing
<1>3. Chronological' /\ PartialIsTold'
  BY DEF Chronological, PartialIsTold
<1>. QED  BY <1>2, <1>3

\* ... and so does what was said of a write-back.
LEMMA VerdictStaysRight ==
    ASSUME TypeOK, Goes, put' = put, req'.rows = req.rows, WriteBackAccepted
    PROVE  WriteBackAccepted'
<1>. SUFFICES ASSUME put'.pc = "done" PROVE WriteBackAccepted'
  BY DEF WriteBackAccepted
<1> DEFINE p == put.point
<1>1. p.entity \in Entities /\ p.at \in Nat
  BY AskedNumbers
<1>2. put.accepted => IsPoint(p)
  BY DEF WriteBackAccepted
<1>3. IsPoint(p) => p.same /\ \E r \in readings'[p.entity] : r.at = p.at
  BY <1>1 DEF IsPoint, Goes
<1>4. (/\ p.same /\ ~put.accepted
       /\ [entity |-> p.entity, at |-> p.at, mean |-> FALSE] \in Range(req.rows))
      => p.at < purged
  BY DEF WriteBackAccepted
<1>5. p.at < purged => p.at < purged'
  BY <1>1 DEF Goes
<1>6. put'.point = p /\ put'.accepted = put.accepted /\ Range(req'.rows) = Range(req.rows)
  BY DEF Range
<1>. HIDE DEF p
<1>. QED  BY <1>2, <1>3, <1>4, <1>5, <1>6 DEF WriteBackAccepted, IsPoint

-----------------------------------------------------------------------------
(* The steps of a request.                                                  *)

LEMMA AskKeeps ==
    ASSUME HistoryInv, Ask
    PROVE  /\ AskedOfTheRecorder' /\ ReadIsRecorded' /\ StatesComplete'
           /\ NothingSilentlyMissing' /\ Chronological' /\ PartialIsTold'
           /\ WrittenAfterRead' /\ WriteBackAccepted'
<1>1. TypeOK /\ committed' = committed /\ put' = put /\ put.pc = "idle" /\ req.pc = "idle"
  BY DEF HistoryInv, Ask, WrittenAfterRead, TypeOK, Put
<1>2. /\ req'.pc = "scalar" /\ req'.upTo = committed
      /\ req'.states = NoSource /\ req'.rows = <<>>
  <2>. HIDE DEF NoSource
  <2>. QED  BY DEF Ask, NoReq
<1>3. AskedOfTheRecorder'
  <2>1. committed \in Int
    BY HistoryAssumption DEF HistoryInv, TypeOK
  <2>. QED  BY <1>1, <1>2, <2>1 DEF AskedOfTheRecorder
<1>4. ReadIsRecorded'
  BY <1>2 DEF ReadIsRecorded, NoSource
<1>5. StatesComplete'
  BY <1>2 DEF StatesComplete, IsRead
<1>6. NothingSilentlyMissing' /\ Chronological' /\ PartialIsTold'
  BY <1>2 DEF NothingSilentlyMissing, Chronological, PartialIsTold
<1>7. WrittenAfterRead' /\ WriteBackAccepted'
  BY <1>1 DEF WrittenAfterRead, WriteBackAccepted
<1>. QED  BY <1>3, <1>4, <1>5, <1>6, <1>7

\* A job of the loop reads, of the entities of its kind, what is recorded then.
LEMMA JobReads ==
    ASSUME HistoryInv, NEW ids, NEW significantOnly \in BOOLEAN,
           \A e \in Entities : e \in ids =>
              (significantOnly <=> e \notin Structured),
           NEW e \in Entities, NEW states, states = StatesRead(ids, significantOnly)
    PROVE  /\ \A r \in states[e] : r \in readings[e] /\ r.at < committed
           /\ e \notin ids => states[e] = req.states[e]
           /\ e \in ids /\ e \in Range(Involved(req.ids)) =>
                 \A r \in Owed(e) :
                    r \in states[e] \/ (r.at < purged /\ \A q \in states[e] : r.at < q.at)
<1>1. states[e] = IF e \in Range(Involved(req.ids)) \cap ids
                  THEN {r \in Recorded(e) : InWindow(r.at) /\ (significantOnly => r.changed)}
                  ELSE req.states[e]
  BY DEF StatesRead
<1>2. \A r \in states[e] : r \in readings[e] /\ r.at < committed
  BY <1>1 DEF HistoryInv, ReadIsRecorded, Recorded
<1>3. ASSUME e \in ids, e \in Range(Involved(req.ids)), NEW r \in Owed(e)
      PROVE  r \in states[e] \/ (r.at < purged /\ \A q \in states[e] : r.at < q.at)
  <2>1. /\ r \in readings[e] /\ InWindow(r.at) /\ r.at < req.upTo
        /\ e \in Structured \/ r.changed
    BY DEF Owed
  <2>2. TypeOK /\ req.upTo <= committed
    BY DEF HistoryInv, AskedOfTheRecorder
  <2>3. /\ committed \in Int /\ purged \in Int /\ req.upTo \in Int
        /\ \A q \in readings[e] : q.at \in Int
    <3>1. committed \in Int /\ purged \in Int
      BY <2>2, HistoryAssumption DEF TypeOK
    <3>. QED  BY <2>2, <3>1, AskedNumbers
  <2>4. r.at < committed
    BY <2>1, <2>2, <2>3
  <2>5. CASE purged <= r.at
    <3>1. r \in Recorded(e)
      BY <2>1, <2>4, <2>5 DEF Recorded
    <3>. QED  BY <1>1, <1>3, <2>1, <3>1
  <2>6. CASE ~(purged <= r.at)
    <3>1. r.at < purged
      BY <2>1, <2>3, <2>6
    <3>2. \A q \in states[e] : q \in readings[e] /\ purged <= q.at
      BY <1>1, <1>3 DEF Recorded
    <3>. QED  BY <2>1, <2>3, <3>1, <3>2
  <2>. QED  BY <2>5, <2>6
<1>. QED  BY <1>1, <1>2, <1>3

LEMMA JobKeeps ==
    ASSUME HistoryInv, NEW ids, NEW significantOnly \in BOOLEAN, NEW next,
           \A e \in Entities : e \in ids => (significantOnly <=> e \notin Structured),
           req' = [req EXCEPT !.pc = next, !.states = StatesRead(ids, significantOnly)],
           req.pc # "done", next # "done",
           \A e \in Entities : IsRead(e)' => IsRead(e) \/ e \in ids,
           UNCHANGED <<now, readings, committed, purged, compiled, put>>
    PROVE  /\ AskedOfTheRecorder' /\ ReadIsRecorded' /\ StatesComplete'
           /\ NothingSilentlyMissing' /\ Chronological' /\ PartialIsTold'
           /\ WrittenAfterRead' /\ WriteBackAccepted'
<1>1. TypeOK /\ req \in Post /\ put \in Put
  BY DEF HistoryInv, TypeOK
<1>2. /\ req'.pc = next /\ req'.states = StatesRead(ids, significantOnly)
      /\ req'.ids = req.ids /\ req'.start = req.start /\ req'.end = req.end
      /\ req'.upTo = req.upTo /\ req'.rows = req.rows
  BY <1>1 DEF Post
<1>3. AskedOfTheRecorder'
  BY <1>2 DEF HistoryInv, AskedOfTheRecorder
<1>4. ASSUME NEW e \in Entities
      PROVE  /\ \A r \in req'.states[e] : r \in readings[e] /\ r.at < committed
             /\ e \notin ids => req'.states[e] = req.states[e]
             /\ e \in ids /\ e \in Range(Involved(req.ids)) =>
                   \A r \in Owed(e) :
                      r \in req'.states[e] \/ (r.at < purged /\ \A q \in req'.states[e] : r.at < q.at)
  BY <1>2, JobReads
<1>5. ReadIsRecorded'
  <2>1. \A i \in DOMAIN req.rows : ~req.rows[i].mean =>
           \E r \in readings[req.rows[i].entity] : r.at = req.rows[i].at /\ r.at < committed
    BY DEF HistoryInv, ReadIsRecorded
  <2>. QED  BY <1>2, <1>4, <2>1 DEF ReadIsRecorded
<1>6. ASSUME NEW e \in Range(Involved(req.ids)), IsRead(e)', NEW r \in Owed(e)
      PROVE  r \in req'.states[e] \/ (r.at < purged /\ \A q \in req'.states[e] : r.at < q.at)
  <2>1. e \in Entities
    BY <1>1, AskedNumbers
  <2>2. CASE e \in ids
    BY <1>4, <2>1, <2>2
  <2>3. CASE e \notin ids
    <3>1. IsRead(e)
      BY <1>6, <2>1, <2>3
    <3>2. r \in req.states[e] \/ (r.at < purged /\ \A q \in req.states[e] : r.at < q.at)
      BY <3>1 DEF HistoryInv, StatesComplete
    <3>. QED  BY <1>4, <2>1, <2>3, <3>2
  <2>. QED  BY <2>2, <2>3
<1>7. \A e : Owed(e)' = Owed(e)
  BY <1>2 DEF Owed, InWindow
<1>8. StatesComplete'
  BY <1>2, <1>6, <1>7 DEF StatesComplete
<1>9. NothingSilentlyMissing' /\ Chronological' /\ PartialIsTold'
  BY <1>2 DEF NothingSilentlyMissing, Chronological, PartialIsTold
<1>10. put.pc = "idle" /\ put' = put
  BY <1>1 DEF HistoryInv, WrittenAfterRead, Put
<1>11. WrittenAfterRead' /\ WriteBackAccepted'
  BY <1>10 DEF WrittenAfterRead, WriteBackAccepted
<1>. QED  BY <1>3, <1>5, <1>8, <1>9, <1>11

\* When the jobs are done, each state owed to the request has a row in all.
LEMMA NothingLeftOut ==
    ASSUME HistoryInv, req.pc = "statistics", NEW e \in Range(Shown), NEW r \in Owed(e)
    PROVE  \/ \E i \in 1..Len(All) : All[i] = [entity |-> e, at |-> r.at, mean |-> FALSE]
           \/ \E i \in 1..Len(All) : All[i] = [entity |-> e, at |-> HourOf(r.at), mean |-> TRUE]
           \/ r.at < purged /\ (e \notin Numeric \/ HourOf(r.at) < req.start)
<1>1. TypeOK /\ e \in Entities
  BY ShownTyped DEF HistoryInv
<1>2. /\ r \in readings[e] /\ r \in Reading /\ r.at \in Nat /\ r.at <= MaxTime
      /\ req.start <= r.at /\ r.at <= req.end
      /\ req.start \in Nat /\ req.end \in Nat /\ MaxTime \in Nat
  <2>1. r \in readings[e] /\ req.start <= r.at /\ r.at <= req.end
    BY DEF Owed, InWindow
  <2>2. r \in Reading /\ r.at \in Nat /\ req.start \in Nat /\ req.end \in Nat
    BY <1>1, <2>1, AskedNumbers
  <2>. QED  BY <2>1, <2>2, HistoryAssumption DEF Reading, Time
<1>3. r \in req.states[e] \/ (r.at < purged /\ \A q \in req.states[e] : r.at < q.at)
  BY DEF HistoryInv, StatesComplete, IsRead, Shown
<1>4. CASE r \in req.states[e]
  BY <1>1, <1>4, AllMeans
<1>5. ASSUME r.at < purged, \A q \in req.states[e] : r.at < q.at,
             e \in Numeric, ~(HourOf(r.at) < req.start)
      PROVE  \E i \in 1..Len(All) : All[i] = [entity |-> e, at |-> HourOf(r.at), mean |-> TRUE]
  <2>1. PICK h \in Nat : /\ HourOf(r.at) = h * HourLength
                         /\ h * HourLength <= r.at /\ r.at < (h + 1) * HourLength
    BY <1>2, HourMeans
  <2>2. HourLength \in Nat /\ h * HourLength \in Nat /\ (h + 1) * HourLength \in Nat
    BY HistoryAssumption
  <2>3. /\ purged \in Nat /\ compiled \in Nat /\ compiled * HourLength \in Nat
        /\ purged <= compiled * HourLength
    <3>1. compiled \in Nat /\ compiled * HourLength \in Nat
      BY <1>1, <2>2 DEF TypeOK
    <3>. QED  BY <1>1, <3>1 DEF TypeOK
  <2>4. h * HourLength < compiled * HourLength
    BY <1>2, <1>5, <2>1, <2>2, <2>3
  <2>5. h < compiled
    BY <2>3, <2>4, HourBefore
  <2>6. HourOf(r.at) \in HourRows(e)
    <3>1. h \in 0..(compiled - 1)
      BY <2>3, <2>5
    <3>. QED  BY <1>2, <2>1, <3>1 DEF HourRows
  <2>7. HourOf(r.at) \in Nat /\ HourOf(r.at) <= r.at
    BY <2>1, <2>2
  <2>8. InWindow(HourOf(r.at))
    BY <1>2, <1>5, <2>7 DEF InWindow
  <2>9. req.states[e] \in SUBSET Reading
    BY <1>1 DEF TypeOK, Post
  <2>10. HourOf(r.at) < Cutoff(e) /\ (req.states[e] = {} \/ req.start < Cutoff(e))
    <3>1. CASE req.states[e] = {}
      BY <1>1, <1>2, <2>7, <2>9, <3>1, CutoffMeans
    <3>2. CASE req.states[e] # {}
      <4>1. Cutoff(e) \in Nat /\ r.at < Cutoff(e)
        BY <1>1, <1>5, <2>9, <3>2, CutoffMeans
      <4>. QED  BY <1>2, <2>7, <4>1
    <3>. QED  BY <3>1, <3>2
  <2>11. HourOf(r.at) \in Backfill(e)
    BY <1>5, <2>6, <2>8, <2>10 DEF Backfill, Means
  <2>. QED  BY <1>1, <2>11, AllMeans
<1>. QED  BY <1>3, <1>4, <1>5

LEMMA AnswerIsRight ==
    ASSUME HistoryInv, ReadStatistics
    PROVE  /\ AskedOfTheRecorder' /\ ReadIsRecorded' /\ StatesComplete'
           /\ NothingSilentlyMissing' /\ Chronological' /\ PartialIsTold'
           /\ WrittenAfterRead' /\ WriteBackAccepted'
<1> DEFINE rows == Answer.rows
           truncated == Answer.truncated
<1>1. /\ TypeOK /\ req \in Post /\ put \in Put /\ req.pc = "statistics"
      /\ readings' = readings /\ committed' = committed /\ purged' = purged /\ put' = put
  BY DEF HistoryInv, TypeOK, ReadStatistics
<1>2. /\ req'.pc = "done" /\ req'.states = NoSource /\ req'.rows = rows
      /\ req'.truncated = truncated /\ req'.ids = req.ids /\ req'.start = req.start
      /\ req'.end = req.end /\ req'.upTo = req.upTo
  <2>. HIDE DEF Answer, NoSource
  <2>. QED  BY <1>1 DEF ReadStatistics, Post
<1>3. Answer = Cut(All)
  BY DEF Answer, All, Lists, Shown
<1>4. All \in Seq(Row)
  BY <1>1, AllMeans
<1>5. /\ rows \in Seq(Row) /\ Len(rows) <= MaxHistoryRows
      /\ truncated => Len(rows) = MaxHistoryRows
      /\ ~truncated => rows = All
      /\ \A i \in 1..Len(rows) : i \in 1..Len(All) /\ rows[i] = All[i]
  BY <1>3, <1>4, CutMeans
<1>. HIDE DEF rows, truncated
<1>6. DOMAIN rows = 1..Len(rows)
  BY <1>5, LenProperties
<1>7. AskedOfTheRecorder'
  BY <1>1, <1>2 DEF HistoryInv, AskedOfTheRecorder
<1>8. ReadIsRecorded'
  <2>1. \A e \in Entities : req'.states[e] = {}
    BY <1>2 DEF NoSource
  <2>2. ASSUME NEW i \in DOMAIN rows, ~rows[i].mean
        PROVE  \E r \in readings[rows[i].entity] : r.at = rows[i].at /\ r.at < committed
    <3>1. i \in 1..Len(All) /\ rows[i] = All[i]
      BY <1>5, <1>6
    <3>2. All[i].entity \in Entities /\ \E r \in req.states[All[i].entity] : r.at = All[i].at
      BY <1>1, <2>2, <3>1, AllMeans
    <3>. QED  BY <3>1, <3>2 DEF HistoryInv, ReadIsRecorded
  <2>. QED  BY <1>1, <1>2, <2>1, <2>2 DEF ReadIsRecorded
<1>9. StatesComplete'
  BY <1>2 DEF StatesComplete, IsRead
<1>10. NothingSilentlyMissing'
  <2>1. ASSUME ~truncated, NEW e \in Range(Shown), NEW r \in Owed(e)
        PROVE  \/ [entity |-> e, at |-> r.at, mean |-> FALSE] \in RowsOf(e)'
               \/ [entity |-> e, at |-> HourOf(r.at), mean |-> TRUE] \in RowsOf(e)'
               \/ r.at < purged /\ (e \notin Numeric \/ HourOf(r.at) < req.start)
    <3>1. req'.rows = All /\ DOMAIN All = 1..Len(All)
      BY <1>2, <1>4, <1>5, <2>1, LenProperties
    <3>2. ASSUME NEW t, NEW m, NEW i \in 1..Len(All),
                 All[i] = [entity |-> e, at |-> t, mean |-> m]
          PROVE  [entity |-> e, at |-> t, mean |-> m] \in RowsOf(e)'
      BY <3>1, <3>2 DEF RowsOf, Range
    <3>. QED  BY <1>1, <2>1, <3>2, NothingLeftOut
  <2>2. Range(Involved(req'.ids)) = Range(Shown)
    BY <1>2 DEF Shown
  <2>3. \A e : Owed(e) = {q \in readings'[e] : /\ InWindow(q.at)' /\ q.at < req'.upTo
                                               /\ e \in Structured \/ q.changed}
    BY <1>1, <1>2 DEF Owed, InWindow
  <2>. QED  BY <1>1, <1>2, <2>1, <2>2, <2>3, Zenon DEF NothingSilentlyMissing
<1>11. Chronological'
  <2>1. ASSUME NEW i \in DOMAIN rows, NEW j \in DOMAIN rows, i < j,
               rows[i].entity = rows[j].entity, rows[i].at >= rows[j].at
        PROVE  \E k, l \in DOMAIN Shown :
                  k # l /\ Shown[k] = rows[i].entity /\ Shown[l] = rows[i].entity
    <3>1. /\ i \in 1..Len(All) /\ rows[i] = All[i]
          /\ j \in 1..Len(All) /\ rows[j] = All[j]
      BY <1>5, <1>6
    <3>. QED  BY <1>1, <2>1, <3>1, AllMeans
  <2>. QED  BY <1>2, <2>1 DEF Chronological, Shown
<1>12. PartialIsTold'
  BY <1>2, <1>5 DEF PartialIsTold
<1>13. put.pc = "idle"
  BY <1>1 DEF HistoryInv, WrittenAfterRead, Put
<1>14. WrittenAfterRead' /\ WriteBackAccepted'
  BY <1>1, <1>13 DEF WrittenAfterRead, WriteBackAccepted
<1>. QED  BY <1>7, <1>8, <1>9, <1>10, <1>11, <1>12, <1>14

-----------------------------------------------------------------------------
(* The write-back, and the invariant.                                       *)

LEMMA PutPointKeeps ==
    ASSUME HistoryInv, PutPoint
    PROVE  WrittenAfterRead' /\ WriteBackAccepted'
<1>1. PICK p \in [entity : Entities, at : 0..now, same : BOOLEAN] :
         put' = [pc       |-> IF IsCurrent(p) THEN "done" ELSE "lookup",
                 point    |-> p,
                 accepted |-> IsCurrent(p)]
  BY DEF PutPoint
<1>2. req' = req /\ readings' = readings /\ req.pc = "done"
  BY DEF PutPoint
<1>3. put'.pc = "done" => IsCurrent(p) /\ put'.accepted
  <2>. HIDE DEF IsCurrent
  <2>. QED  BY <1>1
<1>4. put'.point = p
  BY <1>1
<1>. QED  BY <1>2, <1>3, <1>4 DEF WrittenAfterRead, WriteBackAccepted, IsCurrent, IsPoint

\* What the lookup refuses and the client had read was purged between the two.
LEMMA LookupKeeps ==
    ASSUME HistoryInv, Lookup
    PROVE  WrittenAfterRead' /\ WriteBackAccepted'
<1> DEFINE p == put.point
<1>1. /\ TypeOK /\ put \in Put /\ put.pc = "lookup" /\ req.pc = "done"
      /\ req' = req /\ readings' = readings /\ purged' = purged
  BY DEF HistoryInv, TypeOK, Lookup, WrittenAfterRead
<1>2. put'.pc = "done" /\ put'.point = p /\ put'.accepted = Match(p)
  <2>. HIDE DEF Match
  <2>. QED  BY <1>1 DEF Lookup, Put
<1>3. p.entity \in Entities /\ p.at \in Nat
  BY <1>1, AskedNumbers
<1>. HIDE DEF p
<1>4. Match(p) => IsPoint(p)
  BY DEF Match, IsPoint, Recorded
<1>5. ASSUME p.same, ~Match(p),
             [entity |-> p.entity, at |-> p.at, mean |-> FALSE] \in Range(req.rows)
      PROVE  p.at < purged
  <2>1. PICK i \in DOMAIN req.rows :
           req.rows[i] = [entity |-> p.entity, at |-> p.at, mean |-> FALSE]
    BY <1>5 DEF Range
  <2>2. PICK r \in readings[p.entity] : r.at = p.at /\ r.at < committed
    BY <2>1 DEF HistoryInv, ReadIsRecorded
  <2>3. ~(purged <= r.at)
    BY <1>5, <2>2 DEF Match, Recorded
  <2>4. purged \in Int
    <3>1. compiled * HourLength \in Int
      BY <1>1, HistoryAssumption DEF TypeOK
    <3>. QED  BY <1>1, <3>1 DEF TypeOK
  <2>. QED  BY <1>3, <2>2, <2>3, <2>4
<1>. QED  BY <1>1, <1>2, <1>4, <1>5 DEF WrittenAfterRead, WriteBackAccepted, IsPoint

LEMMA HistoryInit == Init => HistoryInv
<1>. SUFFICES ASSUME Init PROVE HistoryInv
  OBVIOUS
<1>1. TypeOK
  BY TypeInit
<1>2. req.pc = "idle" /\ put.pc = "idle" /\ req.upTo = 0 /\ committed = 0
      /\ req.states = NoSource /\ req.rows = <<>>
  <2>. HIDE DEF NoSource
  <2>. QED  BY DEF Init, NoReq, NoPut
<1>3. AskedOfTheRecorder
  BY <1>2 DEF AskedOfTheRecorder
<1>4. ReadIsRecorded
  BY <1>2 DEF ReadIsRecorded, NoSource
<1>5. StatesComplete /\ WrittenAfterRead
  BY <1>2 DEF StatesComplete, IsRead, WrittenAfterRead
<1>6. NothingSilentlyMissing /\ Chronological /\ PartialIsTold /\ WriteBackAccepted
  BY <1>2 DEF NothingSilentlyMissing, Chronological, PartialIsTold, WriteBackAccepted
<1>. QED  BY <1>1, <1>3, <1>4, <1>5, <1>6 DEF HistoryInv

LEMMA HistoryNext == HistoryInv /\ [Next]_vars => HistoryInv'
<1>. SUFFICES ASSUME HistoryInv, [Next]_vars PROVE HistoryInv'
  OBVIOUS
<1>1. TypeOK /\ TypeOK' /\ Goes
  BY TypeNext, RecorderGoes DEF HistoryInv
<1>2. ASSUME req' = req, put' = put PROVE HistoryInv'
  <2>1. AskedOfTheRecorder' /\ ReadIsRecorded' /\ StatesComplete'
    BY <1>1, <1>2, WaitKeepsReads DEF HistoryInv
  <2>2. NothingSilentlyMissing' /\ Chronological' /\ PartialIsTold'
    BY <1>1, <1>2, AnswerStaysRight DEF HistoryInv
  <2>3. WriteBackAccepted'
    BY <1>1, <1>2, VerdictStaysRight DEF HistoryInv
  <2>4. WrittenAfterRead'
    BY <1>2 DEF HistoryInv, WrittenAfterRead
  <2>. QED  BY <1>1, <2>1, <2>2, <2>3, <2>4 DEF HistoryInv
<1>3. CASE (\E e \in Entities : Report(e)) \/ Tick \/ Commit \/ Compile \/ Purge \/ UNCHANGED vars
  BY <1>2, <1>3 DEF Report, Tick, Commit, Compile, Purge, vars
<1>4. CASE Ask
  BY <1>1, <1>4, AskKeeps DEF HistoryInv
<1>5. CASE ReadScalar
  <2>1. \A e \in Entities : IsRead(e)' => IsRead(e) \/ e \in Entities \ Structured
    BY <1>1, <1>5 DEF ReadScalar, IsRead, TypeOK, Post
  <2>2. \A e \in Entities : e \in Entities \ Structured => (TRUE <=> e \notin Structured)
    OBVIOUS
  <2>3. req' = [req EXCEPT !.pc = "structured", !.states = StatesRead(Entities \ Structured, TRUE)]
        /\ req.pc # "done" /\ UNCHANGED <<now, readings, committed, purged, compiled, put>>
    BY <1>5 DEF ReadScalar
  <2>4. /\ AskedOfTheRecorder' /\ ReadIsRecorded' /\ StatesComplete'
        /\ NothingSilentlyMissing' /\ Chronological' /\ PartialIsTold'
        /\ WrittenAfterRead' /\ WriteBackAccepted'
    BY <2>1, <2>2, <2>3, JobKeeps
  <2>. QED  BY <1>1, <2>4 DEF HistoryInv
<1>6. CASE ReadStructured
  <2>1. \A e \in Entities : IsRead(e)' => IsRead(e) \/ e \in Structured
    BY <1>1, <1>6 DEF ReadStructured, IsRead, TypeOK, Post
  <2>2. \A e \in Entities : e \in Structured => (FALSE <=> e \notin Structured)
    OBVIOUS
  <2>3. req' = [req EXCEPT !.pc = "statistics", !.states = StatesRead(Structured, FALSE)]
        /\ req.pc # "done" /\ UNCHANGED <<now, readings, committed, purged, compiled, put>>
    BY <1>6 DEF ReadStructured
  <2>4. /\ AskedOfTheRecorder' /\ ReadIsRecorded' /\ StatesComplete'
        /\ NothingSilentlyMissing' /\ Chronological' /\ PartialIsTold'
        /\ WrittenAfterRead' /\ WriteBackAccepted'
    BY <2>1, <2>2, <2>3, JobKeeps
  <2>. QED  BY <1>1, <2>4 DEF HistoryInv
<1>7. CASE ReadStatistics
  BY <1>1, <1>7, AnswerIsRight DEF HistoryInv
<1>8. CASE PutPoint \/ Lookup
  <2>1. req' = req
    BY <1>8 DEF PutPoint, Lookup
  <2>2. AskedOfTheRecorder' /\ ReadIsRecorded' /\ StatesComplete'
    BY <1>1, <2>1, WaitKeepsReads DEF HistoryInv
  <2>3. NothingSilentlyMissing' /\ Chronological' /\ PartialIsTold'
    BY <1>1, <2>1, AnswerStaysRight DEF HistoryInv
  <2>4. WrittenAfterRead' /\ WriteBackAccepted'
    BY <1>8, PutPointKeeps, LookupKeeps
  <2>. QED  BY <1>1, <2>2, <2>3, <2>4 DEF HistoryInv
<1>. QED  BY <1>3, <1>4, <1>5, <1>6, <1>7, <1>8 DEF Next

-----------------------------------------------------------------------------
(* Theorems.                                                                *)

\* A request, its answer and a write-back keep their types in every reachable state.
THEOREM HistoryTyped == Spec => []TypeOK
<1>1. HistoryInv => TypeOK
  BY DEF HistoryInv
<1>. QED  BY HistoryInit, HistoryNext, <1>1, PTL DEF Spec

\* Whatever the recorder commits, compiles or purges between the jobs of fetch_history:
\* an answer that is not a 206 shows every state that was recorded in the window when
\* the request came, or the mean of its hour.
THEOREM NothingIsSilentlyMissing == Spec => []NothingSilentlyMissing
<1>1. HistoryInv => NothingSilentlyMissing
  BY DEF HistoryInv
<1>. QED  BY HistoryInit, HistoryNext, <1>1, PTL DEF Spec

\* entity_values merges statistics and states in the order of time, and no instant comes
\* from both, even where the answer is cut.
THEOREM SourcesMergeInOrder == Spec => []Chronological
<1>1. HistoryInv => Chronological
  BY DEF HistoryInv
<1>. QED  BY HistoryInit, HistoryNext, <1>1, PTL DEF Spec

\* No answer has more rows than MAX_HISTORY_ROWS, and one that is told as partial has
\* them all (_RowCounter).
THEOREM LimitIsTold == Spec => []PartialIsTold
<1>1. HistoryInv => PartialIsTold
  BY DEF HistoryInv
<1>. QED  BY HistoryInit, HistoryNext, <1>1, PTL DEF Spec

\* write_history accepts nothing but a point that exists as it is, and refuses one that
\* the client has read only when it was purged in between.
THEOREM ReadsCanBeWrittenBack == Spec => []WriteBackAccepted
<1>1. HistoryInv => WriteBackAccepted
  BY DEF HistoryInv
<1>. QED  BY HistoryInit, HistoryNext, <1>1, PTL DEF Spec
=============================================================================
