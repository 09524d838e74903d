----------------------- MODULE StatisticsImportProofs -----------------------
(***************************************************************************)
(* The statistics importer with any elements, imports, hours and limits:   *)
(* what is stored stands for whole hours, no hour is left out between what *)
(* is stored, and no sum counts anything twice.                            *)
(***************************************************************************)
EXTENDS StatisticsImport, WellFoundedInduction, FiniteSetTheorems, TLAPS

-----------------------------------------------------------------------------
(* Hours and readings.                                                      *)

\* Every non-empty set of numbers has a least one.
LEMMA LeastNumber ==
    ASSUME NEW S \in SUBSET Nat, S # {}
    PROVE  \E x \in S : \A y \in S : x <= y
<1> DEFINE R == OpToRel(<, Nat)
<1>1. IsWellFoundedOn(R, Nat)
  BY NatLessThanWellFounded
<1>2. ASSUME NEW x \in Nat, NEW y \in Nat, x < y PROVE <<x, y>> \in R
  BY <1>2 DEF OpToRel
<1>. HIDE DEF R
<1>3. PICK x \in S : \A y \in S : ~(<<y, x>> \in R)
  BY <1>1, WFMin
<1>4. \A y \in S : ~(y < x)
  BY <1>2, <1>3
<1>5. \A y \in S : x <= y
  BY <1>4
<1>. QED  BY <1>5

\* The hours are those of the ticks before their end.
LEMMA HourMeans ==
    ASSUME NEW t \in Nat
    PROVE  /\ Hour(t) \in Nat
           /\ \A h \in Int : h * TicksPerHour <= t <=> h <= Hour(t)
<1>1. TicksPerHour \in Nat \ {0}
  BY StatisticsImportAssumption
<1>2. PICK q \in Int : q = Hour(t)
  BY <1>1 DEF Hour
<1>3. q * TicksPerHour <= t /\ t < (q + 1) * TicksPerHour
  BY <1>1, <1>2 DEF Hour
<1>4. q \in Nat
  BY <1>1, <1>3
<1>5. ASSUME NEW h \in Int PROVE h * TicksPerHour <= t <=> h <= q
  <2>1. h <= q => h * TicksPerHour <= q * TicksPerHour
    BY <1>1
  <2>2. h >= q + 1 => h * TicksPerHour >= (q + 1) * TicksPerHour
    BY <1>1
  <2>. QED  BY <1>1, <1>3, <2>1, <2>2
<1>. QED  BY <1>2, <1>4, <1>5

LEMMA HoursGrow ==
    ASSUME NEW t \in Nat, NEW u \in Nat, t <= u
    PROVE  Hour(t) <= Hour(u)
<1> DEFINE h == Hour(t)
<1>1. h \in Int /\ \A g \in Int : g * TicksPerHour <= t <=> g <= h
  BY HourMeans
<1>2. Hour(u) \in Int /\ \A g \in Int : g * TicksPerHour <= u <=> g <= Hour(u)
  BY HourMeans
<1>3. TicksPerHour \in Nat
  BY StatisticsImportAssumption
<1>. HIDE DEF h
<1>4. h <= h
  BY <1>1
<1>5. h * TicksPerHour <= t
  BY <1>1, <1>4
<1>6. h * TicksPerHour \in Int
  BY <1>1, <1>3
<1>7. h * TicksPerHour <= u
  BY <1>5, <1>6
<1>8. h <= Hour(u)
  BY <1>1, <1>2, <1>7
<1>. QED  BY <1>8 DEF h

\* What is known of a reading and of its hour.
LEMMA ReadingTyped ==
    ASSUME NEW r \in Reading
    PROVE  /\ r.at \in 0..MaxTick /\ r.at \in Nat /\ r.value \in Nat /\ r.value \in Values
           /\ Hour(r.at) \in Hours /\ Hour(r.at) \in Nat
<1>1. r.at \in 0..MaxTick /\ r.value \in Values /\ r.value \in Nat /\ MaxTick \in Nat
  BY StatisticsImportAssumption DEF Reading
<1>2. r.at \in Nat /\ r.at <= MaxTick
  BY <1>1
<1>3. Hour(r.at) \in Nat /\ Hour(r.at) <= Hour(MaxTick) /\ Hour(MaxTick) \in Nat
  BY <1>1, <1>2, HourMeans, HoursGrow
<1>4. Hour(r.at) \in Hours
  BY <1>3 DEF Hours
<1>. QED  BY <1>1, <1>2, <1>3, <1>4

\* Of some readings one is the latest.
LEMMA LatestIs ==
    ASSUME NEW S \in SUBSET Reading, S # {}
    PROVE  Latest(S) \in S /\ \A q \in S : q.at <= Latest(S).at
<1> DEFINE A == {MaxTick - r.at : r \in S}
<1>1. \A r \in S : r.at \in 0..MaxTick
  BY ReadingTyped
<1>2. MaxTick \in Nat
  BY StatisticsImportAssumption
<1>3. A \in SUBSET Nat /\ A # {}
  BY <1>1, <1>2
<1>4. PICK x \in A : \A y \in A : x <= y
  <2>. HIDE DEF A
  <2>. QED  BY <1>3, LeastNumber
<1>5. PICK r \in S : x = MaxTick - r.at
  OBVIOUS
<1>6. \A q \in S : MaxTick - r.at <= MaxTick - q.at
  BY <1>4, <1>5
<1>7. \A q \in S : q.at <= r.at
  BY <1>1, <1>2, <1>6
<1>. QED  BY <1>7 DEF Latest

\* What holds at first, and for an hour whenever for the one before it, holds for all.
LEMMA HourByHour ==
    ASSUME NEW a \in Int, NEW b \in Int, NEW S, a \in S,
           \A h \in (a + 1)..b : h - 1 \in S => h \in S
    PROVE  \A h \in a..b : h \in S
<1> DEFINE Bad == {n \in Nat : a + n <= b /\ a + n \notin S}
<1>1. Bad = {}
  <2>1. SUFFICES ASSUME Bad # {} PROVE FALSE
    OBVIOUS
  <2>2. PICK n \in Bad : \A m \in Bad : n <= m
    <3>1. Bad \in SUBSET Nat
      OBVIOUS
    <3>. HIDE DEF Bad
    <3>. QED  BY <2>1, <3>1, LeastNumber
  <2>3. n # 0 /\ n \in Nat /\ a + n <= b /\ a + n \notin S
    OBVIOUS
  <2>4. n - 1 \in Nat /\ ~(n <= n - 1) /\ a + (n - 1) <= b
    BY <2>3
  <2>5. a + (n - 1) \in S
    BY <2>2, <2>4
  <2>6. a + n \in (a + 1)..b /\ (a + n) - 1 = a + (n - 1)
    BY <2>3
  <2>. QED  BY <2>3, <2>5, <2>6
<1>2. ASSUME NEW h \in a..b PROVE h \in S
  <2> DEFINE n == h - a
  <2>1. n \in Nat /\ a + n = h /\ a + n <= b
    OBVIOUS
  <2>. HIDE DEF n
  <2>. QED  BY <1>1, <2>1
<1>. QED  BY <1>2

-----------------------------------------------------------------------------
(* What a counter accumulates.                                              *)

\* What an import starts from: the stored row.
Before(j) == [seen |-> UNION {r.seen : r \in j.last},
              sum  |-> IF j.last = {} THEN 0 ELSE (CHOOSE r \in j.last : TRUE).sum]

\* What it has after an hour, from what it had after the hour before.
HourAfter(j, f, h) ==
    IF h < j.from THEN Before(j)
    ELSE IF Bucket(j.points, h) = {} THEN f[h - 1]
    ELSE [seen |-> {Latest(Bucket(j.points, h))},
          sum  |-> f[h - 1].sum + Delta(f[h - 1].seen, Latest(Bucket(j.points, h)).value)]

\* accumulate_counter goes from hour to hour.
LEMMA AccumulatedMeans ==
    ASSUME NEW j, j.from \in Int, j.to \in Int, j.from <= j.to
    PROVE  \A h \in (j.from - 1)..(j.to - 1) : Accumulated(j)[h] = HourAfter(j, Accumulated(j), h)
<1> DEFINE a == j.from - 1
           b == j.to - 1
           Good(n, f) == f = [h \in a..n |-> HourAfter(j, f, h)]
           S == {n \in Int : \E f : Good(n, f)}
<1>0. a \in Int /\ b \in Int /\ a <= b
  OBVIOUS
<1>1. \A f, g, h : f[h - 1] = g[h - 1] \/ h < j.from => HourAfter(j, f, h) = HourAfter(j, g, h)
  BY DEF HourAfter
<1>2. a \in S
  <2> DEFINE f == [h \in a..a |-> Before(j)]
  <2>1. \A h \in a..a : h < j.from
    OBVIOUS
  <2>2. \A h \in a..a : HourAfter(j, f, h) = Before(j)
    BY <2>1 DEF HourAfter
  <2>3. Good(a, f)
    BY <2>2
  <2>. HIDE DEF a, Good
  <2>. QED  BY <1>0, <2>3
<1>3. ASSUME NEW n \in (a + 1)..b, n - 1 \in S PROVE n \in S
  <2>1. PICK g : g = [h \in a..(n - 1) |-> HourAfter(j, g, h)]
    BY <1>3
  <2> DEFINE f == [h \in a..n |-> IF h < n THEN g[h] ELSE HourAfter(j, g, h)]
  <2>2. ASSUME NEW h \in a..n PROVE f[h] = HourAfter(j, f, h)
    <3>1. CASE h = a
      <4>1. h < j.from /\ h < n /\ h \in a..(n - 1)
        BY <3>1
      <4>. HIDE DEF a
      <4>2. f[h] = g[h] /\ g[h] = HourAfter(j, g, h)
        BY <2>1, <4>1
      <4>. HIDE DEF f
      <4>. QED  BY <1>1, <4>1, <4>2
    <3>2. CASE h # a
      <4>1. h - 1 \in a..(n - 1) /\ h - 1 \in a..n /\ h - 1 < n
        BY <3>2
      <4>. HIDE DEF a
      <4>2. f[h - 1] = g[h - 1]
        BY <4>1
      <4>3. f[h] = IF h < n THEN g[h] ELSE HourAfter(j, g, h)
        OBVIOUS
      <4>4. h < n => h \in a..(n - 1)
        BY <1>0
      <4>5. f[h] = HourAfter(j, g, h)
        <5>. HIDE DEF f
        <5>. QED  BY <2>1, <4>3, <4>4
      <4>. HIDE DEF f
      <4>. QED  BY <1>1, <4>2, <4>5
    <3>. QED  BY <3>1, <3>2
  <2>. HIDE DEF a
  <2>3. f = [h \in a..n |-> f[h]]
    OBVIOUS
  <2>. HIDE DEF f
  <2>4. Good(n, f)
    BY <2>2, <2>3
  <2>. QED  BY <1>0, <2>4
<1>4. b \in S
  <2>. HIDE DEF a, b, S
  <2>1. b \in a..b
    BY <1>0
  <2>. QED  BY <1>0, <1>2, <1>3, <2>1, HourByHour
<1>5. Accumulated(j) = CHOOSE f : f = [h \in a..b |-> HourAfter(j, f, h)]
  BY DEF Accumulated, HourAfter, Before
<1>6. PICK f : Good(b, f)
  BY <1>4
<1>7. Good(b, Accumulated(j))
  BY <1>5, <1>6
<1>. QED  BY <1>7

Accumulation == [seen : SUBSET Reading, sum : Nat]

LEMMA DeltaTyped ==
    ASSUME NEW prev \in SUBSET Reading, NEW value \in Nat
    PROVE  Delta(prev, value) \in Nat
<1>1. prev # {} => Latest(prev).value \in Nat
  BY LatestIs, ReadingTyped
<1>. QED  BY <1>1 DEF Delta

LEMMA AccumulatedTyped ==
    ASSUME NEW j \in Job, \A r, q \in j.last : r = q, j.from <= j.to
    PROVE  \A h \in (j.from - 1)..(j.to - 1) : Accumulated(j)[h] \in Accumulation
<1> DEFINE acc == Accumulated(j)
           a == j.from - 1
           b == j.to - 1
           S == {h \in Int : acc[h] \in Accumulation}
<1>1. /\ j.from \in Int /\ j.to \in Int /\ a \in Int /\ b \in Int
      /\ j.last \in SUBSET Row /\ j.points \in SUBSET Reading
  BY DEF Job
<1>2. \A h \in a..b : acc[h] = HourAfter(j, acc, h)
  BY <1>1, AccumulatedMeans
<1>3. Before(j) \in Accumulation
  <2>1. CASE j.last = {}
    BY <2>1 DEF Before, Accumulation
  <2>2. CASE j.last # {}
    <3>1. PICK r \in j.last : j.last = {r}
      BY <2>2
    <3>2. r \in Row /\ (CHOOSE q \in j.last : TRUE) = r /\ UNION {q.seen : q \in j.last} = r.seen
      BY <1>1, <3>1
    <3>. QED  BY <2>2, <3>2 DEF Before, Accumulation, Row
  <2>. QED  BY <2>1, <2>2
<1>. HIDE DEF acc
<1>4. a \in S
  <2>1. a <= b /\ a < j.from
    BY <1>1
  <2>2. acc[a] = Before(j)
    <3>1. a \in a..b
      <4>. HIDE DEF a, b
      <4>. QED  BY <1>1, <2>1
    <3>2. acc[a] = HourAfter(j, acc, a)
      <4>. HIDE DEF a, b
      <4>. QED  BY <1>2, <3>1
    <3>. HIDE DEF a
    <3>. QED  BY <2>1, <3>2 DEF HourAfter
  <2>. QED  BY <1>1, <1>3, <2>2
<1>5. ASSUME NEW h \in (a + 1)..b, h - 1 \in S PROVE h \in S
  <2>1. h \in a..b /\ h \in Int /\ ~(h < j.from)
    BY <1>1
  <2>2. acc[h - 1] \in Accumulation
    BY <1>5
  <2>3. CASE Bucket(j.points, h) = {}
    <3>1. acc[h] = acc[h - 1]
      BY <1>2, <2>1, <2>3 DEF HourAfter
    <3>. QED  BY <2>1, <2>2, <3>1
  <2>4. CASE Bucket(j.points, h) # {}
    <3> DEFINE r == Latest(Bucket(j.points, h))
               new == acc[h - 1].sum + Delta(acc[h - 1].seen, r.value)
    <3>1. acc[h] = [seen |-> {r}, sum |-> new]
      BY <1>2, <2>1, <2>4 DEF HourAfter
    <3>2. Bucket(j.points, h) \in SUBSET Reading
      BY <1>1 DEF Bucket
    <3>3. r \in Reading /\ r.value \in Nat
      BY <2>4, <3>2, LatestIs, ReadingTyped
    <3>. HIDE DEF r
    <3>4. new \in Nat
      <4>1. acc[h - 1].sum \in Nat /\ acc[h - 1].seen \in SUBSET Reading
        BY <2>2 DEF Accumulation
      <4>2. Delta(acc[h - 1].seen, r.value) \in Nat
        BY <3>3, <4>1, DeltaTyped
      <4>. QED  BY <4>1, <4>2
    <3>. HIDE DEF new
    <3>5. acc[h] \in Accumulation
      BY <3>1, <3>3, <3>4 DEF Accumulation
    <3>. QED  BY <2>1, <3>5
  <2>. QED  BY <2>3, <2>4
<1>6. \A h \in a..b : h \in S
  <2>. HIDE DEF a, b, S
  <2>. QED  BY <1>1, <1>4, <1>5, HourByHour
<1>. QED  BY <1>6 DEF acc

\* The rows of an import: one for every hour that has a point.
LEMMA NewRowsTyped ==
    ASSUME NEW j \in Job, \A r, q \in j.last : r = q, j.from <= j.to,
           \A p \in j.points : Hour(p.at) \in j.from..(j.to - 1)
    PROVE  /\ NewRows(j) \in SUBSET Row /\ OneRowAnHour(NewRows(j))
           /\ \A r \in NewRows(j) : \E p \in j.points : r.hour = Hour(p.at)
           /\ \A p \in j.points : \E r \in NewRows(j) : r.hour = Hour(p.at)
<1> DEFINE hours == {Hour(r.at) : r \in j.points}
           acc == Accumulated(j)
           counted == {[hour |-> h, seen |-> acc[h].seen, sum |-> acc[h].sum] : h \in hours}
           measured == {[hour |-> h, seen |-> Bucket(j.points, h), sum |-> 0] : h \in hours}
<1>1. NewRows(j) = IF Head(j.todo) \in ListedIn(Counters) THEN counted ELSE measured
  BY DEF NewRows
<1>2. j.points \in SUBSET Reading /\ j.from \in Int /\ j.to \in Int
  BY DEF Job
<1>3. hours \subseteq Hours /\ \A h \in hours : h \in (j.from - 1)..(j.to - 1)
  BY <1>2, ReadingTyped
<1>4. \A h \in hours : acc[h].seen \in SUBSET Reading /\ acc[h].sum \in Nat
  BY <1>3, AccumulatedTyped DEF Accumulation
<1>. HIDE DEF acc
<1>5. \A h \in hours : Bucket(j.points, h) \in SUBSET Reading
  BY <1>2 DEF Bucket
<1>6. \A r \in NewRows(j) : r \in Row /\ r.hour \in hours
  <2>. HIDE DEF hours
  <2>1. \A r \in counted : r \in Row /\ r.hour \in hours
    BY <1>3, <1>4 DEF Row
  <2>2. \A r \in measured : r \in Row /\ r.hour \in hours
    BY <1>3, <1>5 DEF Row
  <2>. QED  BY <1>1, <2>1, <2>2
<1>7. \A h \in hours : \E r \in NewRows(j) : r.hour = h
  <2>. HIDE DEF hours
  <2>1. ASSUME NEW h \in hours PROVE \E r \in counted : r.hour = h
    <3> DEFINE row == [hour |-> h, seen |-> acc[h].seen, sum |-> acc[h].sum]
    <3>1. row \in counted /\ row.hour = h
      BY <2>1
    <3>. QED  BY <3>1
  <2>2. ASSUME NEW h \in hours PROVE \E r \in measured : r.hour = h
    <3> DEFINE row == [hour |-> h, seen |-> Bucket(j.points, h), sum |-> 0]
    <3>1. row \in measured /\ row.hour = h
      BY <2>2
    <3>. QED  BY <3>1
  <2>. HIDE DEF counted, measured
  <2>. QED  BY <1>1, <2>1, <2>2
<1>8. OneRowAnHour(NewRows(j))
  <2>. HIDE DEF hours
  <2>. QED  BY <1>1 DEF OneRowAnHour
<1>. QED  BY <1>6, <1>7, <1>8
-----------------------------------------------------------------------------
(* The inductive invariant.                                                 *)

HoursOf(rows)    == {r.hour : r \in rows}
HoursIn(points)  == {Hour(r.at) : r \in points}

\* Readings lie in the past, one to a tick.
ReadingsOK ==
    \A e \in Elements :
        /\ \A r \in remote[e] \cup late[e] : r.at < now
        /\ \A r, q \in remote[e] \cup late[e] : r.at = q.at => r = q
        /\ IsFiniteSet(remote[e])

\* A completed hour that the importer still owes.
Missing(e, h) ==
    /\ h \in Hours /\ h < ThisHour /\ h >= ThisHour - Lookback
    /\ InTime(e, h) /\ Bucket(remote[e], h) # {}
    /\ h \notin HoursOf(stats[e])

\* These hours are completed, and before none of them another one is left out.
NoneLeftOut(e, hours) ==
    \A n \in hours : n < ThisHour /\ \A h \in Hours : h < n /\ Missing(e, h) => h \in hours

NoneMissingBefore(e, n) == \A h \in Hours : Missing(e, h) => h >= n

\* A completed hour that had readings, all of them in time.
Owed(e, h) == h \in Hours /\ h < ThisHour /\ InTime(e, h) /\ Bucket(remote[e], h) # {}

\* These hours are completed, none is before the first and from there on none is left out.
Gapless(e, hours, first) ==
    \A n \in hours : /\ first <= n /\ n < ThisHour
                     /\ \A h \in Hours : first <= h /\ h < n /\ Owed(e, h) => h \in hours

\* What a job knows at each await.
LastOK(j)   == j.at = "window" => \A r \in j.last : /\ r.hour < ThisHour
                                                    /\ NoneMissingBefore(Head(j.todo), r.hour + 1)
WindowOK(j) == j.at \in {"serve", "points"} => /\ j.from < j.to /\ j.to <= ThisHour
                                               /\ NoneMissingBefore(Head(j.todo), j.from)
PointsOK(j) == j.at = "points" => /\ NoneLeftOut(Head(j.todo), HoursIn(j.points))
                                  /\ \A r \in j.points : Hour(r.at) \in j.from..(j.to - 1)

JobOK(j) == (\A r, q \in j.last : r = q) /\ LastOK(j) /\ WindowOK(j) /\ PointsOK(j)

ImportsOK ==
    /\ \A i \in Imports : JobOK(job[i])
    /\ \A k \in DOMAIN queue : NoneLeftOut(queue[k].element, HoursOf(queue[k].rows))
    /\ \A e \in Elements : NoneLeftOut(e, HoursOf(stats[e]))

ImportInv == TypeOK /\ ReadingsOK /\ ImportsOK

\* What no step takes back: time, the readings of a completed hour (or one of them was
\* late), the hours stored.
Forward ==
    /\ ThisHour <= ThisHour'
    /\ \A e \in Elements, h \in Int :
          h < ThisHour /\ InTime(e, h)' => /\ InTime(e, h)
                                           /\ Bucket(remote[e], h)' = Bucket(remote[e], h)
    /\ \A e \in Elements : HoursOf(stats[e]) \subseteq HoursOf(stats[e])'

LEMMA ElementsTyped ==
    ASSUME TypeOK
    PROVE  /\ now \in Nat /\ ThisHour \in Nat /\ ThisHour <= Hour(MaxTick) /\ Hour(MaxTick) \in Nat
           /\ \A e \in Elements : /\ remote[e] \in SUBSET Reading /\ late[e] \in SUBSET Reading
                                  /\ stats[e] \in SUBSET Row /\ OneRowAnHour(stats[e])
           /\ \A k \in DOMAIN queue : /\ queue[k].element \in Elements
                                      /\ queue[k].rows \in SUBSET Row
           /\ Lookback \in Nat
<1>1. now \in Nat /\ now <= MaxTick /\ MaxTick \in Nat /\ Lookback \in Nat
  BY StatisticsImportAssumption DEF TypeOK
<1>2. Hour(now) \in Nat /\ Hour(now) <= Hour(MaxTick) /\ Hour(MaxTick) \in Nat
  BY <1>1, HourMeans, HoursGrow
<1>3. \A e \in Elements : /\ remote[e] \in SUBSET Reading /\ late[e] \in SUBSET Reading
                          /\ stats[e] \in SUBSET Row /\ OneRowAnHour(stats[e])
  BY DEF TypeOK
<1>4. \A k \in DOMAIN queue : queue[k] \in Write
  BY DEF TypeOK
<1>5. \A k \in DOMAIN queue : queue[k].element \in Elements /\ queue[k].rows \in SUBSET Row
  BY <1>4 DEF Write
<1>. QED  BY <1>1, <1>2, <1>3, <1>5 DEF ThisHour

LEMMA HoursAreInts == Hours \subseteq Int /\ Hours \subseteq Nat /\ Hour(MaxTick) \in Nat
<1>1. MaxTick \in Nat
  BY StatisticsImportAssumption
<1>2. Hour(MaxTick) \in Nat
  BY <1>1, HourMeans
<1>. QED  BY <1>2 DEF Hours

LEMMA HourTyped == TypeOK => ThisHour \in Nat /\ ThisHour <= Hour(MaxTick)
BY ElementsTyped

\* Before and after a step.
LEMMA ClockTyped ==
    ASSUME TypeOK, TypeOK'
    PROVE  ThisHour \in Nat /\ ThisHour' \in Nat /\ Lookback \in Nat
<1>1. ThisHour \in Nat
  BY HourTyped
<1>2. (TypeOK => ThisHour \in Nat /\ ThisHour <= Hour(MaxTick))'
  BY HourTyped, PTL
<1>3. ThisHour' \in Nat
  BY <1>2
<1>. QED  BY <1>1, <1>3, StatisticsImportAssumption

\* An hour missing after a step was missing before, if it was completed.
LEMMA MissingStays ==
    ASSUME TypeOK, TypeOK', Forward
    PROVE  \A e \in Elements, h \in Int : h < ThisHour /\ Missing(e, h)' => Missing(e, h)
<1>1. ThisHour \in Nat /\ ThisHour' \in Nat /\ Lookback \in Nat
  BY ClockTyped
<1>2. SUFFICES ASSUME NEW e \in Elements, NEW h \in Int, h < ThisHour, Missing(e, h)'
               PROVE  Missing(e, h)
  OBVIOUS
<1>3. InTime(e, h)' /\ Bucket(remote[e], h)' # {} /\ h \in Hours /\ h >= ThisHour' - Lookback
      /\ h \notin HoursOf(stats[e])'
  BY <1>2 DEF Missing, Hours
<1>4. InTime(e, h) /\ Bucket(remote[e], h) # {} /\ h \notin HoursOf(stats[e])
  BY <1>2, <1>3 DEF Forward
<1>5. h >= ThisHour - Lookback
  <2>1. ThisHour <= ThisHour'
    BY DEF Forward
  <2>2. h >= ThisHour' - Lookback
    BY <1>3
  <2>3. \A t, u, l \in Nat : t <= u /\ h >= u - l => h >= t - l
    OBVIOUS
  <2>. QED  BY <1>1, <2>1, <2>2, <2>3
<1>. QED  BY <1>2, <1>3, <1>4, <1>5 DEF Missing

\* So what a job or a queued write knows, stays so.
LEMMA KnowledgeStays ==
    ASSUME TypeOK, TypeOK', Forward
    PROVE  /\ \A e \in Elements, n \in Int :
                 n <= ThisHour /\ NoneMissingBefore(e, n) => NoneMissingBefore(e, n)'
           /\ \A e \in Elements, hours \in SUBSET Hours :
                 NoneLeftOut(e, hours) => NoneLeftOut(e, hours)'
<1>1. ThisHour \in Nat /\ ThisHour' \in Nat /\ ThisHour <= ThisHour'
  BY ClockTyped DEF Forward
<1>2. Hours \subseteq Int
  BY HoursAreInts
<1>3. ASSUME NEW e \in Elements, NEW n \in Int, n <= ThisHour, NoneMissingBefore(e, n),
             NEW h \in Hours, Missing(e, h)'
      PROVE  h >= n
  <2>1. CASE h < ThisHour
    <3>1. Missing(e, h)
      BY <1>2, <1>3, <2>1, MissingStays
    <3>. QED  BY <1>3, <3>1 DEF NoneMissingBefore
  <2>2. CASE ~(h < ThisHour)
    BY <1>1, <1>2, <1>3, <2>2
  <2>. QED  BY <2>1, <2>2
<1>4. ASSUME NEW e \in Elements, NEW hours \in SUBSET Hours, NoneLeftOut(e, hours),
             NEW n \in hours
      PROVE  n < ThisHour' /\ \A h \in Hours : h < n /\ Missing(e, h)' => h \in hours
  <2>1. n < ThisHour /\ \A h \in Hours : h < n /\ Missing(e, h) => h \in hours
    BY <1>4 DEF NoneLeftOut
  <2>2. n < ThisHour'
    BY <1>1, <1>2, <2>1
  <2>3. ASSUME NEW h \in Hours, h < n, Missing(e, h)' PROVE h \in hours
    <3>1. h < ThisHour
      BY <1>1, <1>2, <2>1, <2>3
    <3>2. Missing(e, h)
      BY <1>2, <2>3, <3>1, MissingStays
    <3>. QED  BY <2>1, <2>3, <3>2
  <2>. QED  BY <2>2, <2>3
<1>. QED  BY <1>3, <1>4 DEF NoneMissingBefore, NoneLeftOut

\* Nothing changes for the importer while nothing changes that it goes by.
Idle == UNCHANGED <<now, remote, late, lateHours, stats>>

LEMMA IdleForward == ASSUME TypeOK, Idle PROVE Forward
<1>1. ThisHour' = ThisHour /\ ThisHour \in Nat
  BY HourTyped DEF Idle, ThisHour
<1>2. \A e, h : InTime(e, h)' => InTime(e, h)
  BY DEF Idle, InTime
<1>3. \A e, h : Bucket(remote[e], h)' = Bucket(remote[e], h)
  BY DEF Idle, Bucket
<1>4. \A e : HoursOf(stats[e])' = HoursOf(stats[e])
  BY DEF Idle, HoursOf
<1>. QED  BY <1>1, <1>2, <1>3, <1>4 DEF Forward
LEMMA NoJobOK == NoJob \in Job /\ NoJob.at = "idle" /\ NoJob.todo = <<>> /\ JobOK(NoJob)
<1>1. <<>> \in Seq(Elements) /\ 0 \in Int /\ 0 \in Nat
  OBVIOUS
<1>2. NoJob \in Job
  BY <1>1 DEF NoJob, Job, Awaits
<1>. QED  BY <1>2 DEF NoJob, JobOK, LastOK, WindowOK, PointsOK

LEMMA OnwardsTyped ==
    ASSUME NEW j \in Job, j.todo # <<>>
    PROVE  /\ Onwards(j) \in Job /\ JobOK(Onwards(j))
           /\ Onwards(j).at = "idle" <=> Onwards(j).todo = <<>>
<1>1. j.todo \in Seq(Elements)
  BY DEF Job
<1>2. CASE Len(j.todo) = 1
  BY <1>2, NoJobOK DEF Onwards
<1>3. CASE Len(j.todo) # 1
  <2> DEFINE rest == Tail(j.todo)
  <2>1. rest \in Seq(Elements) /\ rest # <<>>
    <3>1. Len(j.todo) \in Nat /\ Len(j.todo) # 0
      BY <1>1
    <3>2. rest \in Seq(Elements) /\ Len(rest) = Len(j.todo) - 1
      BY <1>1
    <3>3. Len(rest) # 0
      BY <1>3, <3>1, <3>2
    <3>. HIDE DEF rest
    <3>4. Len(<<>>) = 0
      OBVIOUS
    <3>. QED  BY <3>2, <3>3, <3>4
  <2>. HIDE DEF rest
  <2>2. Onwards(j) = [at |-> "last", todo |-> rest, since |-> 0, last |-> {}, from |-> 0,
                      to |-> 0, points |-> {}]
    BY <1>3 DEF Onwards, NoJob, rest
  <2>3. Onwards(j) \in Job
    BY <2>1, <2>2 DEF Job, Awaits
  <2>. QED  BY <2>1, <2>2, <2>3 DEF JobOK, LastOK, WindowOK, PointsOK
<1>. QED  BY <1>2, <1>3

\* Whatever steps are taken, a job's knowledge stays true.
LEMMA JobsStayOK ==
    ASSUME TypeOK, TypeOK', Forward
    PROVE  \A j \in Job : (j.at # "idle" => j.todo # <<>>) /\ JobOK(j) => JobOK(j)'
<1>1. SUFFICES ASSUME NEW j \in Job, j.at # "idle" => j.todo # <<>>, JobOK(j) PROVE JobOK(j)'
  OBVIOUS
<1> DEFINE e == Head(j.todo)
<1>2. /\ j.todo \in Seq(Elements) /\ j.from \in Int /\ j.to \in Int
      /\ j.last \in SUBSET Row /\ j.points \in SUBSET Reading
  BY DEF Job
<1>3. j.at # "idle" => e \in Elements
  BY <1>1, <1>2
<1>4. HoursIn(j.points) \in SUBSET Hours
  BY <1>2, ReadingTyped DEF HoursIn
<1>5. ThisHour \in Nat /\ ThisHour' \in Nat /\ ThisHour <= ThisHour'
  BY ClockTyped DEF Forward
<1>. HIDE DEF e
<1>6. LastOK(j)'
  <2>1. SUFFICES ASSUME j.at = "window", NEW r \in j.last
                 PROVE  r.hour < ThisHour' /\ NoneMissingBefore(e, r.hour + 1)'
    BY DEF LastOK, e
  <2>2. r.hour < ThisHour /\ NoneMissingBefore(e, r.hour + 1)
    BY <1>1, <2>1 DEF JobOK, LastOK, e
  <2>3. r.hour \in Int
    BY <1>2, HoursAreInts DEF Row
  <2>4. r.hour + 1 \in Int /\ r.hour + 1 <= ThisHour
    BY <1>5, <2>2, <2>3
  <2>5. NoneMissingBefore(e, r.hour + 1)'
    BY <1>3, <2>1, <2>2, <2>4, KnowledgeStays
  <2>6. r.hour < ThisHour'
    BY <1>5, <2>2, <2>3
  <2>. QED  BY <2>5, <2>6
<1>7. WindowOK(j)'
  <2>1. SUFFICES ASSUME j.at \in {"serve", "points"}
                 PROVE  /\ j.from < j.to /\ j.to <= ThisHour'
                        /\ NoneMissingBefore(e, j.from)'
    BY DEF WindowOK, e
  <2>2. j.from < j.to /\ j.to <= ThisHour /\ NoneMissingBefore(e, j.from)
    BY <1>1, <2>1 DEF JobOK, WindowOK, e
  <2>3. j.from <= ThisHour /\ j.to <= ThisHour'
    BY <1>2, <1>5, <2>2
  <2>4. NoneMissingBefore(e, j.from)'
    BY <1>2, <1>3, <2>1, <2>2, <2>3, KnowledgeStays
  <2>. QED  BY <2>2, <2>3, <2>4
<1>8. PointsOK(j)'
  <2>1. SUFFICES ASSUME j.at = "points"
                 PROVE  /\ NoneLeftOut(e, HoursIn(j.points))'
                        /\ \A r \in j.points : Hour(r.at) \in j.from..(j.to - 1)
    BY DEF PointsOK, e, HoursIn, Hour
  <2>2. /\ NoneLeftOut(e, HoursIn(j.points))
        /\ \A r \in j.points : Hour(r.at) \in j.from..(j.to - 1)
    BY <1>1, <2>1 DEF JobOK, PointsOK, e
  <2>3. NoneLeftOut(e, HoursIn(j.points))'
    BY <1>3, <1>4, <2>1, <2>2, KnowledgeStays
  <2>. QED  BY <2>2, <2>3
<1>. QED  BY <1>1, <1>6, <1>7, <1>8 DEF JobOK

\* Nor do queued or stored rows come to leave an hour out.
LEMMA RowsStayOK ==
    ASSUME TypeOK, TypeOK', Forward
    PROVE  \A e \in Elements, rows \in SUBSET Row :
              NoneLeftOut(e, HoursOf(rows)) => NoneLeftOut(e, HoursOf(rows))'
<1>1. \A rows \in SUBSET Row : HoursOf(rows) \in SUBSET Hours
  BY DEF HoursOf, Row
<1>. QED  BY <1>1, KnowledgeStays

\* A step of the importer changes one job and, at most, the queue.
LEMMA ImporterStep ==
    ASSUME ImportInv, Idle, crashes' = crashes, NEW i \in Imports, NEW j \in Job,
           j.at = "idle" <=> j.todo = <<>>, JobOK(j), job' = [job EXCEPT ![i] = j],
           queue' \in Seq(Write), Len(queue') <= MaxQueue,
           \A k \in DOMAIN queue' : /\ OneRowAnHour(queue'[k].rows)
                                    /\ NoneLeftOut(queue'[k].element, HoursOf(queue'[k].rows))
    PROVE  ImportInv'
<1>1. TypeOK /\ ReadingsOK /\ ImportsOK
  BY DEF ImportInv
<1>2. job \in [Imports -> Job] /\ \A n \in Imports : job[n].at = "idle" <=> job[n].todo = <<>>
  BY <1>1 DEF TypeOK
<1>3. job' \in [Imports -> Job]
  BY <1>2
<1>4. \A n \in Imports : job'[n] = j \/ job'[n] = job[n]
  BY <1>2
<1>5. \A n \in Imports : job'[n].at = "idle" <=> job'[n].todo = <<>>
  BY <1>2, <1>4
<1>6. TypeOK'
  <2>1. /\ now' \in 0..MaxTick
        /\ remote' \in [Elements -> SUBSET Reading] /\ late' \in [Elements -> SUBSET Reading]
        /\ lateHours' \in [Elements -> SUBSET Hours]
    BY <1>1 DEF TypeOK, Idle
  <2>2. /\ stats' \in [Elements -> SUBSET Row]
        /\ \A e \in Elements : OneRowAnHour(stats'[e])
    BY <1>1 DEF TypeOK, Idle, OneRowAnHour
  <2>3. crashes' \in 0..MaxCrashes
    BY <1>1 DEF TypeOK
  <2>4. \A k \in DOMAIN queue' : OneRowAnHour(queue'[k].rows)
    OBVIOUS
  <2>. QED  BY <1>3, <1>5, <2>1, <2>2, <2>3, <2>4 DEF TypeOK, OneRowAnHour
<1>7. Forward
  BY <1>1, IdleForward
<1>8. ReadingsOK'
  BY <1>1 DEF ReadingsOK, Idle
<1>9. ImportsOK'
  <2>1. \A n \in Imports : JobOK(job[n])
    BY <1>1 DEF ImportsOK
  <2>2. ASSUME NEW n \in Imports PROVE JobOK(job[n])'
    <3>1. PICK x \in Job : x = job'[n]
      BY <1>3
    <3>2. JobOK(x) /\ (x.at # "idle" => x.todo # <<>>)
      BY <1>4, <1>5, <2>1, <3>1
    <3>3. JobOK(x)'
      BY <1>1, <1>6, <1>7, <3>2, JobsStayOK
    <3>. QED  BY <3>1, <3>3
  <2>3. ASSUME NEW k \in DOMAIN queue'
        PROVE  NoneLeftOut(queue[k].element, HoursOf(queue[k].rows))'
    <3>1. queue'[k] \in Write
      OBVIOUS
    <3>2. PICK e \in Elements, rows \in SUBSET Row : e = queue'[k].element /\ rows = queue'[k].rows
      BY <3>1 DEF Write
    <3>3. NoneLeftOut(e, HoursOf(rows))'
      BY <1>1, <1>6, <1>7, <3>2, RowsStayOK
    <3>. QED  BY <3>2, <3>3
  <2>4. ASSUME NEW e \in Elements PROVE NoneLeftOut(e, HoursOf(stats[e]))'
    <3>1. stats[e] \in SUBSET Row /\ NoneLeftOut(e, HoursOf(stats[e]))
      BY <1>1 DEF ImportsOK, TypeOK
    <3>2. NoneLeftOut(e, HoursOf(stats[e])) /\ stats' = stats
      BY <3>1 DEF Idle
    <3>3. PICK rows \in SUBSET Row : rows = stats[e]
      BY <3>1
    <3>4. NoneLeftOut(e, HoursOf(rows))'
      BY <1>1, <1>6, <1>7, <3>2, <3>3, RowsStayOK
    <3>. QED  BY <3>2, <3>3, <3>4
  <2>. QED  BY <2>2, <2>3, <2>4 DEF ImportsOK
<1>. QED  BY <1>6, <1>8, <1>9 DEF ImportInv
-----------------------------------------------------------------------------
(* The importer's steps.                                                    *)

LEMMA JobStep ==
    ASSUME ImportInv, Idle, crashes' = crashes, queue' = queue, NEW i \in Imports, NEW j \in Job,
           j.at = "idle" <=> j.todo = <<>>, JobOK(j), job' = [job EXCEPT ![i] = j]
    PROVE  ImportInv'
<1>1. /\ queue' \in Seq(Write) /\ Len(queue') <= MaxQueue
      /\ \A k \in DOMAIN queue' : /\ OneRowAnHour(queue'[k].rows)
                                  /\ NoneLeftOut(queue'[k].element, HoursOf(queue'[k].rows))
  BY DEF ImportInv, TypeOK, ImportsOK
<1>. QED  BY <1>1, ImporterStep

\* A job at work has an element, and what it knows is true.
LEMMA AtWork ==
    ASSUME ImportInv, NEW i \in Imports, job[i].at # "idle"
    PROVE  /\ job[i] \in Job /\ job[i].todo \in Seq(Elements) /\ job[i].todo # <<>>
           /\ Head(job[i].todo) \in Elements /\ JobOK(job[i])
           /\ job[i].last \in SUBSET Row /\ job[i].points \in SUBSET Reading
           /\ job[i].from \in Int /\ job[i].to \in Nat
<1>1. job[i] \in Job /\ job[i].todo # <<>> /\ JobOK(job[i])
  BY DEF ImportInv, TypeOK, ImportsOK
<1>2. /\ job[i].todo \in Seq(Elements) /\ job[i].last \in SUBSET Row
      /\ job[i].points \in SUBSET Reading /\ job[i].from \in Int /\ job[i].to \in Nat
  BY <1>1 DEF Job
<1>3. Head(job[i].todo) \in Elements
  BY <1>1, <1>2
<1>. QED  BY <1>1, <1>2, <1>3

LEMMA StartOK == ASSUME ImportInv, NEW i \in Imports, Start(i) PROVE ImportInv'
<1> DEFINE all == Measurements \o Counters
           j == [NoJob EXCEPT !.at = "last", !.todo = all]
<1>1. job' = [job EXCEPT ![i] = j]
  BY DEF Start
<1>2. all \in Seq(Elements) /\ all # <<>>
  <2>1. /\ ListedIn(Measurements) \subseteq Elements /\ ListedIn(Counters) \subseteq Elements
        /\ Measurements \in Seq(ListedIn(Measurements)) /\ Counters \in Seq(ListedIn(Counters))
    BY StatisticsImportAssumption DEF Elements
  <2>2. Measurements \in Seq(Elements) /\ Counters \in Seq(Elements)
    BY <2>1
  <2>3. Len(Measurements) # 0 \/ Len(Counters) # 0
    <3>1. PICK e \in Elements : TRUE
      BY DEF Start
    <3>. QED  BY <2>2, <3>1 DEF Elements, ListedIn
  <2>4. all \in Seq(Elements) /\ Len(all) = Len(Measurements) + Len(Counters)
    BY <2>2
  <2>5. Len(all) # 0
    BY <2>2, <2>3, <2>4
  <2>. HIDE DEF all
  <2>6. Len(<<>>) = 0
    OBVIOUS
  <2>. QED  BY <2>4, <2>5, <2>6
<1>. HIDE DEF all
<1>3. j \in Job /\ j.at = "last" /\ j.todo = all /\ j.last = {}
  <2>1. NoJob \in Job
    BY NoJobOK
  <2>2. j \in Job /\ j.at = "last" /\ j.todo = all /\ j.last = NoJob.last
    BY <1>2, <2>1 DEF Job, Awaits
  <2>3. NoJob.last = {}
    BY DEF NoJob
  <2>. HIDE DEF j
  <2>. QED  BY <2>2, <2>3
<1>. HIDE DEF j
<1>4. JobOK(j) /\ (j.at = "idle" <=> j.todo = <<>>)
  BY <1>2, <1>3 DEF JobOK, LastOK, WindowOK, PointsOK
<1>5. Idle /\ queue' = queue /\ crashes' = crashes
  BY DEF Start, Idle
<1>. QED  BY <1>1, <1>3, <1>4, <1>5, JobStep

LEMMA ReadLastOK == ASSUME ImportInv, NEW i \in Imports, ReadLast(i) PROVE ImportInv'
<1> DEFINE e == Head(job[i].todo)
           L == LastRow(e)
           j == [job[i] EXCEPT !.at = "window", !.since = now, !.last = L]
<1>1. /\ job[i] \in Job /\ job[i].todo \in Seq(Elements) /\ job[i].todo # <<>>
      /\ e \in Elements
  BY AtWork DEF ReadLast
<1>2. job' = [job EXCEPT ![i] = j]
  BY DEF ReadLast, ImportInv, TypeOK
<1>3. TypeOK /\ ImportsOK
  BY DEF ImportInv
<1>4. stats[e] \in SUBSET Row /\ OneRowAnHour(stats[e]) /\ ThisHour \in Nat
      /\ now \in Nat
  BY <1>1, <1>3, ElementsTyped
<1>5. NoneLeftOut(e, HoursOf(stats[e]))
  BY <1>1, <1>3 DEF ImportsOK
<1>. HIDE DEF e
<1>6. L \in SUBSET Row /\ \A r, q \in L : r = q
  <2>1. \A r \in L : r \in stats[e] /\ r.hour \in Int
    BY <1>4, HoursAreInts DEF LastRow, Row
  <2>2. \A r, q \in L : r.hour <= q.hour
    BY DEF LastRow
  <2>3. \A r, q \in L : r.hour = q.hour
    BY <2>1, <2>2
  <2>. QED  BY <1>4, <2>1, <2>3 DEF OneRowAnHour
<1>7. ASSUME NEW r \in L PROVE r.hour < ThisHour /\ NoneMissingBefore(e, r.hour + 1)
  <2>1. r \in stats[e] /\ r.hour \in HoursOf(stats[e]) /\ r.hour \in Int
    BY <1>4, HoursAreInts DEF LastRow, HoursOf, Row
  <2>2. r.hour < ThisHour
    BY <1>5, <2>1 DEF NoneLeftOut
  <2>3. ASSUME NEW h \in Hours, Missing(e, h) PROVE h >= r.hour + 1
    <3>1. h \notin HoursOf(stats[e])
      BY <2>3 DEF Missing
    <3>2. ~(h < r.hour)
      BY <1>5, <2>1, <2>3, <3>1 DEF NoneLeftOut
    <3>3. h # r.hour /\ h \in Int
      BY <2>1, <3>1, HoursAreInts
    <3>. QED  BY <2>1, <3>2, <3>3
  <2>. QED  BY <2>2, <2>3 DEF NoneMissingBefore
<1>. HIDE DEF L
<1>8. j \in Job /\ j.at = "window" /\ j.last = L /\ j.todo = job[i].todo
  BY <1>1, <1>4, <1>6 DEF Job, Awaits
<1>. HIDE DEF j
<1>9. JobOK(j) /\ (j.at = "idle" <=> j.todo = <<>>)
  BY <1>1, <1>6, <1>7, <1>8 DEF JobOK, LastOK, WindowOK, PointsOK, e
<1>10. Idle /\ queue' = queue /\ crashes' = crashes
  BY DEF ReadLast, Idle
<1>. QED  BY <1>2, <1>8, <1>9, <1>10, JobStep
LEMMA OpenWindowOK == ASSUME ImportInv, NEW i \in Imports, OpenWindow(i) PROVE ImportInv'
<1> DEFINE q == job[i]
           e == Head(q.todo)
           from == WindowStart(q.last)
           j == IF from >= WindowEnd THEN Onwards(q)
                ELSE [q EXCEPT !.at = "serve", !.from = from, !.to = WindowEnd]
<1>1. /\ q \in Job /\ q.todo \in Seq(Elements) /\ q.todo # <<>> /\ e \in Elements
      /\ JobOK(q) /\ q.last \in SUBSET Row /\ q.at = "window"
  BY AtWork DEF OpenWindow
<1>2. job' = [job EXCEPT ![i] = j]
  BY DEF OpenWindow
<1>3. ThisHour \in Nat /\ Lookback \in Nat /\ WindowEnd = ThisHour
  BY HourTyped, StatisticsImportAssumption DEF ImportInv, WindowEnd
<1>. HIDE DEF q
<1>4. from \in Int /\ NoneMissingBefore(e, from)
  <2>1. CASE q.last = {}
    <3>1. from = ThisHour - Lookback
      BY <2>1 DEF WindowStart
    <3>. HIDE DEF from
    <3>2. \A h \in Hours : Missing(e, h) => h >= from
      BY <3>1 DEF Missing
    <3>. QED  BY <1>3, <3>1, <3>2 DEF NoneMissingBefore
  <2>2. CASE q.last # {}
    <3>1. PICK r \in q.last : q.last = {r}
      BY <1>1, <2>2 DEF JobOK
    <3>2. from = r.hour + 1
      BY <2>2, <3>1 DEF WindowStart
    <3>3. r.hour \in Int
      BY <1>1, HoursAreInts DEF Row
    <3>. HIDE DEF from
    <3>4. NoneMissingBefore(e, r.hour + 1)
      BY <1>1 DEF JobOK, LastOK
    <3>. QED  BY <3>2, <3>3, <3>4
  <2>. QED  BY <2>1, <2>2
<1>. HIDE DEF from, e
<1>5. j \in Job /\ JobOK(j) /\ (j.at = "idle" <=> j.todo = <<>>)
  <2>1. CASE from >= WindowEnd
    BY <1>1, <2>1, OnwardsTyped
  <2>2. CASE ~(from >= WindowEnd)
    <3> DEFINE n == [q EXCEPT !.at = "serve", !.from = from, !.to = WindowEnd]
    <3>1. /\ n \in Job /\ n.at = "serve" /\ n.from = from /\ n.to = ThisHour
          /\ n.todo = q.todo /\ n.last = q.last
      BY <1>1, <1>3, <1>4 DEF Job, Awaits
    <3>2. j = n
      BY <2>2
    <3>. HIDE DEF n, j
    <3>3. from < ThisHour /\ ThisHour <= ThisHour
      BY <1>3, <1>4, <2>2
    <3>. QED  BY <1>1, <1>4, <3>1, <3>2, <3>3 DEF JobOK, LastOK, WindowOK, PointsOK, e
  <2>. QED  BY <2>1, <2>2
<1>6. Idle /\ queue' = queue /\ crashes' = crashes
  BY DEF OpenWindow, Idle
<1>. HIDE DEF j
<1>. QED  BY <1>2, <1>5, <1>6, JobStep

\* An answer holds readings of the window, and with one of them all before it.
LEMMA ServedMeans ==
    ASSUME ImportInv, NEW e \in Elements, NEW from \in Int, NEW to \in Int
    PROVE  /\ Served(e, from, to) \in SUBSET remote[e]
           /\ \A r \in Served(e, from, to) : from <= Hour(r.at)
           /\ \A r \in Served(e, from, to) : \A q \in remote[e] :
                 from <= Hour(q.at) /\ q.at <= r.at => q \in Served(e, from, to)
<1> DEFINE asked == {r \in remote[e] : from * TicksPerHour <= r.at /\ r.at <= to * TicksPerHour}
           before(r) == {q \in asked : q.at < r.at}
<1>1. Served(e, from, to) = {r \in asked : Cardinality(before(r)) < MaxHistoryRows}
  BY DEF Served
<1>2. /\ remote[e] \in SUBSET Reading /\ IsFiniteSet(remote[e])
      /\ TicksPerHour \in Int /\ MaxHistoryRows \in Int
  BY ElementsTyped, StatisticsImportAssumption DEF ImportInv, ReadingsOK
<1>3. \A r \in remote[e] : r.at \in Nat
  BY <1>2, ReadingTyped
<1>4. \A r \in remote[e] : /\ Hour(r.at) \in Nat
                           /\ from * TicksPerHour <= r.at <=> from <= Hour(r.at)
  BY <1>3, HourMeans
<1>5. ASSUME NEW r \in Served(e, from, to), NEW q \in remote[e], from <= Hour(q.at), q.at <= r.at
      PROVE  q \in Served(e, from, to)
  <2>1. r \in asked /\ Cardinality(before(r)) < MaxHistoryRows
    BY <1>1
  <2>2. q \in asked
    <3>1. to * TicksPerHour \in Int /\ r.at <= to * TicksPerHour /\ r.at \in Nat /\ q.at \in Nat
      BY <1>2, <1>3, <2>1
    <3>2. q.at <= to * TicksPerHour
      <4> DEFINE end == to * TicksPerHour
      <4>1. end \in Int /\ r.at <= end
        BY <3>1
      <4>. HIDE DEF end
      <4>2. q.at <= end
        BY <1>5, <3>1, <4>1
      <4>. QED  BY <4>2 DEF end
    <3>. QED  BY <1>4, <1>5, <3>2
  <2>3. before(q) \in SUBSET before(r)
    <3>1. \A x \in asked : x.at \in Nat
      BY <1>3
    <3>2. r.at \in Nat /\ q.at \in Nat
      BY <1>3, <2>1
    <3>3. ASSUME NEW x \in asked, x.at < q.at PROVE x.at < r.at
      <4>. HIDE DEF asked
      <4>. QED  BY <1>5, <3>1, <3>2, <3>3
    <3>. QED  BY <3>3
  <2>4. IsFiniteSet(before(r))
    BY <1>2, FS_Subset
  <2>5. Cardinality(before(q)) <= Cardinality(before(r))
    BY <2>3, <2>4, FS_Subset
  <2>6. Cardinality(before(q)) \in Nat /\ Cardinality(before(r)) \in Nat
    BY <2>3, <2>4, FS_Subset, FS_CardinalityType
  <2>. HIDE DEF before, asked
  <2>7. Cardinality(before(q)) < MaxHistoryRows
    BY <1>2, <2>1, <2>5, <2>6
  <2>. QED  BY <1>1, <2>2, <2>7
<1>6. Served(e, from, to) \in SUBSET remote[e]
  BY <1>1
<1>7. ASSUME NEW r \in Served(e, from, to) PROVE from <= Hour(r.at)
  BY <1>1, <1>4
<1>. QED  BY <1>5, <1>6, <1>7

\* The points lie in the window, and cut at the row limit they still leave no hour out.
LEMMA PointsServed ==
    ASSUME ImportInv, NEW i \in Imports, job[i].at = "serve"
    PROVE  LET q == job[i]
               e == Head(q.todo)
               points == {r \in Served(e, q.from, q.to) : r.at < q.to * TicksPerHour}
           IN  /\ points \in SUBSET remote[e]
               /\ \A r \in points : Hour(r.at) \in q.from..(q.to - 1)
               /\ Gapless(e, HoursIn(points), q.from)
<1> DEFINE q == job[i]
           e == Head(q.todo)
           answer == Served(e, q.from, q.to)
           P == {r \in answer : r.at < q.to * TicksPerHour}
<1>1. e \in Elements /\ JobOK(q) /\ q.from \in Int /\ q.to \in Int /\ q.to \in Nat
  BY AtWork
<1>2. ThisHour \in Nat /\ remote[e] \in SUBSET Reading /\ TicksPerHour \in Nat
  BY <1>1, HourTyped, ElementsTyped, StatisticsImportAssumption DEF ImportInv
<1>3. q.from < q.to /\ q.to <= ThisHour
  BY <1>1 DEF JobOK, WindowOK
<1>. HIDE DEF q
<1>. HIDE DEF e
<1>4. /\ answer \in SUBSET remote[e]
      /\ \A r \in answer : q.from <= Hour(r.at)
      /\ \A r \in answer : \A x \in remote[e] : q.from <= Hour(x.at) /\ x.at <= r.at => x \in answer
  BY <1>1, ServedMeans
<1>5. \A r \in remote[e] : r.at \in Nat /\ Hour(r.at) \in Nat /\ Hour(r.at) \in Hours
  BY <1>2, ReadingTyped
<1>. HIDE DEF answer
<1>6. \A r \in remote[e] : r.at < q.to * TicksPerHour <=> Hour(r.at) < q.to
  <2>1. TAKE r \in remote[e]
  <2> DEFINE end == q.to * TicksPerHour
  <2>2. end <= r.at <=> q.to <= Hour(r.at)
    BY <1>1, <1>5, HourMeans
  <2>3. end \in Int /\ r.at \in Int /\ Hour(r.at) \in Int
    BY <1>1, <1>2, <1>5
  <2>. HIDE DEF end
  <2>4. r.at < end <=> Hour(r.at) < q.to
    BY <1>1, <2>2, <2>3
  <2>. QED  BY <2>4 DEF end
<1>7. \A r \in P : r \in answer /\ r \in remote[e] /\ Hour(r.at) < q.to
  BY <1>4, <1>6
<1>8. \A r \in answer : Hour(r.at) < q.to => r \in P
  BY <1>4, <1>6
<1>. HIDE DEF P
<1>9. ASSUME NEW p \in P
      PROVE  /\ q.from <= Hour(p.at) /\ Hour(p.at) < ThisHour
             /\ \A h \in Hours : q.from <= h /\ h < Hour(p.at) /\ Owed(e, h) => h \in HoursIn(P)
  <2>1. p \in answer /\ p \in remote[e] /\ Hour(p.at) \in Nat /\ p.at \in Nat /\ Hour(p.at) < q.to
    BY <1>5, <1>7
  <2>2. Hour(p.at) < ThisHour
    BY <1>1, <1>2, <1>3, <2>1
  <2>3. ASSUME NEW h \in Hours, q.from <= h, h < Hour(p.at), Owed(e, h) PROVE h \in HoursIn(P)
    <3>1. h \in Int
      BY HoursAreInts
    <3>2. PICK x \in remote[e] : Hour(x.at) = h
      BY <2>3 DEF Owed, Bucket
    <3>3. x.at <= p.at
      <4>1. x.at \in Nat /\ ~(Hour(p.at) <= Hour(x.at))
        BY <1>5, <2>1, <2>3, <3>1, <3>2
      <4>2. ~(p.at <= x.at)
        BY <2>1, <4>1, HoursGrow
      <4>. QED  BY <2>1, <4>1, <4>2
    <3>4. q.from <= Hour(x.at) /\ Hour(x.at) < q.to
      BY <1>1, <2>1, <2>3, <3>1, <3>2
    <3>5. x \in P
      BY <1>4, <1>8, <2>1, <3>3, <3>4
    <3>. QED  BY <3>2, <3>5 DEF HoursIn
  <2>. QED  BY <1>4, <2>1, <2>2, <2>3
<1>10. Gapless(e, HoursIn(P), q.from)
  BY <1>9 DEF Gapless, HoursIn
<1>11. P \in SUBSET remote[e] /\ \A r \in P : Hour(r.at) \in q.from..(q.to - 1)
  BY <1>1, <1>4, <1>5, <1>7
<1>. QED  BY <1>10, <1>11 DEF P, answer, e, q

LEMMA ServeOK == ASSUME ImportInv, NEW i \in Imports, Serve(i) PROVE ImportInv'
<1> DEFINE q == job[i]
           e == Head(q.todo)
           P == {r \in Served(e, q.from, q.to) : r.at < q.to * TicksPerHour}
           j == [q EXCEPT !.at = "points", !.points = P]
<1>1. /\ q \in Job /\ q.todo # <<>> /\ e \in Elements /\ JobOK(q) /\ q.from \in Int /\ q.at = "serve"
  BY AtWork DEF Serve
<1>2. job' = [job EXCEPT ![i] = j]
  BY DEF Serve, ImportInv, TypeOK
<1>3. q.from < q.to /\ q.to <= ThisHour /\ NoneMissingBefore(e, q.from)
  BY <1>1 DEF JobOK, WindowOK
<1>4. /\ P \in SUBSET remote[e] /\ remote[e] \in SUBSET Reading
      /\ \A r \in P : Hour(r.at) \in q.from..(q.to - 1)
      /\ Gapless(e, HoursIn(P), q.from)
  BY <1>1, PointsServed, ElementsTyped DEF ImportInv
<1>. HIDE DEF q, P
<1>. HIDE DEF e
<1>5. NoneLeftOut(e, HoursIn(P))
  <2>1. SUFFICES ASSUME NEW n \in HoursIn(P)
                 PROVE  n < ThisHour /\ \A h \in Hours : h < n /\ Missing(e, h) => h \in HoursIn(P)
    BY DEF NoneLeftOut
  <2>2. n < ThisHour /\ \A h \in Hours : q.from <= h /\ h < n /\ Owed(e, h) => h \in HoursIn(P)
    BY <1>4, <2>1 DEF Gapless
  <2>3. \A h \in Hours : Missing(e, h) => q.from <= h /\ Owed(e, h)
    BY <1>1, <1>3, HoursAreInts DEF NoneMissingBefore, Missing, Owed
  <2>. QED  BY <2>2, <2>3
<1>6. /\ j \in Job /\ j.at = "points" /\ j.points = P /\ j.from = q.from /\ j.to = q.to
      /\ j.todo = q.todo /\ j.last = q.last
  <2>1. P \in SUBSET Reading
    BY <1>4
  <2>. QED  BY <1>1, <2>1 DEF Job, Awaits
<1>. HIDE DEF j
<1>7. JobOK(j) /\ (j.at = "idle" <=> j.todo = <<>>)
  BY <1>1, <1>3, <1>4, <1>5, <1>6 DEF JobOK, LastOK, WindowOK, PointsOK, e
<1>8. Idle /\ queue' = queue /\ crashes' = crashes
  BY DEF Serve, Idle
<1>. QED  BY <1>2, <1>6, <1>7, <1>8, JobStep

\* The hours of the rows made are those of the points.
LEMMA RowsOfPoints ==
    ASSUME ImportInv, NEW i \in Imports, job[i].at = "points"
    PROVE  /\ NewRows(job[i]) \in SUBSET Row /\ OneRowAnHour(NewRows(job[i]))
           /\ HoursOf(NewRows(job[i])) = HoursIn(job[i].points)
<1> DEFINE j == job[i]
<1>1. j \in Job /\ JobOK(j) /\ j.from \in Int /\ j.to \in Int
  BY AtWork
<1>. HIDE DEF j
<1>2. /\ \A r, q \in j.last : r = q
      /\ j.from <= j.to
      /\ \A p \in j.points : Hour(p.at) \in j.from..(j.to - 1)
  BY <1>1 DEF JobOK, WindowOK, PointsOK, j
<1>3. /\ NewRows(j) \in SUBSET Row /\ OneRowAnHour(NewRows(j))
      /\ \A r \in NewRows(j) : \E p \in j.points : r.hour = Hour(p.at)
      /\ \A p \in j.points : \E r \in NewRows(j) : r.hour = Hour(p.at)
  BY <1>1, <1>2, NewRowsTyped
<1>4. HoursOf(NewRows(j)) = HoursIn(j.points)
  BY <1>3 DEF HoursOf, HoursIn
<1>. QED  BY <1>3, <1>4 DEF j

LEMMA ImportOK == ASSUME ImportInv, NEW i \in Imports, Import(i) PROVE ImportInv'
<1> DEFINE q == job[i]
           j == Onwards(q)
           w == [element |-> Head(q.todo), rows |-> NewRows(q), since |-> q.since]
<1>1. /\ q \in Job /\ q.todo # <<>> /\ JobOK(q) /\ Head(q.todo) \in Elements /\ q.at = "points"
  BY AtWork DEF Import
<1>2. job' = [job EXCEPT ![i] = j]
  BY DEF Import, ImportInv, TypeOK
<1>3. j \in Job /\ JobOK(j) /\ (j.at = "idle" <=> j.todo = <<>>)
  BY <1>1, OnwardsTyped
<1>4. Idle /\ crashes' = crashes
  BY DEF Import, Idle
<1>5. CASE queue' = queue
  <2>. HIDE DEF j
  <2>. QED  BY <1>2, <1>3, <1>4, <1>5, JobStep
<1>6. CASE Len(queue) < MaxQueue /\ queue' = Append(queue, w)
  <2>1. /\ queue \in Seq(Write) /\ Len(queue) <= MaxQueue
        /\ \A k \in DOMAIN queue : /\ OneRowAnHour(queue[k].rows)
                                   /\ NoneLeftOut(queue[k].element, HoursOf(queue[k].rows))
    BY DEF ImportInv, TypeOK, ImportsOK
  <2>2. w.rows \in SUBSET Row /\ OneRowAnHour(w.rows) /\ HoursOf(w.rows) = HoursIn(q.points)
    BY <1>1, RowsOfPoints
  <2>3. w \in Write
    <3>1. q.since \in Nat
      BY <1>1 DEF Job
    <3>. HIDE DEF q
    <3>. QED  BY <1>1, <2>2, <3>1 DEF Write
  <2>4. NoneLeftOut(w.element, HoursOf(w.rows))
    BY <1>1, <2>2 DEF JobOK, PointsOK
  <2>. HIDE DEF w, j, Write
  <2>5. /\ queue' \in Seq(Write) /\ Len(queue') = Len(queue) + 1
        /\ \A k \in DOMAIN queue' : queue'[k] = w \/ (k \in DOMAIN queue /\ queue'[k] = queue[k])
    BY <1>6, <2>1, <2>3
  <2>6. Len(queue') <= MaxQueue
    BY <1>6, <2>1, <2>5, StatisticsImportAssumption
  <2>7. \A k \in DOMAIN queue' : /\ OneRowAnHour(queue'[k].rows)
                                 /\ NoneLeftOut(queue'[k].element, HoursOf(queue'[k].rows))
    BY <2>1, <2>2, <2>4, <2>5
  <2>. QED  BY <1>2, <1>3, <1>4, <2>5, <2>6, <2>7, ImporterStep
<1>. QED  BY <1>5, <1>6 DEF Import

LEMMA FailOK == ASSUME ImportInv, NEW i \in Imports, Fail(i) PROVE ImportInv'
<1>1. job' = [job EXCEPT ![i] = NoJob] /\ Idle /\ queue' = queue /\ crashes' = crashes
  BY DEF Fail, Idle
<1>. QED  BY <1>1, NoJobOK, JobStep

-----------------------------------------------------------------------------
(* The steps of the others.                                                 *)

\* A step that leaves the jobs and the queue's writes as they are, or drops some.
LEMMA OthersStep ==
    ASSUME ImportInv, TypeOK', ReadingsOK', Forward,
           \A i \in Imports : job'[i] = job[i] \/ job'[i] = NoJob,
           \A k \in DOMAIN queue' : \E n \in DOMAIN queue : queue'[k] = queue[n],
           \A e \in Elements : NoneLeftOut(e, HoursOf(stats[e]))'
    PROVE  ImportInv'
<1>1. TypeOK /\ ReadingsOK /\ ImportsOK
  BY DEF ImportInv
<1>2. ASSUME NEW i \in Imports PROVE JobOK(job[i])'
  <2>1. /\ job[i] \in Job /\ job'[i] \in Job /\ (job[i].at = "idle" <=> job[i].todo = <<>>)
        /\ JobOK(job[i])
    BY <1>1 DEF TypeOK, ImportsOK
  <2>2. PICK x \in Job : x = job'[i]
    BY <2>1
  <2>3. JobOK(x) /\ (x.at # "idle" => x.todo # <<>>)
    BY <2>1, <2>2, NoJobOK
  <2>4. JobOK(x)'
    BY <1>1, <2>3, JobsStayOK
  <2>. QED  BY <2>2, <2>4
<1>3. ASSUME NEW k \in DOMAIN queue'
      PROVE  NoneLeftOut(queue[k].element, HoursOf(queue[k].rows))'
  <2>1. PICK n \in DOMAIN queue : queue'[k] = queue[n]
    OBVIOUS
  <2>2. /\ queue[n].element \in Elements /\ queue[n].rows \in SUBSET Row
        /\ NoneLeftOut(queue[n].element, HoursOf(queue[n].rows))
    BY <1>1, ElementsTyped DEF ImportsOK
  <2>3. PICK e \in Elements, rows \in SUBSET Row : e = queue'[k].element /\ rows = queue'[k].rows
    BY <2>1, <2>2
  <2>4. NoneLeftOut(e, HoursOf(rows))
    BY <2>1, <2>2, <2>3
  <2>5. NoneLeftOut(e, HoursOf(rows))'
    BY <1>1, <2>4, RowsStayOK
  <2>. QED  BY <2>3, <2>5
<1>. QED  BY <1>2, <1>3 DEF ImportInv, ImportsOK

\* Stored rows that stay leave no hour out.
LEMMA StatsStayOK ==
    ASSUME TypeOK, TypeOK', Forward, NEW e \in Elements, stats'[e] = stats[e],
           NoneLeftOut(e, HoursOf(stats[e]))
    PROVE  NoneLeftOut(e, HoursOf(stats[e]))'
<1>1. PICK rows \in SUBSET Row : rows = stats[e]
  BY DEF TypeOK
<1>2. NoneLeftOut(e, HoursOf(rows))'
  BY <1>1, RowsStayOK
<1>. QED  BY <1>1, <1>2

\* Typed, and the jobs, the queue and the rows as they were.
LEMMA ServerStepTyped ==
    ASSUME TypeOK, UNCHANGED <<job, queue, stats, crashes>>, now' \in 0..MaxTick,
           remote' \in [Elements -> SUBSET Reading], late' \in [Elements -> SUBSET Reading],
           lateHours' \in [Elements -> SUBSET Hours]
    PROVE  TypeOK'
BY DEF TypeOK, OneRowAnHour

\* At most one reading is new, and it is of this tick.
TakenNow ==
    /\ remote' \in [Elements -> SUBSET Reading] /\ late' \in [Elements -> SUBSET Reading]
    /\ \A e \in Elements :
          LET new == (remote'[e] \cup late'[e]) \ (remote[e] \cup late[e]) IN
          /\ remote[e] \subseteq remote'[e] /\ late[e] \subseteq late'[e]
          /\ IsFiniteSet(remote'[e])
          /\ \A r \in new : r.at = now
          /\ \A r, q \in new : r = q
          /\ \A r \in remote'[e] \ remote[e] : r.at = now

LEMMA TickForward == ASSUME ImportInv, Tick PROVE TypeOK' /\ ReadingsOK' /\ Forward
<1>1. TypeOK /\ ReadingsOK
  BY DEF ImportInv
<1>2. /\ now' = now + 1 /\ now < MaxTick /\ now \in Nat /\ MaxTick \in Nat
      /\ UNCHANGED <<lateHours, job, queue, stats, crashes>>
  BY <1>1, StatisticsImportAssumption DEF Tick, TypeOK
<1>3. \A e \in Elements : remote[e] \in SUBSET Reading /\ late[e] \in SUBSET Reading
  BY <1>1 DEF TypeOK
<1>4. TakenNow
  <2>1. \A e \in Elements : IsFiniteSet(remote[e])
    BY <1>1 DEF ReadingsOK
  <2>2. CASE UNCHANGED <<remote, late>>
    BY <1>1, <2>1, <2>2 DEF TypeOK, TakenNow
  <2>3. ASSUME NEW e \in Elements, NEW v \in Values, Take(e, v)
        PROVE  TakenNow
    <3> DEFINE r == [at |-> now, value |-> v]
    <3>1. r \in Reading /\ r.at = now
      BY <1>2 DEF Reading
    <3>. HIDE DEF r
    <3>2. IsFiniteSet(remote[e] \cup {r})
      BY <2>1, FS_AddElement
    <3>3. CASE remote' = [remote EXCEPT ![e] = @ \cup {r}] /\ late' = late
      <4>1. remote' \in [Elements -> SUBSET Reading] /\ late' \in [Elements -> SUBSET Reading]
        BY <1>1, <3>1, <3>3 DEF TypeOK
      <4>2. remote'[e] = remote[e] \cup {r} /\ \A f \in Elements \ {e} : remote'[f] = remote[f]
        BY <1>1, <3>3 DEF TypeOK
      <4>. QED  BY <2>1, <3>1, <3>2, <3>3, <4>1, <4>2 DEF TakenNow
    <3>4. CASE late[e] = {} /\ late' = [late EXCEPT ![e] = {r}] /\ remote' = remote
      <4>1. remote' \in [Elements -> SUBSET Reading] /\ late' \in [Elements -> SUBSET Reading]
        BY <1>1, <3>1, <3>4 DEF TypeOK
      <4>2. late'[e] = {r} /\ \A f \in Elements \ {e} : late'[f] = late[f]
        BY <1>1, <3>4 DEF TypeOK
      <4>. QED  BY <2>1, <3>1, <3>4, <4>1, <4>2 DEF TakenNow
    <3>. QED  BY <2>3, <3>3, <3>4 DEF Take, r
  <2>. QED  BY <2>2, <2>3 DEF Tick
<1>5. TypeOK'
  <2>1. now' \in 0..MaxTick /\ lateHours' \in [Elements -> SUBSET Hours]
    BY <1>1, <1>2 DEF TypeOK
  <2>. QED  BY <1>1, <1>2, <1>4, <2>1, ServerStepTyped DEF TakenNow
<1>6. ReadingsOK'
  <2>1. SUFFICES ASSUME NEW e \in Elements
                 PROVE  /\ \A r \in remote'[e] \cup late'[e] : r.at < now'
                        /\ \A r, q \in remote'[e] \cup late'[e] : r.at = q.at => r = q
                        /\ IsFiniteSet(remote'[e])
    BY DEF ReadingsOK
  <2> DEFINE old == remote[e] \cup late[e]
             all == remote'[e] \cup late'[e]
  <2>2. /\ \A r \in old : r.at < now /\ r.at \in Nat
        /\ \A r, q \in old : r.at = q.at => r = q
    BY <1>1, <1>3, ReadingTyped DEF ReadingsOK
  <2>3. \A r \in all \ old : r.at = now
    BY <1>4 DEF TakenNow
  <2>4. \A r, q \in all \ old : r = q
    BY <1>4 DEF TakenNow
  <2>. HIDE DEF old, all
  <2>5. \A r \in all : r.at < now'
    BY <1>2, <2>2, <2>3
  <2>6. \A r, q \in all : r.at = q.at => r = q
    <3>1. TAKE r, q \in all
    <3>2. CASE r \in old /\ q \in old
      BY <2>2, <3>2
    <3>3. CASE r \notin old /\ q \notin old
      BY <2>4, <3>3
    <3>4. CASE r \in old /\ q \notin old
      BY <1>2, <2>2, <2>3, <3>4
    <3>5. CASE r \notin old /\ q \in old
      BY <1>2, <2>2, <2>3, <3>5
    <3>. QED  BY <3>2, <3>3, <3>4, <3>5
  <2>. QED  BY <1>4, <2>5, <2>6 DEF all, TakenNow
<1>7. Forward
  <2>1. ThisHour <= ThisHour'
    BY <1>2, HoursGrow DEF ThisHour
  <2>2. ASSUME NEW e \in Elements, NEW h \in Int, h < ThisHour, InTime(e, h)'
        PROVE  InTime(e, h) /\ Bucket(remote[e], h)' = Bucket(remote[e], h)
    <3>1. InTime(e, h)
      BY <1>2, <1>4, <2>2 DEF InTime, TakenNow
    <3>2. \A r \in remote'[e] \ remote[e] : Hour(r.at) # h
      BY <1>2, <1>4, <2>2 DEF ThisHour, TakenNow
    <3>3. Bucket(remote'[e], h) = Bucket(remote[e], h)
      BY <1>4, <3>2 DEF Bucket, TakenNow
    <3>. QED  BY <3>1, <3>3 DEF Bucket
  <2>3. \A e \in Elements : HoursOf(stats[e])' = HoursOf(stats[e])
    BY <1>2 DEF HoursOf
  <2>. QED  BY <2>1, <2>2, <2>3 DEF Forward
<1>. QED  BY <1>5, <1>6, <1>7

LEMMA TickOK == ASSUME ImportInv, Tick PROVE ImportInv'
<1>1. TypeOK' /\ ReadingsOK' /\ Forward /\ TypeOK /\ ImportsOK
  BY TickForward DEF ImportInv
<1>2. job' = job /\ queue' = queue /\ stats' = stats
  BY DEF Tick
<1>3. \A e \in Elements : NoneLeftOut(e, HoursOf(stats[e]))'
  BY <1>1, <1>2, StatsStayOK DEF ImportsOK
<1>. QED  BY <1>1, <1>2, <1>3, OthersStep
LEMMA RecordLateOK ==
    ASSUME ImportInv, NEW e \in Elements, NEW r \in late[e], RecordLate(e, r)
    PROVE  ImportInv' /\ Forward
<1>1. TypeOK /\ ReadingsOK /\ ImportsOK
  BY DEF ImportInv
<1>2. /\ late' = [late EXCEPT ![e] = @ \ {r}] /\ remote' = [remote EXCEPT ![e] = @ \cup {r}]
      /\ UNCHANGED <<now, job, queue, stats, crashes>>
      /\ lateHours' = IF Hour(r.at) < ThisHour
                      THEN [lateHours EXCEPT ![e] = @ \cup {Hour(r.at)}] ELSE lateHours
  BY DEF RecordLate
<1>3. r \in Reading /\ Hour(r.at) \in Hours
  BY <1>1, ElementsTyped, ReadingTyped
<1>4. /\ remote'[e] = remote[e] \cup {r} /\ late'[e] = late[e] \ {r}
      /\ \A f \in Elements \ {e} : remote'[f] = remote[f] /\ late'[f] = late[f]
      /\ remote' \in [Elements -> SUBSET Reading] /\ late' \in [Elements -> SUBSET Reading]
  BY <1>1, <1>2, <1>3 DEF TypeOK
<1>5. /\ lateHours' \in [Elements -> SUBSET Hours]
      /\ \A f \in Elements : lateHours[f] \subseteq lateHours'[f]
      /\ Hour(r.at) < ThisHour => Hour(r.at) \in lateHours'[e]
  <2>1. lateHours \in [Elements -> SUBSET Hours]
    BY <1>1 DEF TypeOK
  <2> DEFINE hour == Hour(r.at)
  <2>2. /\ hour \in Hours
        /\ lateHours' = IF hour < ThisHour THEN [lateHours EXCEPT ![e] = @ \cup {hour}] ELSE lateHours
    BY <1>2, <1>3
  <2>. HIDE DEF hour
  <2>3. CASE hour < ThisHour
    BY <2>1, <2>2, <2>3 DEF hour
  <2>4. CASE ~(hour < ThisHour)
    BY <2>1, <2>2, <2>4 DEF hour
  <2>. QED  BY <2>3, <2>4
<1>6. TypeOK'
  <2>1. now' \in 0..MaxTick
    BY <1>1, <1>2 DEF TypeOK
  <2>. QED  BY <1>1, <1>2, <1>4, <1>5, <2>1, ServerStepTyped
<1>7. ReadingsOK'
  <2>1. \A f \in Elements : IsFiniteSet(remote'[f])
    <3>1. IsFiniteSet(remote[e] \cup {r})
      BY <1>1, FS_AddElement DEF ReadingsOK
    <3>. QED  BY <1>1, <1>4, <3>1 DEF ReadingsOK
  <2>2. \A f \in Elements : remote'[f] \cup late'[f] \subseteq remote[f] \cup late[f]
    BY <1>4
  <2>. QED  BY <1>1, <1>2, <2>1, <2>2 DEF ReadingsOK
<1>8. Forward
  <2>1. ThisHour' = ThisHour /\ ThisHour <= ThisHour'
    BY <1>1, <1>2, HourTyped DEF ThisHour
  <2>2. ASSUME NEW f \in Elements, NEW h \in Int, h < ThisHour, InTime(f, h)'
        PROVE  InTime(f, h) /\ Bucket(remote[f], h)' = Bucket(remote[f], h)
    <3>1. f = e => h # Hour(r.at)
      BY <1>5, <2>2 DEF InTime
    <3>2. InTime(f, h)
      BY <1>4, <1>5, <2>2, <3>1 DEF InTime
    <3>3. Bucket(remote'[f], h) = Bucket(remote[f], h)
      BY <1>4, <3>1 DEF Bucket
    <3>. QED  BY <3>2, <3>3 DEF Bucket
  <2>3. \A f \in Elements : HoursOf(stats[f])' = HoursOf(stats[f])
    BY <1>2 DEF HoursOf
  <2>. QED  BY <2>1, <2>2, <2>3 DEF Forward
<1>9. \A f \in Elements : NoneLeftOut(f, HoursOf(stats[f]))'
  BY <1>1, <1>2, <1>6, <1>8, StatsStayOK DEF ImportsOK
<1>10. ImportInv'
  BY <1>2, <1>6, <1>7, <1>8, <1>9, OthersStep
<1>. QED  BY <1>8, <1>10

\* An upsert keeps the hours stored and adds those of its rows.
LEMMA UpsertMeans ==
    ASSUME NEW rows \in SUBSET Row, NEW new \in SUBSET Row, OneRowAnHour(rows), OneRowAnHour(new)
    PROVE  /\ Upserted(rows, new) \in SUBSET Row /\ OneRowAnHour(Upserted(rows, new))
           /\ HoursOf(Upserted(rows, new)) = HoursOf(rows) \cup HoursOf(new)
           /\ \A r \in Upserted(rows, new) : r \in rows \/ r \in new
<1>1. /\ Upserted(rows, new) \in SUBSET Row
      /\ \A r \in Upserted(rows, new) : r \in rows \/ r \in new
  BY DEF Upserted
<1>2. OneRowAnHour(Upserted(rows, new))
  BY DEF Upserted, OneRowAnHour
<1>3. HoursOf(Upserted(rows, new)) = HoursOf(rows) \cup HoursOf(new)
  BY DEF Upserted, HoursOf
<1>. QED  BY <1>1, <1>2, <1>3

LEMMA StoreMeans ==
    ASSUME ImportInv, Store
    PROVE  LET e == queue[1].element  rows == queue[1].rows IN
           /\ 1 \in DOMAIN queue /\ e \in Elements /\ rows \in SUBSET Row
           /\ stats' = [stats EXCEPT ![e] = Upserted(stats[e], rows)]
           /\ stats'[e] = Upserted(stats[e], rows)
           /\ stats' \in [Elements -> SUBSET Row]
           /\ \A f \in Elements : OneRowAnHour(stats'[f])
           /\ HoursOf(stats'[e]) = HoursOf(stats[e]) \cup HoursOf(rows)
           /\ \A r \in stats'[e] : r \in stats[e] \/ r \in rows
           /\ \A f \in Elements \ {e} : stats'[f] = stats[f]
           /\ queue' \in Seq(Write) /\ Len(queue') = Len(queue) - 1
           /\ \A k \in DOMAIN queue' : k + 1 \in DOMAIN queue /\ queue'[k] = queue[k + 1]
<1> DEFINE e == queue[1].element
           rows == queue[1].rows
<1>1. TypeOK /\ queue \in Seq(Write) /\ stats \in [Elements -> SUBSET Row]
      /\ \A f \in Elements : OneRowAnHour(stats[f])
  BY DEF ImportInv, TypeOK
<1>2. queue # <<>> /\ queue' = Tail(queue)
      /\ stats' = [stats EXCEPT ![Head(queue).element] = Upserted(@, Head(queue).rows)]
  BY DEF Store
<1>3. 1 \in DOMAIN queue /\ Head(queue) = queue[1]
  <2>. HIDE DEF Write
  <2>. QED  BY <1>1, <1>2
<1>4. e \in Elements /\ rows \in SUBSET Row /\ OneRowAnHour(rows)
  BY <1>1, <1>3, ElementsTyped DEF TypeOK
<1>5. stats' = [stats EXCEPT ![e] = Upserted(stats[e], rows)]
  BY <1>1, <1>2, <1>3
<1>. HIDE DEF e, rows
<1>6. stats'[e] = Upserted(stats[e], rows) /\ \A f \in Elements \ {e} : stats'[f] = stats[f]
  BY <1>1, <1>4, <1>5
<1>7. /\ Upserted(stats[e], rows) \in SUBSET Row /\ OneRowAnHour(Upserted(stats[e], rows))
      /\ HoursOf(Upserted(stats[e], rows)) = HoursOf(stats[e]) \cup HoursOf(rows)
      /\ \A r \in Upserted(stats[e], rows) : r \in stats[e] \/ r \in rows
  BY <1>1, <1>4, UpsertMeans
<1>8. stats' \in [Elements -> SUBSET Row] /\ \A f \in Elements : OneRowAnHour(stats'[f])
  BY <1>1, <1>4, <1>5, <1>6, <1>7
<1>9. /\ queue' \in Seq(Write) /\ Len(queue') = Len(queue) - 1
      /\ \A k \in DOMAIN queue' : k + 1 \in DOMAIN queue /\ queue'[k] = queue[k + 1]
  <2>. HIDE DEF Write
  <2>. QED  BY <1>1, <1>2
<1>. QED  BY <1>3, <1>4, <1>5, <1>6, <1>7, <1>8, <1>9 DEF e, rows

LEMMA StoreOK == ASSUME ImportInv, Store PROVE ImportInv' /\ Forward
<1> DEFINE e == queue[1].element
           rows == queue[1].rows
<1>1. TypeOK /\ ReadingsOK /\ ImportsOK
  BY DEF ImportInv
<1>2. /\ 1 \in DOMAIN queue /\ e \in Elements /\ rows \in SUBSET Row
      /\ stats' \in [Elements -> SUBSET Row]
      /\ \A f \in Elements : OneRowAnHour(stats'[f])
      /\ HoursOf(stats'[e]) = HoursOf(stats[e]) \cup HoursOf(rows)
      /\ \A f \in Elements \ {e} : stats'[f] = stats[f]
      /\ queue' \in Seq(Write) /\ Len(queue') = Len(queue) - 1
      /\ \A k \in DOMAIN queue' : k + 1 \in DOMAIN queue /\ queue'[k] = queue[k + 1]
  BY StoreMeans
<1>3. UNCHANGED <<now, remote, late, lateHours, job, crashes>>
  BY DEF Store
<1>. HIDE DEF e, rows
<1>4. TypeOK'
  <2>1. Len(queue') <= MaxQueue
    BY <1>1, <1>2, StatisticsImportAssumption DEF TypeOK
  <2>2. \A k \in DOMAIN queue' : OneRowAnHour(queue'[k].rows)
    BY <1>1, <1>2 DEF TypeOK
  <2>3. job' \in [Imports -> Job] /\ \A i \in Imports : job'[i].at = "idle" <=> job'[i].todo = <<>>
    BY <1>1, <1>3 DEF TypeOK
  <2>4. /\ now' \in 0..MaxTick
        /\ remote' \in [Elements -> SUBSET Reading] /\ late' \in [Elements -> SUBSET Reading]
        /\ lateHours' \in [Elements -> SUBSET Hours] /\ crashes' \in 0..MaxCrashes
    BY <1>1, <1>3 DEF TypeOK
  <2>5. queue' \in Seq(Write) /\ stats' \in [Elements -> SUBSET Row]
        /\ \A f \in Elements : OneRowAnHour(stats'[f])
    BY <1>2
  <2>. QED  BY <2>1, <2>2, <2>3, <2>4, <2>5 DEF TypeOK, OneRowAnHour
<1>5. ReadingsOK'
  BY <1>1, <1>3 DEF ReadingsOK
<1>6. \A f \in Elements : HoursOf(stats[f]) \subseteq HoursOf(stats'[f])
  BY <1>2
<1>7. Forward
  <2>1. ThisHour <= ThisHour'
    BY <1>1, <1>3, HourTyped DEF ThisHour
  <2>2. \A f, h : InTime(f, h)' => InTime(f, h)
    BY <1>3 DEF InTime
  <2>3. \A f, h : Bucket(remote[f], h)' = Bucket(remote[f], h)
    BY <1>3 DEF Bucket
  <2>4. \A f \in Elements : HoursOf(stats[f]) \subseteq HoursOf(stats[f])'
    BY <1>6 DEF HoursOf
  <2>. QED  BY <2>1, <2>2, <2>3, <2>4 DEF Forward
<1>8. ASSUME NEW f \in Elements PROVE NoneLeftOut(f, HoursOf(stats[f]))'
  <2>1. NoneLeftOut(f, HoursOf(stats[f]))
    BY <1>1 DEF ImportsOK
  <2>2. CASE f # e
    BY <1>1, <1>2, <1>4, <1>7, <2>1, <2>2, StatsStayOK
  <2>3. CASE f = e
    <3>1. PICK old \in SUBSET Row, new \in SUBSET Row : old = stats[e] /\ new = rows
      BY <1>1, <1>2 DEF TypeOK
    <3>2. NoneLeftOut(e, HoursOf(old)) /\ NoneLeftOut(e, HoursOf(new))
      BY <1>1, <1>2, <2>1, <2>3, <3>1 DEF ImportsOK, e, rows
    <3>3. PICK hours \in SUBSET Hours, more \in SUBSET Hours : hours = HoursOf(old) /\ more = HoursOf(new)
      BY DEF HoursOf, Row
    <3>4. PICK g \in Elements : g = e
      BY <1>2
    <3>5. NoneLeftOut(g, hours)' /\ NoneLeftOut(g, more)'
      BY <1>1, <1>4, <1>7, <3>2, <3>3, <3>4, KnowledgeStays
    <3>6. NoneLeftOut(g, hours \cup more)'
      BY <3>5 DEF NoneLeftOut
    <3>7. HoursOf(stats'[f]) = hours \cup more
      BY <1>2, <2>3, <3>1, <3>3
    <3>8. HoursOf(stats[f])' = hours \cup more
      BY <3>7 DEF HoursOf
    <3>. QED  BY <2>3, <3>4, <3>6, <3>8
  <2>. QED  BY <2>2, <2>3
<1>9. ImportInv'
  BY <1>2, <1>3, <1>4, <1>5, <1>7, <1>8, OthersStep
<1>. QED  BY <1>7, <1>9

LEMMA CrashOK == ASSUME ImportInv, Crash PROVE ImportInv' /\ Forward
<1>1. TypeOK /\ ReadingsOK /\ ImportsOK
  BY DEF ImportInv
<1>2. /\ job' = [i \in Imports |-> NoJob] /\ queue' = <<>> /\ crashes' = crashes + 1
      /\ crashes < MaxCrashes /\ UNCHANGED <<now, remote, late, lateHours, stats>>
  BY DEF Crash
<1>3. Forward
  BY <1>1, <1>2, IdleForward DEF Idle
<1>4. TypeOK'
  <2>1. job' \in [Imports -> Job] /\ \A i \in Imports : job'[i].at = "idle" <=> job'[i].todo = <<>>
    BY <1>2, NoJobOK
  <2>2. queue' \in Seq(Write) /\ Len(queue') <= MaxQueue
        /\ \A k \in DOMAIN queue' : OneRowAnHour(queue'[k].rows)
    <3>1. <<>> \in Seq(Write) /\ Len(<<>>) = 0 /\ DOMAIN <<>> = {}
      OBVIOUS
    <3>2. MaxQueue \in Nat
      BY StatisticsImportAssumption
    <3>. QED  BY <1>2, <3>1, <3>2
  <2>3. crashes' \in 0..MaxCrashes
    BY <1>1, <1>2, StatisticsImportAssumption DEF TypeOK
  <2>4. /\ now' \in 0..MaxTick
        /\ remote' \in [Elements -> SUBSET Reading] /\ late' \in [Elements -> SUBSET Reading]
        /\ lateHours' \in [Elements -> SUBSET Hours]
    BY <1>1, <1>2 DEF TypeOK
  <2>5. stats' \in [Elements -> SUBSET Row] /\ \A e \in Elements : OneRowAnHour(stats'[e])
    BY <1>1, <1>2 DEF TypeOK
  <2>. QED  BY <2>1, <2>2, <2>3, <2>4, <2>5 DEF TypeOK, OneRowAnHour
<1>5. ReadingsOK'
  BY <1>1, <1>2 DEF ReadingsOK
<1>6. \A e \in Elements : NoneLeftOut(e, HoursOf(stats[e]))'
  BY <1>1, <1>2, <1>3, <1>4, StatsStayOK DEF ImportsOK
<1>7. ImportInv'
  BY <1>2, <1>3, <1>4, <1>5, <1>6, OthersStep
<1>. QED  BY <1>3, <1>7

LEMMA InitOK == Init => ImportInv
<1>1. SUFFICES ASSUME Init PROVE ImportInv
  OBVIOUS
<1>2. /\ now = 0 /\ crashes = 0 /\ queue = <<>> /\ job = [i \in Imports |-> NoJob]
      /\ \A e \in Elements : remote[e] = {} /\ late[e] = {} /\ stats[e] = {}
  BY <1>1 DEF Init
<1>3. TypeOK
  <2>1. now \in 0..MaxTick /\ crashes \in 0..MaxCrashes
    BY <1>2, StatisticsImportAssumption
  <2>2. job \in [Imports -> Job] /\ \A i \in Imports : job[i].at = "idle" <=> job[i].todo = <<>>
    BY <1>2, NoJobOK
  <2>3. queue \in Seq(Write) /\ Len(queue) <= MaxQueue
        /\ \A k \in DOMAIN queue : OneRowAnHour(queue[k].rows)
    <3>1. <<>> \in Seq(Write) /\ Len(<<>>) = 0 /\ DOMAIN <<>> = {}
      OBVIOUS
    <3>2. MaxQueue \in Nat
      BY StatisticsImportAssumption
    <3>. QED  BY <1>2, <3>1, <3>2
  <2>4. /\ remote \in [Elements -> SUBSET Reading] /\ late \in [Elements -> SUBSET Reading]
        /\ lateHours \in [Elements -> SUBSET Hours]
    BY <1>1 DEF Init
  <2>5. stats \in [Elements -> SUBSET Row] /\ \A e \in Elements : OneRowAnHour(stats[e])
    BY <1>1 DEF Init, OneRowAnHour
  <2>. QED  BY <2>1, <2>2, <2>3, <2>4, <2>5 DEF TypeOK
<1>4. ReadingsOK
  BY <1>2, FS_EmptySet DEF ReadingsOK
<1>5. ImportsOK
  <2>1. \A i \in Imports : JobOK(job[i])
    BY <1>2, NoJobOK
  <2>2. DOMAIN <<>> = {}
    OBVIOUS
  <2>3. \A e \in Elements : NoneLeftOut(e, HoursOf(stats[e]))
    BY <1>2 DEF HoursOf, NoneLeftOut
  <2>. QED  BY <1>2, <2>1, <2>2, <2>3 DEF ImportsOK
<1>. QED  BY <1>3, <1>4, <1>5 DEF ImportInv
LEMMA ImporterIdle ==
    ASSUME NEW i \in Imports,
           Start(i) \/ ReadLast(i) \/ OpenWindow(i) \/ Serve(i) \/ Import(i) \/ Fail(i)
    PROVE  Idle
BY DEF Start, ReadLast, OpenWindow, Serve, Import, Fail, Idle

LEMMA NextOK == ASSUME ImportInv, Next PROVE ImportInv' /\ Forward
<1>1. CASE Tick
  BY <1>1, TickOK, TickForward
<1>2. CASE Store
  BY <1>2, StoreOK
<1>3. CASE Crash
  BY <1>3, CrashOK
<1>4. ASSUME NEW e \in Elements, NEW r \in late[e], RecordLate(e, r) PROVE ImportInv' /\ Forward
  BY <1>4, RecordLateOK
<1>5. ASSUME NEW i \in Imports,
             Start(i) \/ ReadLast(i) \/ OpenWindow(i) \/ Serve(i) \/ Import(i) \/ Fail(i)
      PROVE  ImportInv' /\ Forward
  <2>1. Forward
    BY <1>5, ImporterIdle, IdleForward DEF ImportInv
  <2>2. ImportInv'
    BY <1>5, StartOK, ReadLastOK, OpenWindowOK, ServeOK, ImportOK, FailOK
  <2>. QED  BY <2>1, <2>2
<1>. QED  BY <1>1, <1>2, <1>3, <1>4, <1>5 DEF Next

LEMMA StutterOK == ASSUME ImportInv, UNCHANGED vars PROVE ImportInv'
<1>1. TypeOK'
  BY DEF ImportInv, TypeOK, OneRowAnHour, vars
<1>2. ReadingsOK'
  BY DEF ImportInv, ReadingsOK, vars
<1>3. Forward
  BY IdleForward DEF Idle, vars, ImportInv
<1>4. /\ \A i \in Imports : job'[i] = job[i]
      /\ \A k \in DOMAIN queue' : queue'[k] = queue[k] /\ k \in DOMAIN queue
      /\ stats' = stats
  BY DEF vars
<1>5. \A e \in Elements : NoneLeftOut(e, HoursOf(stats[e]))'
  BY <1>1, <1>3, <1>4, StatsStayOK DEF ImportInv, ImportsOK
<1>. QED  BY <1>1, <1>2, <1>3, <1>4, <1>5, OthersStep

LEMMA ImportInvariant == Spec => []ImportInv
<1>1. ImportInv /\ [Next]_vars => ImportInv'
  BY NextOK, StutterOK
<1>. QED  BY InitOK, <1>1, PTL DEF Spec

\* The importer's state is well-formed: every job, queued write and stored row.
THEOREM ImportsTyped == Spec => []TypeOK
<1>1. ImportInv => TypeOK
  BY DEF ImportInv
<1>. QED  BY ImportInvariant, <1>1, PTL

LEMMA NothingMissing == ImportInv => RecentHoursStored
<1>1. SUFFICES ASSUME ImportInv, NEW e \in Elements, NEW q \in stats[e], NEW h \in Hours,
                      h < q.hour, h >= ThisHour - Lookback,
                      Bucket(remote[e], h) # {}, InTime(e, h)
               PROVE  \E p \in stats[e] : p.hour = h
  BY DEF RecentHoursStored
<1>2. q.hour \in HoursOf(stats[e]) /\ q \in Row /\ ThisHour \in Nat
  BY <1>1, ElementsTyped DEF HoursOf, ImportInv
<1>3. q.hour < ThisHour /\ (Missing(e, h) => h \in HoursOf(stats[e]))
  BY <1>1, <1>2 DEF ImportInv, ImportsOK, NoneLeftOut
<1>4. q.hour \in Int /\ h \in Int
  BY <1>2, HoursAreInts DEF Row
<1>5. h < ThisHour
  BY <1>1, <1>2, <1>3, <1>4
<1>6. h \in HoursOf(stats[e])
  BY <1>1, <1>3, <1>5 DEF Missing
<1>. QED  BY <1>6 DEF HoursOf

\* No hour within the lookback is left out before a stored one (_resume_window), whatever
\* imports overlap, fail or crash, however long they take and wherever answers are cut.
THEOREM RecentHoursKept == Spec => []RecentHoursStored
BY ImportInvariant, NothingMissing, PTL

-----------------------------------------------------------------------------
(* Whole hours, when no answer is cut.                                      *)

\* A row stands for all the readings of a completed hour.
StandsFor(e, r) ==
    /\ r.hour < ThisHour
    /\ InTime(e, r.hour) =>
          /\ Bucket(remote[e], r.hour) # {}
          /\ r.seen = IF e \in ListedIn(Counters) THEN {Latest(Bucket(remote[e], r.hour))}
                                                  ELSE Bucket(remote[e], r.hour)

\* The points are all the readings of the hours of the window.
HoursComplete(e, j) ==
    /\ j.to <= ThisHour
    /\ \A h \in j.from..(j.to - 1) : InTime(e, h) => Bucket(j.points, h) = Bucket(remote[e], h)

WholeJob(j) ==
    /\ j.at # "idle" => \A r \in j.last : StandsFor(Head(j.todo), r)
    /\ j.at = "points" => HoursComplete(Head(j.todo), j)

WholeInv ==
    /\ \A i \in Imports : WholeJob(job[i])
    /\ \A k \in DOMAIN queue : \A r \in queue[k].rows : StandsFor(queue[k].element, r)
    /\ \A e \in Elements : \A r \in stats[e] : StandsFor(e, r)

LEMMA RowsStayWhole ==
    ASSUME ImportInv, ImportInv', Forward
    PROVE  \A e \in Elements, r \in Row : StandsFor(e, r) => StandsFor(e, r)'
<1>1. ThisHour \in Nat /\ ThisHour' \in Nat /\ ThisHour <= ThisHour'
  BY ClockTyped DEF ImportInv, Forward
<1>2. SUFFICES ASSUME NEW e \in Elements, NEW r \in Row, StandsFor(e, r) PROVE StandsFor(e, r)'
  OBVIOUS
<1>3. r.hour \in Int /\ r.hour < ThisHour
  BY <1>2, HoursAreInts DEF Row, StandsFor
<1>4. r.hour < ThisHour'
  BY <1>1, <1>3
<1>5. InTime(e, r.hour)' => /\ InTime(e, r.hour)
                            /\ Bucket(remote[e], r.hour)' = Bucket(remote[e], r.hour)
  BY <1>3 DEF Forward
<1>6. PICK h \in Int : h = r.hour
  BY <1>3
<1>7. InTime(e, h)' => InTime(e, h) /\ Bucket(remote'[e], h) = Bucket(remote[e], h)
  BY <1>5, <1>6 DEF Bucket
<1>. QED  BY <1>2, <1>4, <1>6, <1>7 DEF StandsFor

LEMMA JobsStayWhole ==
    ASSUME ImportInv, ImportInv', Forward
    PROVE  \A j \in Job : (j.at # "idle" => j.todo # <<>>) /\ WholeJob(j) => WholeJob(j)'
<1>1. SUFFICES ASSUME NEW j \in Job, j.at # "idle", j.todo # <<>>, WholeJob(j)
               PROVE  WholeJob(j)'
  BY DEF WholeJob
<1> DEFINE e == Head(j.todo)
<1>2. /\ j.todo \in Seq(Elements) /\ j.last \in SUBSET Row /\ j.from \in Int /\ j.to \in Int
      /\ ThisHour \in Nat /\ ThisHour' \in Nat /\ ThisHour <= ThisHour'
  BY ClockTyped DEF Job, ImportInv, Forward
<1>3. e \in Elements
  BY <1>1, <1>2
<1>. HIDE DEF e
<1>4. \A r \in j.last : StandsFor(e, r)'
  BY <1>1, <1>2, <1>3, RowsStayWhole DEF WholeJob, e
<1>5. ASSUME j.at = "points" PROVE j.to <= ThisHour'
  BY <1>1, <1>2, <1>5 DEF WholeJob, HoursComplete
<1>6. ASSUME j.at = "points", NEW h \in j.from..(j.to - 1), InTime(e, h)'
      PROVE  Bucket(j.points, h) = Bucket(remote'[e], h)
  <2>1. h \in Int /\ h < ThisHour
    <3>1. j.to <= ThisHour
      BY <1>1, <1>6 DEF WholeJob, HoursComplete
    <3>. QED  BY <1>2, <1>6, <3>1
  <2>2. InTime(e, h) /\ Bucket(remote[e], h)' = Bucket(remote[e], h)
    BY <1>3, <1>6, <2>1 DEF Forward
  <2>3. Bucket(j.points, h) = Bucket(remote[e], h)
    BY <1>1, <1>6, <2>2 DEF WholeJob, HoursComplete, e
  <2>. QED  BY <2>2, <2>3 DEF Bucket
<1>. QED  BY <1>4, <1>5, <1>6 DEF WholeJob, HoursComplete, e, Bucket

\* A step keeps hours whole if the jobs, writes and rows it leaves are whole as things stand.
LEMMA WholeStep ==
    ASSUME ImportInv, ImportInv', Forward, WholeInv,
           \A i \in Imports : job'[i] = job[i] \/ WholeJob(job'[i]),
           \A k \in DOMAIN queue' : \A r \in queue'[k].rows : StandsFor(queue'[k].element, r),
           \A e \in Elements : \A r \in stats'[e] : StandsFor(e, r)
    PROVE  WholeInv'
<1>1. ASSUME NEW i \in Imports PROVE WholeJob(job[i])'
  <2>1. job'[i] \in Job /\ (job'[i].at = "idle" <=> job'[i].todo = <<>>)
    BY DEF ImportInv, TypeOK
  <2>2. WholeJob(job'[i])
    BY DEF WholeInv
  <2>3. PICK j \in Job : j = job'[i]
    BY <2>1
  <2>4. WholeJob(j) /\ (j.at # "idle" => j.todo # <<>>)
    BY <2>1, <2>2, <2>3
  <2>5. WholeJob(j)'
    BY <2>4, JobsStayWhole
  <2>. QED  BY <2>3, <2>5
<1>2. ASSUME NEW k \in DOMAIN queue', NEW r \in queue'[k].rows
      PROVE  StandsFor(queue[k].element, r)'
  <2>1. queue'[k] \in Write
    BY DEF ImportInv, TypeOK
  <2>2. PICK e \in Elements, q \in Row : e = queue'[k].element /\ q = r
    BY <1>2, <2>1 DEF Write
  <2>3. StandsFor(e, q)'
    BY <1>2, <2>2, RowsStayWhole
  <2>. QED  BY <2>2, <2>3
<1>3. ASSUME NEW e \in Elements, NEW r \in stats'[e] PROVE StandsFor(e, r)'
  <2>1. r \in Row
    BY <1>3 DEF ImportInv, TypeOK
  <2>. QED  BY <1>3, <2>1, RowsStayWhole
<1>. QED  BY <1>1, <1>2, <1>3 DEF WholeInv

LEMMA WholeOnwards == ASSUME NEW j \in Job, j.todo # <<>> PROVE WholeJob(Onwards(j)) /\ WholeJob(NoJob)
<1>1. WholeJob(NoJob)
  BY DEF WholeJob, NoJob
<1>2. CASE Len(j.todo) = 1
  BY <1>1, <1>2 DEF Onwards
<1>3. CASE Len(j.todo) # 1
  <2>1. Onwards(j) = [NoJob EXCEPT !.at = "last", !.todo = Tail(j.todo)] /\ NoJob \in Job
    BY <1>3, NoJobOK DEF Onwards
  <2>2. Onwards(j).last = NoJob.last /\ Onwards(j).at = "last"
    BY <2>1 DEF Job
  <2>. QED  BY <2>2 DEF WholeJob, NoJob
<1>. QED  BY <1>1, <1>2, <1>3

\* An answer that no row limit cuts holds every reading of the window.
LEMMA ServedAll ==
    ASSUME ImportInv, MaxTick <= MaxHistoryRows, NEW e \in Elements, NEW from \in Int, NEW to \in Int,
           NEW r \in remote[e], from <= Hour(r.at), r.at <= to * TicksPerHour
    PROVE  r \in Served(e, from, to)
<1> DEFINE asked == {q \in remote[e] : from * TicksPerHour <= q.at /\ q.at <= to * TicksPerHour}
           before == {q \in asked : q.at < r.at}
           T == 0..(r.at - 1)
           f == [q \in before |-> q.at]
<1>1. remote[e] \in SUBSET Reading /\ MaxTick \in Nat /\ MaxHistoryRows \in Nat /\ now \in 0..MaxTick
  BY ElementsTyped, StatisticsImportAssumption DEF ImportInv, TypeOK
<1>2. r.at \in Nat /\ r.at < now /\ \A q, p \in remote[e] : q.at = p.at => q = p
  BY <1>1, ReadingTyped DEF ImportInv, ReadingsOK
<1>3. r \in asked
  BY <1>2, HourMeans
<1>4. f \in Injection(before, T)
  <2>1. \A q \in before : q \in remote[e] /\ q.at \in T
    <3>1. \A q \in before : q \in remote[e] /\ q.at < r.at
      OBVIOUS
    <3>2. \A q \in remote[e] : q.at \in Nat
      BY <1>1, ReadingTyped
    <3>. HIDE DEF before
    <3>. QED  BY <1>2, <3>1, <3>2
  <2>. HIDE DEF before, T
  <2>2. f \in [before -> T] /\ \A q, p \in before : f[q] = f[p] => q = p
    BY <1>2, <2>1
  <2>. HIDE DEF f
  <2>. QED  BY <2>2 DEF Injection, IsInjective
<1>5. IsFiniteSet(T) /\ Cardinality(T) = r.at
  <2>1. 0 \in Int /\ r.at - 1 \in Int
    BY <1>2
  <2>2. IsFiniteSet(T) /\ Cardinality(T) = IF 0 > r.at - 1 THEN 0 ELSE (r.at - 1) - 0 + 1
    BY <2>1, FS_Interval
  <2>. HIDE DEF T
  <2>. QED  BY <1>2, <2>2
<1>6. IsFiniteSet(before) /\ Cardinality(before) <= r.at
  <2>. HIDE DEF before, T, f
  <2>. QED  BY <1>4, <1>5, FS_Injection
<1>7. Cardinality(before) \in Nat
  BY <1>6, FS_CardinalityType
<1>. HIDE DEF before
<1>8. Cardinality(before) < MaxHistoryRows
  BY <1>1, <1>2, <1>6, <1>7
<1>. QED  BY <1>3, <1>8 DEF Served, before

\* So the points are the readings of every hour of the window.
LEMMA ServedWhole ==
    ASSUME ImportInv, MaxTick <= MaxHistoryRows, NEW e \in Elements, NEW from \in Int, NEW to \in Int,
           NEW h \in from..(to - 1)
    PROVE  Bucket({r \in Served(e, from, to) : r.at < to * TicksPerHour}, h) = Bucket(remote[e], h)
<1>1. remote[e] \in SUBSET Reading /\ TicksPerHour \in Nat
  BY ElementsTyped, StatisticsImportAssumption DEF ImportInv
<1>2. ASSUME NEW r \in remote[e], Hour(r.at) = h
      PROVE  r \in Served(e, from, to) /\ r.at < to * TicksPerHour
  <2>1. r.at \in Nat /\ from <= Hour(r.at) /\ ~(to <= Hour(r.at))
    BY <1>1, <1>2, ReadingTyped
  <2> DEFINE end == to * TicksPerHour
  <2>2. end \in Int
    BY <1>1
  <2>3. ~(end <= r.at)
    BY <2>1, HourMeans
  <2>. HIDE DEF end
  <2>4. r.at < end /\ r.at <= end
    BY <2>1, <2>2, <2>3
  <2>5. r.at < to * TicksPerHour /\ r.at <= to * TicksPerHour
    BY <2>4 DEF end
  <2>. QED  BY <2>1, <2>5, ServedAll
<1>3. Served(e, from, to) \in SUBSET remote[e]
  BY ServedMeans
<1>. QED  BY <1>2, <1>3 DEF Bucket
\* The rows made are whole: of a counter the latest reading of the hour, of a measurement all.
LEMMA MadeRowsAreWhole ==
    ASSUME ImportInv, WholeInv, NEW i \in Imports, job[i].at = "points"
    PROVE  \A r \in NewRows(job[i]) : StandsFor(Head(job[i].todo), r)
<1> DEFINE j == job[i]
           e == Head(j.todo)
           hours == {Hour(p.at) : p \in j.points}
           acc == Accumulated(j)
           counted == {[hour |-> h, seen |-> acc[h].seen, sum |-> acc[h].sum] : h \in hours}
           measured == {[hour |-> h, seen |-> Bucket(j.points, h), sum |-> 0] : h \in hours}
<1>1. /\ j \in Job /\ JobOK(j) /\ j.from \in Int /\ j.to \in Int /\ ThisHour \in Nat
  BY AtWork, HourTyped DEF ImportInv
<1>2. NewRows(j) = IF e \in ListedIn(Counters) THEN counted ELSE measured
  BY DEF NewRows
<1>3. HoursComplete(e, j)
  BY DEF WholeInv, WholeJob
<1>. HIDE DEF j
<1>. HIDE DEF e
<1>4. /\ j.from < j.to /\ j.to <= ThisHour
      /\ \A p \in j.points : Hour(p.at) \in j.from..(j.to - 1)
  BY <1>1 DEF JobOK, WindowOK, PointsOK, j
<1>5. \A h \in hours : h \in j.from..(j.to - 1) /\ Bucket(j.points, h) # {}
  BY <1>4 DEF Bucket
<1>. HIDE DEF hours
<1>6. \A h \in hours : /\ h < ThisHour
                       /\ InTime(e, h) => Bucket(remote[e], h) = Bucket(j.points, h)
  <2>1. \A h \in hours : h \in Int /\ h < j.to
    BY <1>1, <1>5
  <2>2. \A h \in hours : h < ThisHour
    BY <1>1, <1>4, <2>1
  <2>. QED  BY <1>3, <1>5, <2>2 DEF HoursComplete
<1>7. \A h \in hours : acc[h].seen = {Latest(Bucket(j.points, h))}
  <2>1. TAKE h \in hours
  <2>2. h \in (j.from - 1)..(j.to - 1) /\ ~(h < j.from) /\ j.from <= j.to
    BY <1>1, <1>4, <1>5
  <2>3. acc[h] = HourAfter(j, acc, h)
    BY <1>1, <2>2, AccumulatedMeans
  <2>. HIDE DEF acc
  <2>. QED  BY <1>5, <2>2, <2>3 DEF HourAfter
<1>. HIDE DEF acc
<1>8. CASE e \in ListedIn(Counters)
  <2>1. ASSUME NEW h \in hours, NEW r, r = [hour |-> h, seen |-> acc[h].seen, sum |-> acc[h].sum]
        PROVE  StandsFor(e, r)
    <3>1. r.hour = h /\ r.seen = {Latest(Bucket(j.points, h))}
      BY <1>7, <2>1
    <3>. QED  BY <1>5, <1>6, <1>8, <3>1 DEF StandsFor
  <2>. QED  BY <1>2, <1>8, <2>1 DEF e, j
<1>9. CASE e \notin ListedIn(Counters)
  <2>1. ASSUME NEW h \in hours, NEW r, r = [hour |-> h, seen |-> Bucket(j.points, h), sum |-> 0]
        PROVE  StandsFor(e, r)
    <3>1. r.hour = h /\ r.seen = Bucket(j.points, h)
      BY <2>1
    <3>. QED  BY <1>5, <1>6, <1>9, <3>1 DEF StandsFor
  <2>. QED  BY <1>2, <1>9, <2>1 DEF e, j
<1>. QED  BY <1>8, <1>9

\* The jobs that a step of the importer leaves.
LEMMA JobsMadeWhole ==
    ASSUME ImportInv, WholeInv, MaxTick <= MaxHistoryRows, NEW i \in Imports,
           Start(i) \/ ReadLast(i) \/ OpenWindow(i) \/ Serve(i) \/ Import(i) \/ Fail(i)
    PROVE  \A n \in Imports : job'[n] = job[n] \/ WholeJob(job'[n])
<1> DEFINE q == job[i]
           e == Head(q.todo)
<1>0. job \in [Imports -> Job] /\ WholeJob(NoJob) /\ NoJob \in Job
  BY NoJobOK DEF ImportInv, TypeOK, WholeJob, NoJob
<1>1. q.at # "idle" => /\ q \in Job /\ q.todo # <<>> /\ e \in Elements
                       /\ q.from \in Int /\ q.to \in Nat /\ WholeJob(q) /\ JobOK(q)
  BY AtWork DEF WholeInv
<1>2. SUFFICES \E j : job' = [job EXCEPT ![i] = j] /\ WholeJob(j)
  BY <1>0
<1>3. CASE Start(i)
  <2> DEFINE j == [NoJob EXCEPT !.at = "last", !.todo = Measurements \o Counters]
  <2>1. job' = [job EXCEPT ![i] = j]
    BY <1>3 DEF Start
  <2>2. j.last = NoJob.last /\ j.at = "last"
    BY <1>0 DEF Job
  <2>. HIDE DEF j
  <2>3. WholeJob(j)
    BY <2>2 DEF WholeJob, NoJob
  <2>. QED  BY <2>1, <2>3
<1>4. CASE ReadLast(i)
  <2> DEFINE j == [q EXCEPT !.at = "window", !.since = now, !.last = LastRow(e)]
  <2>1. q.at = "last" /\ job' = [job EXCEPT ![i] = j]
    BY <1>0, <1>4 DEF ReadLast
  <2>2. j.at = "window" /\ j.todo = q.todo /\ j.last = LastRow(e)
    BY <1>1, <2>1 DEF Job
  <2>3. \A r \in LastRow(e) : StandsFor(e, r)
    BY <1>1, <2>1 DEF LastRow, WholeInv
  <2>. HIDE DEF j
  <2>4. WholeJob(j)
    BY <2>2, <2>3 DEF WholeJob
  <2>. QED  BY <2>1, <2>4
<1>5. CASE OpenWindow(i)
  <2> DEFINE from == WindowStart(q.last)
             n == [q EXCEPT !.at = "serve", !.from = from, !.to = WindowEnd]
             j == IF from >= WindowEnd THEN Onwards(q) ELSE n
  <2>1. q.at = "window" /\ job' = [job EXCEPT ![i] = j]
    BY <1>5 DEF OpenWindow
  <2>2. n.at = "serve" /\ n.todo = q.todo /\ n.last = q.last
    BY <1>1, <2>1 DEF Job
  <2>. HIDE DEF n
  <2>3. WholeJob(n)
    BY <1>1, <2>1, <2>2 DEF WholeJob
  <2>4. WholeJob(Onwards(q))
    BY <1>1, <2>1, WholeOnwards
  <2>5. WholeJob(j)
    BY <2>3, <2>4
  <2>. QED  BY <2>1, <2>5
<1>6. CASE Serve(i)
  <2> DEFINE P == {r \in Served(e, q.from, q.to) : r.at < q.to * TicksPerHour}
             j == [q EXCEPT !.at = "points", !.points = P]
  <2>1. q.at = "serve" /\ job' = [job EXCEPT ![i] = j]
    BY <1>0, <1>6 DEF Serve
  <2>2. \A h \in q.from..(q.to - 1) : Bucket(P, h) = Bucket(remote[e], h)
    BY <1>1, <2>1, ServedWhole
  <2>3. q.to <= ThisHour
    BY <1>1, <2>1 DEF JobOK, WindowOK
  <2>. HIDE DEF P
  <2>4. /\ j.at = "points" /\ j.todo = q.todo /\ j.last = q.last /\ j.from = q.from /\ j.to = q.to
        /\ j.points = P
    BY <1>1, <2>1 DEF Job
  <2>. HIDE DEF j
  <2>5. WholeJob(j)
    BY <1>1, <2>1, <2>2, <2>3, <2>4 DEF WholeJob, HoursComplete
  <2>. QED  BY <2>1, <2>5
<1>7. CASE Import(i)
  <2>1. q.at = "points" /\ job' = [job EXCEPT ![i] = Onwards(q)]
    BY <1>0, <1>7 DEF Import
  <2>2. WholeJob(Onwards(q))
    BY <1>1, <2>1, WholeOnwards
  <2>. QED  BY <2>1, <2>2
<1>8. CASE Fail(i)
  BY <1>0, <1>8 DEF Fail
<1>. QED  BY <1>3, <1>4, <1>5, <1>6, <1>7, <1>8

LEMMA WholeNext ==
    ASSUME ImportInv, WholeInv, MaxTick <= MaxHistoryRows, Next
    PROVE  WholeInv'
<1>1. ImportInv' /\ Forward
  BY NextOK
<1>2. /\ \A k \in DOMAIN queue : \A r \in queue[k].rows : StandsFor(queue[k].element, r)
      /\ \A e \in Elements : \A r \in stats[e] : StandsFor(e, r)
      /\ WholeJob(NoJob)
  BY DEF WholeInv, WholeJob, NoJob
<1>3. CASE job' = job /\ queue' = queue /\ stats' = stats
  BY <1>1, <1>2, <1>3, WholeStep
<1>4. CASE Store
  <2> DEFINE e == queue[1].element
             rows == queue[1].rows
  <2>1. /\ 1 \in DOMAIN queue /\ e \in Elements
        /\ \A r \in stats'[e] : r \in stats[e] \/ r \in rows
        /\ \A f \in Elements \ {e} : stats'[f] = stats[f]
        /\ \A k \in DOMAIN queue' : k + 1 \in DOMAIN queue /\ queue'[k] = queue[k + 1]
    BY <1>4, StoreMeans
  <2>2. \A f \in Elements : \A r \in stats'[f] : StandsFor(f, r)
    BY <1>2, <2>1
  <2>3. \A k \in DOMAIN queue' : \A r \in queue'[k].rows : StandsFor(queue'[k].element, r)
    BY <1>2, <2>1
  <2>4. job' = job
    BY <1>4 DEF Store
  <2>. QED  BY <1>1, <2>2, <2>3, <2>4, WholeStep
<1>5. CASE Crash
  <2>1. job' = [i \in Imports |-> NoJob] /\ queue' = <<>> /\ stats' = stats
    BY <1>5 DEF Crash
  <2>2. DOMAIN <<>> = {}
    OBVIOUS
  <2>. QED  BY <1>1, <1>2, <2>1, <2>2, WholeStep
<1>6. ASSUME NEW i \in Imports,
             Start(i) \/ ReadLast(i) \/ OpenWindow(i) \/ Serve(i) \/ Import(i) \/ Fail(i)
      PROVE  WholeInv'
  <2>1. \A n \in Imports : job'[n] = job[n] \/ WholeJob(job'[n])
    BY <1>6, JobsMadeWhole
  <2>2. stats' = stats
    BY <1>6, ImporterIdle DEF Idle
  <2>3. CASE queue' = queue
    BY <1>1, <1>2, <2>1, <2>2, <2>3, WholeStep
  <2>4. CASE Import(i) /\ queue' # queue
    <3> DEFINE w == [element |-> Head(job[i].todo), rows |-> NewRows(job[i]),
                   since |-> job[i].since]
    <3>1. queue' = Append(queue, w) /\ job[i].at = "points"
      BY <2>4 DEF Import
    <3>2. \A r \in w.rows : StandsFor(w.element, r)
      BY <3>1, MadeRowsAreWhole
    <3>. HIDE DEF w
    <3>3. queue \in Seq(Write)
      BY DEF ImportInv, TypeOK
    <3>4. \A k \in DOMAIN queue' : queue'[k] = w \/ (k \in DOMAIN queue /\ queue'[k] = queue[k])
      <4>. HIDE DEF Write
      <4>. QED  BY <3>1, <3>3
    <3>5. \A k \in DOMAIN queue' : \A r \in queue'[k].rows : StandsFor(queue'[k].element, r)
      BY <1>2, <3>2, <3>4
    <3>. QED  BY <1>1, <1>2, <2>1, <2>2, <3>5, WholeStep
  <2>5. queue' = queue \/ Import(i)
    BY <1>6 DEF Start, ReadLast, OpenWindow, Serve, Fail
  <2>. QED  BY <2>3, <2>4, <2>5
<1>7. ASSUME NEW e \in Elements, NEW r \in late[e], RecordLate(e, r) PROVE WholeInv'
  BY <1>3, <1>7 DEF RecordLate
<1>8. CASE Tick
  BY <1>3, <1>8 DEF Tick
<1>. QED  BY <1>4, <1>5, <1>6, <1>7, <1>8 DEF Next

LEMMA WholeInvariant == ASSUME MaxTick <= MaxHistoryRows PROVE Spec => []WholeInv
<1>1. Init => WholeInv
  <2>1. DOMAIN <<>> = {}
    OBVIOUS
  <2>2. WholeJob(NoJob)
    BY DEF WholeJob, NoJob
  <2>3. SUFFICES ASSUME Init PROVE WholeInv
    OBVIOUS
  <2>4. queue = <<>> /\ \A i \in Imports : job[i] = NoJob
    BY <2>3 DEF Init
  <2>5. \A e \in Elements : stats[e] = {}
    BY <2>3 DEF Init
  <2>. QED  BY <2>1, <2>2, <2>4, <2>5 DEF WholeInv
<1>2. ImportInv /\ WholeInv /\ [Next]_vars => WholeInv'
  <2>1. ASSUME ImportInv, WholeInv, UNCHANGED vars PROVE WholeInv'
    <3>1. ImportInv' /\ Forward
      BY <2>1, StutterOK, IdleForward DEF Idle, vars, ImportInv
    <3>2. job' = job /\ queue' = queue /\ stats' = stats
      BY <2>1 DEF vars
    <3>3. /\ \A k \in DOMAIN queue : \A r \in queue[k].rows : StandsFor(queue[k].element, r)
          /\ \A e \in Elements : \A r \in stats[e] : StandsFor(e, r)
      BY <2>1 DEF WholeInv
    <3>. QED  BY <2>1, <3>1, <3>2, <3>3, WholeStep
  <2>. QED  BY <2>1, WholeNext
<1>. QED  BY ImportInvariant, <1>1, <1>2, PTL DEF Spec

\* A row stands for all the readings of its hour ("aggregates completed hours"), as long as no
\* answer is cut at the row limit: no boundary, overlap, crash or resumption breaks an hour up.
THEOREM HoursAreWhole ==
    ASSUME MaxTick <= MaxHistoryRows
    PROVE  Spec => []HoursWhole
<1>1. WholeInv => HoursWhole
  BY DEF WholeInv, StandsFor, HoursWhole
<1>. QED  BY WholeInvariant, <1>1, PTL
-----------------------------------------------------------------------------
(* Sums, when no answer is cut.                                             *)

\* The readings up to the end of an hour.
UpTo(readings, h) == {r \in readings : Hour(r.at) <= h}

\* What a meter counts in an hour, from its latest reading before.
CountedIn(readings, h) ==
    IF Bucket(readings, h) = {} THEN 0
    ELSE Delta(IF UpTo(readings, h - 1) = {} THEN {} ELSE {Latest(UpTo(readings, h - 1))},
               Latest(Bucket(readings, h)).value)

\* A meter counts hour by hour.
LEMMA MeterMeans ==
    ASSUME NEW R \in SUBSET Reading
    PROVE  \A h \in Hours :
              Meter(R)[h] = (IF h = 0 THEN 0 ELSE Meter(R)[h - 1]) + CountedIn(R, h)
<1> DEFINE After(f, h) == (IF h = 0 THEN 0 ELSE f[h - 1]) + CountedIn(R, h)
           Good(n, f) == f = [h \in 0..n |-> After(f, h)]
           S == {n \in Int : \E f : Good(n, f)}
           b == Hour(MaxTick)
<1>1. b \in Nat
  BY HoursAreInts
<1>2. 0 \in S
  <2> DEFINE f == [h \in 0..0 |-> 0 + CountedIn(R, h)]
  <2>1. \A h \in 0..0 : After(f, h) = 0 + CountedIn(R, h)
    OBVIOUS
  <2>2. Good(0, f)
    BY <2>1
  <2>. HIDE DEF Good
  <2>. QED  BY <2>2
<1>3. ASSUME NEW n \in (0 + 1)..b, n - 1 \in S PROVE n \in S
  <2>1. PICK g : g = [h \in 0..(n - 1) |-> After(g, h)]
    BY <1>3
  <2> DEFINE f == [h \in 0..n |-> IF h < n THEN g[h] ELSE After(g, h)]
  <2>2. ASSUME NEW h \in 0..n PROVE f[h] = After(f, h)
    <3>1. h # 0 => f[h - 1] = g[h - 1]
      <4>1. h # 0 => h - 1 \in 0..n /\ h - 1 < n
        OBVIOUS
      <4>. QED  BY <4>1
    <3>2. f[h] = IF h < n THEN g[h] ELSE After(g, h)
      OBVIOUS
    <3>3. h < n => h \in 0..(n - 1)
      OBVIOUS
    <3>. HIDE DEF f
    <3>4. h < n => g[h] = After(g, h)
      <4>. HIDE DEF After
      <4>. QED  BY <2>1, <3>3
    <3>5. f[h] = After(g, h)
      <4>. HIDE DEF After
      <4>. QED  BY <3>2, <3>4
    <3>6. After(g, h) = After(f, h)
      BY <3>1
    <3>. HIDE DEF After
    <3>. QED  BY <3>5, <3>6
  <2>3. f = [h \in 0..n |-> f[h]]
    OBVIOUS
  <2>. HIDE DEF f, After
  <2>4. Good(n, f)
    BY <2>2, <2>3
  <2>. QED  BY <2>4
<1>4. b \in S
  <2>. HIDE DEF b, S
  <2>1. b \in 0..b /\ 0 \in Int /\ b \in Int
    BY <1>1
  <2>. QED  BY <1>2, <1>3, <2>1, HourByHour
<1>5. \A h \in Hours : UpTo(R, h - 1) = {r \in R : Hour(r.at) < h}
  <2>1. TAKE h \in Hours
  <2>2. \A r \in R : Hour(r.at) \in Int /\ h \in Int
    BY ReadingTyped, HoursAreInts
  <2>3. \A r \in R : Hour(r.at) <= h - 1 <=> Hour(r.at) < h
    BY <2>2
  <2>. QED  BY <2>3 DEF UpTo
<1>6. Meter(R) = CHOOSE f : f = [h \in Hours |-> After(f, h)]
  <2> DEFINE past(h) == {r \in R : Hour(r.at) < h}
             rise(h) ==
                LET value == Latest(Bucket(R, h)).value
                    old   == Latest(past(h)).value
                IN  IF value < old THEN value ELSE value - old
             Of(f, h) == (IF h = 0 THEN 0 ELSE f[h - 1])
                         + (IF Bucket(R, h) = {} \/ past(h) = {} THEN 0 ELSE rise(h))
  <2>1. Meter(R) = CHOOSE f : f = [h \in Hours |-> Of(f, h)]
    BY DEF Meter
  <2>2. ASSUME NEW f, NEW h \in Hours PROVE Of(f, h) = After(f, h)
    <3>1. UpTo(R, h - 1) = past(h)
      BY <1>5
    <3>2. CountedIn(R, h) = IF Bucket(R, h) = {} \/ past(h) = {} THEN 0 ELSE rise(h)
      <4>1. CASE Bucket(R, h) = {} \/ past(h) = {}
        BY <3>1, <4>1 DEF CountedIn, Delta
      <4>2. CASE Bucket(R, h) # {} /\ past(h) # {}
        <5>1. past(h) \in SUBSET Reading
          OBVIOUS
        <5>2. Latest({Latest(past(h))}) = Latest(past(h))
          <6>. HIDE DEF past
          <6>1. Latest(past(h)) \in Reading
            BY <4>2, <5>1, LatestIs
          <6>. QED  BY <6>1, LatestIs
        <5>. QED  BY <3>1, <4>2, <5>2 DEF CountedIn, Delta
      <4>. QED  BY <4>1, <4>2
    <3>. HIDE DEF past, rise
    <3>. QED  BY <3>2
  <2>. HIDE DEF Of, After
  <2>3. \A f : [h \in Hours |-> Of(f, h)] = [h \in Hours |-> After(f, h)]
    BY <2>2
  <2>4. (CHOOSE f : f = [h \in Hours |-> Of(f, h)]) = (CHOOSE f : f = [h \in Hours |-> After(f, h)])
    BY <2>3
  <2>. QED  BY <2>1, <2>4
<1>7. PICK f : f = [h \in Hours |-> After(f, h)]
  <2>. HIDE DEF After
  <2>. QED  BY <1>4 DEF Hours
<1>8. Meter(R) = [h \in Hours |-> After(Meter(R), h)]
  <2>. HIDE DEF After
  <2>. QED  BY <1>6, <1>7
<1>9. \A h \in Hours : Meter(R)[h] = After(Meter(R), h)
  <2> DEFINE m == Meter(R)
  <2>1. m = [h \in Hours |-> After(m, h)]
    BY <1>8
  <2>. HIDE DEF m, After
  <2>2. \A h \in Hours : m[h] = After(m, h)
    BY <2>1
  <2>. QED  BY <2>2 DEF m
<1>. QED  BY <1>9

LEMMA CountedTyped ==
    ASSUME NEW R \in SUBSET Reading, NEW h \in Int
    PROVE  CountedIn(R, h) \in Nat
<1>1. Bucket(R, h) \in SUBSET Reading /\ UpTo(R, h - 1) \in SUBSET Reading
  BY DEF Bucket, UpTo
<1>2. Bucket(R, h) # {} => Latest(Bucket(R, h)).value \in Nat
  BY <1>1, LatestIs, ReadingTyped
<1>3. UpTo(R, h - 1) # {} => {Latest(UpTo(R, h - 1))} \in SUBSET Reading
  BY <1>1, LatestIs
<1>. QED  BY <1>2, <1>3, DeltaTyped DEF CountedIn

\* A meter never counts down.
LEMMA MeterGrows ==
    ASSUME NEW R \in SUBSET Reading
    PROVE  /\ \A h \in Hours : Meter(R)[h] \in Nat
           /\ \A a, b \in Hours : a <= b => Meter(R)[a] <= Meter(R)[b]
<1> DEFINE m == Meter(R)
           n == Hour(MaxTick)
<1>1. \A h \in Hours : m[h] = (IF h = 0 THEN 0 ELSE m[h - 1]) + CountedIn(R, h)
  BY MeterMeans
<1>2. n \in Nat /\ n \in Int /\ Hours = 0..n /\ \A h \in Hours : CountedIn(R, h) \in Nat
  BY HoursAreInts, CountedTyped DEF Hours
<1>. HIDE DEF m, n
<1>3. \A h \in 0..n : m[h] \in Nat
  <2> DEFINE S == {h \in Int : m[h] \in Nat}
  <2>1. 0 \in S
    <3>1. 0 \in Hours
      BY <1>2
    <3>2. m[0] = 0 + CountedIn(R, 0) /\ CountedIn(R, 0) \in Nat
      BY <1>1, <1>2, <3>1
    <3>. QED  BY <3>2
  <2>2. ASSUME NEW h \in (0 + 1)..n, h - 1 \in S PROVE h \in S
    <3>1. h \in Hours /\ h # 0
      BY <1>2
    <3>2. m[h] = m[h - 1] + CountedIn(R, h) /\ CountedIn(R, h) \in Nat
      BY <1>1, <1>2, <3>1
    <3>. QED  BY <2>2, <3>2
  <2>3. \A h \in 0..n : h \in S
    <3>1. 0 \in Int /\ n \in Int
      BY <1>2
    <3>. HIDE DEF S
    <3>. QED  BY <2>1, <2>2, <3>1, HourByHour
  <2>. QED  BY <2>3
<1>4. ASSUME NEW a \in Hours PROVE \A b \in a..n : m[a] <= m[b]
  <2> DEFINE S == {b \in Int : b <= n => m[b] \in Nat /\ m[a] <= m[b]}
  <2>1. a \in S /\ a \in Int /\ a >= 0
    BY <1>2, <1>3
  <2>2. ASSUME NEW b \in (a + 1)..n, b - 1 \in S PROVE b \in S
    <3>1. b \in Hours /\ b # 0 /\ b \in Int /\ b - 1 \in 0..n /\ b <= n
      BY <1>2, <2>1
    <3>2. m[b] = m[b - 1] + CountedIn(R, b) /\ CountedIn(R, b) \in Nat
      BY <1>1, <1>2, <3>1
    <3>3. m[b - 1] \in Nat /\ m[a] <= m[b - 1] /\ m[a] \in Nat
      BY <1>2, <1>3, <2>2, <3>1
    <3>4. m[b] \in Nat /\ m[a] <= m[b]
      BY <3>2, <3>3
    <3>. QED  BY <3>1, <3>4
  <2>3. \A b \in a..n : b \in S
    <3>. HIDE DEF S
    <3>. QED  BY <1>2, <2>1, <2>2, HourByHour
  <2>. QED  BY <1>2, <2>1, <2>3
<1>. QED  BY <1>2, <1>3, <1>4 DEF m

\* What a meter has counted by an hour depends on the readings up to then alone.
LEMMA MeterLooksBack ==
    ASSUME NEW Q \in SUBSET Reading, NEW R \in SUBSET Reading, NEW n \in Int,
           \A h \in Hours : h < n => Bucket(Q, h) = Bucket(R, h)
    PROVE  \A h \in Hours : h < n => Meter(Q)[h] = Meter(R)[h]
<1> DEFINE q == Meter(Q)
           m == Meter(R)
           last == Hour(MaxTick)
           S == {h \in Int : h < n => q[h] = m[h]}
<1>1. /\ \A h \in Hours : q[h] = (IF h = 0 THEN 0 ELSE q[h - 1]) + CountedIn(Q, h)
      /\ \A h \in Hours : m[h] = (IF h = 0 THEN 0 ELSE m[h - 1]) + CountedIn(R, h)
  BY MeterMeans
<1>2. last \in Int /\ last \in Nat /\ Hours = 0..last
  BY HoursAreInts DEF Hours
<1>3. ASSUME NEW h \in Hours, h < n PROVE CountedIn(Q, h) = CountedIn(R, h)
  <2>1. ASSUME NEW A \in SUBSET Reading, NEW B \in SUBSET Reading,
               \A g \in Hours : g < n => Bucket(A, g) = Bucket(B, g)
        PROVE  UpTo(A, h - 1) \subseteq UpTo(B, h - 1)
    <3>1. SUFFICES ASSUME NEW r \in A, Hour(r.at) <= h - 1 PROVE r \in B
      BY DEF UpTo
    <3>2. Hour(r.at) \in Hours /\ Hour(r.at) \in Int /\ h \in Int
      BY ReadingTyped, HoursAreInts
    <3>3. Hour(r.at) < n
      BY <1>3, <3>1, <3>2
    <3>. QED  BY <2>1, <3>2, <3>3 DEF Bucket
  <2>2. UpTo(Q, h - 1) = UpTo(R, h - 1)
    BY <2>1
  <2>3. Bucket(Q, h) = Bucket(R, h)
    BY <1>3
  <2>. QED  BY <2>2, <2>3 DEF CountedIn
<1>. HIDE DEF q, m, last
<1>4. 0 \in S
  <2>1. 0 \in Hours
    BY <1>2
  <2>. QED  BY <1>1, <1>3, <2>1
<1>5. ASSUME NEW h \in (0 + 1)..last, h - 1 \in S PROVE h \in S
  <2>1. h \in Hours /\ h # 0 /\ h \in Int
    BY <1>2
  <2>2. h < n => q[h - 1] = m[h - 1]
    BY <1>5, <2>1
  <2>3. h < n => q[h] = m[h]
    BY <1>1, <1>3, <2>1, <2>2
  <2>. QED  BY <2>1, <2>3
<1>6. \A h \in 0..last : h \in S
  <2>1. \A h \in (0 + 1)..last : h - 1 \in S => h \in S
    BY <1>5
  <2>. HIDE DEF S
  <2>2. 0 \in Int /\ last \in Int
    BY <1>2
  <2>. QED  BY <1>4, <2>1, <2>2, HourByHour
<1>. QED  BY <1>2, <1>6 DEF q, m

\* The latest reading up to an hour's end is the latest of that hour, if it has any.
LEMMA LatestUpTo ==
    ASSUME NEW R \in SUBSET Reading, \A r, q \in R : r.at = q.at => r = q, NEW h \in Int
    PROVE  /\ Bucket(R, h) # {} => UpTo(R, h) # {} /\ Latest(UpTo(R, h)) = Latest(Bucket(R, h))
           /\ Bucket(R, h) = {} => UpTo(R, h) = UpTo(R, h - 1)
<1>1. \A r \in R : r.at \in Nat /\ Hour(r.at) \in Nat
  BY ReadingTyped
<1>2. ASSUME Bucket(R, h) # {}
      PROVE  UpTo(R, h) # {} /\ Latest(UpTo(R, h)) = Latest(Bucket(R, h))
  <2> DEFINE x == Latest(UpTo(R, h))
             y == Latest(Bucket(R, h))
  <2>1. \A r \in Bucket(R, h) : r \in UpTo(R, h)
    BY <1>1 DEF Bucket, UpTo
  <2>2. UpTo(R, h) # {} /\ UpTo(R, h) \in SUBSET Reading /\ Bucket(R, h) \in SUBSET Reading
    BY <1>2, <2>1 DEF UpTo, Bucket
  <2>3. /\ x \in UpTo(R, h) /\ \A r \in UpTo(R, h) : r.at <= x.at
        /\ y \in Bucket(R, h) /\ \A r \in Bucket(R, h) : r.at <= y.at
    BY <1>2, <2>2, LatestIs
  <2>. HIDE DEF x, y
  <2>4. x \in R /\ y \in R /\ Hour(x.at) <= h /\ Hour(y.at) = h /\ y.at <= x.at
    BY <2>1, <2>3 DEF UpTo, Bucket
  <2>5. Hour(y.at) <= Hour(x.at)
    BY <1>1, <2>4, HoursGrow
  <2>6. Hour(x.at) = h
    BY <1>1, <2>4, <2>5
  <2>7. x.at <= y.at
    BY <2>3, <2>4, <2>6 DEF Bucket
  <2>8. x.at = y.at
    BY <1>1, <2>4, <2>7
  <2>9. x = y
    BY <2>4, <2>8
  <2>. QED  BY <2>2, <2>9 DEF x, y
<1>3. ASSUME Bucket(R, h) = {} PROVE UpTo(R, h) = UpTo(R, h - 1)
  <2>1. \A r \in R : Hour(r.at) # h
    BY <1>3 DEF Bucket
  <2>2. \A r \in R : Hour(r.at) <= h <=> Hour(r.at) <= h - 1
    BY <1>1, <2>1
  <2>. QED  BY <2>2 DEF UpTo
<1>. QED  BY <1>2, <1>3
PastInTime(e) == \A h \in Hours : h < ThisHour => InTime(e, h)

\* The sum of a row is at most what the meter has counted since one of these hours.
SumSince(e, r, hours) ==
    /\ r.hour < ThisHour
    /\ PastInTime(e) =>
          \E b \in hours : b < ThisHour /\ r.sum <= Meter(remote[e])[r.hour] - Meter(remote[e])[b]

SumJob(j) ==
    j.at # "idle" /\ Head(j.todo) \in ListedIn(Counters) =>
        \A r \in j.last : /\ SumSince(Head(j.todo), r, HoursOf(stats[Head(j.todo)]))
                          /\ j.at \in {"serve", "points"} => j.from = r.hour + 1

SumsInv ==
    /\ \A i \in Imports : SumJob(job[i])
    /\ \A k \in DOMAIN queue : queue[k].element \in ListedIn(Counters) =>
          \A r \in queue[k].rows :
              SumSince(queue[k].element, r,
                       HoursOf(stats[queue[k].element]) \cup HoursOf(queue[k].rows))
    /\ \A e \in ListedIn(Counters) : \A r \in stats[e] : SumSince(e, r, HoursOf(stats[e]))

LEMMA CountersAreElements == ListedIn(Counters) \subseteq Elements
BY DEF Elements

LEMMA HoursOfRows == \A rows \in SUBSET Row : HoursOf(rows) \in SUBSET Hours
BY DEF HoursOf, Row

LEMMA SumsStay ==
    ASSUME ImportInv, ImportInv', Forward
    PROVE  \A e \in Elements, r \in Row, hours \in SUBSET Hours, more \in SUBSET Hours :
              SumSince(e, r, hours) /\ hours \subseteq more => SumSince(e, r, more)'
<1>1. SUFFICES ASSUME NEW e \in Elements, NEW r \in Row, NEW hours \in SUBSET Hours,
                      NEW more \in SUBSET Hours, SumSince(e, r, hours), hours \subseteq more
               PROVE  SumSince(e, r, more)'
  OBVIOUS
<1>2. /\ ThisHour \in Nat /\ ThisHour' \in Nat /\ ThisHour <= ThisHour'
      /\ Hours \subseteq Int /\ r.hour \in Hours /\ r.hour < ThisHour
  BY <1>1, ClockTyped, HoursAreInts DEF ImportInv, Forward, SumSince, Row
<1>3. r.hour < ThisHour'
  <2>1. \A a \in Int, t, u \in Nat : a < t /\ t <= u => a < u
    OBVIOUS
  <2>2. r.hour \in Int
    BY <1>2
  <2>. QED  BY <1>2, <2>1, <2>2
<1>4. ASSUME PastInTime(e)'
      PROVE  \E b \in more : /\ b < ThisHour'
                             /\ r.sum <= Meter(remote'[e])[r.hour] - Meter(remote'[e])[b]
  <2>1. \A h \in Hours : h < ThisHour => InTime(e, h)'
    BY <1>2, <1>4 DEF PastInTime
  <2>2. \A h \in Hours : h < ThisHour =>
           InTime(e, h) /\ Bucket(remote'[e], h) = Bucket(remote[e], h)
    <3>1. \A h \in Hours : h < ThisHour =>
             InTime(e, h) /\ Bucket(remote[e], h)' = Bucket(remote[e], h)
      BY <1>2, <2>1 DEF Forward
    <3>. QED  BY <3>1 DEF Bucket
  <2>3. remote[e] \in SUBSET Reading /\ remote'[e] \in SUBSET Reading
    BY DEF ImportInv, TypeOK
  <2>4. ThisHour \in Int
    BY <1>2
  <2>5. \A h \in Hours : h < ThisHour => Meter(remote'[e])[h] = Meter(remote[e])[h]
    BY <2>2, <2>3, <2>4, MeterLooksBack
  <2>6. PastInTime(e)
    BY <2>2 DEF PastInTime
  <2>7. PICK b \in hours : b < ThisHour /\ r.sum <= Meter(remote[e])[r.hour] - Meter(remote[e])[b]
    BY <1>1, <2>6 DEF SumSince
  <2>8. b < ThisHour'
    BY <1>2, <2>7
  <2>9. r.sum <= Meter(remote'[e])[r.hour] - Meter(remote'[e])[b]
    BY <1>2, <2>5, <2>7
  <2>. QED  BY <1>1, <2>7, <2>8, <2>9
<1>. QED  BY <1>3, <1>4 DEF SumSince

\* A step keeps sums in bounds if the jobs, writes and rows it leaves keep to them as things stand.
LEMMA SumStep ==
    ASSUME ImportInv, ImportInv', Forward, SumsInv,
           \A i \in Imports : job'[i] = job[i] \/ SumJob(job'[i]),
           \A k \in DOMAIN queue' : queue'[k].element \in ListedIn(Counters) =>
              \A r \in queue'[k].rows :
                 SumSince(queue'[k].element, r,
                          HoursOf(stats[queue'[k].element]) \cup HoursOf(queue'[k].rows)),
           \A e \in ListedIn(Counters) : \A r \in stats'[e] : SumSince(e, r, HoursOf(stats'[e]))
    PROVE  SumsInv'
<1>1. \A e \in Elements : /\ stats[e] \in SUBSET Row /\ stats'[e] \in SUBSET Row
                          /\ HoursOf(stats[e]) \in SUBSET Hours /\ HoursOf(stats'[e]) \in SUBSET Hours
  BY HoursOfRows DEF ImportInv, TypeOK
<1>2. \A e \in Elements : HoursOf(stats[e]) \subseteq HoursOf(stats'[e])
  <2>1. \A e \in Elements : HoursOf(stats[e]) \subseteq HoursOf(stats[e])'
    BY DEF Forward
  <2>. QED  BY <2>1 DEF HoursOf
<1>3. ASSUME NEW i \in Imports PROVE SumJob(job[i])'
  <2>1. job'[i] \in Job /\ (job'[i].at = "idle" <=> job'[i].todo = <<>>)
    BY DEF ImportInv, TypeOK
  <2>2. SumJob(job'[i])
    BY DEF SumsInv
  <2>3. PICK j \in Job : j = job'[i]
    BY <2>1
  <2>4. ASSUME j.at # "idle", Head(j.todo) \in ListedIn(Counters), NEW r \in j.last
        PROVE  /\ SumSince(Head(j.todo), r, HoursOf(stats[Head(j.todo)]))'
               /\ j.at \in {"serve", "points"} => j.from = r.hour + 1
    <3>1. r \in Row
      BY DEF Job
    <3>2. PICK e \in Elements : e = Head(j.todo)
      BY <2>4, CountersAreElements
    <3>3. SumSince(e, r, HoursOf(stats[e])) /\ (j.at \in {"serve", "points"} => j.from = r.hour + 1)
      BY <2>2, <2>3, <2>4, <3>2 DEF SumJob
    <3>4. PICK old \in SUBSET Hours, new \in SUBSET Hours :
             old = HoursOf(stats[e]) /\ new = HoursOf(stats'[e]) /\ old \subseteq new
      BY <1>1, <1>2
    <3>5. SumSince(e, r, new)'
      BY <3>1, <3>3, <3>4, SumsStay
    <3>6. HoursOf(stats[e])' = new
      BY <3>4 DEF HoursOf
    <3>. QED  BY <3>2, <3>3, <3>5, <3>6
  <2>5. SumJob(j)'
    BY <2>4 DEF SumJob
  <2>. QED  BY <2>3, <2>5
<1>4. ASSUME NEW k \in DOMAIN queue', queue'[k].element \in ListedIn(Counters),
             NEW r \in queue'[k].rows
      PROVE  SumSince(queue[k].element, r,
                      HoursOf(stats[queue[k].element]) \cup HoursOf(queue[k].rows))'
  <2>1. queue'[k] \in Write
    BY DEF ImportInv, TypeOK
  <2>2. PICK e \in Elements, rows \in SUBSET Row, q \in Row :
           e = queue'[k].element /\ rows = queue'[k].rows /\ q = r
    BY <1>4, <2>1 DEF Write
  <2>3. SumSince(e, q, HoursOf(stats[e]) \cup HoursOf(rows))
    BY <1>4, <2>2
  <2>4. PICK old \in SUBSET Hours, new \in SUBSET Hours :
           /\ old = HoursOf(stats[e]) \cup HoursOf(rows)
           /\ new = HoursOf(stats'[e]) \cup HoursOf(rows) /\ old \subseteq new
    <3> DEFINE a == HoursOf(stats[e]) \cup HoursOf(rows)
               b == HoursOf(stats'[e]) \cup HoursOf(rows)
    <3>1. HoursOf(rows) \in SUBSET Hours
      BY HoursOfRows
    <3>2. a \in SUBSET Hours /\ b \in SUBSET Hours /\ a \subseteq b
      BY <1>1, <1>2, <3>1
    <3>. QED  BY <3>2
  <2>5. SumSince(e, q, new)'
    BY <2>3, <2>4, SumsStay
  <2>6. (HoursOf(stats[e]) \cup HoursOf(rows))' = new
    BY <2>4 DEF HoursOf
  <2>. QED  BY <2>2, <2>5, <2>6
<1>5. ASSUME NEW e \in ListedIn(Counters), NEW r \in stats'[e]
      PROVE  SumSince(e, r, HoursOf(stats[e]))'
  <2>1. e \in Elements /\ r \in Row
    BY <1>1, <1>5, CountersAreElements
  <2>2. PICK hours \in SUBSET Hours : hours = HoursOf(stats'[e])
    BY <1>1, <2>1
  <2>3. SumSince(e, r, hours)
    BY <1>5, <2>2
  <2>4. SumSince(e, r, hours)'
    BY <2>1, <2>3, SumsStay
  <2>5. HoursOf(stats[e])' = hours
    BY <2>2 DEF HoursOf
  <2>. QED  BY <2>4, <2>5
<1>. QED  BY <1>3, <1>4, <1>5 DEF SumsInv
\* What a job has counted by the end of an hour: nothing yet, or no more than the meter since
\* an hour that has a row.
CountedBy(e, j, h) ==
    LET a == Accumulated(j)[h] IN
    \/ a.seen = {} /\ a.sum = 0 /\ \A p \in j.points : Hour(p.at) > h
    \/ /\ h \in Hours /\ UpTo(remote[e], h) # {} /\ a.seen = {Latest(UpTo(remote[e], h))}
       /\ \E b \in HoursOf(stats[e]) \cup HoursIn(j.points) :
             b < ThisHour /\ a.sum <= Meter(remote[e])[h] - Meter(remote[e])[b]

LEMMA CountedHourByHour ==
    ASSUME ImportInv, WholeInv, SumsInv, NEW i \in Imports, job[i].at = "points",
           Head(job[i].todo) \in ListedIn(Counters), PastInTime(Head(job[i].todo))
    PROVE  \A h \in job[i].from..(job[i].to - 1) : CountedBy(Head(job[i].todo), job[i], h)
<1> DEFINE j == job[i]
           e == Head(j.todo)
           acc == Accumulated(j)
           R == remote[e]
           m == Meter(R)
           starts == HoursOf(stats[e]) \cup HoursIn(j.points)
           a == j.from - 1
           b == j.to - 1
           S == {h \in Int : CountedBy(e, j, h)}
<1>1. /\ j \in Job /\ JobOK(j) /\ j.from \in Int /\ j.to \in Int /\ e \in Elements
      /\ j.points \in SUBSET Reading /\ j.last \in SUBSET Row
      /\ WholeJob(j) /\ SumJob(j) /\ j.at = "points"
  BY AtWork DEF WholeInv, SumsInv
<1>2. /\ j.from < j.to /\ j.to <= ThisHour /\ HoursComplete(e, j)
      /\ \A p \in j.points : Hour(p.at) \in j.from..(j.to - 1)
      /\ \A r, q \in j.last : r = q
  BY <1>1 DEF JobOK, WindowOK, PointsOK, WholeJob
<1>3. /\ ThisHour \in Nat /\ ThisHour <= Hour(MaxTick) /\ Hour(MaxTick) \in Nat
      /\ Hours = 0..Hour(MaxTick)
  BY ElementsTyped DEF ImportInv, Hours
<1>4. R \in SUBSET Reading /\ stats[e] \in SUBSET Row
  BY <1>1, ElementsTyped DEF ImportInv
<1>5. \A r, q \in R : r.at = q.at => r = q
  BY <1>1 DEF ImportInv, ReadingsOK
<1>6. e \in ListedIn(Counters) /\ PastInTime(e)
  OBVIOUS
<1>7. \A h \in a..b : acc[h] = HourAfter(j, acc, h)
  <2>1. j.from <= j.to
    BY <1>1, <1>2
  <2>. QED  BY <1>1, <2>1, AccumulatedMeans
<1>. HIDE DEF j
<1>. HIDE DEF e
<1>8. a \in Int /\ b \in Int /\ a <= b /\ a + 1 = j.from
  BY <1>1, <1>2
<1>9. \A h \in (a + 1)..b : h \in Int /\ h < ThisHour /\ h <= Hour(MaxTick) /\ h \in j.from..(j.to - 1)
  BY <1>1, <1>2, <1>3
<1>10. starts \in SUBSET Hours
  BY <1>1, <1>4, HoursOfRows, ReadingTyped DEF HoursIn
<1>11. ASSUME NEW h \in (a + 1)..b PROVE Bucket(j.points, h) = Bucket(R, h)
  <2>1. CASE h \in Hours
    <3>1. InTime(e, h)
      BY <1>6, <1>9, <2>1 DEF PastInTime
    <3>. QED  BY <1>2, <1>9, <3>1 DEF HoursComplete
  <2>2. CASE h \notin Hours
    <3>1. Bucket(j.points, h) = {} /\ Bucket(R, h) = {}
      BY <1>1, <1>4, <2>2, ReadingTyped DEF Bucket
    <3>. QED  BY <3>1
  <2>. QED  BY <2>1, <2>2
<1>12. /\ \A h \in Hours : m[h] \in Nat
       /\ \A h \in Hours : m[h] = (IF h = 0 THEN 0 ELSE m[h - 1]) + CountedIn(R, h)
  BY <1>4, MeterGrows, MeterMeans
<1>13. \A h \in Int : CountedBy(e, j, h) <=>
          \/ acc[h].seen = {} /\ acc[h].sum = 0 /\ \A p \in j.points : Hour(p.at) > h
          \/ /\ h \in Hours /\ UpTo(R, h) # {} /\ acc[h].seen = {Latest(UpTo(R, h))}
             /\ \E s \in starts : s < ThisHour /\ acc[h].sum <= m[h] - m[s]
  BY DEF CountedBy
<1>14. a \in S
  <2>1. acc[a] = HourAfter(j, acc, a) /\ a < j.from
    <3>1. a \in a..b
      <4>. HIDE DEF a, b
      <4>. QED  BY <1>8
    <3>2. acc[a] = HourAfter(j, acc, a)
      <4>. HIDE DEF a, b, acc
      <4>. QED  BY <1>7, <3>1
    <3>. QED  BY <1>1, <3>2
  <2>. HIDE DEF acc, R, m, starts, a, b
  <2>2. acc[a] = Before(j)
    BY <2>1 DEF HourAfter
  <2>3. CASE j.last = {}
    <3>1. acc[a].seen = {} /\ acc[a].sum = 0
      BY <2>2, <2>3 DEF Before
    <3>2. \A p \in j.points : Hour(p.at) > a
      <4>1. \A p \in j.points : Hour(p.at) \in Int /\ Hour(p.at) >= j.from
        BY <1>1, <1>2
      <4>. QED  BY <1>8, <4>1
    <3>. QED  BY <1>8, <1>13, <3>1, <3>2
  <2>4. CASE j.last # {}
    <3>1. PICK r \in j.last : j.last = {r}
      BY <1>2, <2>4
    <3>2. /\ r \in Row /\ r.hour \in Hours /\ r.hour \in Int /\ r.hour < ThisHour
          /\ SumSince(e, r, HoursOf(stats[e])) /\ j.from = r.hour + 1 /\ StandsFor(e, r)
      BY <1>1, <1>6, <3>1, HoursAreInts DEF SumJob, WholeJob, Row, SumSince, e
    <3>3. a = r.hour /\ a \in Hours
      BY <1>8, <3>2
    <3>4. Before(j).seen = UNION {q.seen : q \in j.last}
          /\ Before(j).sum = (CHOOSE q \in j.last : TRUE).sum
      BY <2>4 DEF Before
    <3>5. acc[a].seen = r.seen /\ acc[a].sum = r.sum
      <4>1. UNION {q.seen : q \in j.last} = r.seen /\ (CHOOSE q \in j.last : TRUE) = r
        BY <3>1
      <4>. QED  BY <2>2, <3>4, <4>1
    <3>6. Bucket(R, a) # {} /\ r.seen = {Latest(Bucket(R, a))}
      BY <1>6, <3>2, <3>3 DEF StandsFor, PastInTime, R
    <3>7. UpTo(R, a) # {} /\ Latest(UpTo(R, a)) = Latest(Bucket(R, a))
      BY <1>4, <1>5, <1>8, <3>6, LatestUpTo
    <3>8. PICK s \in HoursOf(stats[e]) : s < ThisHour /\ r.sum <= m[a] - m[s]
      BY <1>6, <3>2, <3>3 DEF SumSince, m, R
    <3>9. s \in starts
      BY DEF starts
    <3>. QED  BY <1>8, <1>13, <3>3, <3>5, <3>6, <3>7, <3>8, <3>9
  <2>. QED  BY <2>3, <2>4
<1>15. ASSUME NEW h \in (a + 1)..b, h - 1 \in S PROVE h \in S
  <2>1. acc[h] = HourAfter(j, acc, h)
    <3>1. h \in a..b
      <4>. HIDE DEF a, b
      <4>. QED  BY <1>8
    <3>. HIDE DEF acc, a, b
    <3>. QED  BY <1>7, <3>1
  <2>2. h \in Int /\ h - 1 \in Int /\ ~(h < j.from) /\ h < ThisHour /\ h <= Hour(MaxTick)
    BY <1>1, <1>9
  <2>. HIDE DEF acc, R, m, starts, a, b
  <2>3. \/ acc[h - 1].seen = {} /\ acc[h - 1].sum = 0 /\ \A p \in j.points : Hour(p.at) > h - 1
        \/ /\ h - 1 \in Hours /\ UpTo(R, h - 1) # {} /\ acc[h - 1].seen = {Latest(UpTo(R, h - 1))}
           /\ \E s \in starts : s < ThisHour /\ acc[h - 1].sum <= m[h - 1] - m[s]
    BY <1>13, <1>15, <2>2
  <2>4. Bucket(j.points, h) = Bucket(R, h)
    BY <1>11
  <2>5. h - 1 \in Hours => h \in Hours /\ h # 0
    BY <1>3, <2>2
  <2>6. CASE Bucket(R, h) = {}
    <3>1. acc[h] = acc[h - 1]
      BY <2>1, <2>2, <2>4, <2>6 DEF HourAfter
    <3>2. CASE acc[h - 1].seen = {} /\ acc[h - 1].sum = 0 /\ \A p \in j.points : Hour(p.at) > h - 1
      <4>1. \A p \in j.points : Hour(p.at) # h
        BY <2>4, <2>6 DEF Bucket
      <4>2. \A p \in j.points : Hour(p.at) \in Int
        BY <1>1, <1>2
      <4>3. \A p \in j.points : Hour(p.at) > h
        BY <2>2, <3>2, <4>1, <4>2
      <4>. QED  BY <1>13, <2>2, <3>1, <3>2, <4>3
    <3>3. CASE /\ h - 1 \in Hours /\ UpTo(R, h - 1) # {}
               /\ acc[h - 1].seen = {Latest(UpTo(R, h - 1))}
               /\ \E s \in starts : s < ThisHour /\ acc[h - 1].sum <= m[h - 1] - m[s]
      <4>1. UpTo(R, h) = UpTo(R, h - 1)
        BY <1>4, <1>5, <2>2, <2>6, LatestUpTo
      <4>2. m[h] = m[h - 1] + 0 /\ m[h - 1] \in Nat
        BY <1>12, <2>5, <2>6, <3>3 DEF CountedIn
      <4>3. m[h] = m[h - 1]
        BY <4>2
      <4>. QED  BY <1>13, <2>2, <2>5, <3>1, <3>3, <4>1, <4>3
    <3>. QED  BY <2>3, <3>2, <3>3
  <2>7. CASE Bucket(R, h) # {}
    <3> DEFINE v == Latest(Bucket(R, h)).value
    <3>1. acc[h].seen = {Latest(Bucket(R, h))}
          /\ acc[h].sum = acc[h - 1].sum + Delta(acc[h - 1].seen, v)
      BY <2>1, <2>2, <2>4, <2>7 DEF HourAfter
    <3>2. UpTo(R, h) # {} /\ Latest(UpTo(R, h)) = Latest(Bucket(R, h))
      BY <1>4, <1>5, <2>2, <2>7, LatestUpTo
    <3>. HIDE DEF v
    <3>3. h \in Hours /\ h \in HoursIn(j.points)
      <4>1. PICK p \in j.points : Hour(p.at) = h
        BY <2>4, <2>7 DEF Bucket
      <4>. QED  BY <1>1, <4>1, ReadingTyped DEF HoursIn
    <3>4. m[h] \in Nat
      BY <1>12, <3>3
    <3>5. \E s \in starts : s < ThisHour /\ acc[h].sum <= m[h] - m[s]
      <4>1. CASE acc[h - 1].seen = {} /\ acc[h - 1].sum = 0
        <5>1. acc[h].sum = 0 + 0
          BY <3>1, <4>1 DEF Delta
        <5>2. h \in starts /\ m[h] - m[h] = 0
          BY <3>3, <3>4 DEF starts
        <5>. QED  BY <2>2, <5>1, <5>2
      <4>2. CASE /\ h - 1 \in Hours /\ UpTo(R, h - 1) # {}
                 /\ acc[h - 1].seen = {Latest(UpTo(R, h - 1))}
                 /\ \E s \in starts : s < ThisHour /\ acc[h - 1].sum <= m[h - 1] - m[s]
        <5> DEFINE d == Delta({Latest(UpTo(R, h - 1))}, v)
                   c == acc[h - 1].sum
        <5>1. CountedIn(R, h) = d /\ d \in Nat
          <6>1. CountedIn(R, h) = d
            BY <2>7, <4>2 DEF CountedIn, v
          <6>. QED  BY <1>4, <2>2, <6>1, CountedTyped
        <5>2. m[h] = m[h - 1] + d /\ m[h - 1] \in Nat
          BY <1>12, <2>5, <4>2, <5>1
        <5>3. acc[h].sum = c + d
          BY <3>1, <4>2
        <5>4. PICK s \in starts : s < ThisHour /\ c <= m[h - 1] - m[s]
          BY <4>2
        <5>5. m[s] \in Nat
          BY <1>10, <1>12
        <5>6. c \in Nat
          <6>1. h - 1 \in (j.from - 1)..(j.to - 1)
            BY <1>1, <1>9
          <6>2. acc[h - 1] \in Accumulation
            <7>1. j.from <= j.to
              BY <1>1, <1>2
            <7>. QED  BY <1>1, <1>2, <6>1, <7>1, AccumulatedTyped DEF acc
          <6>. QED  BY <6>2 DEF Accumulation
        <5>. HIDE DEF d, c
        <5>7. c + d <= m[h] - m[s]
          BY <5>1, <5>2, <5>4, <5>5, <5>6
        <5>. QED  BY <5>3, <5>4, <5>7
      <4>. QED  BY <2>3, <4>1, <4>2
    <3>. QED  BY <1>13, <2>2, <3>1, <3>2, <3>3, <3>5
  <2>. QED  BY <2>6, <2>7
<1>16. \A h \in a..b : h \in S
  <2>. HIDE DEF a, b, S
  <2>. QED  BY <1>8, <1>14, <1>15, HourByHour
<1>17. \A h \in j.from..(j.to - 1) : h \in a..b
  BY <1>1
<1>18. \A h \in j.from..(j.to - 1) : CountedBy(e, j, h)
  <2>. HIDE DEF a, b
  <2>. QED  BY <1>16, <1>17
<1>. QED  BY <1>18 DEF e, j
LEMMA MadeRowsCount ==
    ASSUME ImportInv, WholeInv, SumsInv, NEW i \in Imports, job[i].at = "points",
           Head(job[i].todo) \in ListedIn(Counters)
    PROVE  \A r \in NewRows(job[i]) :
              SumSince(Head(job[i].todo), r,
                       HoursOf(stats[Head(job[i].todo)]) \cup HoursOf(NewRows(job[i])))
<1> DEFINE j == job[i]
           e == Head(j.todo)
           hours == {Hour(p.at) : p \in j.points}
           acc == Accumulated(j)
<1>1. /\ JobOK(j) /\ j.from \in Int /\ j.to \in Int /\ ThisHour \in Nat
      /\ j.points \in SUBSET Reading
  BY AtWork, HourTyped DEF ImportInv
<1>2. /\ j.to <= ThisHour
      /\ \A p \in j.points : Hour(p.at) \in j.from..(j.to - 1)
  BY <1>1 DEF JobOK, WindowOK, PointsOK
<1>3. NewRows(j) = {[hour |-> h, seen |-> acc[h].seen, sum |-> acc[h].sum] : h \in hours}
  BY DEF NewRows
<1>4. HoursOf(NewRows(j)) = HoursIn(j.points)
  BY RowsOfPoints
<1>5. ASSUME NEW r \in NewRows(j)
      PROVE  SumSince(e, r, HoursOf(stats[e]) \cup HoursIn(j.points))
  <2>1. PICK p \in j.points : r.hour = Hour(p.at) /\ r.sum = acc[Hour(p.at)].sum
    <3>. HIDE DEF acc
    <3>. QED  BY <1>3
  <2>2. r.hour \in j.from..(j.to - 1)
    BY <1>2, <2>1
  <2>3. r.hour < ThisHour
    BY <1>1, <1>2, <2>2
  <2>4. ASSUME PastInTime(e)
        PROVE  \E b \in HoursOf(stats[e]) \cup HoursIn(j.points) :
                  b < ThisHour /\ r.sum <= Meter(remote[e])[r.hour] - Meter(remote[e])[b]
    <3>1. CountedBy(e, j, r.hour)
      BY <2>2, <2>4, CountedHourByHour
    <3>2. ~(\A q \in j.points : Hour(q.at) > r.hour)
      <4>1. Hour(p.at) \in Nat
        BY <1>1, ReadingTyped
      <4>2. ~(Hour(p.at) > r.hour)
        BY <2>1, <4>1
      <4>. QED  BY <4>2
    <3>. QED  BY <2>1, <3>1, <3>2 DEF CountedBy
  <2>. QED  BY <2>3, <2>4 DEF SumSince
<1>. QED  BY <1>4, <1>5

LEMMA SumOnwards == ASSUME NEW j \in Job PROVE SumJob(Onwards(j)) /\ SumJob(NoJob)
<1>1. SumJob(NoJob)
  BY DEF SumJob, NoJob
<1>2. CASE Len(j.todo) = 1
  BY <1>1, <1>2 DEF Onwards
<1>3. CASE Len(j.todo) # 1
  <2>1. Onwards(j) = [NoJob EXCEPT !.at = "last", !.todo = Tail(j.todo)] /\ NoJob \in Job
    BY <1>3, NoJobOK DEF Onwards
  <2>2. Onwards(j).last = NoJob.last
    BY <2>1 DEF Job
  <2>. QED  BY <2>2 DEF SumJob, NoJob
<1>. QED  BY <1>1, <1>2, <1>3

LEMMA JobsMadeCount ==
    ASSUME ImportInv, SumsInv, NEW i \in Imports,
           Start(i) \/ ReadLast(i) \/ OpenWindow(i) \/ Serve(i) \/ Import(i) \/ Fail(i)
    PROVE  \A n \in Imports : job'[n] = job[n] \/ SumJob(job'[n])
<1> DEFINE q == job[i]
           e == Head(q.todo)
<1>0. job \in [Imports -> Job] /\ SumJob(NoJob) /\ NoJob \in Job
  BY NoJobOK DEF ImportInv, TypeOK, SumJob, NoJob
<1>1. q.at # "idle" => /\ q \in Job /\ q.todo # <<>> /\ e \in Elements
                       /\ q.from \in Int /\ q.to \in Nat /\ SumJob(q) /\ JobOK(q)
  BY AtWork DEF SumsInv
<1>2. SUFFICES \E j : job' = [job EXCEPT ![i] = j] /\ SumJob(j)
  BY <1>0
<1>3. CASE Start(i)
  <2> DEFINE j == [NoJob EXCEPT !.at = "last", !.todo = Measurements \o Counters]
  <2>1. job' = [job EXCEPT ![i] = j]
    BY <1>3 DEF Start
  <2>2. j.last = NoJob.last
    BY <1>0 DEF Job
  <2>. HIDE DEF j
  <2>3. SumJob(j)
    BY <2>2 DEF SumJob, NoJob
  <2>. QED  BY <2>1, <2>3
<1>4. CASE ReadLast(i)
  <2> DEFINE j == [q EXCEPT !.at = "window", !.since = now, !.last = LastRow(e)]
  <2>1. q.at = "last" /\ job' = [job EXCEPT ![i] = j]
    BY <1>0, <1>4 DEF ReadLast
  <2>2. j.at = "window" /\ j.todo = q.todo /\ j.last = LastRow(e)
    BY <1>1, <2>1 DEF Job
  <2>3. e \in ListedIn(Counters) => \A r \in LastRow(e) : SumSince(e, r, HoursOf(stats[e]))
    BY DEF LastRow, SumsInv
  <2>. HIDE DEF j
  <2>4. SumJob(j)
    BY <2>2, <2>3 DEF SumJob
  <2>. QED  BY <2>1, <2>4
<1>5. CASE OpenWindow(i)
  <2> DEFINE from == WindowStart(q.last)
             n == [q EXCEPT !.at = "serve", !.from = from, !.to = WindowEnd]
             j == IF from >= WindowEnd THEN Onwards(q) ELSE n
  <2>1. q.at = "window" /\ job' = [job EXCEPT ![i] = j]
    BY <1>5 DEF OpenWindow
  <2>2. n.at = "serve" /\ n.todo = q.todo /\ n.last = q.last /\ n.from = from
    BY <1>1, <2>1 DEF Job
  <2>3. \A r \in q.last : from = r.hour + 1
    <3>1. TAKE r \in q.last
    <3>2. q.last = {r}
      BY <1>1, <2>1, <3>1 DEF JobOK
    <3>. QED  BY <3>1, <3>2 DEF WindowStart
  <2>. HIDE DEF n, from
  <2>4. SumJob(n)
    BY <1>1, <2>1, <2>2, <2>3 DEF SumJob
  <2>5. SumJob(Onwards(q))
    BY <1>1, <2>1, SumOnwards
  <2>6. SumJob(j)
    BY <2>4, <2>5
  <2>. QED  BY <2>1, <2>6
<1>6. CASE Serve(i)
  <2> DEFINE P == {r \in Served(e, q.from, q.to) : r.at < q.to * TicksPerHour}
             j == [q EXCEPT !.at = "points", !.points = P]
  <2>1. q.at = "serve" /\ job' = [job EXCEPT ![i] = j]
    BY <1>0, <1>6 DEF Serve
  <2>. HIDE DEF P
  <2>2. j.at = "points" /\ j.todo = q.todo /\ j.last = q.last /\ j.from = q.from
    BY <1>1, <2>1 DEF Job
  <2>. HIDE DEF j
  <2>3. SumJob(j)
    BY <1>1, <2>1, <2>2 DEF SumJob
  <2>. QED  BY <2>1, <2>3
<1>7. CASE Import(i)
  <2>1. q.at = "points" /\ job' = [job EXCEPT ![i] = Onwards(q)]
    BY <1>0, <1>7 DEF Import
  <2>2. SumJob(Onwards(q))
    BY <1>1, <2>1, SumOnwards
  <2>. QED  BY <2>1, <2>2
<1>8. CASE Fail(i)
  BY <1>0, <1>8 DEF Fail
<1>. QED  BY <1>3, <1>4, <1>5, <1>6, <1>7, <1>8

LEMMA SumsNext == ASSUME ImportInv, WholeInv, SumsInv, Next PROVE SumsInv'
<1>1. ImportInv' /\ Forward
  BY NextOK
<1>2. /\ \A k \in DOMAIN queue : queue[k].element \in ListedIn(Counters) =>
            \A r \in queue[k].rows :
               SumSince(queue[k].element, r,
                        HoursOf(stats[queue[k].element]) \cup HoursOf(queue[k].rows))
      /\ \A e \in ListedIn(Counters) : \A r \in stats[e] : SumSince(e, r, HoursOf(stats[e]))
      /\ SumJob(NoJob)
  BY DEF SumsInv, SumJob, NoJob
<1>3. CASE job' = job /\ queue' = queue /\ stats' = stats
  BY <1>1, <1>2, <1>3, SumStep
<1>4. CASE Store
  <2> DEFINE e == queue[1].element
             rows == queue[1].rows
  <2>1. /\ 1 \in DOMAIN queue /\ e \in Elements
        /\ HoursOf(stats'[e]) = HoursOf(stats[e]) \cup HoursOf(rows)
        /\ \A r \in stats'[e] : r \in stats[e] \/ r \in rows
        /\ \A f \in Elements \ {e} : stats'[f] = stats[f]
        /\ \A k \in DOMAIN queue' : k + 1 \in DOMAIN queue /\ queue'[k] = queue[k + 1]
    BY <1>4, StoreMeans
  <2>2. \A f \in ListedIn(Counters) : \A r \in stats'[f] : SumSince(f, r, HoursOf(stats'[f]))
    <3>1. TAKE f \in ListedIn(Counters)
    <3>2. CASE f # e
      BY <1>2, <2>1, <3>1, <3>2, CountersAreElements
    <3>3. CASE f = e
      <4>1. ASSUME NEW r \in stats'[e] PROVE SumSince(e, r, HoursOf(stats'[e]))
        <5>1. SumSince(e, r, HoursOf(stats[e])) \/ SumSince(e, r, HoursOf(stats[e]) \cup HoursOf(rows))
          BY <1>2, <2>1, <3>1, <3>3, <4>1
        <5>. QED  BY <2>1, <5>1 DEF SumSince
      <4>. QED  BY <3>3, <4>1
    <3>. QED  BY <3>2, <3>3
  <2>3. \A k \in DOMAIN queue' : queue'[k].element \in ListedIn(Counters) =>
           \A r \in queue'[k].rows :
              SumSince(queue'[k].element, r,
                       HoursOf(stats[queue'[k].element]) \cup HoursOf(queue'[k].rows))
    BY <1>2, <2>1
  <2>4. job' = job
    BY <1>4 DEF Store
  <2>. QED  BY <1>1, <2>2, <2>3, <2>4, SumStep
<1>5. CASE Crash
  <2>1. job' = [i \in Imports |-> NoJob] /\ queue' = <<>> /\ stats' = stats
    BY <1>5 DEF Crash
  <2>2. DOMAIN <<>> = {}
    OBVIOUS
  <2>. QED  BY <1>1, <1>2, <2>1, <2>2, SumStep
<1>6. ASSUME NEW i \in Imports,
             Start(i) \/ ReadLast(i) \/ OpenWindow(i) \/ Serve(i) \/ Import(i) \/ Fail(i)
      PROVE  SumsInv'
  <2>1. \A n \in Imports : job'[n] = job[n] \/ SumJob(job'[n])
    BY <1>6, JobsMadeCount
  <2>2. stats' = stats
    BY <1>6, ImporterIdle DEF Idle
  <2>3. CASE queue' = queue
    BY <1>1, <1>2, <2>1, <2>2, <2>3, SumStep
  <2>4. CASE Import(i) /\ queue' # queue
    <3> DEFINE w == [element |-> Head(job[i].todo), rows |-> NewRows(job[i]),
                   since |-> job[i].since]
    <3>1. queue' = Append(queue, w) /\ job[i].at = "points"
      BY <2>4 DEF Import
    <3>2. w.element \in ListedIn(Counters) =>
             \A r \in w.rows : SumSince(w.element, r, HoursOf(stats[w.element]) \cup HoursOf(w.rows))
      BY <3>1, MadeRowsCount
    <3>. HIDE DEF w
    <3>3. queue \in Seq(Write)
      BY DEF ImportInv, TypeOK
    <3>4. \A k \in DOMAIN queue' : queue'[k] = w \/ (k \in DOMAIN queue /\ queue'[k] = queue[k])
      <4>. HIDE DEF Write
      <4>. QED  BY <3>1, <3>3
    <3>5. \A k \in DOMAIN queue' : queue'[k].element \in ListedIn(Counters) =>
             \A r \in queue'[k].rows :
                SumSince(queue'[k].element, r,
                         HoursOf(stats[queue'[k].element]) \cup HoursOf(queue'[k].rows))
      BY <1>2, <3>2, <3>4
    <3>. QED  BY <1>1, <1>2, <2>1, <2>2, <3>5, SumStep
  <2>5. queue' = queue \/ Import(i)
    BY <1>6 DEF Start, ReadLast, OpenWindow, Serve, Fail
  <2>. QED  BY <2>3, <2>4, <2>5
<1>7. ASSUME NEW e \in Elements, NEW r \in late[e], RecordLate(e, r) PROVE SumsInv'
  BY <1>3, <1>7 DEF RecordLate
<1>8. CASE Tick
  BY <1>3, <1>8 DEF Tick
<1>. QED  BY <1>4, <1>5, <1>6, <1>7, <1>8 DEF Next

LEMMA SumsInvariant == ASSUME MaxTick <= MaxHistoryRows PROVE Spec => []SumsInv
<1>1. Init => SumsInv
  <2>1. DOMAIN <<>> = {}
    OBVIOUS
  <2>2. SumJob(NoJob)
    BY DEF SumJob, NoJob
  <2>3. SUFFICES ASSUME Init PROVE SumsInv
    OBVIOUS
  <2>4. queue = <<>> /\ \A i \in Imports : job[i] = NoJob
    BY <2>3 DEF Init
  <2>5. \A e \in ListedIn(Counters) : stats[e] = {}
    BY <2>3, CountersAreElements DEF Init
  <2>. QED  BY <2>1, <2>2, <2>4, <2>5 DEF SumsInv
<1>2. ImportInv /\ WholeInv /\ SumsInv /\ [Next]_vars => SumsInv'
  <2>1. ASSUME ImportInv, SumsInv, UNCHANGED vars PROVE SumsInv'
    <3>1. ImportInv' /\ Forward
      BY <2>1, StutterOK, IdleForward DEF Idle, vars, ImportInv
    <3>2. job' = job /\ queue' = queue /\ stats' = stats
      BY <2>1 DEF vars
    <3>3. /\ \A k \in DOMAIN queue : queue[k].element \in ListedIn(Counters) =>
                \A r \in queue[k].rows :
                   SumSince(queue[k].element, r,
                            HoursOf(stats[queue[k].element]) \cup HoursOf(queue[k].rows))
          /\ \A e \in ListedIn(Counters) : \A r \in stats[e] : SumSince(e, r, HoursOf(stats[e]))
      BY <2>1 DEF SumsInv
    <3>. QED  BY <2>1, <3>1, <3>2, <3>3, SumStep
  <2>. QED  BY <2>1, SumsNext
<1>. QED  BY ImportInvariant, WholeInvariant, <1>1, <1>2, PTL DEF Spec

\* "Re-imports never double-count", as long as no answer is cut at the row limit: the sum of a
\* counter is at most what its meter has counted since the first hour imported
\* (accumulate_counter, resumed from the row that get_last_statistics returns).
THEOREM NothingIsCountedTwice ==
    ASSUME MaxTick <= MaxHistoryRows
    PROVE  Spec => []NeverDoubleCounts
<1>1. ASSUME ImportInv, SumsInv PROVE NeverDoubleCounts
  <2>1. SUFFICES ASSUME NEW e \in ListedIn(Counters), NEW q \in stats[e],
                        \A h \in Hours : InTime(e, h)
                 PROVE  q.sum <= Meter(remote[e])[q.hour]
                                 - Meter(remote[e])[Min({r.hour : r \in stats[e]})]
    BY DEF NeverDoubleCounts
  <2> DEFINE H == {r.hour : r \in stats[e]}
             m == Meter(remote[e])
  <2>2. /\ stats[e] \in SUBSET Row /\ remote[e] \in SUBSET Reading
        /\ q \in Row /\ q.hour \in Hours /\ q.sum \in Nat
    BY <1>1, <2>1, CountersAreElements, ElementsTyped DEF ImportInv, Row
  <2>3. PICK b \in H : q.sum <= m[q.hour] - m[b]
    BY <1>1, <2>1 DEF SumsInv, SumSince, PastInTime, HoursOf
  <2>4. H \in SUBSET Hours /\ H \in SUBSET Nat /\ H # {}
    BY <2>1, <2>2, HoursAreInts DEF Row
  <2>. HIDE DEF H
  <2>5. Min(H) \in H /\ \A x \in H : Min(H) <= x
    BY <2>4, LeastNumber DEF Min
  <2>6. m[Min(H)] <= m[b] /\ m[Min(H)] \in Nat /\ m[b] \in Nat /\ m[q.hour] \in Nat
    BY <2>2, <2>3, <2>4, <2>5, MeterGrows
  <2>. HIDE DEF m
  <2>7. q.sum <= m[q.hour] - m[Min(H)]
    BY <2>2, <2>3, <2>6
  <2>. QED  BY <2>7 DEF H, m
<1>2. ImportInv /\ SumsInv => NeverDoubleCounts
  BY <1>1
<1>. QED  BY ImportInvariant, SumsInvariant, <1>2, PTL
-----------------------------------------------------------------------------
(* No gaps, when nothing that is under way takes longer than half an hour.  *)

\* Where an import may start that found no row at a time.
Span(t) == (Hour(t) - Lookback)..(Hour(t + MaxDelay) - Lookback)

\* Such an import starts at most an hour from the first hour.
Meets(first, t) == \A f \in Span(t) : first - 1 <= f /\ f <= first + 1

\* Rows that go on from a stored one, or are those of an import that found none.
Linked(w)  == \E f \in Int : /\ Gapless(w.element, HoursOf(w.rows), f)
                             /\ f - 1 \in HoursOf(stats[w.element])
Founded(w) == \E f \in Span(w.since) : Gapless(w.element, HoursOf(w.rows), f)

UnderWay       == {"window", "serve", "points"}
FoundNone(j, e) == j.at \in UnderWay /\ Head(j.todo) = e /\ j.last = {}

\* What a job goes by at each await.
GapJob(j) ==
    LET stored == HoursOf(stats[Head(j.todo)]) IN
    /\ j.at = "window" => \A r \in j.last : r.hour \in stored
    /\ j.at \in {"serve", "points"} => IF j.last = {} THEN j.from \in Span(j.since)
                                                      ELSE j.from - 1 \in stored
    /\ j.at = "points" => Gapless(Head(j.todo), HoursIn(j.points), j.from)

\* The stored rows start with this hour, and what is not linked to them meets it.
StartsWith(e, first) ==
    /\ Gapless(e, HoursOf(stats[e]), first)
    /\ \A i \in Imports : FoundNone(job[i], e) => Meets(first, job[i].since)
    /\ \A k \in DOMAIN queue :
          queue[k].element = e /\ ~Linked(queue[k]) => Meets(first, queue[k].since)

\* Nothing is under way for longer than MaxDelay.
Timely == \A t \in Due : t <= now /\ now <= t + MaxDelay

GapsInv ==
    /\ Timely
    /\ \A i \in Imports : GapJob(job[i])
    /\ \A k \in DOMAIN queue : queue[k].rows # {} /\ (Linked(queue[k]) \/ Founded(queue[k]))
    /\ \A e \in Elements : stats[e] # {} => \E first \in Int : StartsWith(e, first)

\* Two imports that found no row start at most an hour apart.
LEMMA SpansMeet ==
    ASSUME NEW t \in Nat, NEW u \in Nat, t <= u + MaxDelay, u <= t + MaxDelay,
           2 * MaxDelay <= TicksPerHour, NEW f \in Span(t)
    PROVE  Meets(f, u)
<1>1. MaxDelay \in Nat /\ TicksPerHour \in Nat \ {0} /\ Lookback \in Nat
  BY StatisticsImportAssumption
<1>2. ASSUME NEW x \in Nat, NEW y \in Nat, x <= y + MaxDelay, y <= x + MaxDelay
      PROVE  Hour(x + MaxDelay) <= Hour(y) + 1 /\ Hour(x + MaxDelay) \in Nat /\ Hour(y) \in Nat
  <2> DEFINE lapse == x + MaxDelay
             h == Hour(lapse)
  <2>1. lapse \in Nat /\ lapse <= y + TicksPerHour
    BY <1>1, <1>2
  <2>. HIDE DEF lapse
  <2>2. h \in Nat /\ (h * TicksPerHour <= lapse <=> h <= h)
    BY <2>1, HourMeans
  <2>3. Hour(y) \in Nat /\ ((h - 1) * TicksPerHour <= y <=> h - 1 <= Hour(y))
    BY <2>2, HourMeans
  <2>. HIDE DEF h
  <2>4. h * TicksPerHour <= y + TicksPerHour
    BY <1>1, <2>1, <2>2
  <2>5. (h - 1) * TicksPerHour = h * TicksPerHour - TicksPerHour
    BY <1>1, <2>2
  <2>6. (h - 1) * TicksPerHour <= y
    BY <1>1, <2>2, <2>4, <2>5
  <2>7. h <= Hour(y) + 1
    BY <2>2, <2>3, <2>6
  <2>. QED  BY <2>2, <2>3, <2>7 DEF h, lapse
<1>3. /\ Hour(t + MaxDelay) <= Hour(u) + 1 /\ Hour(t + MaxDelay) \in Nat /\ Hour(u) \in Nat
      /\ Hour(u + MaxDelay) <= Hour(t) + 1 /\ Hour(u + MaxDelay) \in Nat /\ Hour(t) \in Nat
  BY <1>2
<1>4. f \in Int /\ Hour(t) - Lookback <= f /\ f <= Hour(t + MaxDelay) - Lookback
  BY <1>1, <1>3 DEF Span
<1>5. ASSUME NEW g \in Span(u) PROVE f - 1 <= g /\ g <= f + 1
  <2>1. g \in Int /\ Hour(u) - Lookback <= g /\ g <= Hour(u + MaxDelay) - Lookback
    BY <1>1, <1>3 DEF Span
  <2>. QED  BY <1>1, <1>3, <1>4, <2>1
<1>. QED  BY <1>5 DEF Meets

\* Hours that go on from one of the others leave no gap to them.
LEMMA GaplessLinked ==
    ASSUME TypeOK, NEW e \in Elements, NEW A \in SUBSET Hours, NEW B \in SUBSET Hours,
           NEW a \in Int, NEW b \in Int, Gapless(e, A, a), Gapless(e, B, b), b - 1 \in A
    PROVE  Gapless(e, A \cup B, a)
<1>1. ThisHour \in Int /\ Hours \subseteq Int
  BY HourTyped, HoursAreInts
<1>2. a <= b - 1 /\ \A h \in Hours : a <= h /\ h < b - 1 /\ Owed(e, h) => h \in A
  BY DEF Gapless
<1>3. ASSUME NEW n \in B
      PROVE  /\ a <= n /\ n < ThisHour
             /\ \A h \in Hours : a <= h /\ h < n /\ Owed(e, h) => h \in A \cup B
  <2>1. n \in Int /\ b <= n /\ n < ThisHour /\ \A h \in Hours : b <= h /\ h < n /\ Owed(e, h) => h \in B
    BY <1>1, <1>3 DEF Gapless
  <2>2. \A h \in Hours : h < b - 1 \/ h = b - 1 \/ b <= h
    BY <1>1
  <2>3. \A h \in Hours : a <= h /\ h < n /\ Owed(e, h) => h \in A \cup B
    BY <1>2, <2>1, <2>2
  <2>4. a <= n
    BY <1>2, <2>1
  <2>. QED  BY <2>1, <2>3, <2>4
<1>4. \A n \in A : /\ a <= n /\ n < ThisHour
                   /\ \A h \in Hours : a <= h /\ h < n /\ Owed(e, h) => h \in A
  BY DEF Gapless
<1>. QED  BY <1>3, <1>4 DEF Gapless

\* Nor do hours that start an hour later at most.
LEMMA GaplessBeside ==
    ASSUME TypeOK, NEW e \in Elements, NEW A \in SUBSET Hours, NEW B \in SUBSET Hours, A # {},
           NEW a \in Int, NEW b \in Int, Gapless(e, A, a), Gapless(e, B, b), a <= b, b <= a + 1
    PROVE  Gapless(e, A \cup B, a)
<1>1. ThisHour \in Int /\ Hours \subseteq Int
  BY HourTyped, HoursAreInts
<1>2. Owed(e, a) /\ a \in Hours => a \in A
  <2>1. PICK m \in A : TRUE
    OBVIOUS
  <2>2. a <= m /\ m \in Int /\ (a < m /\ a \in Hours /\ Owed(e, a) => a \in A)
    BY <1>1, <2>1 DEF Gapless
  <2>3. a = m \/ a < m
    BY <2>2
  <2>. QED  BY <2>2, <2>3
<1>3. ASSUME NEW n \in B
      PROVE  /\ a <= n /\ n < ThisHour
             /\ \A h \in Hours : a <= h /\ h < n /\ Owed(e, h) => h \in A \cup B
  <2>1. n \in Int /\ b <= n /\ n < ThisHour /\ \A h \in Hours : b <= h /\ h < n /\ Owed(e, h) => h \in B
    BY <1>1, <1>3 DEF Gapless
  <2>2. \A h \in Hours : a <= h => h = a \/ b <= h
    BY <1>1
  <2>3. \A h \in Hours : a <= h /\ h < n /\ Owed(e, h) => h \in A \cup B
    BY <1>2, <2>1, <2>2
  <2>4. a <= n
    BY <2>1
  <2>. QED  BY <2>1, <2>3, <2>4
<1>4. \A n \in A : /\ a <= n /\ n < ThisHour
                   /\ \A h \in Hours : a <= h /\ h < n /\ Owed(e, h) => h \in A
  BY DEF Gapless
<1>. QED  BY <1>3, <1>4 DEF Gapless

\* What has no gap gets none.
LEMMA GaplessStays ==
    ASSUME TypeOK, TypeOK', Forward
    PROVE  /\ \A e \in Elements, hours \in SUBSET Hours, first \in Int :
                 Gapless(e, hours, first) => Gapless(e, hours, first)'
           /\ \A w \in Write : Linked(w) => Linked(w)'
           /\ \A w \in Write : Founded(w) => Founded(w)'
<1>1. ThisHour \in Nat /\ ThisHour' \in Nat /\ ThisHour <= ThisHour' /\ Hours \subseteq Int
  BY ClockTyped, HoursAreInts DEF Forward
<1>2. ASSUME NEW e \in Elements, NEW hours \in SUBSET Hours, NEW first \in Int,
             Gapless(e, hours, first)
      PROVE  Gapless(e, hours, first)'
  <2>1. SUFFICES ASSUME NEW n \in hours
                 PROVE  /\ first <= n /\ n < ThisHour'
                        /\ \A h \in Hours : first <= h /\ h < n /\ Owed(e, h)' => h \in hours
    BY DEF Gapless, Hours, Hour
  <2>2. /\ first <= n /\ n < ThisHour /\ n \in Int
        /\ \A h \in Hours : first <= h /\ h < n /\ Owed(e, h) => h \in hours
    BY <1>1, <1>2 DEF Gapless
  <2>3. ASSUME NEW h \in Hours, h < n, Owed(e, h)' PROVE Owed(e, h)
    <3>1. h \in Int /\ h < ThisHour
      BY <1>1, <2>2, <2>3
    <3>. QED  BY <2>3, <3>1 DEF Owed, Forward
  <2>. QED  BY <1>1, <2>2, <2>3
<1>3. ASSUME NEW w \in Write
      PROVE  w.element \in Elements /\ HoursOf(w.rows) \in SUBSET Hours /\ w.since \in Nat
  BY DEF Write, Row, HoursOf
<1>4. ASSUME NEW w \in Write, Linked(w) PROVE Linked(w)'
  <2>1. PICK f \in Int : /\ Gapless(w.element, HoursOf(w.rows), f)
                         /\ f - 1 \in HoursOf(stats[w.element])
    BY <1>4 DEF Linked
  <2>2. Gapless(w.element, HoursOf(w.rows), f)'
    BY <1>2, <1>3, <2>1 DEF HoursOf
  <2>3. f - 1 \in HoursOf(stats[w.element])'
    BY <1>3, <2>1 DEF Forward
  <2>. QED  BY <2>2, <2>3 DEF Linked
<1>5. ASSUME NEW w \in Write, Founded(w) PROVE Founded(w)'
  <2>1. PICK f \in Span(w.since) : Gapless(w.element, HoursOf(w.rows), f)
    BY <1>5 DEF Founded
  <2>2. f \in Int
    BY DEF Span
  <2>3. Gapless(w.element, HoursOf(w.rows), f)'
    BY <1>2, <1>3, <2>1, <2>2 DEF HoursOf
  <2>. QED  BY <2>1, <2>3 DEF Founded, Span, Hour
<1>. QED  BY <1>2, <1>4, <1>5

\* What a job goes by stays true.
LEMMA GapJobsStay ==
    ASSUME TypeOK, TypeOK', Forward
    PROVE  \A j \in Job : (j.at # "idle" => j.todo # <<>>) /\ GapJob(j) => GapJob(j)'
<1>1. SUFFICES ASSUME NEW j \in Job, j.at # "idle" => j.todo # <<>>, GapJob(j) PROVE GapJob(j)'
  OBVIOUS
<1> DEFINE e == Head(j.todo)
<1>2. /\ j.todo \in Seq(Elements) /\ j.from \in Int /\ j.points \in SUBSET Reading
  BY DEF Job
<1>3. j.at # "idle" => e \in Elements
  BY <1>1, <1>2
<1>4. HoursIn(j.points) \in SUBSET Hours
  BY <1>2, ReadingTyped DEF HoursIn
<1>. HIDE DEF e
<1>5. j.at # "idle" => HoursOf(stats[e]) \subseteq HoursOf(stats[e])'
  BY <1>3 DEF Forward
<1>6. j.at = "points" => Gapless(e, HoursIn(j.points), j.from)'
  BY <1>1, <1>2, <1>3, <1>4, GaplessStays DEF GapJob, e
<1>7. j.at = "window" => \A r \in j.last : r.hour \in HoursOf(stats[e])'
  BY <1>1, <1>5 DEF GapJob, e
<1>8. j.at \in {"serve", "points"} => IF j.last = {} THEN j.from \in Span(j.since)
                                                    ELSE j.from - 1 \in HoursOf(stats[e])'
  BY <1>1, <1>5 DEF GapJob, e
<1>. QED  BY <1>6, <1>7, <1>8 DEF GapJob, e, HoursIn, Span, Hour

LEMMA DueTyped == TypeOK => Due \in SUBSET Nat
<1>1. SUFFICES ASSUME TypeOK PROVE Due \in SUBSET Nat
  OBVIOUS
<1>2. \A i \in Imports : job[i].since \in Nat
  BY <1>1 DEF TypeOK, Job
<1>3. \A k \in DOMAIN queue : queue[k] \in Write
  <2>1. queue \in Seq(Write)
    BY <1>1 DEF TypeOK
  <2>. HIDE DEF Write
  <2>. QED  BY <2>1
<1>4. \A k \in DOMAIN queue : queue[k].since \in Nat
  BY <1>3 DEF Write
<1>. QED  BY <1>2, <1>4 DEF Due

\* A step that stores nothing: a job and a write are as before, or know what they should.
LEMMA GapsStep ==
    ASSUME ImportInv, ImportInv', Forward, GapsInv, Timely', stats' = stats,
           \A i \in Imports :
              \/ job'[i] = job[i]
              \/ /\ GapJob(job'[i])
                 /\ \A e \in Elements : FoundNone(job'[i], e) /\ stats[e] # {} =>
                                           FoundNone(job[i], e) /\ job'[i].since = job[i].since,
           \A k \in DOMAIN queue' :
              \/ \E n \in DOMAIN queue : queue'[k] = queue[n]
              \/ /\ queue'[k].rows # {} /\ (Linked(queue'[k]) \/ Founded(queue'[k]))
                 /\ \/ Linked(queue'[k])
                    \/ \E i \in Imports : /\ FoundNone(job[i], queue'[k].element)
                                          /\ queue'[k].since = job[i].since
    PROVE  GapsInv'
<1>1. TypeOK /\ TypeOK' /\ job \in [Imports -> Job] /\ job' \in [Imports -> Job]
      /\ queue' \in Seq(Write)
  BY DEF ImportInv, TypeOK
<1>2. ASSUME NEW i \in Imports PROVE GapJob(job[i])'
  <2>1. PICK j \in Job : j = job'[i]
    BY <1>1
  <2>2. GapJob(j) /\ (j.at # "idle" => j.todo # <<>>)
    BY <1>1, <2>1 DEF GapsInv, TypeOK
  <2>3. GapJob(j)'
    BY <1>1, <2>2, GapJobsStay
  <2>. QED  BY <2>1, <2>3
<1>3. ASSUME NEW k \in DOMAIN queue'
      PROVE  queue'[k].rows # {} /\ (Linked(queue[k])' \/ Founded(queue[k])')
  <2>1. PICK w \in Write : w = queue'[k]
    <3>. HIDE DEF Write
    <3>. QED  BY <1>1
  <2>2. w.rows # {} /\ (Linked(w) \/ Founded(w))
    BY <2>1 DEF GapsInv
  <2>3. Linked(w)' \/ Founded(w)'
    BY <1>1, <2>2, GaplessStays
  <2>. QED  BY <2>1, <2>2, <2>3
<1>4. ASSUME NEW e \in Elements, stats'[e] # {} PROVE \E first \in Int : StartsWith(e, first)'
  <2>1. PICK first \in Int : StartsWith(e, first)
    BY <1>4 DEF GapsInv
  <2>2. Gapless(e, HoursOf(stats[e]), first)'
    <3>1. PICK hours \in SUBSET Hours : hours = HoursOf(stats[e])
      <4>1. stats[e] \in SUBSET Row
        BY <1>1 DEF TypeOK
      <4>. QED  BY <4>1, HoursOfRows
    <3>2. Gapless(e, hours, first)'
      BY <1>1, <2>1, <3>1, GaplessStays DEF StartsWith
    <3>3. hours = HoursOf(stats[e])'
      BY <3>1
    <3>. QED  BY <3>2, <3>3
  <2>3. ASSUME NEW i \in Imports, FoundNone(job[i], e)' PROVE Meets(first, job'[i].since)
    <3>1. FoundNone(job'[i], e)
      BY <2>3 DEF FoundNone
    <3>2. FoundNone(job[i], e) /\ job'[i].since = job[i].since
      BY <1>4, <3>1
    <3>. QED  BY <2>1, <3>2 DEF StartsWith
  <2>4. ASSUME NEW k \in DOMAIN queue', queue'[k].element = e, ~Linked(queue[k])'
        PROVE  Meets(first, queue'[k].since)
    <3>1. PICK w \in Write : w = queue'[k]
      <4>. HIDE DEF Write
      <4>. QED  BY <1>1
    <3>2. ~Linked(w)
      <4>1. ~Linked(w)'
        BY <2>4, <3>1
      <4>. QED  BY <1>1, <4>1, GaplessStays
    <3>3. CASE \E n \in DOMAIN queue : queue'[k] = queue[n]
      BY <2>1, <2>4, <3>1, <3>2, <3>3 DEF StartsWith
    <3>4. CASE \E i \in Imports : /\ FoundNone(job[i], queue'[k].element)
                                  /\ queue'[k].since = job[i].since
      BY <2>1, <2>4, <3>4 DEF StartsWith
    <3>. QED  BY <3>1, <3>2, <3>3, <3>4
  <2>. QED  BY <2>2, <2>3, <2>4 DEF StartsWith, Meets, Span, Hour
<1>. QED  BY <1>2, <1>3, <1>4 DEF GapsInv

\* Where there are rows there is a last one.
LEMMA LastRowIs ==
    ASSUME NEW e \in Elements, TypeOK, stats[e] # {}
    PROVE  LastRow(e) # {}
<1> DEFINE n == Hour(MaxTick)
           A == {n - r.hour : r \in stats[e]}
<1>1. n \in Nat /\ \A r \in stats[e] : r.hour \in 0..n
  BY HoursAreInts DEF TypeOK, Row, Hours
<1>. HIDE DEF n
<1>2. A \in SUBSET Nat /\ A # {}
  BY <1>1
<1>3. PICK x \in A : \A y \in A : x <= y
  <2>. HIDE DEF A
  <2>. QED  BY <1>2, LeastNumber
<1>4. PICK r \in stats[e] : x = n - r.hour
  OBVIOUS
<1>5. \A q \in stats[e] : n - r.hour <= n - q.hour
  BY <1>3, <1>4
<1>6. \A q \in stats[e] : q.hour <= r.hour
  BY <1>1, <1>5
<1>. QED  BY <1>6 DEF LastRow

\* A job that goes on knows nothing yet.
LEMMA GapOnwards ==
    ASSUME NEW j \in Job
    PROVE  /\ GapJob(Onwards(j)) /\ Onwards(j).at \notin UnderWay
           /\ GapJob(NoJob) /\ NoJob.at \notin UnderWay
<1>1. GapJob(NoJob) /\ NoJob.at \notin UnderWay
  BY DEF GapJob, NoJob, UnderWay
<1>2. CASE Len(j.todo) = 1
  BY <1>1, <1>2 DEF Onwards
<1>3. CASE Len(j.todo) # 1
  <2>1. Onwards(j) = [NoJob EXCEPT !.at = "last", !.todo = Tail(j.todo)] /\ NoJob \in Job
    BY <1>3, NoJobOK DEF Onwards
  <2>2. Onwards(j).at = "last"
    BY <2>1 DEF Job
  <2>. QED  BY <1>1, <2>2 DEF GapJob, UnderWay
<1>. QED  BY <1>1, <1>2, <1>3

\* The jobs that a step of the importer leaves, and since when they go by what they know.
LEMMA JobsMadeFit ==
    ASSUME ImportInv, GapsInv, NEW i \in Imports,
           Start(i) \/ ReadLast(i) \/ OpenWindow(i) \/ Serve(i) \/ Import(i) \/ Fail(i)
    PROVE  \E j : /\ job' = [job EXCEPT ![i] = j]
                  /\ GapJob(j)
                  /\ \A e \in Elements : FoundNone(j, e) /\ stats[e] # {} =>
                                            FoundNone(job[i], e) /\ j.since = job[i].since
                  /\ j.at \in UnderWay => \/ j.since = now
                                          \/ job[i].at \in UnderWay /\ j.since = job[i].since
<1> DEFINE q == job[i]
           e == Head(q.todo)
<1>0. /\ job \in [Imports -> Job] /\ NoJob \in Job /\ TypeOK /\ GapJob(NoJob)
      /\ NoJob.at \notin UnderWay
  BY NoJobOK, GapOnwards DEF ImportInv, TypeOK
<1>1. q.at # "idle" => /\ q \in Job /\ q.todo # <<>> /\ e \in Elements
                       /\ q.from \in Int /\ q.to \in Nat /\ GapJob(q) /\ JobOK(q)
  BY AtWork DEF GapsInv
<1>2. CASE Start(i)
  <2> DEFINE j == [NoJob EXCEPT !.at = "last", !.todo = Measurements \o Counters]
  <2>1. job' = [job EXCEPT ![i] = j]
    BY <1>2 DEF Start
  <2>2. j.at = "last"
    BY <1>0 DEF Job
  <2>. HIDE DEF j
  <2>. QED  BY <2>1, <2>2 DEF GapJob, FoundNone, UnderWay
<1>3. CASE ReadLast(i)
  <2> DEFINE j == [q EXCEPT !.at = "window", !.since = now, !.last = LastRow(e)]
  <2>1. q.at = "last" /\ job' = [job EXCEPT ![i] = j]
    BY <1>0, <1>3 DEF ReadLast
  <2>2. j.at = "window" /\ j.todo = q.todo /\ j.since = now /\ j.last = LastRow(e)
    BY <1>1, <2>1 DEF Job
  <2>. HIDE DEF j
  <2>3. GapJob(j)
    BY <2>2 DEF GapJob, LastRow, HoursOf
  <2>4. \A f \in Elements : ~(FoundNone(j, f) /\ stats[f] # {})
    BY <1>0, <2>2, LastRowIs DEF FoundNone
  <2>. QED  BY <2>1, <2>2, <2>3, <2>4
<1>4. CASE OpenWindow(i)
  <2> DEFINE from == WindowStart(q.last)
             n == [q EXCEPT !.at = "serve", !.from = from, !.to = WindowEnd]
             j == IF from >= WindowEnd THEN Onwards(q) ELSE n
  <2>1. q.at = "window" /\ job' = [job EXCEPT ![i] = j]
    BY <1>4 DEF OpenWindow
  <2>2. /\ n.at = "serve" /\ n.todo = q.todo /\ n.last = q.last /\ n.from = from
        /\ n.since = q.since
    BY <1>1, <2>1 DEF Job
  <2>3. q.last = {} => from \in Span(q.since)
    <3>1. q.since \in Due /\ q.since \in Nat /\ q.since + MaxDelay \in Nat /\ now \in Nat
      <4>1. q.since \in Nat
        BY <1>1, <2>1 DEF Job
      <4>2. q.since \in Due
        BY <2>1 DEF Due
      <4>3. now \in Nat /\ MaxDelay \in Nat
        BY <1>0, ElementsTyped, StatisticsImportAssumption
      <4>. HIDE DEF q
      <4>. QED  BY <4>1, <4>2, <4>3
    <3>2. q.since <= now /\ now <= q.since + MaxDelay
      BY <3>1 DEF GapsInv, Timely
    <3>3. /\ Hour(q.since) <= ThisHour /\ ThisHour <= Hour(q.since + MaxDelay)
          /\ Hour(q.since) \in Nat /\ ThisHour \in Nat /\ Hour(q.since + MaxDelay) \in Nat
      BY <3>1, <3>2, HoursGrow, HourMeans DEF ThisHour
    <3>4. Lookback \in Nat
      BY StatisticsImportAssumption
    <3>5. ThisHour - Lookback \in Span(q.since)
      BY <3>3, <3>4 DEF Span
    <3>. QED  BY <3>5 DEF WindowStart
  <2>4. q.last # {} => from - 1 \in HoursOf(stats[e])
    <3>1. SUFFICES ASSUME q.last # {} PROVE from - 1 \in HoursOf(stats[e])
      OBVIOUS
    <3>2. PICK r \in q.last : q.last = {r}
      BY <1>1, <2>1, <3>1 DEF JobOK
    <3>3. from = r.hour + 1 /\ r.hour \in HoursOf(stats[e]) /\ r.hour \in Int
      BY <1>1, <2>1, <3>1, <3>2, HoursAreInts DEF WindowStart, GapJob, Job, Row
    <3>. QED  BY <3>3
  <2>. HIDE DEF n, from
  <2>5. GapJob(n)
    BY <2>2, <2>3, <2>4 DEF GapJob
  <2>6. GapJob(Onwards(q)) /\ Onwards(q).at \notin UnderWay
    BY <1>1, <2>1, GapOnwards
  <2>7. CASE j = n
    BY <2>1, <2>2, <2>5, <2>7 DEF FoundNone, UnderWay
  <2>8. CASE j = Onwards(q)
    BY <2>1, <2>6, <2>8 DEF FoundNone
  <2>. QED  BY <2>7, <2>8
<1>5. CASE Serve(i)
  <2> DEFINE P == {r \in Served(e, q.from, q.to) : r.at < q.to * TicksPerHour}
             j == [q EXCEPT !.at = "points", !.points = P]
  <2>1. q.at = "serve" /\ job' = [job EXCEPT ![i] = j]
    BY <1>0, <1>5 DEF Serve
  <2>2. Gapless(e, HoursIn(P), q.from)
    BY <2>1, PointsServed
  <2>. HIDE DEF P
  <2>3. /\ j.at = "points" /\ j.todo = q.todo /\ j.last = q.last /\ j.from = q.from
        /\ j.points = P /\ j.since = q.since
    BY <1>1, <2>1 DEF Job
  <2>. HIDE DEF j
  <2>4. GapJob(j)
    BY <1>1, <2>1, <2>2, <2>3 DEF GapJob
  <2>. QED  BY <2>1, <2>3, <2>4 DEF FoundNone, UnderWay
<1>6. CASE Import(i)
  <2>1. q.at = "points" /\ job' = [job EXCEPT ![i] = Onwards(q)]
    BY <1>0, <1>6 DEF Import
  <2>2. GapJob(Onwards(q)) /\ Onwards(q).at \notin UnderWay
    BY <1>1, <2>1, GapOnwards
  <2>. QED  BY <2>1, <2>2 DEF FoundNone
<1>7. CASE Fail(i)
  BY <1>0, <1>7 DEF Fail, FoundNone
<1>. QED  BY <1>2, <1>3, <1>4, <1>5, <1>6, <1>7

\* The recorder stores rows without a gap to the others.
LEMMA GapsStore ==
    ASSUME ImportInv, ImportInv', Forward, GapsInv, Timely', Store, 2 * MaxDelay <= TicksPerHour
    PROVE  GapsInv'
<1> DEFINE w == queue[1]
           e == w.element
           A == HoursOf(stats[e])
           B == HoursOf(w.rows)
<1>1. TypeOK /\ TypeOK' /\ job' = job /\ job \in [Imports -> Job] /\ queue \in Seq(Write)
      /\ queue' \in Seq(Write)
  BY DEF ImportInv, TypeOK, Store
<1>2. /\ 1 \in DOMAIN queue /\ e \in Elements /\ w.rows \in SUBSET Row
      /\ HoursOf(stats'[e]) = A \cup B
      /\ \A f \in Elements \ {e} : stats'[f] = stats[f]
      /\ \A k \in DOMAIN queue' : k + 1 \in DOMAIN queue /\ queue'[k] = queue[k + 1]
  BY StoreMeans
<1>3. w \in Write /\ w.since \in Nat /\ w.since \in Due
  <2>1. w \in Write
    <3>. HIDE DEF Write
    <3>. QED  BY <1>1, <1>2
  <2>. QED  BY <1>2, <2>1 DEF Write, Due
<1>4. w.rows # {} /\ (Linked(w) \/ Founded(w))
  BY <1>2 DEF GapsInv
<1>. HIDE DEF w, e
<1>5. stats[e] \in SUBSET Row /\ A \in SUBSET Hours /\ B \in SUBSET Hours /\ B # {}
      /\ (stats[e] # {} => A # {}) /\ (stats[e] = {} => A = {})
  <2>1. stats[e] \in SUBSET Row
    BY <1>1, <1>2 DEF TypeOK
  <2>. QED  BY <1>2, <1>4, <2>1, HoursOfRows DEF HoursOf
<1>. HIDE DEF A, B
\* Whatever is under way meets where the rows start, if it met where they started or
\* if they start where an import did that found none.
<1>6. ASSUME NEW t \in Due, NEW f \in Span(w.since) PROVE Meets(f, t)
  <2>1. t \in Nat /\ Due \in SUBSET Nat /\ now \in Nat /\ MaxDelay \in Nat
    BY <1>1, DueTyped, ElementsTyped, StatisticsImportAssumption
  <2>2. t <= now /\ now <= t + MaxDelay /\ w.since <= now /\ now <= w.since + MaxDelay
    BY <1>3 DEF GapsInv, Timely
  <2>3. w.since <= t + MaxDelay /\ t <= w.since + MaxDelay
    BY <1>3, <2>1, <2>2
  <2>. QED  BY <1>3, <2>1, <2>3, SpansMeet
<1>7. \E first \in Int :
         /\ Gapless(e, A \cup B, first)
         /\ \/ first \in Span(w.since)
            \/ stats[e] # {} /\ StartsWith(e, first)
  <2>1. CASE Linked(w)
    <3>1. PICK f \in Int : Gapless(e, B, f) /\ f - 1 \in A
      BY <2>1 DEF Linked, A, B, e
    <3>2. PICK first \in Int : StartsWith(e, first) /\ stats[e] # {}
      BY <1>2, <1>5, <3>1 DEF GapsInv
    <3>3. Gapless(e, A, first)
      BY <3>2 DEF StartsWith, A
    <3>4. Gapless(e, A \cup B, first)
      BY <1>1, <1>2, <1>5, <3>1, <3>3, GaplessLinked
    <3>. QED  BY <3>2, <3>4
  <2>2. CASE ~Linked(w)
    <3>1. PICK f \in Span(w.since) : Gapless(e, B, f)
      BY <1>4, <2>2 DEF Founded, B, e
    <3>2. f \in Int
      BY DEF Span
    <3>3. CASE stats[e] = {}
      BY <1>5, <3>1, <3>2, <3>3
    <3>4. CASE stats[e] # {}
      <4>1. PICK first \in Int : StartsWith(e, first)
        BY <1>2, <3>4 DEF GapsInv
      <4>2. Gapless(e, A, first) /\ Meets(first, w.since)
        BY <1>2, <2>2, <4>1 DEF StartsWith, A, w, e
      <4>3. first - 1 <= f /\ f <= first + 1
        BY <3>1, <4>2 DEF Meets
      <4>4. CASE first <= f
        <5>1. Gapless(e, A \cup B, first)
          BY <1>1, <1>2, <1>5, <3>1, <3>2, <3>4, <4>2, <4>3, <4>4, GaplessBeside
        <5>. QED  BY <3>4, <4>1, <5>1
      <4>5. CASE f < first
        <5>1. f <= first /\ first <= f + 1
          BY <3>2, <4>3, <4>5
        <5>2. Gapless(e, B \cup A, f)
          BY <1>1, <1>2, <1>5, <3>1, <3>2, <4>2, <5>1, GaplessBeside
        <5>3. B \cup A = A \cup B
          OBVIOUS
        <5>. QED  BY <3>1, <3>2, <5>2, <5>3
      <4>. QED  BY <3>2, <4>4, <4>5
    <3>. QED  BY <3>3, <3>4
  <2>. QED  BY <2>1, <2>2
<1>8. ASSUME NEW i \in Imports PROVE GapJob(job[i])'
  <2>1. PICK j \in Job : j = job'[i]
    BY <1>1
  <2>2. GapJob(j) /\ (j.at # "idle" => j.todo # <<>>)
    BY <1>1, <2>1 DEF GapsInv, TypeOK
  <2>3. GapJob(j)'
    BY <1>1, <2>2, GapJobsStay
  <2>. QED  BY <2>1, <2>3
<1>9. ASSUME NEW k \in DOMAIN queue'
      PROVE  queue'[k].rows # {} /\ (Linked(queue[k])' \/ Founded(queue[k])')
  <2>1. PICK x \in Write : x = queue'[k]
    <3>. HIDE DEF Write
    <3>. QED  BY <1>1
  <2>2. x.rows # {} /\ (Linked(x) \/ Founded(x))
    BY <1>2, <2>1 DEF GapsInv
  <2>3. Linked(x)' \/ Founded(x)'
    BY <1>1, <2>2, GaplessStays
  <2>. QED  BY <2>1, <2>2, <2>3
<1>10. ASSUME NEW f \in Elements, NEW first \in Int, Gapless(f, HoursOf(stats'[f]), first),
              \/ f = e /\ first \in Span(w.since)
              \/ StartsWith(f, first)
       PROVE  StartsWith(f, first)'
  <2>1. Gapless(f, HoursOf(stats[f]), first)'
    <3>1. PICK hours \in SUBSET Hours : hours = HoursOf(stats'[f])
      <4>1. stats'[f] \in SUBSET Row
        BY <1>1 DEF TypeOK
      <4>. QED  BY <4>1, HoursOfRows
    <3>2. Gapless(f, hours, first)'
      BY <1>1, <1>10, <3>1, GaplessStays
    <3>3. hours = HoursOf(stats[f])'
      BY <3>1 DEF HoursOf
    <3>. QED  BY <3>2, <3>3
  <2>2. ASSUME NEW i \in Imports, FoundNone(job[i], f)' PROVE Meets(first, job'[i].since)
    <3>1. FoundNone(job[i], f) /\ job'[i].since = job[i].since
      BY <1>1, <2>2 DEF FoundNone
    <3>2. job[i].since \in Due
      BY <3>1 DEF FoundNone, UnderWay, Due
    <3>. QED  BY <1>6, <1>10, <3>1, <3>2 DEF StartsWith
  <2>3. ASSUME NEW k \in DOMAIN queue', queue'[k].element = f, ~Linked(queue[k])'
        PROVE  Meets(first, queue'[k].since)
    <3>1. PICK x \in Write : x = queue'[k]
      <4>. HIDE DEF Write
      <4>. QED  BY <1>1
    <3>2. ~Linked(x)
      <4>1. ~Linked(x)'
        BY <2>3, <3>1
      <4>. QED  BY <1>1, <4>1, GaplessStays
    <3>3. k + 1 \in DOMAIN queue /\ queue[k + 1] = x
      BY <1>2, <3>1
    <3>4. x.since \in Due
      BY <3>3 DEF Due
    <3>. QED  BY <1>6, <1>10, <2>3, <3>1, <3>2, <3>3, <3>4 DEF StartsWith
  <2>. QED  BY <2>1, <2>2, <2>3 DEF StartsWith, Meets, Span, Hour
<1>11. ASSUME NEW f \in Elements, stats'[f] # {} PROVE \E first \in Int : StartsWith(f, first)'
  <2>1. CASE f = e
    <3>1. PICK first \in Int : /\ Gapless(e, A \cup B, first)
                               /\ first \in Span(w.since) \/ StartsWith(e, first)
      BY <1>7
    <3>. QED  BY <1>2, <1>10, <2>1, <3>1
  <2>2. CASE f # e
    <3>1. stats'[f] = stats[f]
      BY <1>2, <2>2
    <3>2. PICK first \in Int : StartsWith(f, first)
      BY <1>11, <3>1 DEF GapsInv
    <3>. QED  BY <1>10, <3>1, <3>2 DEF StartsWith
  <2>. QED  BY <2>1, <2>2
<1>. QED  BY <1>8, <1>9, <1>11 DEF GapsInv

LEMMA GapsNext ==
    ASSUME ImportInv, GapsInv, Next, 2 * MaxDelay <= TicksPerHour
    PROVE  GapsInv'
<1>1. ImportInv' /\ Forward
  BY NextOK
<1>2. Due \in SUBSET Nat /\ now \in Nat /\ MaxDelay \in Nat /\ TypeOK /\ Timely
      /\ job \in [Imports -> Job] /\ queue \in Seq(Write)
  BY DueTyped, ElementsTyped, StatisticsImportAssumption DEF ImportInv, GapsInv, TypeOK
<1>3. ASSUME \A t \in Due' : t \in Due \/ t = now, now' = now PROVE Timely'
  <2>1. \A t \in Due \cup {now} : t <= now /\ now <= t + MaxDelay
    BY <1>2 DEF Timely
  <2>2. \A t \in Due' : t <= now /\ now <= t + MaxDelay
    BY <1>3, <2>1
  <2>. QED  BY <1>3, <2>2 DEF Timely
<1>4. CASE job' = job /\ queue' = queue /\ stats' = stats /\ Timely'
  BY <1>1, <1>4, GapsStep
<1>5. CASE Tick
  <2>1. now' = now + 1 /\ \A t \in Due : now < t + MaxDelay
    BY <1>5 DEF Tick
  <2>2. job' = job /\ queue' = queue /\ stats' = stats /\ Due' = Due
    BY <1>5 DEF Tick, Due
  <2>3. Timely'
    BY <1>2, <2>1, <2>2 DEF Timely
  <2>. QED  BY <1>4, <2>2, <2>3
<1>6. CASE Store
  <2>1. \A k \in DOMAIN queue' : k + 1 \in DOMAIN queue /\ queue'[k] = queue[k + 1]
    BY <1>6, StoreMeans
  <2>2. job' = job /\ now' = now
    BY <1>6 DEF Store
  <2>3. \A t \in Due' : t \in Due
    BY <2>1, <2>2 DEF Due
  <2>4. Timely'
    BY <1>3, <2>2, <2>3
  <2>. QED  BY <1>1, <1>6, <2>4, GapsStore
<1>7. CASE Crash
  <2>1. job' = [i \in Imports |-> NoJob] /\ queue' = <<>> /\ stats' = stats /\ now' = now
    BY <1>7 DEF Crash
  <2>2. DOMAIN <<>> = {}
    OBVIOUS
  <2>3. GapJob(NoJob) /\ NoJob.at \notin UnderWay /\ NoJob.at = "idle"
    BY NoJobOK, GapOnwards
  <2>4. \A i \in Imports : job'[i].at = "idle"
    BY <2>1, <2>3
  <2>5. \A t \in Due' : FALSE
    BY <2>1, <2>2, <2>4 DEF Due
  <2>6. Timely'
    BY <2>5 DEF Timely
  <2>7. \A i \in Imports : /\ GapJob(job'[i])
                           /\ \A e \in Elements : ~FoundNone(job'[i], e)
    BY <2>1, <2>3 DEF FoundNone
  <2>. QED  BY <1>1, <2>1, <2>2, <2>6, <2>7, GapsStep
<1>8. ASSUME NEW e \in Elements, NEW r \in late[e], RecordLate(e, r) PROVE GapsInv'
  <2>1. job' = job /\ queue' = queue /\ stats' = stats /\ now' = now
    BY <1>8 DEF RecordLate
  <2>2. Due' = Due
    BY <2>1 DEF Due
  <2>. QED  BY <1>3, <1>4, <2>1, <2>2
<1>9. ASSUME NEW i \in Imports,
             Start(i) \/ ReadLast(i) \/ OpenWindow(i) \/ Serve(i) \/ Import(i) \/ Fail(i)
      PROVE  GapsInv'
  <2> DEFINE q == job[i]
             w == [element |-> Head(q.todo), rows |-> NewRows(q), since |-> q.since]
  <2>1. PICK j : /\ job' = [job EXCEPT ![i] = j]
                 /\ GapJob(j)
                 /\ \A e \in Elements : FoundNone(j, e) /\ stats[e] # {} =>
                                           FoundNone(q, e) /\ j.since = q.since
                 /\ j.at \in UnderWay => \/ j.since = now
                                         \/ q.at \in UnderWay /\ j.since = q.since
    BY <1>9, JobsMadeFit
  <2>2. stats' = stats /\ now' = now
    BY <1>9, ImporterIdle DEF Idle
  <2>3. /\ \A n \in Imports : n # i => job'[n] = job[n]
        /\ job'[i] = j
    BY <1>2, <2>1
  <2>4. \A n \in Imports : job'[n].at \in UnderWay => job'[n].since = now \/ job'[n].since \in Due
    BY <2>1, <2>3 DEF Due, UnderWay
  <2>5. \A n \in Imports :
           \/ job'[n] = job[n]
           \/ /\ GapJob(job'[n])
              /\ \A e \in Elements : FoundNone(job'[n], e) /\ stats[e] # {} =>
                                        FoundNone(job[n], e) /\ job'[n].since = job[n].since
    BY <2>1, <2>3
  <2>6. CASE queue' = queue
    <3>1. \A t \in Due' : t \in Due \/ t = now
      BY <2>4, <2>6 DEF Due, UnderWay
    <3>2. Timely'
      BY <1>3, <2>2, <3>1
    <3>. QED  BY <1>1, <2>2, <2>5, <2>6, <3>2, GapsStep
  <2>7. CASE Import(i) /\ queue' # queue
    <3>1. queue' = Append(queue, w) /\ q.at = "points" /\ q.points # {}
      BY <2>7 DEF Import
    <3>2. q \in Job /\ Head(q.todo) \in Elements /\ q.points \in SUBSET Reading /\ q.from \in Int
      BY <3>1, AtWork
    <3>3. HoursOf(w.rows) = HoursIn(q.points)
      BY <3>1, RowsOfPoints
    <3>4. w.rows # {}
      BY <3>1, <3>3 DEF HoursOf, HoursIn
    <3>5. GapJob(q) /\ q.since \in Due
      BY <3>1 DEF GapsInv, Due
    <3>6. Gapless(w.element, HoursOf(w.rows), q.from)
      BY <3>1, <3>3, <3>5 DEF GapJob
    <3>7. CASE q.last = {}
      <4>1. q.from \in Span(w.since)
        BY <3>1, <3>5, <3>7 DEF GapJob
      <4>2. Founded(w)
        BY <3>6, <4>1 DEF Founded
      <4>. QED
        <5>1. FoundNone(q, w.element) /\ w.since = q.since
          BY <3>1, <3>7 DEF FoundNone, UnderWay
        <5>. HIDE DEF w
        <5>2. \A k \in DOMAIN queue' : queue'[k] = w \/ (k \in DOMAIN queue /\ queue'[k] = queue[k])
          <6>. HIDE DEF Write
          <6>. QED  BY <1>2, <3>1
        <5>3. \A t \in Due' : t \in Due \/ t = now
          BY <2>4, <3>5, <5>1, <5>2 DEF Due, UnderWay
        <5>4. Timely'
          BY <1>3, <2>2, <5>3
        <5>. QED  BY <1>1, <2>2, <2>5, <3>4, <4>2, <5>1, <5>2, <5>4, GapsStep
    <3>8. CASE q.last # {}
      <4>1. q.from - 1 \in HoursOf(stats[w.element])
        BY <3>1, <3>5, <3>8 DEF GapJob
      <4>2. Linked(w)
        BY <3>2, <3>6, <4>1 DEF Linked
      <4>3. w.since = q.since
        OBVIOUS
      <4>. HIDE DEF w
      <4>4. \A k \in DOMAIN queue' : queue'[k] = w \/ (k \in DOMAIN queue /\ queue'[k] = queue[k])
        <5>. HIDE DEF Write
        <5>. QED  BY <1>2, <3>1
      <4>5. \A t \in Due' : t \in Due \/ t = now
        BY <2>4, <3>5, <4>3, <4>4 DEF Due, UnderWay
      <4>6. Timely'
        BY <1>3, <2>2, <4>5
      <4>. QED  BY <1>1, <2>2, <2>5, <3>4, <4>2, <4>4, <4>6, GapsStep
    <3>. QED  BY <3>7, <3>8
  <2>8. queue' = queue \/ Import(i)
    BY <1>9 DEF Start, ReadLast, OpenWindow, Serve, Fail
  <2>. QED  BY <2>6, <2>7, <2>8
<1>. QED  BY <1>5, <1>6, <1>7, <1>8, <1>9 DEF Next

LEMMA GapsInvariant == ASSUME 2 * MaxDelay <= TicksPerHour PROVE Spec => []GapsInv
<1>1. Init => GapsInv
  <2>1. SUFFICES ASSUME Init PROVE GapsInv
    OBVIOUS
  <2>2. DOMAIN <<>> = {} /\ GapJob(NoJob) /\ NoJob.at = "idle"
    BY NoJobOK, GapOnwards
  <2>3. queue = <<>> /\ \A i \in Imports : job[i] = NoJob
    BY <2>1 DEF Init
  <2>4. Timely
    BY <2>2, <2>3 DEF Timely, Due
  <2>5. \A e \in Elements : stats[e] = {}
    BY <2>1 DEF Init
  <2>. QED  BY <2>2, <2>3, <2>4, <2>5 DEF GapsInv
<1>2. ImportInv /\ GapsInv /\ [Next]_vars => GapsInv'
  <2>1. ASSUME ImportInv, GapsInv, UNCHANGED vars PROVE GapsInv'
    <3>1. ImportInv' /\ Forward
      BY <2>1, StutterOK, IdleForward DEF Idle, vars, ImportInv
    <3>2. job' = job /\ queue' = queue /\ stats' = stats /\ now' = now
      BY <2>1 DEF vars
    <3>3. Timely'
      BY <2>1, <3>2 DEF GapsInv, Timely, Due
    <3>. QED  BY <2>1, <3>1, <3>2, <3>3, GapsStep
  <2>. QED  BY <2>1, GapsNext
<1>. QED  BY ImportInvariant, <1>1, <1>2, PTL DEF Spec

\* Between two stored rows no hour is missing that had readings, however long ago and however
\* long nothing was imported (_resume_window), as long as nothing that is under way takes longer
\* than half an hour: a request is given up after REQUEST_TIMEOUT, and the recorder is taken to
\* get on with its work.  No row limit, lookback or length of the history is presumed.
THEOREM NoHourIsSkipped ==
    ASSUME 2 * MaxDelay <= TicksPerHour
    PROVE  Spec => []NoHourSkipped
<1>1. ASSUME ImportInv, GapsInv PROVE NoHourSkipped
  <2>1. SUFFICES ASSUME NEW e \in Elements, NEW r \in stats[e], NEW q \in stats[e],
                        NEW h \in (r.hour + 1)..(q.hour - 1),
                        Bucket(remote[e], h) # {}, InTime(e, h)
                 PROVE  \E p \in stats[e] : p.hour = h
    BY DEF NoHourSkipped
  <2>2. r.hour \in HoursOf(stats[e]) /\ q.hour \in HoursOf(stats[e])
    BY DEF HoursOf
  <2>3. PICK first \in Int : Gapless(e, HoursOf(stats[e]), first)
    BY <1>1, <2>1 DEF GapsInv, StartsWith
  <2>4. ThisHour \in Int /\ r.hour \in Hours /\ q.hour \in Hours /\ Hour(MaxTick) \in Nat
    BY <1>1, <2>1, ElementsTyped, HourTyped, HoursAreInts DEF ImportInv, Row
  <2>5. first <= r.hour /\ q.hour < ThisHour
    BY <2>2, <2>3 DEF Gapless
  <2>6. r.hour \in 0..Hour(MaxTick) /\ q.hour \in 0..Hour(MaxTick)
    BY <2>4 DEF Hours
  <2>7. h \in 0..Hour(MaxTick) /\ first <= h /\ h < q.hour /\ h < ThisHour
    BY <2>4, <2>5, <2>6
  <2>8. h \in HoursOf(stats[e])
    BY <2>1, <2>2, <2>3, <2>7 DEF Gapless, Owed, Hours
  <2>. QED  BY <2>8 DEF HoursOf
<1>2. ImportInv /\ GapsInv => NoHourSkipped
  BY <1>1
<1>. QED  BY ImportInvariant, GapsInvariant, <1>2, PTL
=============================================================================
