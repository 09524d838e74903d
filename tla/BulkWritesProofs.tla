-------------------------- MODULE BulkWritesProofs --------------------------
(***************************************************************************)
(* Of any number of bulks that run beside each other: the last write       *)
(* stands, the answers tell what the service calls came to, and only what  *)
(* the options grant is changed.                                           *)
(***************************************************************************)
EXTENDS BulkWrites, WellFoundedInduction, TLAPS

-----------------------------------------------------------------------------
(* The inductive invariant.                                                 *)

Going(q) == q.at \in {"calling", "answered"}

NextOf(q) == q.updates[Len(q.results) + 1]

\* A call is made for an update that the bulk q has not answered yet, and only of
\* what its options grant.
Granted(q) ==
    q.at = "calling" =>
        /\ Len(q.results) < Len(q.updates)
        /\ NextOf(q).id \in q.options.allowed \ Fixed /\ q.options.enabled
        /\ NextOf(q).id \in Pressed \/ NextOf(q).value \in Values

\* The calls that q made, c, were for items in order, and as long as it goes on the
\* results say how they ended.
Told(q, c) ==
    /\ \A i, j \in DOMAIN c : i < j => c[i].item < c[j].item
    /\ q.at = "idle" => c = <<>>
    /\ Going(q) => \A i \in DOMAIN c : /\ c[i].item \in DOMAIN q.results
                                       /\ (q.results[c[i].item] = "ok") <=> c[i].ok
    /\ q.at = "answered" => Len(q.results) = Len(q.updates)

\* v is what the last update of e that q has a result for wrote, if it succeeded.
Decided(q, e, v) ==
    \A k \in DOMAIN q.results :
        /\ q.updates[k].id = e
        /\ \A j \in DOMAIN q.results : q.updates[j].id = e => j <= k
        /\ q.results[k] = "ok"
        => q.updates[k].value = v

\* An entity that q has to itself is as q left it, v; while a device acts on a call
\* before the service returns, it is as this call wants it.
Stands(q, e, v) ==
    Going(q) => IF q.acted /\ NextOf(q).id = e THEN v = NextOf(q).value ELSE Decided(q, e, v)

CallsGranted == \A r \in Requests : Granted(req[r])
CallsTold    == \A r \in Requests : Told(req[r], calls[r])
Standing     == \A r \in Requests : \A e \in Entities \ (Pressed \cup disturbed[r]) :
                    Stands(req[r], e, actual[e])

BulksInv == TypeOK /\ CallsGranted /\ CallsTold /\ Standing
-----------------------------------------------------------------------------
(* The loop over the updates.                                               *)

\* Min and Max are what they say, of every set of numbers they are taken of.
LEMMA LeastExists ==
    ASSUME NEW S \in SUBSET Nat, S # {}
    PROVE  \E x \in S : \A y \in S : x <= y
<1> DEFINE R == OpToRel(<, Nat)
<1>1. IsWellFoundedOn(R, Nat)
  BY NatLessThanWellFounded
<1>2. ASSUME NEW x \in Nat, NEW y \in Nat, x < y PROVE <<x, y>> \in R
  BY <1>2 DEF OpToRel
<1>. HIDE DEF R
<1>3. PICK x \in S : \A y \in S : ~(<<y, x>> \in R)
  BY <1>1, WFMin
<1>4. \A y \in S : ~(y < x)
  BY <1>2, <1>3
<1>. QED  BY <1>4

\* The least element of a set of numbers, the update the loop stops at.
LEMMA MinOf ==
    ASSUME NEW S \in SUBSET Nat, S # {}
    PROVE  Min(S) \in S /\ \A y \in S : Min(S) <= y
BY LeastExists DEF Min

\* The greatest element of a set of positions, the last result of an entity.
LEMMA MaxOf ==
    ASSUME NEW n \in Nat, NEW S \in SUBSET (1..n), S # {}
    PROVE  Max(S) \in S /\ \A y \in S : y <= Max(S)
<1> DEFINE T == {n - x : x \in S}
<1>1. \A x \in S : x \in 1..n /\ n - x \in Nat
  OBVIOUS
<1>2. T \in SUBSET Nat /\ T # {}
  BY <1>1
<1>. HIDE DEF T
<1>3. PICK t \in T : \A y \in T : t <= y
  BY <1>2, LeastExists
<1>. USE DEF T
<1>4. PICK x \in S : t = n - x
  BY <1>3
<1>5. ASSUME NEW y \in S PROVE x >= y
  <2>1. n - x <= n - y
    BY <1>3, <1>4
  <2>. QED  BY <1>1, <2>1
<1>. QED  BY <1>4, <1>5 DEF Max

\* Each update is decided one way or the other.
LEMMA VerdictTyped ==
    ASSUME NEW granted, NEW seen, NEW u
    PROVE  Verdict(granted, seen, u) \in ItemAnswers \cup {"refused", "broken", "calling"}
BY DEF Verdict, ItemAnswers

\* write_values has gone on from q to p, with seen the states on the way: the
\* results there were stay, each new one is the verdict on its update, and it has
\* stopped at a call, at the end of the list, or for good.
GoneOn(q, p, seen) ==
    /\ p \in BulkState /\ p.updates = q.updates /\ p.options = q.options
    /\ ~p.acted /\ p.at # "idle" /\ Len(p.results) <= Len(q.updates)
    /\ p.at \in {"calling", "answered"} =>
          /\ Len(q.results) <= Len(p.results)
          /\ \A i \in 1..Len(q.results) : p.results[i] = q.results[i]
          /\ \A i \in (Len(q.results) + 1)..Len(p.results) :
                p.results[i] = Verdict(q.options, seen, q.updates[i])
    /\ p.at = "answered" => Len(p.results) = Len(q.updates)
    /\ p.at = "calling" =>
          /\ Len(p.results) < Len(q.updates)
          /\ Verdict(q.options, seen, q.updates[Len(p.results) + 1]) = "calling"

\* Resume is that, from wherever it starts.
LEMMA ResumeGoesOn ==
    ASSUME BulkWritesAssumption, NEW q \in BulkState, NEW seen,
           Len(q.results) <= Len(q.updates)
    PROVE  GoneOn(q, Resume(q, seen), seen)
<1> DEFINE verdict(k) == Verdict(q.options, seen, q.updates[k])
           m      == Len(q.results)
           l      == Len(q.updates)
           stops  == {k \in (m + 1)..l : verdict(k) \in {"refused", "broken", "calling"}}
           stop   == IF stops = {} THEN l + 1 ELSE Min(stops)
           more   == [i \in 1..(stop - (m + 1)) |-> verdict((m + 1) + i - 1)]
           passed == q.results \o more
           at     == IF stops = {} THEN "answered" ELSE verdict(stop)
           p      == Resume(q, seen)
<1>1. /\ q.updates \in Seq(Update) /\ q.results \in Seq(ItemAnswers)
      /\ m \in Nat /\ l \in Nat /\ m <= l
  <2>1. <<>> \in Seq(Update)
    OBVIOUS
  <2>. QED  BY <2>1, BulkWritesAssumption DEF BulkState
<1>2. /\ stop \in (m + 1)..(l + 1)
      /\ stops = {} => stop = l + 1
      /\ stops # {} => stop \in stops
      /\ \A k \in (m + 1)..(stop - 1) : k \notin stops
  <2>. HIDE DEF verdict, m, l
  <2>1. CASE stops = {}
    BY <1>1, <2>1
  <2>2. CASE stops # {}
    <3>1. stops \in SUBSET Nat /\ stops \in SUBSET ((m + 1)..l)
      BY <1>1
    <3>2. stop \in stops /\ \A y \in stops : stop <= y
      <4>1. Min(stops) \in stops /\ \A y \in stops : Min(stops) <= y
        <5>. HIDE DEF stops
        <5>. QED  BY <2>2, <3>1, MinOf
      <4>. QED  BY <2>2, <4>1
    <3>. HIDE DEF stops, stop
    <3>. QED  BY <1>1, <2>2, <3>1, <3>2
  <2>. QED  BY <2>1, <2>2
<1>3. \A k \in (m + 1)..(stop - 1) : verdict(k) \in ItemAnswers
  <2>1. ASSUME NEW k \in (m + 1)..(stop - 1) PROVE verdict(k) \in ItemAnswers
    <3>1. k \in (m + 1)..l /\ k \notin stops
      <4>. HIDE DEF verdict, m, l, stop, stops
      <4>. QED  BY <1>1, <1>2
    <3>. QED  BY <3>1, VerdictTyped
  <2>. QED  BY <2>1
<1>4. /\ more \in Seq(ItemAnswers) /\ Len(more) = stop - (m + 1)
      /\ \A i \in 1..(stop - (m + 1)) : more[i] = verdict(m + i)
  <2>1. stop - (m + 1) \in Nat
    <3>. HIDE DEF m, l, stop
    <3>. QED  BY <1>1, <1>2
  <2>2. ASSUME NEW i \in 1..(stop - (m + 1))
        PROVE  (m + 1) + i - 1 \in (m + 1)..(stop - 1) /\ (m + 1) + i - 1 = m + i
    <3>. HIDE DEF m, l, stop
    <3>. QED  BY <1>1, <1>2
  <2>3. \A i \in 1..(stop - (m + 1)) : more[i] \in ItemAnswers /\ more[i] = verdict(m + i)
    <3>. HIDE DEF m, l, stop, verdict
    <3>. QED  BY <1>3, <2>2
  <2>. HIDE DEF m, l, stop, verdict
  <2>. QED  BY <2>1, <2>3
<1>5. /\ passed \in Seq(ItemAnswers) /\ Len(passed) = stop - 1
      /\ \A i \in 1..m : passed[i] = q.results[i]
      /\ \A i \in (m + 1)..(stop - 1) : passed[i] = verdict(i)
  <2> DEFINE A == ItemAnswers
             done == q.results
  <2>1. done \in Seq(A) /\ more \in Seq(A) /\ m = Len(done)
    BY <1>1, <1>4
  <2>2. passed = done \o more
    OBVIOUS
  <2>. HIDE DEF A, done, more, m, l, stop, passed, verdict
  <2>3. passed \in Seq(A) /\ Len(passed) = m + Len(more)
    BY <2>1, <2>2
  <2>4. Len(passed) = stop - 1
    BY <1>1, <1>2, <1>4, <2>3
  <2>5. \A i \in 1..m : passed[i] = done[i]
    BY <1>1, <1>4, <2>1, <2>2
  <2>6. \A i \in 1..Len(more) : passed[m + i] = more[i]
    BY <1>1, <1>4, <2>1, <2>2
  <2>7. ASSUME NEW i \in (m + 1)..(stop - 1) PROVE passed[i] = verdict(i)
    <3>1. PICK j \in 1..(stop - (m + 1)) : i = m + j
      <4>1. i - m \in 1..(stop - (m + 1)) /\ i = m + (i - m)
        BY <1>1, <1>2
      <4>. QED  BY <4>1
    <3>2. j \in 1..Len(more)
      BY <1>4, <3>1
    <3>. QED  BY <1>4, <2>6, <3>1, <3>2
  <2>. QED  BY <2>3, <2>4, <2>5, <2>7 DEF A, done
<1>6. /\ at \in {"answered", "refused", "broken", "calling"}
      /\ at = "answered" => stop = l + 1
      /\ at \in {"refused", "broken", "calling"} => stop \in (m + 1)..l /\ verdict(stop) = at
  <2>1. CASE stops = {}
    BY <1>2, <2>1
  <2>2. CASE stops # {}
    BY <1>2, <2>2
  <2>. QED  BY <2>1, <2>2
<1>7. p = [q EXCEPT !.at = at, !.acted = FALSE,
                    !.results = IF at \in {"refused", "broken"} THEN <<>> ELSE passed]
  BY DEF Resume
<1>. HIDE DEF verdict, m, l, stops, stop, more, passed, at, p
<1>8. /\ p.at = at /\ p.acted = FALSE /\ p.updates = q.updates /\ p.options = q.options
      /\ p.results = IF at \in {"refused", "broken"} THEN <<>> ELSE passed
      /\ p \in BulkState
  <2>1. <<>> \in Seq(ItemAnswers)
    OBVIOUS
  <2>. QED  BY <1>5, <1>6, <1>7, <2>1 DEF BulkState
<1>9. Len(p.results) <= l
  BY <1>1, <1>2, <1>5, <1>8
<1>10. CASE at \in {"refused", "broken"}
  BY <1>6, <1>8, <1>9, <1>10 DEF p, l, GoneOn
<1>11. CASE at \in {"answered", "calling"}
  <2>1. Len(p.results) = stop - 1 /\ p.results = passed
    BY <1>5, <1>8, <1>11
  <2>2. Len(p.results) + 1 = stop /\ m <= Len(p.results)
    BY <1>1, <1>2, <2>1
  <2>3. at = "answered" => Len(p.results) = l
    BY <1>1, <1>6, <2>1
  <2>4. at = "calling" => Len(p.results) < l /\ verdict(Len(p.results) + 1) = "calling"
    BY <1>1, <1>6, <2>2
  <2>5. \A i \in (m + 1)..Len(p.results) : p.results[i] = verdict(i)
    BY <1>5, <2>1
  <2>6. \A i \in 1..m : p.results[i] = q.results[i]
    BY <1>5, <2>1
  <2>. QED  BY <1>8, <1>9, <1>11, <2>2, <2>3, <2>4, <2>5, <2>6 DEF p, l, m, verdict, GoneOn
<1>. QED  BY <1>6, <1>10, <1>11 DEF p

\* A call is made of what the options grant, "ok" without one is an echo.
LEMMA VerdictMeans ==
    ASSUME BulkWritesAssumption, NEW granted, NEW seen, NEW u \in Update
    PROVE  /\ Verdict(granted, seen, u) = "calling" =>
                 /\ u.id \in granted.allowed \ Fixed /\ granted.enabled
                 /\ u.id \in Pressed \/ u.value \in Values
           /\ Verdict(granted, seen, u) = "ok" => u.value = seen[u.id]
<1>1. u.value \in Values \cup {Unusable, Breaking, Missing}
  BY DEF Update
<1>2. u.id \in Pressed => u.id \notin Fixed
  BY BulkWritesAssumption
<1>. QED  BY <1>1, <1>2 DEF Verdict

\* The record of a bulk that waits in a call, with the answer of the item added.
LEMMA ItemAnswered ==
    ASSUME BulkWritesAssumption, NEW q \in BulkState, Len(q.results) < Len(q.updates),
           NEW answer \in {"ok", "failed"}
    PROVE  LET p == [q EXCEPT !.results = Append(@, answer)] m == Len(q.results) IN
           /\ p \in BulkState /\ p.updates = q.updates /\ p.options = q.options
           /\ m \in Nat /\ Len(p.results) = m + 1 /\ Len(p.results) <= Len(p.updates)
           /\ \A i \in 1..m : p.results[i] = q.results[i]
           /\ p.results[m + 1] = answer
<1> DEFINE s == q.results
           t == Append(s, answer)
           p == [q EXCEPT !.results = t]
<1>1. s \in Seq(ItemAnswers) /\ answer \in ItemAnswers
  BY DEF BulkState, ItemAnswers
<1>2. Len(q.updates) \in Nat
  <2>1. q.updates \in Seq(Update)
    <3>1. <<>> \in Seq(Update)
      OBVIOUS
    <3>. QED  BY <3>1, BulkWritesAssumption DEF BulkState
  <2>. QED  BY <2>1
<1>3. /\ t \in Seq(ItemAnswers) /\ Len(s) \in Nat /\ Len(t) = Len(s) + 1
      /\ \A i \in 1..Len(s) : t[i] = s[i]
      /\ t[Len(s) + 1] = answer
  <2>. HIDE DEF s
  <2>. QED  BY <1>1
<1>. HIDE DEF t
<1>4. p \in BulkState /\ p.updates = q.updates /\ p.options = q.options /\ p.results = t
  BY <1>3 DEF BulkState
<1>5. Len(t) <= Len(q.updates)
  BY <1>2, <1>3
<1>. QED  BY <1>3, <1>4, <1>5 DEF t

-----------------------------------------------------------------------------
(* The loop keeps what it found.                                            *)

\* When q goes on with the states seen, it makes calls only of what is granted.
LEMMA GrantedOn ==
    ASSUME BulkWritesAssumption, NEW q \in BulkState, NEW seen, NEW p, GoneOn(q, p, seen)
    PROVE  Granted(p)
<1>. SUFFICES ASSUME p.at = "calling" PROVE Granted(p)
  BY DEF Granted
<1>1. /\ p.updates \in Seq(Update) /\ Len(p.updates) \in Nat
      /\ Len(p.results) \in Nat /\ Len(p.results) < Len(p.updates)
      /\ p.updates = q.updates /\ p.options = q.options
      /\ Verdict(p.options, seen, p.updates[Len(p.results) + 1]) = "calling"
  <2>1. <<>> \in Seq(Update)
    OBVIOUS
  <2>. QED  BY <2>1, BulkWritesAssumption DEF GoneOn, BulkState
<1>2. NextOf(p) \in Update
  BY <1>1 DEF NextOf
<1>. QED  BY <1>1, <1>2, VerdictMeans DEF Granted, NextOf

\* Its new results are echoes of the state there is, or no successes.
LEMMA DecidedOn ==
    ASSUME BulkWritesAssumption, NEW q \in BulkState, NEW seen, NEW p, GoneOn(q, p, seen),
           NEW e \in Entities, Decided(q, e, seen[e]), Going(p)
    PROVE  Decided(p, e, seen[e])
<1> DEFINE m == Len(q.results)
           n == Len(p.results)
<1>1. /\ p.updates \in Seq(Update) /\ Len(p.updates) \in Nat /\ p.updates = q.updates
      /\ n \in Nat /\ m \in Nat /\ m <= n /\ n <= Len(p.updates)
      /\ DOMAIN p.results = 1..n /\ DOMAIN q.results = 1..m
      /\ \A i \in 1..m : p.results[i] = q.results[i]
      /\ \A i \in (m + 1)..n : p.results[i] = Verdict(q.options, seen, q.updates[i])
  <2>1. <<>> \in Seq(Update)
    OBVIOUS
  <2>2. p \in BulkState /\ p.updates \in Seq(Update)
    BY <2>1, BulkWritesAssumption DEF GoneOn, BulkState
  <2>. QED  BY <2>2 DEF GoneOn, BulkState, Going
<1>. SUFFICES ASSUME NEW k \in 1..n, p.updates[k].id = e, p.results[k] = "ok",
                     \A j \in 1..n : p.updates[j].id = e => j <= k
              PROVE  p.updates[k].value = seen[e]
  BY <1>1 DEF Decided
<1>. HIDE DEF m, n
<1>2. CASE k <= m
  <2>1. k \in 1..m /\ \A j \in 1..m : j \in 1..n
    BY <1>1, <1>2
  <2>. QED  BY <1>1, <2>1 DEF Decided
<1>3. CASE ~(k <= m)
  <2>1. k \in (m + 1)..n /\ k \in 1..Len(p.updates)
    BY <1>1, <1>3
  <2>2. p.updates[k] \in Update /\ Verdict(q.options, seen, p.updates[k]) = "ok"
    BY <1>1, <2>1
  <2>. QED  BY <2>2, VerdictMeans
<1>. QED  BY <1>2, <1>3

\* What the results told of the calls so far they go on telling.
LEMMA ToldOn ==
    ASSUME BulkWritesAssumption, NEW q \in BulkState, NEW seen, NEW p, GoneOn(q, p, seen),
           NEW c,
           \A i, j \in DOMAIN c : i < j => c[i].item < c[j].item,
           \A i \in DOMAIN c : /\ c[i].item \in DOMAIN q.results
                               /\ (q.results[c[i].item] = "ok") <=> c[i].ok
    PROVE  Told(p, c)
<1>1. p.at # "idle" /\ (p.at = "answered" => Len(p.results) = Len(p.updates))
  BY DEF GoneOn
<1>2. ASSUME Going(p), NEW i \in DOMAIN c
      PROVE  /\ c[i].item \in DOMAIN p.results
             /\ (p.results[c[i].item] = "ok") <=> c[i].ok
  <2> DEFINE m == Len(q.results)
             n == Len(p.results)
  <2>1. /\ n \in Nat /\ m \in Nat /\ m <= n
        /\ DOMAIN p.results = 1..n /\ DOMAIN q.results = 1..m
        /\ \A k \in 1..m : p.results[k] = q.results[k]
    BY <1>2 DEF GoneOn, BulkState, Going
  <2>. HIDE DEF m, n
  <2>2. c[i].item \in 1..m
    BY <1>2, <2>1
  <2>3. c[i].item \in 1..n
    BY <2>1, <2>2
  <2>. QED  BY <2>1, <2>2, <2>3
<1>. QED  BY <1>1, <1>2 DEF Told

-----------------------------------------------------------------------------
(* Each action keeps the invariant.                                         *)

OthersTyped == /\ options \in Options
               /\ actual \in [Entities -> Values]
               /\ reported \in [Entities -> Values \cup {Unavailable}]
               /\ disturbed \in [Requests -> SUBSET Entities]
               /\ outside \in 0..MaxOutside

\* When the bulk of one request moves on, what there is to show is about it; the
\* others see at most entities change that they no longer have to themselves.
LEMMA OneBulkMoves ==
    ASSUME BulkWritesAssumption, BulksInv, NEW r \in Requests, NEW p \in BulkState,
           req' = [req EXCEPT ![r] = p],
           Len(p.results) <= Len(p.updates), p.acted => p.at = "calling",
           Granted(p), NEW c \in Seq([item : Nat, ok : BOOLEAN]),
           calls' = [calls EXCEPT ![r] = c], Told(p, c), OthersTyped',
           \A e \in Entities \ (Pressed \cup disturbed'[r]) : Stands(p, e, actual'[e]),
           \A s \in Requests \ {r} : disturbed[s] \subseteq disturbed'[s],
           \A s \in Requests \ {r} : \A e \in Entities \ disturbed'[s] : actual'[e] = actual[e]
    PROVE  BulksInv'
<1>1. /\ req \in [Requests -> BulkState]
      /\ calls \in [Requests -> Seq([item : Nat, ok : BOOLEAN])]
      /\ \A s \in Requests : /\ Len(req[s].results) <= Len(req[s].updates)
                             /\ req[s].acted => req[s].at = "calling"
  BY DEF BulksInv, TypeOK
<1>2. /\ req' \in [Requests -> BulkState] /\ req'[r] = p
      /\ \A s \in Requests \ {r} : req'[s] = req[s]
  BY <1>1
<1>3. /\ calls' \in [Requests -> Seq([item : Nat, ok : BOOLEAN])] /\ calls'[r] = c
      /\ \A s \in Requests \ {r} : calls'[s] = calls[s]
  <2> DEFINE C == Seq([item : Nat, ok : BOOLEAN])
  <2>1. calls \in [Requests -> C] /\ c \in C
    BY <1>1
  <2>. HIDE DEF C
  <2>2. calls' \in [Requests -> C] /\ calls'[r] = c
        /\ \A s \in Requests \ {r} : calls'[s] = calls[s]
    BY <2>1
  <2>. QED  BY <2>2 DEF C
<1>4. \A s \in Requests : /\ Len(req'[s].results) <= Len(req'[s].updates)
                          /\ req'[s].acted => req'[s].at = "calling"
  BY <1>1, <1>2
<1>5. TypeOK'
  BY <1>2, <1>3, <1>4 DEF TypeOK, OthersTyped
<1>6. \A s \in Requests : Granted(req'[s])
  BY <1>2 DEF BulksInv, CallsGranted
<1>7. \A s \in Requests : Told(req'[s], calls'[s])
  BY <1>2, <1>3 DEF BulksInv, CallsTold
<1>8. ASSUME NEW s \in Requests, NEW e \in Entities \ (Pressed \cup disturbed'[s])
      PROVE  Stands(req'[s], e, actual'[e])
  <2>1. CASE s = r
    BY <1>2, <1>8, <2>1
  <2>2. CASE s # r
    <3>1. e \notin Pressed \cup disturbed[s] /\ actual'[e] = actual[e] /\ req'[s] = req[s]
      BY <1>2, <2>2
    <3>. QED  BY <3>1 DEF BulksInv, Standing
  <2>. QED  BY <2>1, <2>2
<1>9. CallsGranted' /\ CallsTold' /\ Standing'
  BY <1>6, <1>7, <1>8 DEF CallsGranted, CallsTold, Standing
<1>. QED  BY <1>5, <1>9 DEF BulksInv

\* A request arrives: nothing is decided yet.
LEMMA PutInv ==
    ASSUME BulkWritesAssumption, BulksInv, NEW r \in Requests, NEW b \in Bulks, Put(r, b)
    PROVE  BulksInv'
<1> DEFINE q == [Idle EXCEPT !.updates = b, !.options = options]
           p == Resume(q, reported)
           C == Seq([item : Nat, ok : BOOLEAN])
<1>1. /\ q \in BulkState /\ q.results = <<>> /\ q.updates = b
      /\ Len(q.results) <= Len(q.updates)
  <2>1. b \in Seq(Update) /\ Len(b) \in Nat /\ <<>> \in Seq(ItemAnswers) /\ Len(<<>>) = 0
    BY BulkWritesAssumption
  <2>2. options \in Options
    BY DEF BulksInv, TypeOK
  <2>3. Idle \in [at : {"idle"}, updates : {<<>>}, options : {Idle.options},
                  results : {<<>>}, acted : BOOLEAN]
    BY DEF Idle
  <2>4. q \in BulkState
    BY <2>1, <2>2, <2>3 DEF BulkState
  <2>5. q.results = <<>> /\ q.updates = b
    BY <2>3
  <2>. QED  BY <2>1, <2>4, <2>5
<1>. HIDE DEF q, p
<1>2. GoneOn(q, p, reported)
  BY <1>1, ResumeGoesOn DEF p
<1>3. calls[r] = <<>> /\ calls \in [Requests -> C] /\ calls' = calls
  <2>1. req[r].at = "idle" /\ calls' = calls
    BY DEF Put, Idle
  <2>. QED  BY <2>1 DEF BulksInv, CallsTold, Told, TypeOK
<1>4. Told(p, calls[r])
  <2>1. DOMAIN calls[r] = {}
    BY <1>3
  <2>. QED  BY <1>1, <1>2, <2>1, ToldOn
<1>5. Granted(p)
  BY <1>1, <1>2, GrantedOn
<1>6. OthersTyped' /\ \A s \in Requests : disturbed[s] \subseteq disturbed'[s]
      /\ Lagging \subseteq disturbed'[r]
  BY DEF Put, Disturb, BulksInv, TypeOK, OthersTyped, Lagging
<1>7. ASSUME NEW e \in Entities \ (Pressed \cup disturbed'[r])
      PROVE  Stands(p, e, actual'[e])
  <2>. SUFFICES ASSUME Going(p) PROVE Stands(p, e, actual'[e])
    BY DEF Stands
  <2>1. actual'[e] = reported[e]
    BY <1>6 DEF Lagging, Put
  <2>2. Decided(q, e, reported[e])
    BY <1>1 DEF Decided
  <2>3. Decided(p, e, reported[e])
    BY <1>1, <1>2, <2>2, DecidedOn
  <2>. QED  BY <1>2, <2>1, <2>3 DEF Stands, GoneOn
<1>8. req' = [req EXCEPT ![r] = p] /\ actual' = actual
  BY DEF Put, p, q
<1>9. p \in BulkState /\ Len(p.results) <= Len(p.updates) /\ ~p.acted
  BY <1>2 DEF GoneOn
<1>10. calls[r] \in C /\ calls' = [calls EXCEPT ![r] = calls[r]]
  <2>. HIDE DEF C
  <2>. QED  BY <1>3
<1>. QED  BY <1>4, <1>5, <1>6, <1>7, <1>8, <1>9, <1>10, OneBulkMoves

\* What the bulk wrote stays decided when the answer of the call is added: "ok" only
\* if the device has acted.
LEMMA DecidedByCall ==
    ASSUME BulkWritesAssumption, NEW old \in BulkState, NEW q \in BulkState,
           NEW answer \in {"ok", "failed"}, answer = "ok" => old.acted,
           old.at = "calling", Len(old.results) < Len(old.updates),
           q = [old EXCEPT !.results = Append(@, answer)],
           NEW e, NEW v, Stands(old, e, v)
    PROVE  Decided(q, e, v)
<1> DEFINE m == Len(old.results)
<1>1. /\ q.updates = old.updates /\ m \in Nat
      /\ DOMAIN old.results = 1..m /\ DOMAIN q.results = 1..(m + 1)
      /\ \A i \in 1..m : q.results[i] = old.results[i]
      /\ q.results[m + 1] = answer
  <2>1. old.results \in Seq(ItemAnswers) /\ q.results \in Seq(ItemAnswers)
    BY DEF BulkState
  <2>. QED  BY <2>1, ItemAnswered
<1>2. NextOf(old) = q.updates[m + 1]
  BY <1>1 DEF NextOf
<1>. SUFFICES ASSUME NEW k \in 1..(m + 1), q.updates[k].id = e, q.results[k] = "ok",
                     \A j \in 1..(m + 1) : q.updates[j].id = e => j <= k
              PROVE  q.updates[k].value = v
  BY <1>1 DEF Decided
<1>. HIDE DEF m
<1>3. CASE q.updates[m + 1].id = e
  <2>1. m + 1 \in 1..(m + 1)
    BY <1>1
  <2>2. m + 1 <= k
    BY <1>3, <2>1
  <2>3. k = m + 1
    BY <1>1, <2>2
  <2>4. answer = "ok" /\ old.acted
    BY <1>1, <2>3
  <2>. QED  BY <1>2, <1>3, <2>3, <2>4 DEF Stands, Going
<1>4. CASE q.updates[m + 1].id # e
  <2>1. Decided(old, e, v)
    BY <1>2, <1>4 DEF Stands, Going
  <2>2. k # m + 1
    BY <1>4
  <2>3. k \in 1..m /\ \A j \in 1..m : j \in 1..(m + 1)
    BY <1>1, <2>2
  <2>. QED  BY <1>1, <2>1, <2>3 DEF Decided
<1>. QED  BY <1>3, <1>4

\* The service call of an item is over.
LEMMA GoOnInv ==
    ASSUME BulkWritesAssumption, BulksInv, NEW r \in Requests, req[r].at = "calling",
           NEW answer \in {"ok", "failed"}, answer = "ok" => req[r].acted, GoOn(r, answer)
    PROVE  BulksInv'
<1> DEFINE old == req[r]
           m == Len(old.results)
           q == [old EXCEPT !.results = Append(@, answer)]
           p == Resume(q, reported)
           C == [item : Nat, ok : BOOLEAN]
           call == [item |-> m + 1, ok |-> answer = "ok"]
           c == Append(calls[r], call)
<1>1. old \in BulkState /\ Len(old.results) < Len(old.updates) /\ Told(old, calls[r])
  BY DEF BulksInv, TypeOK, CallsGranted, Granted, CallsTold
<1>2. /\ q \in BulkState /\ q.updates = old.updates /\ q.options = old.options
      /\ m \in Nat /\ Len(q.results) = m + 1 /\ Len(q.results) <= Len(q.updates)
      /\ DOMAIN old.results = 1..m /\ DOMAIN q.results = 1..(m + 1)
      /\ \A i \in 1..m : q.results[i] = old.results[i]
      /\ q.results[m + 1] = answer
  <2>1. old.results \in Seq(ItemAnswers)
    BY <1>1 DEF BulkState
  <2>2. q \in BulkState => q.results \in Seq(ItemAnswers)
    BY DEF BulkState
  <2>3. q \in BulkState
    <3>. HIDE DEF old
    <3>. QED  BY <1>1, ItemAnswered
  <2>4. /\ q.updates = old.updates /\ q.options = old.options
        /\ m \in Nat /\ Len(q.results) = m + 1 /\ Len(q.results) <= Len(q.updates)
        /\ \A i \in 1..m : q.results[i] = old.results[i]
        /\ q.results[m + 1] = answer
    <3>. HIDE DEF old
    <3>. QED  BY <1>1, ItemAnswered
  <2>5. DOMAIN old.results = 1..m /\ DOMAIN q.results = 1..Len(q.results)
    <3>. HIDE DEF old, q
    <3>. QED  BY <2>1, <2>2, <2>3
  <2>. HIDE DEF old, q, m
  <2>. QED  BY <2>3, <2>4, <2>5
<1>3. calls[r] \in Seq(C) /\ calls \in [Requests -> Seq(C)]
  BY DEF BulksInv, TypeOK
<1>4. call \in C /\ call.item = m + 1 /\ call.ok = (answer = "ok")
  BY <1>2
<1>. HIDE DEF C, call, q, p
<1>5. /\ c \in Seq(C) /\ Len(calls[r]) \in Nat /\ DOMAIN calls[r] = 1..Len(calls[r])
      /\ DOMAIN c = 1..(Len(calls[r]) + 1)
      /\ \A i \in 1..Len(calls[r]) : c[i] = calls[r][i]
      /\ c[Len(calls[r]) + 1] = call
  BY <1>3, <1>4
<1> DEFINE l == Len(calls[r])
<1>6. \A i \in 1..l : /\ c[i].item \in 1..m
                      /\ (q.results[c[i].item] = "ok") <=> c[i].ok
  <2>1. \A i \in DOMAIN calls[r] : /\ calls[r][i].item \in DOMAIN old.results
                                   /\ (old.results[calls[r][i].item] = "ok") <=> calls[r][i].ok
    BY <1>1 DEF Told, Going
  <2>2. ASSUME NEW i \in 1..l
        PROVE  /\ c[i].item \in 1..m
               /\ (q.results[c[i].item] = "ok") <=> c[i].ok
    <3>1. i \in DOMAIN calls[r] /\ c[i] = calls[r][i]
      BY <1>5
    <3>2. calls[r][i].item \in 1..m
      BY <1>2, <2>1, <3>1
    <3>3. q.results[calls[r][i].item] = old.results[calls[r][i].item]
      BY <1>2, <3>2
    <3>. HIDE DEF c, m, l
    <3>. QED  BY <2>1, <3>1, <3>2, <3>3
  <2>. QED  BY <2>2
<1>7. \A i, j \in 1..l : i < j => c[i].item < c[j].item
  <2>1. \A i, j \in DOMAIN calls[r] : i < j => calls[r][i].item < calls[r][j].item
    BY <1>1 DEF Told
  <2>. HIDE DEF c
  <2>. QED  BY <1>5, <2>1
<1>8. /\ c[l + 1].item = m + 1
      /\ (q.results[m + 1] = "ok") <=> c[l + 1].ok
  BY <1>2, <1>4, <1>5
<1>9. l \in Nat /\ m \in Nat /\ DOMAIN c = 1..(l + 1)
  BY <1>2, <1>5
<1>10. GoneOn(q, p, reported)
  BY <1>2, ResumeGoesOn DEF p
<1>11. Told(p, c)
  <2>. HIDE DEF c, l, m
  <2>1. \A i, j \in DOMAIN c : i < j => c[i].item < c[j].item
    <3>. SUFFICES ASSUME NEW i \in 1..(l + 1), NEW j \in 1..(l + 1), i < j
                  PROVE  c[i].item < c[j].item
      BY <1>9
    <3>1. i \in 1..l /\ (j \in 1..l \/ j = l + 1)
      BY <1>9
    <3>2. CASE j \in 1..l
      BY <1>7, <3>1, <3>2
    <3>3. CASE j = l + 1
      <4>1. c[i].item \in 1..m /\ c[j].item = m + 1
        BY <1>6, <1>8, <3>1, <3>3
      <4>. QED  BY <1>9, <4>1
    <3>. QED  BY <3>1, <3>2, <3>3
  <2>2. ASSUME NEW i \in DOMAIN c
        PROVE  /\ c[i].item \in DOMAIN q.results
               /\ (q.results[c[i].item] = "ok") <=> c[i].ok
    <3>1. i \in 1..l \/ i = l + 1
      BY <1>9, <2>2
    <3>2. \A n \in 1..m : n \in 1..(m + 1)
      BY <1>9
    <3>3. m + 1 \in 1..(m + 1)
      BY <1>9
    <3>. QED  BY <1>2, <1>6, <1>8, <3>1, <3>2, <3>3 DEF m
  <2>. QED  BY <1>2, <1>10, <2>1, <2>2, ToldOn
<1>12. Granted(p)
  BY <1>2, <1>10, GrantedOn
<1>13. /\ OthersTyped' /\ \A s \in Requests : disturbed[s] \subseteq disturbed'[s]
       /\ Lagging \subseteq disturbed'[r]
  BY DEF GoOn, Disturb, BulksInv, TypeOK, OthersTyped, Lagging
<1>14. ASSUME NEW e \in Entities \ (Pressed \cup disturbed'[r])
       PROVE  Stands(p, e, actual'[e])
  <2>. SUFFICES ASSUME Going(p) PROVE Stands(p, e, actual'[e])
    BY DEF Stands
  <2>1. actual'[e] = reported[e] /\ actual[e] = reported[e]
    BY <1>13 DEF Lagging, GoOn
  <2>2. Stands(old, e, reported[e])
    BY <1>13, <2>1 DEF BulksInv, Standing
  <2>3. Decided(q, e, reported[e])
    <3>. HIDE DEF old
    <3>. USE DEF q
    <3>1. old.at = "calling" /\ (answer = "ok" => old.acted)
      BY DEF old
    <3>. QED  BY <1>1, <1>2, <2>2, <3>1, DecidedByCall
  <2>4. Decided(p, e, reported[e])
    BY <1>2, <1>10, <2>3, DecidedOn
  <2>. QED  BY <1>10, <2>1, <2>4 DEF Stands, GoneOn
<1>15. req' = [req EXCEPT ![r] = p] /\ actual' = actual /\ calls' = [calls EXCEPT ![r] = c]
  <2>1. actual' = actual
    BY DEF GoOn
  <2>2. calls' = [calls EXCEPT ![r] = c]
    BY DEF GoOn, call
  <2>3. req' = [req EXCEPT ![r] = p]
    BY DEF GoOn, p, q
  <2>. QED  BY <2>1, <2>2, <2>3
<1>16. p \in BulkState /\ Len(p.results) <= Len(p.updates) /\ ~p.acted
  BY <1>10 DEF GoneOn
<1>. HIDE DEF c
<1>. QED  BY <1>5, <1>11, <1>12, <1>13, <1>14, <1>15, <1>16, OneBulkMoves DEF C

\* The call raises: the bulk is over, with no results to be wrong.
LEMMA CallRaisesInv ==
    ASSUME BulkWritesAssumption, BulksInv, NEW r \in Requests, CallRaises(r)
    PROVE  BulksInv'
<1> DEFINE p == [req[r] EXCEPT !.at = "broken", !.acted = FALSE, !.results = <<>>]
           C == Seq([item : Nat, ok : BOOLEAN])
<1>1. req \in [Requests -> BulkState] /\ calls \in [Requests -> C] /\ Told(req[r], calls[r])
  BY DEF BulksInv, TypeOK, CallsTold
<1>2. /\ p \in BulkState /\ Len(p.results) <= Len(p.updates) /\ ~p.acted /\ p.at = "broken"
  <2>1. <<>> \in Seq(ItemAnswers) /\ Len(<<>>) = 0
    OBVIOUS
  <2>2. Len(req[r].updates) \in Nat
    <3>1. <<>> \in Seq(Update)
      OBVIOUS
    <3>2. req[r].updates \in Seq(Update)
      BY <1>1, <3>1, BulkWritesAssumption DEF BulkState
    <3>. QED  BY <3>2
  <2>3. p \in BulkState /\ p.results = <<>> /\ p.updates = req[r].updates /\ ~p.acted
        /\ p.at = "broken"
    BY <1>1, <2>1 DEF BulkState
  <2>. HIDE DEF p
  <2>. QED  BY <2>1, <2>2, <2>3
<1>3. req' = [req EXCEPT ![r] = p]
  BY <1>1 DEF CallRaises, BulkState
<1>. HIDE DEF p, C
<1>4. Granted(p) /\ Told(p, calls[r])
  BY <1>1, <1>2 DEF Granted, Told, Going
<1>5. \A e : Stands(p, e, actual'[e])
  BY <1>2 DEF Stands, Going
<1>6. OthersTyped' /\ \A s \in Requests : disturbed[s] \subseteq disturbed'[s]
  BY DEF CallRaises, BulksInv, TypeOK, OthersTyped
<1>7. calls' = [calls EXCEPT ![r] = calls[r]] /\ calls[r] \in C /\ actual' = actual
  BY <1>1 DEF CallRaises
<1>. QED  BY <1>2, <1>3, <1>4, <1>5, <1>6, <1>7, OneBulkMoves DEF C

\* The device does what a call asks of it.
LEMMA ActInv ==
    ASSUME BulkWritesAssumption, BulksInv, NEW r \in Requests, Act(r)
    PROVE  BulksInv'
<1> DEFINE old == req[r]
           p == [old EXCEPT !.acted = TRUE]
           C == Seq([item : Nat, ok : BOOLEAN])
           id == Called(r).id
<1>1. /\ req \in [Requests -> BulkState] /\ calls \in [Requests -> C]
      /\ Told(old, calls[r]) /\ Granted(old)
      /\ old.at = "calling" /\ ~old.acted /\ Len(old.results) <= Len(old.updates)
      /\ Called(r) = NextOf(old)
  BY DEF BulksInv, TypeOK, CallsTold, CallsGranted, Act, Called, NextOf
<1>2. /\ p \in BulkState /\ p.at = "calling" /\ p.acted
      /\ p.results = old.results /\ p.updates = old.updates /\ p.options = old.options
  BY <1>1 DEF BulkState
<1>3. req' = [req EXCEPT ![r] = p]
  BY <1>1 DEF Act, BulkState
<1>. HIDE DEF p, C, id
<1>4. Granted(p) /\ Told(p, calls[r]) /\ NextOf(p) = NextOf(old)
  BY <1>1, <1>2 DEF Granted, Told, Going, NextOf
<1>5. id \in Entities
  <2>1. old.options \in Options /\ id \in old.options.allowed
    BY <1>1 DEF Granted, id, BulkState
  <2>. QED  BY <2>1 DEF Options
<1>6. PICK v \in Values : /\ IF id \in Pressed THEN v # actual[id] ELSE v = NextOf(old).value
                          /\ actual' = [actual EXCEPT ![id] = v]
  BY <1>1 DEF Act, id
<1>7. /\ actual \in [Entities -> Values] /\ actual' \in [Entities -> Values]
      /\ actual'[id] = v /\ \A e \in Entities \ {id} : actual'[e] = actual[e]
  BY <1>5, <1>6 DEF BulksInv, TypeOK
<1>8. /\ disturbed' \in [Requests -> SUBSET Entities]
      /\ \A s \in Requests \ {r} : id \in disturbed'[s]
      /\ \A s \in Requests : disturbed[s] \subseteq disturbed'[s]
      /\ disturbed'[r] = disturbed[r]
  BY <1>5 DEF Act, ChangedFor, BulksInv, TypeOK, id
<1>9. OthersTyped'
  BY <1>7, <1>8 DEF Act, BulksInv, TypeOK, OthersTyped
<1>10. ASSUME NEW e \in Entities \ (Pressed \cup disturbed'[r])
       PROVE  Stands(p, e, actual'[e])
  <2>1. CASE e = id
    <3>1. actual'[e] = NextOf(p).value
      BY <1>4, <1>6, <1>7, <2>1
    <3>2. NextOf(p).id = e
      BY <1>1, <1>4, <2>1 DEF id
    <3>. QED  BY <1>2, <3>1, <3>2 DEF Stands
  <2>2. CASE e # id
    <3>1. actual'[e] = actual[e] /\ NextOf(p).id # e
      BY <1>1, <1>4, <1>7, <2>2 DEF id
    <3>2. Decided(old, e, actual[e])
      BY <1>1, <1>8 DEF BulksInv, Standing, Stands, Going
    <3>3. Decided(p, e, actual[e])
      BY <1>2, <3>2 DEF Decided
    <3>. QED  BY <3>1, <3>3 DEF Stands
  <2>. QED  BY <2>1, <2>2
<1>11. \A s \in Requests \ {r} : \A e \in Entities \ disturbed'[s] : actual'[e] = actual[e]
  BY <1>7, <1>8
<1>12. calls' = [calls EXCEPT ![r] = calls[r]] /\ calls[r] \in C
  BY <1>1 DEF Act
<1>13. Len(p.results) <= Len(p.updates)
  BY <1>1, <1>2
<1>. QED  BY <1>2, <1>3, <1>4, <1>8, <1>9, <1>10, <1>11, <1>12, <1>13, OneBulkMoves DEF C

\* What happens elsewhere is seen by all, and a report changes nothing.
LEMMA WorldInv ==
    ASSUME BulkWritesAssumption, BulksInv,
           \/ \E e \in Entities : Report(e) \/ Elsewhere(e)
           \/ SetOptions
           \/ UNCHANGED vars
    PROVE  BulksInv'
<1>1. req' = req /\ calls' = calls
  BY DEF Report, Elsewhere, SetOptions, vars
<1>2. OthersTyped
  BY DEF BulksInv, TypeOK, OthersTyped
<1>3. /\ OthersTyped'
      /\ \A r \in Requests : disturbed[r] \subseteq disturbed'[r]
      /\ \A r \in Requests : \A e \in Entities \ disturbed'[r] : actual'[e] = actual[e]
  <2>1. CASE \E e \in Entities : Report(e)
    BY <1>2, <2>1 DEF Report, OthersTyped
  <2>2. ASSUME NEW e \in Entities, Elsewhere(e)
        PROVE  /\ OthersTyped'
               /\ \A r \in Requests : disturbed[r] \subseteq disturbed'[r]
               /\ \A r \in Requests : \A d \in Entities \ disturbed'[r] : actual'[d] = actual[d]
    <3>1. outside' \in 0..MaxOutside
      BY <1>2, <2>2, BulkWritesAssumption DEF Elsewhere, OthersTyped
    <3>2. /\ disturbed' \in [Requests -> SUBSET Entities]
          /\ \A r \in Requests : disturbed'[r] = disturbed[r] \cup {e}
      BY <1>2, <2>2 DEF Elsewhere, ChangedFor, OthersTyped
    <3>3. /\ actual' \in [Entities -> Values]
          /\ reported' \in [Entities -> Values \cup {Unavailable}]
          /\ \A d \in Entities \ {e} : actual'[d] = actual[d]
      BY <1>2, <2>2 DEF Elsewhere, OthersTyped
    <3>. QED  BY <1>2, <2>2, <3>1, <3>2, <3>3 DEF Elsewhere, OthersTyped
  <2>3. CASE SetOptions
    <3>1. outside' \in 0..MaxOutside
      BY <1>2, <2>3, BulkWritesAssumption DEF SetOptions, OthersTyped
    <3>2. options' \in Options
      BY <2>3 DEF SetOptions, Options
    <3>. QED  BY <1>2, <2>3, <3>1, <3>2 DEF SetOptions, OthersTyped
  <2>4. CASE UNCHANGED vars
    BY <1>2, <2>4 DEF vars, OthersTyped
  <2>. QED  BY <2>1, <2>2, <2>3, <2>4
<1>4. TypeOK'
  BY <1>1, <1>3 DEF BulksInv, TypeOK, OthersTyped
<1>5. CallsGranted' /\ CallsTold'
  BY <1>1 DEF BulksInv, CallsGranted, CallsTold
<1>6. Standing'
  <2>. SUFFICES ASSUME NEW r \in Requests, NEW e \in Entities \ (Pressed \cup disturbed'[r])
                PROVE  Stands(req'[r], e, actual'[e])
    BY DEF Standing
  <2>1. Stands(req[r], e, actual[e]) /\ actual'[e] = actual[e]
    BY <1>3 DEF BulksInv, Standing
  <2>. QED  BY <1>1, <2>1
<1>. QED  BY <1>4, <1>5, <1>6 DEF BulksInv

-----------------------------------------------------------------------------
(* The theorems.                                                            *)

\* No bulk has begun.
LEMMA BulksInvInit == Init => BulksInv
<1>. SUFFICES ASSUME Init PROVE BulksInv
  OBVIOUS
<1>1. Idle \in BulkState
  <2>1. <<>> \in Seq(ItemAnswers) /\ [enabled |-> FALSE, allowed |-> {}] \in Options
    BY DEF Options
  <2>. QED  BY <2>1 DEF Idle, BulkState
<1>2. /\ req = [r \in Requests |-> Idle] /\ \A r \in Requests : req[r] = Idle
      /\ req \in [Requests -> BulkState]
  BY <1>1 DEF Init
<1>3. calls \in [Requests -> Seq([item : Nat, ok : BOOLEAN])] /\ \A r \in Requests : calls[r] = <<>>
  <2> DEFINE C == [item : Nat, ok : BOOLEAN]
  <2>1. <<>> \in Seq(C)
    OBVIOUS
  <2>. HIDE DEF C
  <2>2. calls \in [Requests -> Seq(C)] /\ \A r \in Requests : calls[r] = <<>>
    BY <2>1 DEF Init
  <2>. QED  BY <2>2 DEF C
<1>4. OthersTyped
  BY BulkWritesAssumption DEF Init, OthersTyped, Options
<1>5. \A r \in Requests : /\ Len(req[r].results) <= Len(req[r].updates)
                          /\ req[r].at = "idle" /\ ~req[r].acted
  BY <1>2 DEF Idle
<1>6. TypeOK
  BY <1>2, <1>3, <1>4, <1>5 DEF TypeOK, OthersTyped
<1>7. CallsGranted /\ Standing
  BY <1>5 DEF CallsGranted, Granted, Standing, Stands, Going
<1>8. CallsTold
  BY <1>3, <1>5 DEF CallsTold, Told, Going
<1>. QED  BY <1>6, <1>7, <1>8 DEF BulksInv

\* No step of a bulk, a device or anybody else breaks the invariant.
LEMMA BulksInvNext == BulksInv /\ [Next]_vars => BulksInv'
<1>. SUFFICES ASSUME BulksInv, [Next]_vars PROVE BulksInv'
  OBVIOUS
<1>. USE BulkWritesAssumption
<1>1. ASSUME NEW r \in Requests, NEW b \in Bulks, Put(r, b) PROVE BulksInv'
  BY <1>1, PutInv
<1>2. ASSUME NEW r \in Requests, CallSucceeds(r) PROVE BulksInv'
  BY <1>2, GoOnInv DEF CallSucceeds
<1>3. ASSUME NEW r \in Requests, CallFails(r) PROVE BulksInv'
  BY <1>3, GoOnInv DEF CallFails
<1>4. ASSUME NEW r \in Requests, CallRaises(r) PROVE BulksInv'
  BY <1>4, CallRaisesInv
<1>5. ASSUME NEW r \in Requests, Act(r) PROVE BulksInv'
  BY <1>5, ActInv
<1>. QED  BY <1>1, <1>2, <1>3, <1>4, <1>5, WorldInv DEF Next

\* The requests, devices and states keep their types: results are answers, never
\* more than there are updates, and a bulk only has devices act in a call.
THEOREM WritesTyped == Spec => []TypeOK
<1>1. BulksInv => TypeOK
  BY DEF BulksInv
<1>. QED  BY BulksInvInit, BulksInvNext, <1>1, PTL DEF Spec

\* Of several updates of one entity in a bulk the last successful one decides, for
\* any number of bulks, updates, entities and values.
THEOREM LastWriteDecides == Spec => []LastWriteStands
<1>1. BulksInv => LastWriteStands
  <2>. SUFFICES ASSUME BulksInv, NEW r \in Requests,
                       NEW e \in Entities \ (Pressed \cup disturbed[r]),
                       req[r].at = "answered"
                PROVE  LET about == {k \in DOMAIN req[r].results : req[r].updates[k].id = e} IN
                       about # {} /\ req[r].results[Max(about)] = "ok"
                          => actual[e] = req[r].updates[Max(about)].value
    BY DEF LastWriteStands
  <2> DEFINE about == {k \in DOMAIN req[r].results : req[r].updates[k].id = e}
             n == Len(req[r].results)
  <2>. SUFFICES ASSUME about # {}, req[r].results[Max(about)] = "ok"
                PROVE  actual[e] = req[r].updates[Max(about)].value
    OBVIOUS
  <2>1. Decided(req[r], e, actual[e])
    BY DEF BulksInv, TypeOK, Standing, Stands, Going
  <2>2. n \in Nat /\ DOMAIN req[r].results = 1..n
    BY DEF BulksInv, TypeOK, BulkState
  <2>3. about \in SUBSET (1..n)
    BY <2>2
  <2>4. Max(about) \in about /\ \A k \in about : k <= Max(about)
    <3>. HIDE DEF about, n
    <3>. QED  BY <2>2, <2>3, MaxOf
  <2> DEFINE k == Max(about)
  <2>. HIDE DEF k
  <2>5. /\ k \in DOMAIN req[r].results /\ req[r].updates[k].id = e
        /\ \A j \in DOMAIN req[r].results : req[r].updates[j].id = e => j <= k
        /\ req[r].results[k] = "ok"
    BY <2>4 DEF k
  <2>. QED  BY <2>1, <2>5 DEF Decided, k
<1>. QED  BY BulksInvInit, BulksInvNext, <1>1, PTL DEF Spec

\* An answer has one item for every update, in order, and tells what every call came
\* to, however service calls fail and whatever happens in between.
THEOREM AnswersAreTrue == Spec => []AnswersTell
<1>1. BulksInv => AnswersTell
  BY DEF BulksInv, CallsTold, Told, Going, AnswersTell
<1>. QED  BY BulksInvInit, BulksInvNext, <1>1, PTL DEF Spec

\* Devices are changed by what a bulk was granted when it began, or from elsewhere:
\* no options that change in between let more through, and no lock is ever set.
THEOREM ChangesAreGranted == Spec => OnlyGranted
<1> DEFINE Permitted ==
      \A e \in Entities : actual'[e] # actual[e] =>
          \/ outside' # outside
          \/ \E r \in Requests : /\ req[r].at = "calling" /\ Called(r).id = e
                                 /\ req[r].options.enabled
                                 /\ e \in req[r].options.allowed \ Fixed
<1>1. BulksInv /\ [Next]_vars => [Permitted]_vars
  <2>. SUFFICES ASSUME BulksInv, Next PROVE Permitted
    OBVIOUS
  <2>1. ASSUME NEW r \in Requests, Act(r) PROVE Permitted
    <3>1. /\ req[r].at = "calling" /\ req[r].options.enabled
          /\ Called(r).id \in req[r].options.allowed \ Fixed
      BY <2>1 DEF Act, BulksInv, CallsGranted, Granted, Called, NextOf
    <3>2. \A e \in Entities : actual'[e] # actual[e] => e = Called(r).id
      BY <2>1 DEF Act, BulksInv, TypeOK
    <3>. QED  BY <3>1, <3>2
  <2>2. ASSUME NEW e \in Entities, Elsewhere(e) PROVE Permitted
    BY <2>2 DEF Elsewhere, BulksInv, TypeOK
  <2>3. ASSUME actual' = actual PROVE Permitted
    BY <2>3
  <2>4. \/ \E r \in Requests : Act(r)
        \/ \E e \in Entities : Elsewhere(e)
        \/ actual' = actual
    <3>1. \A r \in Requests : \A b \in Bulks : Put(r, b) => actual' = actual
      BY DEF Put
    <3>2. \A r \in Requests : CallSucceeds(r) \/ CallFails(r) => actual' = actual
      BY DEF CallSucceeds, CallFails, GoOn
    <3>3. \A r \in Requests : CallRaises(r) => actual' = actual
      BY DEF CallRaises
    <3>4. (\E e \in Entities : Report(e)) \/ SetOptions => actual' = actual
      BY DEF Report, SetOptions
    <3>. QED  BY <3>1, <3>2, <3>3, <3>4, Zenon DEF Next
  <2>. QED  BY <2>1, <2>2, <2>3, <2>4
<1>2. Spec => [][Permitted]_vars
  BY BulksInvInit, BulksInvNext, <1>1, PTL DEF Spec
<1>. QED  BY <1>2 DEF OnlyGranted
=============================================================================
