-------------------------- MODULE PushClientProofs --------------------------
(***************************************************************************)
(* The push loop of the client, with either mode, any number of elements   *)
(* and any limits: the gap counter tells the truth, nothing is applied     *)
(* twice, and the states that are pushed never go back in time.            *)
(***************************************************************************)
EXTENDS PushClient, BatchQueueProofs, WellFoundedInduction

-----------------------------------------------------------------------------
(* The inductive invariant.                                                 *)

\* Once sync has staged a snapshot at the last number (see Numbered) the queue is
\* this batch, and its number is still the next one.
Capped(m) == /\ m.next = MaxSeq
             /\ Len(m.batches) = 1 /\ m.batches[1].seq = MaxSeq

QueueOK(m) == /\ m \in Mailbox(Update) /\ m.next <= MaxSeq
              /\ Orderly(m) \/ Capped(m)

LastOf(b) == b[Len(b)].seq

\* Where in the loop there is an answer, and which mode the loop is in.
ModesKept ==
    /\ pc \in {"sync", "synced", "pause"} => ~streamCapable
    /\ pc \in {"open", "streaming"} => streamCapable
    /\ answer # <<>> => pc \in {"synced", "streaming"}

Missed == \E n \in 1..lastSeq : n \notin got /\ \E m \in got : m < n

\* Number n comes before all that is to come from m, but for the number that stands
\* for all the later ones.
Before(n, m) == n < m.next \/ (n = MaxSeq /\ m.next = MaxSeq)

\* With sync the last number seen is the last one applied, what is in the queue may
\* have been applied up to it, and an answer follows it without holes in itself.
SyncNumbers ==
    ~streamCapable =>
        /\ got \subseteq 1..lastSeq
        /\ lastSeq # 0 => lastSeq \in got
        /\ gapSeen <=> Missed
        /\ Before(lastSeq, mail)
        /\ \A i \in DOMAIN answer :
              /\ answer[i].seq = answer[1].seq + i - 1
              /\ \/ answer[i].seq > lastSeq
                 \/ Len(answer) = 1 /\ answer[i].seq = MaxSeq /\ lastSeq = MaxSeq
              /\ Before(answer[i].seq, mail)

Oldest(m) == m.next - Len(m.batches)

\* On a stream what was applied comes before what is on the wire, and that before
\* what is in the queue.
StreamNumbers ==
    streamCapable =>
        /\ lastSeq = 0 /\ Orderly(mail)
        /\ \A n \in got : n < Oldest(mail) /\ \A i \in DOMAIN answer : n < answer[i].seq
        /\ \A i, j \in DOMAIN answer : i < j => answer[i].seq < answer[j].seq
        /\ \A i \in DOMAIN answer : answer[i].seq < Oldest(mail)

\* Each state b reports is at most the latest one, and b reports them in order.
VersionsOrdered(b, latest) ==
    /\ \A i \in DOMAIN b : \A u \in b[i].updates : u.version <= latest[u.element]
    /\ \A i, j \in DOMAIN b : \A u \in b[i].updates, w \in b[j].updates :
          i < j /\ u.element = w.element => u.version <= w.version

\* What was heard comes before what is in the answer, and both before what is in the
\* queue and is not in the answer.
VersionsForward ==
    /\ VersionsOrdered(mail.batches, remote) /\ VersionsOrdered(answer, remote)
    /\ \A e \in Elements : heard[e] <= remote[e]
    /\ \A i \in DOMAIN answer : \A u \in answer[i].updates : heard[u.element] <= u.version
    /\ \A j \in DOMAIN mail.batches : \A w \in mail.batches[j].updates :
          /\ mail.batches[j].seq > lastSeq => heard[w.element] <= w.version
          /\ \A i \in DOMAIN answer : \A u \in answer[i].updates :
                mail.batches[j].seq > LastOf(answer) /\ u.element = w.element
                    => u.version <= w.version

PushInv == /\ TypeOK /\ HeldByClient <= MaxPerClient
           /\ QueueOK(mail) /\ ModesKept /\ SyncNumbers /\ StreamNumbers /\ VersionsForward

-----------------------------------------------------------------------------
(* The queue, with the bound on its numbers.                                *)

\* The numbers in a queue are consecutive, and come before the next ones.
LEMMA QueueNumbers ==
    ASSUME NEW m, QueueOK(m)
    PROVE  /\ m.batches \in Seq(Batch(Update)) /\ m.next \in Nat /\ Len(m.batches) \in Nat
           /\ \A i \in DOMAIN m.batches :
                 LET n == m.batches[i].seq IN
                 /\ n \in 1..MaxSeq /\ n = m.batches[1].seq + i - 1
                 /\ Before(n, m)
                 /\ Orderly(m) => Oldest(m) <= n /\ n < m.next
<1>1. /\ m.batches \in Seq(Batch(Update)) /\ m.next \in Nat /\ Len(m.batches) \in Nat
      /\ \A i \in 1..Len(m.batches) : m.batches[i].seq \in Nat \ {0}
      /\ m.next <= MaxSeq /\ MaxSeq \in Nat
  <2>1. m.batches \in Seq(Batch(Update)) /\ m.next \in Nat /\ m.next <= MaxSeq
    BY DEF QueueOK, Mailbox
  <2>2. \A i \in 1..Len(m.batches) : m.batches[i] \in Batch(Update)
    BY <2>1
  <2>. QED  BY <2>1, <2>2, PushClientAssumption DEF Batch
<1>2. ASSUME NEW i \in 1..Len(m.batches)
      PROVE  LET n == m.batches[i].seq IN
             /\ n \in 1..MaxSeq /\ n = m.batches[1].seq + i - 1
             /\ Before(n, m)
             /\ Orderly(m) => Oldest(m) <= n /\ n < m.next
  <2> DEFINE b == m.batches
             l == Len(b)
  <2>. HIDE DEF b, l
  <2>0. 1 \in 1..l /\ i \in 1..l /\ l \in Nat
    BY <1>1, <1>2 DEF b, l
  <2>1. CASE Orderly(m)
    <3>1. \A j \in 1..l : b[j].seq = m.next - l + j - 1
      BY <1>1, <2>1 DEF Orderly, Contiguous, b, l
    <3>2. b[i].seq = m.next - l + i - 1 /\ b[1].seq = m.next - l + 1 - 1
      BY <2>0, <3>1
    <3>3. b[i].seq \in Nat \ {0} /\ b[1].seq \in Nat \ {0}
      BY <1>1, <2>0 DEF b, l
    <3>4. /\ b[i].seq \in 1..MaxSeq /\ b[i].seq = b[1].seq + i - 1 /\ b[i].seq < m.next
          /\ m.next - l <= b[i].seq
      BY <1>1, <2>0, <3>2, <3>3
    <3>. QED  BY <3>4 DEF Before, Oldest, b, l
  <2>2. CASE ~Orderly(m) /\ Capped(m)
    <3>1. i = 1 /\ b[i].seq = MaxSeq /\ m.next = MaxSeq
      BY <1>1, <1>2, <2>2 DEF Capped, b
    <3>2. MaxSeq \in 1..MaxSeq /\ MaxSeq = MaxSeq + 1 - 1
      BY PushClientAssumption
    <3>. QED  BY <2>2, <3>1, <3>2 DEF Before, b
  <2>. QED  BY <2>1, <2>2 DEF QueueOK
<1>. QED  BY <1>1, <1>2

\* A new state is queued below the bound.
LEMMA QueueChange ==
    ASSUME NEW m, QueueOK(m), m.next < MaxSeq, NEW u \in SUBSET Update
    PROVE  LET e == Enqueue(m, u) IN
           /\ QueueOK(e) /\ Orderly(e) /\ e.next = m.next + 1 /\ Oldest(m) <= Oldest(e)
           /\ \E kept \in Seq(Batch(Update)) :
                 /\ Suffix(kept, m.batches)
                 /\ e.batches = Append(kept, [seq |-> m.next, updates |-> u])
<1> DEFINE e == Enqueue(m, u)
<1>1. m \in Mailbox(Update) /\ Orderly(m) /\ m.next \in Nat
  BY PushClientAssumption DEF QueueOK, Capped, Mailbox
<1>2. e \in Mailbox(Update) /\ Orderly(e)
  BY <1>1, EnqueueType, EnqueueOrderly
<1>3. PICK kept \in Seq(Batch(Update)) :
         /\ Suffix(kept, m.batches)
         /\ e.batches = Append(kept, [seq |-> m.next, updates |-> u])
         /\ e.next = m.next + 1
  BY <1>1, EnqueueContents
<1>4. Len(e.batches) <= Len(m.batches) + 1
  <2> DEFINE kept2 == IF Full(m) THEN Tail(m.batches) ELSE m.batches
             new == [seq |-> m.next, updates |-> u]
  <2>1. e.batches = Append(kept2, new)
    BY DEF Enqueue
  <2>2. m.batches \in Seq(Batch(Update)) /\ Len(m.batches) \in Nat
        /\ (Full(m) => m.batches # <<>>)
    BY <1>1, MaxQueuedAssumption DEF Mailbox, Full
  <2>3. kept2 \in Seq(Batch(Update)) /\ Len(kept2) <= Len(m.batches) /\ Len(kept2) \in Nat
    BY <2>2
  <2>. HIDE DEF kept2, e, new
  <2>4. Len(Append(kept2, new)) = Len(kept2) + 1
    BY <2>3
  <2>. QED  BY <2>1, <2>2, <2>3, <2>4
<1>5. Len(e.batches) \in Nat /\ Len(m.batches) \in Nat
  BY <1>1, <1>2 DEF Mailbox
<1>. HIDE DEF e
<1>6. QueueOK(e)
  BY <1>1, <1>2, <1>3, PushClientAssumption DEF QueueOK
<1>7. Oldest(m) <= Oldest(e)
  BY <1>1, <1>3, <1>4, <1>5 DEF Oldest
<1>. QED  BY <1>2, <1>3, <1>6, <1>7 DEF e

\* A sync that acknowledges n leaves batches above n that were there, or one new one
\* with the current values.
LEMMA QueueSync ==
    ASSUME NEW m, QueueOK(m), NEW n \in (1..MaxSeq) \cup {NoAck}, NEW cur \in SUBSET Update
    PROVE  LET s == Numbered(Synced(m, n, cur)) IN
           /\ QueueOK(s) /\ m.next <= s.next
           /\ \/ Suffix(s.batches, m.batches) /\ \A i \in DOMAIN s.batches : s.batches[i].seq > n
              \/ s.batches = <<[seq |-> m.next, updates |-> cur]>>
<1> DEFINE a == Acked(m, n)
           y == Synced(m, n, cur)
           s == Numbered(y)
           new == [seq |-> m.next, updates |-> cur]
           good == /\ QueueOK(s) /\ m.next <= s.next
                   /\ \/ Suffix(s.batches, m.batches)
                         /\ \A i \in DOMAIN s.batches : s.batches[i].seq > n
                      \/ s.batches = <<new>>
<1>1. /\ m \in Mailbox(Update) /\ m.next \in Nat \ {0} /\ m.next <= MaxSeq /\ MaxSeq \in Nat
      /\ n \in Int /\ n # ClearAll
  BY PushClientAssumption DEF QueueOK, Mailbox, NoAck, ClearAll
<1>2. /\ Suffix(a.batches, m.batches) /\ \A i \in DOMAIN a.batches : a.batches[i].seq > n
      /\ a.next = m.next /\ Len(a.batches) <= Len(m.batches)
      /\ a.batches \in Seq(Batch(Update))
  <2>1. CASE Orderly(m)
    BY <1>1, <2>1, AckedAbove, AckedContents DEF Orderly
  <2>2. CASE Capped(m)
    <3> DEFINE more == [m EXCEPT !.next = MaxSeq + 1]
    <3>1. more \in Mailbox(Update) /\ more.batches = m.batches /\ more.next = MaxSeq + 1
      BY <1>1 DEF Mailbox
    <3>2. Contiguous(more)
      <4>1. m.batches \in Seq(Batch(Update)) /\ Len(m.batches) = 1 /\ m.batches[1].seq = MaxSeq
        BY <1>1, <2>2 DEF Capped, Mailbox
      <4>2. DOMAIN m.batches = {1}
        BY <4>1
      <4>. HIDE DEF more
      <4>3. DOMAIN more.batches = {1} /\ Len(more.batches) = 1 /\ more.batches[1].seq = MaxSeq
        BY <3>1, <4>1, <4>2
      <4>4. 1 < MaxSeq + 1 /\ MaxSeq = MaxSeq + 1 - 1 + 1 - 1
        BY <1>1, PushClientAssumption
      <4>5. \A i \in DOMAIN more.batches :
               more.batches[i].seq = more.next - Len(more.batches) + i - 1
        <5>1. TAKE i \in DOMAIN more.batches
        <5>2. i = 1
          BY <4>3
        <5>3. more.batches[i].seq = MaxSeq
          BY <4>3, <5>2
        <5>. QED  BY <1>1, <3>1, <4>3, <5>2, <5>3
      <4>. QED  BY <3>1, <4>3, <4>4, <4>5 DEF Contiguous
    <3>3. a.batches = Acked(more, n).batches /\ a.next = m.next
      BY <3>1 DEF Acked, Holding
    <3>. HIDE DEF more, a
    <3>. QED  BY <1>1, <3>1, <3>2, <3>3, AckedAbove, AckedContents
  <2>. QED  BY <2>1, <2>2 DEF QueueOK
<1>3. ASSUME a.batches = <<>> /\ cur # {} PROVE good
  <2>1. y.batches = <<new>> /\ y.next = m.next + 1
    <3>1. ~Full(a)
      BY <1>3, MaxQueuedAssumption DEF Full
    <3>2. Enqueue(a, cur).batches = <<[seq |-> a.next, updates |-> cur]>>
          /\ Enqueue(a, cur).next = a.next + 1
      <4>. HIDE DEF a
      <4>. QED  BY <1>3, <3>1 DEF Enqueue
    <3>3. y.batches = Enqueue(a, cur).batches /\ y.next = Enqueue(a, cur).next
      BY <1>3 DEF Synced, Holding
    <3>. HIDE DEF a, y
    <3>. QED  BY <1>2, <3>2, <3>3
  <2>2. y.overflow = FALSE /\ y.ready = TRUE
    BY <1>3 DEF Synced, Holding, Enqueue
  <2>3. y = [batches |-> <<new>>, next |-> m.next + 1, overflow |-> FALSE, ready |-> TRUE]
    <3>1. y = [batches |-> y.batches, next |-> y.next, overflow |-> y.overflow, ready |-> y.ready]
      BY <1>3 DEF Synced, Holding
    <3>. HIDE DEF y, new
    <3>. QED  BY <2>1, <2>2, <3>1
  <2>. HIDE DEF y, good
  <2>4. /\ s.batches = <<new>> /\ s.overflow = FALSE /\ s.ready = TRUE
        /\ s.next = IF m.next + 1 > MaxSeq THEN MaxSeq ELSE m.next + 1
        /\ s \in Mailbox(Update)
    <3>1. <<new>> \in Seq(Batch(Update))
      <4>1. new \in Batch(Update)
        BY <1>1 DEF Batch
      <4>. QED  BY <4>1
    <3>2. (IF m.next + 1 > MaxSeq THEN MaxSeq ELSE m.next + 1) \in Nat \ {0}
      BY <1>1, PushClientAssumption
    <3>. HIDE DEF new
    <3>. QED  BY <2>3, <3>1, <3>2 DEF Numbered, Mailbox
  <2>5. Len(s.batches) = 1 /\ s.batches[1] = new /\ new.seq = m.next /\ DOMAIN s.batches = {1}
    BY <2>4
  <2>. HIDE DEF s, new
  <2>6. s.next <= MaxSeq /\ m.next <= s.next
    BY <1>1, <2>4
  <2>7. CASE m.next + 1 > MaxSeq
    <3>1. m.next = MaxSeq /\ s.next = MaxSeq
      BY <1>1, <2>4, <2>7
    <3>. QED  BY <2>4, <2>5, <2>6, <3>1 DEF QueueOK, Capped, good
  <2>8. CASE ~(m.next + 1 > MaxSeq)
    <3>1. s.next = m.next + 1
      BY <2>4, <2>8
    <3>2. Orderly(s)
      BY <1>1, <2>4, <2>5, <3>1, MaxQueuedAssumption DEF Orderly, Contiguous
    <3>. QED  BY <2>4, <2>6, <3>2 DEF QueueOK, good
  <2>. QED  BY <2>7, <2>8
<1>4. ASSUME ~(a.batches = <<>> /\ cur # {}) PROVE good
  <2>1. y = Holding(a, a.batches, FALSE)
    BY <1>4 DEF Synced
  <2>2. a = Holding(m, a.batches, m.overflow)
    BY DEF Acked, Holding
  <2>3. y = [batches |-> a.batches, next |-> m.next, overflow |-> FALSE, ready |-> m.ready]
    <3>. HIDE DEF a
    <3>1. a.next = m.next /\ a.ready = m.ready
      BY <2>2 DEF Holding
    <3>. QED  BY <2>1, <3>1 DEF Holding
  <2>. HIDE DEF y, a, good
  <2>4. /\ s.batches = a.batches /\ s.next = m.next /\ s.overflow = FALSE /\ s.ready = m.ready
        /\ s \in Mailbox(Update)
    <3>1. ~(m.next > MaxSeq)
      BY <1>1
    <3>2. s.batches = a.batches /\ s.next = m.next /\ s.overflow = FALSE /\ s.ready = m.ready
      BY <2>3, <3>1 DEF Numbered
    <3>3. m.ready \in BOOLEAN
      BY <1>1 DEF Mailbox
    <3>4. y \in Mailbox(Update)
      BY <1>1, <1>2, <2>3, <3>3 DEF Mailbox
    <3>5. s \in Mailbox(Update)
      BY <2>3, <3>1, <3>4 DEF Numbered, Mailbox
    <3>. QED  BY <3>2, <3>5
  <2>. HIDE DEF s
  <2>5. CASE Orderly(m)
    <3>1. Contiguous(a) /\ (a.batches # <<>> => a.ready) /\ Len(a.batches) <= MaxQueued
      BY <1>1, <2>5, AckedOrderly DEF a
    <3>2. a.next = m.next /\ a.ready = m.ready
      BY <2>2 DEF Holding
    <3>3. Orderly(s)
      BY <2>4, <3>1, <3>2 DEF Orderly, Contiguous
    <3>. QED  BY <1>1, <1>2, <2>4, <3>3 DEF QueueOK, good
  <2>6. CASE Capped(m)
    <3>1. CASE a.batches = <<>>
      <4>1. Orderly(s)
        BY <1>1, <2>4, <3>1, MaxQueuedAssumption DEF Orderly, Contiguous
      <4>. QED  BY <1>1, <1>2, <2>4, <4>1 DEF QueueOK, good
    <3>2. CASE a.batches # <<>>
      <4>1. Len(a.batches) = 1
        <5>1. Len(a.batches) \in Nat /\ Len(a.batches) # 0
          BY <1>2, <3>2
        <5>2. Len(a.batches) <= 1
          BY <1>2, <2>6 DEF Capped
        <5>3. \A l \in Nat : l # 0 /\ l <= 1 => l = 1
          OBVIOUS
        <5>. QED  BY <5>1, <5>2, <5>3
      <4>2. a.batches[1].seq = MaxSeq
        <5>1. PICK k \in Nat : \A i \in DOMAIN a.batches : i + k \in DOMAIN m.batches
                                                          /\ a.batches[i] = m.batches[i + k]
          BY <1>2 DEF Suffix
        <5>2. 1 \in DOMAIN a.batches /\ DOMAIN m.batches = {1}
          BY <1>1, <1>2, <2>6, <4>1 DEF Capped, Mailbox
        <5>3. a.batches[1] = m.batches[1 + k] /\ 1 + k = 1
          BY <5>1, <5>2
        <5>. QED  BY <2>6, <5>3 DEF Capped
      <4>3. Capped(s)
        BY <2>4, <2>6, <4>1, <4>2 DEF Capped
      <4>. QED  BY <1>1, <1>2, <2>4, <4>3 DEF QueueOK, good
    <3>. QED  BY <3>1, <3>2
  <2>. QED  BY <2>5, <2>6 DEF QueueOK
<1>. QED  BY <1>3, <1>4 DEF good

-----------------------------------------------------------------------------
(* What batches report.                                                     *)

\* What is in a batch is a state of an element.
LEMMA Reports ==
    ASSUME NEW b \in Seq(Batch(Update)), NEW i \in DOMAIN b
    PROVE  /\ b[i].seq \in Nat \ {0}
           /\ \A u \in b[i].updates : u.element \in Elements /\ u.version \in 1..MaxVersion
<1>1. b[i] \in Batch(Update)
  OBVIOUS
<1>2. \A u \in b[i].updates : u \in Update
  BY <1>1 DEF Batch
<1>. QED  BY <1>1, <1>2 DEF Batch, Update

\* States that go on growing stay above what was reported.
LEMMA OrderedGrows ==
    ASSUME NEW b \in Seq(Batch(Update)),
           NEW old \in [Elements -> 1..MaxVersion], NEW new \in [Elements -> 1..MaxVersion],
           \A e \in Elements : old[e] <= new[e],
           VersionsOrdered(b, old)
    PROVE  VersionsOrdered(b, new)
<1>1. ASSUME NEW i \in DOMAIN b, NEW u \in b[i].updates PROVE u.version <= new[u.element]
  <2>1. u.element \in Elements /\ u.version \in Nat
    BY <1>1, Reports
  <2>2. u.version <= old[u.element] /\ old[u.element] <= new[u.element]
    BY <1>1, <2>1 DEF VersionsOrdered
  <2>3. old[u.element] \in Nat /\ new[u.element] \in Nat
    BY <2>1
  <2>. QED  BY <2>1, <2>2, <2>3
<1>. QED  BY <1>1 DEF VersionsOrdered

\* What is left of a queue is in order.
LEMMA OrderedSuffix ==
    ASSUME NEW b \in Seq(Batch(Update)), NEW latest, VersionsOrdered(b, latest),
           NEW rest \in Seq(Batch(Update)), Suffix(rest, b)
    PROVE  VersionsOrdered(rest, latest)
<1>1. PICK k \in Nat : \A i \in DOMAIN rest : i + k \in DOMAIN b /\ rest[i] = b[i + k]
  BY DEF Suffix
<1>2. \A i, j \in DOMAIN rest : i \in Nat /\ j \in Nat /\ (i < j => i + k < j + k)
  OBVIOUS
<1>. QED  BY <1>1, <1>2 DEF VersionsOrdered

\* Two queues in order, of which the second reports nothing older, are one in order.
LEMMA OrderedConcat ==
    ASSUME NEW b \in Seq(Batch(Update)), NEW c \in Seq(Batch(Update)), NEW latest,
           VersionsOrdered(b, latest), VersionsOrdered(c, latest),
           \A i \in DOMAIN b, j \in DOMAIN c : \A u \in b[i].updates, w \in c[j].updates :
              u.element = w.element => u.version <= w.version
    PROVE  VersionsOrdered(b \o c, latest)
<1> DEFINE s == b \o c
           m == Len(b)
           n == Len(c)
<1>1. /\ m \in Nat /\ n \in Nat /\ DOMAIN b = 1..m /\ DOMAIN c = 1..n /\ DOMAIN s = 1..(m + n)
      /\ \A i \in 1..(m + n) : s[i] = IF i <= m THEN b[i] ELSE c[i - m]
  <2>. HIDE DEF s
  <2>1. b \in Seq(Batch(Update)) /\ c \in Seq(Batch(Update)) /\ s = b \o c
    BY DEF s
  <2>2. m \in Nat /\ n \in Nat /\ DOMAIN b = 1..m /\ DOMAIN c = 1..n
    OBVIOUS
  <2>3. Len(s) = m + n /\ DOMAIN s = 1..(m + n)
    BY <2>1
  <2>4. \A i \in 1..(m + n) : s[i] = IF i <= m THEN b[i] ELSE c[i - m]
    BY <2>1, <2>2
  <2>. QED  BY <2>2, <2>3, <2>4
<1>. HIDE DEF s, m, n
<1>2. ASSUME NEW i \in 1..(m + n)
      PROVE  \/ i \in 1..m /\ s[i] = b[i]
             \/ i - m \in 1..n /\ i > m /\ s[i] = c[i - m]
  BY <1>1
<1>3. ASSUME NEW i \in 1..(m + n), NEW u \in s[i].updates
      PROVE  u.version <= latest[u.element]
  BY <1>1, <1>2, <1>3 DEF VersionsOrdered
<1>4. ASSUME NEW i \in 1..(m + n), NEW j \in 1..(m + n),
             NEW u \in s[i].updates, NEW w \in s[j].updates,
             i < j, u.element = w.element
      PROVE  u.version <= w.version
  <2>1. CASE i \in 1..m /\ j \in 1..m
    <3>1. s[i] = b[i] /\ s[j] = b[j]
      BY <1>1, <2>1
    <3>. QED  BY <1>1, <1>4, <2>1, <3>1 DEF VersionsOrdered
  <2>2. CASE i \in 1..m /\ j > m
    <3>1. s[i] = b[i] /\ s[j] = c[j - m] /\ j - m \in 1..n
      BY <1>1, <2>2
    <3>. QED  BY <1>1, <1>4, <2>2, <3>1
  <2>3. CASE i > m /\ j > m
    <3>1. s[i] = c[i - m] /\ s[j] = c[j - m] /\ i - m \in 1..n /\ j - m \in 1..n /\ i - m < j - m
      BY <1>1, <1>4, <2>3
    <3>. QED  BY <1>1, <1>4, <3>1 DEF VersionsOrdered
  <2>. QED  BY <1>1, <1>4, <2>1, <2>2, <2>3
<1>. QED  BY <1>1, <1>3, <1>4 DEF VersionsOrdered, s

\* A set of positions has a last one.
LEMMA LastExists ==
    ASSUME NEW n \in Nat, NEW S \in SUBSET (1..n), S # {}
    PROVE  \E x \in S : \A y \in S : y <= x
<1> DEFINE T == {n - x : x \in S}
           R == OpToRel(<, Nat)
<1>1. \A x \in S : x \in 1..n /\ n - x \in Nat
  OBVIOUS
<1>2. T \in SUBSET Nat /\ T # {}
  BY <1>1
<1>3. IsWellFoundedOn(R, Nat)
  BY NatLessThanWellFounded
<1>4. ASSUME NEW x \in Nat, NEW y \in Nat, x < y PROVE <<x, y>> \in R
  BY <1>4 DEF OpToRel
<1>. HIDE DEF R, T
<1>5. PICK t \in T : \A y \in T : ~(<<y, t>> \in R)
  BY <1>2, <1>3, WFMin
<1>6. \A y \in T : ~(y < t)
  BY <1>2, <1>4, <1>5
<1>. USE DEF T
<1>7. PICK x \in S : t = n - x
  BY <1>5
<1>8. ASSUME NEW y \in S PROVE y <= x
  <2>1. n - y \in T
    OBVIOUS
  <2>2. ~(n - y < n - x)
    BY <1>6, <1>7, <2>1
  <2>. QED  BY <1>1, <2>2
<1>. QED  BY <1>8

\* apply_push shows each element a state that was reported, or leaves it alone.
LEMMA AppliedMeans ==
    ASSUME NEW d \in [Elements -> 1..MaxVersion], NEW b \in Seq(Batch(Update))
    PROVE  /\ Applied(d, b) \in [Elements -> 1..MaxVersion]
           /\ \A e \in Elements :
                 \/ /\ Applied(d, b)[e] = d[e]
                    /\ \A i \in DOMAIN b : \A u \in b[i].updates : u.element # e
                 \/ \E i \in DOMAIN b : \E u \in b[i].updates :
                       u.element = e /\ Applied(d, b)[e] = u.version
<1>1. ASSUME NEW e \in Elements
      PROVE  \/ /\ Applied(d, b)[e] = d[e]
                /\ \A i \in DOMAIN b : \A u \in b[i].updates : u.element # e
             \/ \E i \in DOMAIN b : \E u \in b[i].updates :
                   u.element = e /\ Applied(d, b)[e] = u.version
  <2> DEFINE about == {i \in DOMAIN b : \E u \in b[i].updates : u.element = e}
             last == CHOOSE i \in about : \A j \in about : j <= i
             it == CHOOSE u \in b[last].updates : u.element = e
  <2>1. Applied(d, b)[e] = IF about = {} THEN d[e] ELSE it.version
    BY DEF Applied
  <2>2. CASE about = {}
    BY <2>1, <2>2
  <2>3. CASE about # {}
    <3>1. about \in SUBSET (1..Len(b)) /\ Len(b) \in Nat
      OBVIOUS
    <3>2. \E i \in about : \A j \in about : j <= i
      <4>. HIDE DEF about
      <4>. QED  BY <2>3, <3>1, LastExists
    <3>3. last \in about
      <4>. HIDE DEF about
      <4>. QED  BY <3>2
    <3>. HIDE DEF last
    <3>4. last \in DOMAIN b /\ \E u \in b[last].updates : u.element = e
      BY <3>3
    <3>5. it \in b[last].updates /\ it.element = e
      BY <3>4
    <3>. HIDE DEF it, about
    <3>. QED  BY <2>1, <2>3, <3>4, <3>5
  <2>. QED  BY <2>2, <2>3
<1>2. ASSUME NEW e \in Elements PROVE Applied(d, b)[e] \in 1..MaxVersion
  <2>1. d[e] \in 1..MaxVersion
    OBVIOUS
  <2>2. \A i \in DOMAIN b : \A u \in b[i].updates : u.version \in 1..MaxVersion
    BY Reports
  <2>. QED  BY <1>1, <2>1, <2>2
<1>3. Applied(d, b) = [e \in Elements |-> Applied(d, b)[e]]
  BY DEF Applied
<1>. QED  BY <1>1, <1>2, <1>3

-----------------------------------------------------------------------------
(* The invariant holds at the start, and of what is counted.                *)

\* What the steps use of the invariant.
LEMMA PushFacts ==
    ASSUME PushInv
    PROVE  /\ mail \in Mailbox(Update) /\ mail.batches \in Seq(Batch(Update))
           /\ mail.next \in Nat /\ mail.next <= MaxSeq /\ MaxSeq \in Nat /\ MaxSeq # 0
           /\ Len(mail.batches) \in Nat /\ answer \in Seq(Batch(Update))
           /\ remote \in [Elements -> 1..MaxVersion] /\ heard \in [Elements -> 1..MaxVersion]
           /\ lastSeq \in 0..MaxSeq /\ got \in SUBSET (1..MaxSeq) /\ gapSeen \in BOOLEAN
           /\ streamCapable \in BOOLEAN
BY PushClientAssumption DEF PushInv, TypeOK, QueueOK, Mailbox

\* A subscription the client holds is one of at most MaxPerClient.
LEMMA HeldCounts ==
    ASSUME TypeOK, HeldByClient <= MaxPerClient
    PROVE  /\ leaked \in Nat /\ MaxPerClient \in Nat
           /\ leaked + One(alive) + One(pending = "live") <= MaxPerClient
           /\ One(alive) \in {0, 1} /\ One(pending = "live") \in {0, 1}
BY PushClientAssumption DEF TypeOK, HeldByClient, One

LEMMA PushInvInit == Init => PushInv
<1>. SUFFICES ASSUME Init PROVE PushInv
  OBVIOUS
<1>1. EmptyMailbox \in Mailbox(Update) /\ Orderly(EmptyMailbox)
  BY EmptyMailboxOrderly
<1>2. EmptyMailbox.batches = <<>> /\ EmptyMailbox.next = 1
  BY DEF EmptyMailbox
<1>3. MaxPerClient \in Nat /\ MaxVersion \in Nat \ {0} /\ MaxSeq \in Nat \ {0} /\ MaxReloads \in Nat
  BY PushClientAssumption
<1>4. TypeOK
  <2>1. <<>> \in Seq(Batch(Update))
    OBVIOUS
  <2>2. 1 \in 1..MaxVersion
    BY <1>3
  <2>. HIDE DEF Batch, Mailbox, EmptyMailbox
  <2>3. /\ remote \in [Elements -> 1..MaxVersion]
        /\ data \in [Elements -> 1..MaxVersion] /\ heard \in [Elements -> 1..MaxVersion]
    BY <2>2 DEF Init
  <2>4. /\ {streamCapable, alive, registered, named, gapSeen} \subseteq BOOLEAN
        /\ mail \in Mailbox(Update) /\ answer \in Seq(Batch(Update))
    BY <1>1, <2>1 DEF Init
  <2>5. /\ pending \in {"none", "live", "dead"} /\ leaked \in 0..MaxPerClient
        /\ reloads \in 0..MaxReloads /\ lastSeq \in 0..MaxSeq /\ got \subseteq 1..MaxSeq
        /\ poll = NoPoll /\ pc \in Sending
    BY <1>3 DEF Init, Sending
  <2>. QED  BY <2>3, <2>4, <2>5 DEF TypeOK
<1>5. HeldByClient <= MaxPerClient
  BY <1>3 DEF Init, HeldByClient, One
<1>6. QueueOK(mail)
  BY <1>1, <1>2, <1>3 DEF Init, QueueOK
<1>7. ModesKept
  BY DEF Init, ModesKept
<1>8. SyncNumbers
  BY <1>2 DEF Init, SyncNumbers, Missed, Before
<1>9. StreamNumbers
  BY <1>1 DEF Init, StreamNumbers
<1>10. VersionsForward
  BY <1>2, <1>3 DEF Init, VersionsForward, VersionsOrdered
<1>. QED  BY <1>4, <1>5, <1>6, <1>7, <1>8, <1>9, <1>10 DEF PushInv

\* Where the numbers in the answer lie.
LEMMA AnswerNumbers ==
    ASSUME PushInv, NEW i \in DOMAIN answer
    PROVE  /\ answer[i].seq \in 1..MaxSeq
           /\ \A u \in answer[i].updates : u.element \in Elements /\ u.version \in 1..MaxVersion
<1>1. answer[i].seq \in Nat \ {0}
      /\ \A u \in answer[i].updates : u.element \in Elements /\ u.version \in 1..MaxVersion
  BY PushFacts, Reports
<1>2. /\ mail.next \in Nat /\ mail.next <= MaxSeq /\ Len(mail.batches) \in Nat /\ MaxSeq \in Nat
      /\ streamCapable \in BOOLEAN
  BY PushFacts
<1>3. CASE streamCapable
  <2>1. answer[i].seq < mail.next - Len(mail.batches)
    BY <1>3 DEF PushInv, StreamNumbers, Oldest
  <2>. QED  BY <1>1, <1>2, <2>1
<1>4. CASE ~streamCapable
  <2>1. Before(answer[i].seq, mail)
    BY <1>4 DEF PushInv, SyncNumbers
  <2>. QED  BY <1>1, <1>2, <2>1 DEF Before
<1>. QED  BY <1>2, <1>3, <1>4

-----------------------------------------------------------------------------
(* Steps that touch neither the numbers nor what is reported.               *)

Quiet == UNCHANGED <<streamCapable, mail, lastSeq, answer, gapSeen, got, remote, heard>>

LEMMA QuietKeeps ==
    ASSUME PushInv, Quiet
    PROVE  QueueOK(mail)' /\ SyncNumbers' /\ StreamNumbers' /\ VersionsForward'
<1>. USE DEF Quiet
<1>1. QueueOK(mail)'
  BY DEF PushInv
<1>2. SyncNumbers'
  BY DEF PushInv, SyncNumbers, Missed
<1>3. StreamNumbers'
  BY DEF PushInv, StreamNumbers
<1>4. VersionsForward'
  BY DEF PushInv, VersionsForward
<1>. QED  BY <1>1, <1>2, <1>3, <1>4

\* An answer that is thrown away, too.
LEMMA DroppedKeeps ==
    ASSUME PushInv, answer' = <<>>,
           UNCHANGED <<streamCapable, mail, lastSeq, gapSeen, got, remote, heard>>
    PROVE  QueueOK(mail)' /\ SyncNumbers' /\ StreamNumbers' /\ VersionsForward'
<1>1. QueueOK(mail)'
  BY DEF PushInv
<1>2. SyncNumbers'
  BY DEF PushInv, SyncNumbers, Missed
<1>3. StreamNumbers'
  BY DEF PushInv, StreamNumbers
<1>4. VersionsForward'
  BY DEF PushInv, VersionsForward, VersionsOrdered
<1>. QED  BY <1>1, <1>2, <1>3, <1>4

QuietLoop == \/ CreateServed \/ NotFound \/ Refused \/ BackoffOver
             \/ RegisterServed \/ RegisterAnswered \/ PauseOver
             \/ StreamOpened \/ StreamEnded

QuietElsewhere == PollServed \/ PollAnswered \/ PollLost \/ Expire \/ Reload

LEMMA QuietSteps ==
    ASSUME PushInv, UNCHANGED streamCapable, QuietLoop \/ QuietElsewhere \/ UNCHANGED vars
    PROVE  PushInv'
<1>. USE DEF serverVars, loopVars, vars, Goto
<1>1. Quiet
  BY DEF Quiet, QuietLoop, QuietElsewhere, CreateServed, NotFound, Refused, BackoffOver,
         RegisterServed, RegisterAnswered, PauseOver, StreamOpened, StreamEnded, PollServed,
         PollAnswered, PollLost, Expire, Reload
<1>2. QueueOK(mail)' /\ SyncNumbers' /\ StreamNumbers' /\ VersionsForward'
  BY <1>1, QuietKeeps
<1>3. TypeOK /\ HeldByClient <= MaxPerClient /\ ModesKept
  BY DEF PushInv
<1>4. /\ leaked \in Nat /\ MaxPerClient \in Nat
      /\ leaked + One(alive) + One(pending = "live") <= MaxPerClient
      /\ One(alive) \in {0, 1} /\ One(pending = "live") \in {0, 1}
  BY <1>3, HeldCounts
<1>. HIDE DEF Mailbox, Batch, Update
<1>5. TypeOK'
  <2>1. CASE QuietLoop
    BY <1>1, <1>3, <2>1 DEF QuietLoop, Quiet, TypeOK, Sending, Answered, CreateServed, NotFound, Refused,
       BackoffOver, RegisterServed, RegisterAnswered, PauseOver, StreamOpened, StreamEnded
  <2>2. CASE PollServed \/ PollAnswered \/ PollLost
    <3>1. /\ poll' \in [Elements -> 1..MaxVersion] \cup {NoPoll}
          /\ data' \in [Elements -> 1..MaxVersion]
      BY <1>3, <2>2 DEF TypeOK, PollServed, PollAnswered, PollLost
    <3>2. UNCHANGED <<serverVars, loopVars>>
      BY <2>2 DEF PollServed, PollAnswered, PollLost
    <3>. QED  BY <1>1, <1>3, <3>1, <3>2 DEF Quiet, TypeOK
  <2>3. CASE Expire
    <3>1. leaked' \in 0..MaxPerClient
      <4>1. leaked \in 0..MaxPerClient
        BY <1>3 DEF TypeOK
      <4>. QED  BY <1>4, <2>3, <4>1 DEF Expire
    <3>2. alive' \in BOOLEAN /\ UNCHANGED <<registered, pending, reloads, loopVars, poll, data>>
      BY <1>3, <2>3 DEF TypeOK, Expire
    <3>. QED  BY <1>1, <1>3, <3>1, <3>2 DEF Quiet, TypeOK
  <2>4. CASE Reload
    <3>1. reloads' \in 0..MaxReloads /\ leaked' \in 0..MaxPerClient
      BY <1>3, <1>4, <2>4, PushClientAssumption DEF TypeOK, Reload
    <3>2. alive' \in BOOLEAN /\ pending' \in {"none", "live", "dead"}
      BY <2>4 DEF Reload
    <3>3. UNCHANGED <<registered, loopVars, poll, data>>
      BY <2>4 DEF Reload
    <3>. QED  BY <1>1, <1>3, <3>1, <3>2, <3>3 DEF Quiet, TypeOK
  <2>5. CASE UNCHANGED vars
    BY <1>1, <1>3, <2>5 DEF Quiet, TypeOK
  <2>. QED  BY <2>1, <2>2, <2>3, <2>4, <2>5 DEF QuietElsewhere
<1>6. (HeldByClient <= MaxPerClient)'
  <2>1. CASE CreateServed
    BY <1>4, <2>1 DEF CreateServed, HeldByClient, One
  <2>2. CASE Expire
    BY <1>4, <2>2 DEF Expire, HeldByClient, One
  <2>3. CASE Reload
    BY <1>4, <2>3 DEF Reload, HeldByClient, One
  <2>4. CASE UNCHANGED <<leaked, alive, pending>>
    BY <1>3, <2>4 DEF HeldByClient
  <2>. QED  BY <2>1, <2>2, <2>3, <2>4 DEF QuietLoop, QuietElsewhere, NotFound, Refused, BackoffOver,
               RegisterServed, RegisterAnswered, PauseOver, StreamOpened, StreamEnded,
               PollServed, PollAnswered, PollLost
<1>7. ModesKept'
  <2>1. CASE QuietLoop
    BY <1>1, <1>3, <2>1 DEF QuietLoop, Quiet, ModesKept, CreateServed, NotFound, Refused,
       BackoffOver, RegisterServed, RegisterAnswered, PauseOver, StreamOpened, StreamEnded
  <2>2. CASE UNCHANGED pc
    BY <1>1, <1>3, <2>2 DEF Quiet, ModesKept
  <2>. QED  BY <2>1, <2>2 DEF QuietElsewhere, PollServed, PollAnswered, PollLost, Expire, Reload
<1>. QED  BY <1>2, <1>5, <1>6, <1>7 DEF PushInv

\* Lost and StopPush throw the answer away.
LEMMA GivingUp ==
    ASSUME PushInv, UNCHANGED streamCapable, Lost \/ StopPush
    PROVE  PushInv'
<1>. USE DEF Goto
<1>1. /\ answer' = <<>> /\ UNCHANGED <<streamCapable, mail, lastSeq, gapSeen, got, remote, heard>>
      /\ UNCHANGED <<registered, reloads, poll, data>>
      /\ pc' \in {"backoff", "stopped"} /\ pending' = "none"
      /\ leaked' = leaked + One(pending = "live") /\ alive' \in {alive, FALSE}
      /\ named' \in {named, FALSE}
  BY DEF Lost, StopPush
<1>2. QueueOK(mail)' /\ SyncNumbers' /\ StreamNumbers' /\ VersionsForward'
  BY <1>1, DroppedKeeps
<1>3. TypeOK /\ HeldByClient <= MaxPerClient
  BY DEF PushInv
<1>4. /\ leaked \in Nat /\ MaxPerClient \in Nat
      /\ leaked + One(alive) + One(pending = "live") <= MaxPerClient
      /\ One(alive) \in {0, 1} /\ One(pending = "live") \in {0, 1}
  BY <1>3, HeldCounts
<1>5. TypeOK'
  <2>1. <<>> \in Seq(Batch(Update))
    OBVIOUS
  <2>2. leaked' \in 0..MaxPerClient
    BY <1>1, <1>4
  <2>. HIDE DEF Mailbox, Batch, Update
  <2>. QED  BY <1>1, <1>3, <2>1, <2>2 DEF TypeOK
<1>6. (HeldByClient <= MaxPerClient)'
  <2>1. One(alive') \in {0, 1} /\ One(alive') <= One(alive) /\ One(pending' = "live") = 0
    <3>1. One(FALSE) = 0 /\ One(alive') \in {0, 1} /\ One("none" = "live") = 0
      BY DEF One
    <3>2. One(alive') = One(alive) \/ One(alive') = One(FALSE)
      BY <1>1
    <3>3. One(pending' = "live") = 0
      BY <1>1 DEF One
    <3>. HIDE DEF One
    <3>4. \A x \in {0, 1} : x <= x /\ 0 <= x
      OBVIOUS
    <3>5. One(alive') <= One(alive)
      BY <1>4, <3>1, <3>2, <3>4
    <3>. QED  BY <3>1, <3>3, <3>5
  <2>. HIDE DEF One
  <2>. QED  BY <1>1, <1>4, <2>1 DEF HeldByClient
<1>7. ModesKept'
  BY <1>1 DEF ModesKept
<1>. QED  BY <1>2, <1>5, <1>6, <1>7 DEF PushInv

\* A new subscription starts afresh.
LEMMA Recreated ==
    ASSUME PushInv, UNCHANGED streamCapable, CreateAnswered
    PROVE  PushInv'
<1>. USE DEF Goto, CreateAnswered
<1>1. EmptyMailbox \in Mailbox(Update) /\ Orderly(EmptyMailbox)
  BY EmptyMailboxOrderly
<1>2. EmptyMailbox.batches = <<>> /\ EmptyMailbox.next = 1
  BY DEF EmptyMailbox
<1>3. TypeOK /\ HeldByClient <= MaxPerClient
  BY DEF PushInv
<1>4. /\ leaked \in Nat /\ MaxPerClient \in Nat
      /\ leaked + One(alive) + One(pending = "live") <= MaxPerClient
      /\ One(alive) \in {0, 1} /\ One(pending = "live") \in {0, 1}
  BY <1>3, HeldCounts
<1>5. MaxSeq \in Nat \ {0}
  BY PushClientAssumption
<1>. HIDE DEF Mailbox, Batch, Update, EmptyMailbox
<1>6. TypeOK'
  <2>1. <<>> \in Seq(Batch(Update))
    OBVIOUS
  <2>2. leaked' \in 0..MaxPerClient
    BY <1>4
  <2>3. alive' \in BOOLEAN /\ pending' = "none" /\ pc' \in Sending /\ lastSeq' \in 0..MaxSeq
    BY <1>5 DEF Sending
  <2>. QED  BY <1>1, <1>3, <2>1, <2>2, <2>3 DEF TypeOK
<1>7. (HeldByClient <= MaxPerClient)'
  <2>1. One(alive') = One(pending = "live") /\ One(pending' = "live") = 0
    BY DEF One
  <2>. HIDE DEF One
  <2>. QED  BY <1>4, <2>1 DEF HeldByClient
<1>8. QueueOK(mail)'
  BY <1>1, <1>2, <1>5 DEF QueueOK
<1>9. ModesKept'
  BY DEF ModesKept
<1>10. SyncNumbers'
  BY <1>2 DEF SyncNumbers, Missed, Before
<1>11. StreamNumbers'
  BY <1>1 DEF StreamNumbers
<1>12. VersionsForward'
  BY <1>2 DEF PushInv, VersionsForward, VersionsOrdered
<1>. QED  BY <1>6, <1>7, <1>8, <1>9, <1>10, <1>11, <1>12 DEF PushInv

-----------------------------------------------------------------------------
(* A state changes at the server.                                           *)

LEMMA ChangeKeeps ==
    ASSUME PushInv, UNCHANGED streamCapable, NEW e \in Elements, StateChange(e)
    PROVE  PushInv'
<1> DEFINE new == [seq |-> mail.next, updates |-> {[element |-> e, version |-> remote'[e]]}]
<1>1. /\ UNCHANGED <<alive, registered, pending, leaked, reloads, poll, data, heard>>
      /\ UNCHANGED <<pc, named, lastSeq, answer, gapSeen, got>>
      /\ remote' = [remote EXCEPT ![e] = @ + 1] /\ remote[e] < MaxVersion
  BY DEF StateChange, loopVars
<1>2. /\ mail \in Mailbox(Update) /\ mail.batches \in Seq(Batch(Update))
      /\ mail.next \in Nat /\ mail.next <= MaxSeq /\ MaxSeq \in Nat /\ MaxSeq # 0
      /\ Len(mail.batches) \in Nat /\ answer \in Seq(Batch(Update))
      /\ remote \in [Elements -> 1..MaxVersion] /\ heard \in [Elements -> 1..MaxVersion]
      /\ lastSeq \in 0..MaxSeq /\ got \in SUBSET (1..MaxSeq) /\ streamCapable \in BOOLEAN
  BY PushFacts
<1>3. /\ remote' \in [Elements -> 1..MaxVersion]
      /\ \A x \in Elements : remote[x] <= remote'[x]
      /\ remote'[e] = remote[e] + 1 /\ MaxVersion \in Nat
  BY <1>1, <1>2, PushClientAssumption
<1>4. \/ mail' = mail
      \/ /\ QueueOK(mail') /\ Orderly(mail') /\ mail'.next = mail.next + 1
         /\ Oldest(mail) <= Oldest(mail') /\ mail.next < MaxSeq
         /\ mail'.batches \in Seq(Batch(Update))
         /\ \E kept \in Seq(Batch(Update)) :
               Suffix(kept, mail.batches) /\ mail'.batches = Append(kept, new)
  <2>1. CASE mail' = mail
    BY <2>1
  <2>2. CASE mail' # mail
    <3>1. mail.next < MaxSeq /\ mail' = Enqueue(mail, new.updates)
      BY <2>2 DEF StateChange
    <3>2. new.updates \in SUBSET Update
      BY <1>3 DEF Update
    <3>. HIDE DEF Update, Batch, Mailbox
    <3>3. QueueOK(mail) /\ new = [seq |-> mail.next, updates |-> new.updates]
      BY DEF PushInv
    <3>. HIDE DEF new
    <3>4. /\ QueueOK(mail') /\ Orderly(mail') /\ mail'.next = mail.next + 1
          /\ Oldest(mail) <= Oldest(mail')
          /\ \E kept \in Seq(Batch(Update)) :
                Suffix(kept, mail.batches) /\ mail'.batches = Append(kept, new)
      BY <3>1, <3>2, <3>3, QueueChange
    <3>5. mail'.batches \in Seq(Batch(Update))
      BY <3>4 DEF QueueOK, Mailbox
    <3>. QED  BY <3>1, <3>4, <3>5
  <2>. QED  BY <2>1, <2>2
<1>5. \A n \in Int : Before(n, mail) => Before(n, mail')
  <2>1. CASE mail' = mail
    BY <2>1
  <2>2. CASE mail.next < MaxSeq /\ mail'.next = mail.next + 1
    <3>. HIDE DEF new
    <3>. QED  BY <1>2, <2>2 DEF Before
  <2>. QED  BY <1>4, <2>1, <2>2
<1>6. QueueOK(mail)'
  BY <1>4 DEF PushInv
<1>7. TypeOK'
  <2>1. TypeOK /\ mail' \in Mailbox(Update)
    BY <1>6 DEF PushInv, QueueOK
  <2>. HIDE DEF Update, Batch, Mailbox
  <2>. QED  BY <1>1, <1>3, <2>1 DEF TypeOK
<1>8. (HeldByClient <= MaxPerClient)' /\ ModesKept'
  BY <1>1 DEF PushInv, HeldByClient, ModesKept
<1>. HIDE DEF new
<1>9. SyncNumbers'
  <2>1. CASE streamCapable
    BY <2>1 DEF SyncNumbers
  <2>2. CASE ~streamCapable
    <3>1. \A i \in DOMAIN answer : answer[i].seq \in Int
      BY AnswerNumbers
    <3>2. SyncNumbers /\ lastSeq \in Int
      BY <1>2 DEF PushInv
    <3>3. Before(lastSeq, mail')
      BY <1>5, <2>2, <3>2 DEF SyncNumbers
    <3>4. \A i \in DOMAIN answer : Before(answer[i].seq, mail')
      BY <1>5, <2>2, <3>1, <3>2 DEF SyncNumbers
    <3>5. Missed' <=> Missed
      BY <1>1 DEF Missed
    <3>. QED  BY <1>1, <2>2, <3>2, <3>3, <3>4, <3>5 DEF SyncNumbers
  <2>. QED  BY <2>1, <2>2
<1>10. StreamNumbers'
  <2>1. CASE ~streamCapable
    BY <2>1 DEF StreamNumbers
  <2>2. CASE streamCapable
    <3>1. StreamNumbers
      BY DEF PushInv
    <3>2. \A n \in Int : n < Oldest(mail) => n < Oldest(mail')
      <4>1. CASE mail' = mail
        BY <4>1
      <4>2. CASE mail' # mail
        <5>1. Oldest(mail) <= Oldest(mail') /\ mail'.next = mail.next + 1 /\ Len(mail'.batches) \in Nat
          BY <1>4, <4>2
        <5>2. Oldest(mail) \in Int /\ Oldest(mail') \in Int
          BY <1>2, <5>1 DEF Oldest
        <5>. QED  BY <5>1, <5>2
      <4>. QED  BY <4>1, <4>2
    <3>3. \A i \in DOMAIN answer : answer[i].seq \in Int
      BY AnswerNumbers
    <3>4. \A n \in got : n \in Int
      BY <1>2
    <3>5. lastSeq = 0 /\ Orderly(mail')
      BY <1>4, <2>2, <3>1 DEF StreamNumbers
    <3>6. /\ \A n \in got : n < Oldest(mail') /\ \A i \in DOMAIN answer : n < answer[i].seq
          /\ \A i \in DOMAIN answer : answer[i].seq < Oldest(mail')
      BY <2>2, <3>1, <3>2, <3>3, <3>4 DEF StreamNumbers
    <3>. QED  BY <1>1, <2>2, <3>1, <3>5, <3>6 DEF StreamNumbers
  <2>. QED  BY <1>2, <2>1, <2>2
<1>11. VersionsForward'
  <2>1. VersionsForward
    BY DEF PushInv
  <2>2. VersionsOrdered(mail.batches, remote') /\ VersionsOrdered(answer, remote')
    BY <1>2, <1>3, <2>1, OrderedGrows DEF VersionsForward
  <2>3. \A x \in Elements : heard[x] <= remote'[x]
    <3>1. TAKE x \in Elements
    <3>2. heard[x] <= remote[x] /\ remote[x] <= remote'[x]
      BY <1>3, <2>1 DEF VersionsForward
    <3>3. heard[x] \in Int /\ remote[x] \in Int /\ remote'[x] \in Int
      BY <1>2, <1>3
    <3>. QED  BY <3>2, <3>3
  <2>4. CASE mail' = mail
    BY <1>1, <2>1, <2>2, <2>3, <2>4 DEF VersionsForward
  <2>5. CASE mail' # mail
    <3>1. PICK kept \in Seq(Batch(Update)) :
             Suffix(kept, mail.batches) /\ mail'.batches = Append(kept, new)
      BY <1>4, <2>5
    <3>2. PICK k \in Nat : \A i \in DOMAIN kept : /\ i + k \in DOMAIN mail.batches
                                                  /\ kept[i] = mail.batches[i + k]
      BY <3>1 DEF Suffix
    <3>3. /\ DOMAIN kept = 1..Len(kept) /\ Len(kept) \in Nat
          /\ DOMAIN mail'.batches = 1..(Len(kept) + 1)
          /\ mail'.batches[Len(kept) + 1] = new
          /\ \A i \in DOMAIN kept : mail'.batches[i] = kept[i]
      BY <3>1 DEF new
    <3>4. \A i \in 1..(Len(kept) + 1) : i \in DOMAIN kept \/ i = Len(kept) + 1
      BY <3>3
    <3>5. /\ new.updates = {[element |-> e, version |-> remote'[e]]}
          /\ \A w \in new.updates : w.element = e /\ w.version = remote'[e]
      BY DEF new
    <3>6. VersionsOrdered(mail'.batches, remote')
      <4>1. VersionsOrdered(kept, remote')
        BY <1>2, <2>2, <3>1, OrderedSuffix
      <4>2. ASSUME NEW i \in DOMAIN mail'.batches, NEW u \in mail'.batches[i].updates
            PROVE  u.version <= remote'[u.element]
        <5>1. CASE i \in DOMAIN kept
          BY <3>3, <4>1, <4>2, <5>1 DEF VersionsOrdered
        <5>2. CASE i = Len(kept) + 1
          <6>1. u.element = e /\ u.version = remote'[e] /\ remote'[e] \in Int
            BY <1>2, <1>3, <3>3, <3>5, <4>2, <5>2
          <6>. QED  BY <6>1
        <5>. QED  BY <3>3, <3>4, <4>2, <5>1, <5>2
      <4>3. ASSUME NEW i \in DOMAIN mail'.batches, NEW j \in DOMAIN mail'.batches,
                   NEW u \in mail'.batches[i].updates, NEW w \in mail'.batches[j].updates,
                   i < j, u.element = w.element
            PROVE  u.version <= w.version
        <5>1. i \in DOMAIN kept
          BY <3>3, <4>3
        <5>2. CASE j \in DOMAIN kept
          BY <3>3, <4>1, <4>3, <5>1, <5>2 DEF VersionsOrdered
        <5>3. CASE j = Len(kept) + 1
          <6>1. w.element = e /\ w.version = remote'[e]
            BY <3>3, <3>5, <4>3, <5>3
          <6>2. u.version <= remote'[u.element]
            BY <4>2, <4>3
          <6>. QED  BY <4>3, <6>1, <6>2
        <5>. QED  BY <3>3, <3>4, <4>3, <5>2, <5>3
      <4>. QED  BY <4>2, <4>3 DEF VersionsOrdered
    <3>7. \A i \in DOMAIN answer : \A u \in answer[i].updates : heard[u.element] <= u.version
      BY <2>1 DEF VersionsForward
    <3>8. ASSUME NEW j \in DOMAIN mail'.batches, NEW w \in mail'.batches[j].updates
          PROVE  /\ mail'.batches[j].seq > lastSeq => heard[w.element] <= w.version
                 /\ \A i \in DOMAIN answer : \A u \in answer[i].updates :
                       mail'.batches[j].seq > LastOf(answer) /\ u.element = w.element
                           => u.version <= w.version
      <4>1. CASE j \in DOMAIN kept
        <5>1. j + k \in DOMAIN mail.batches /\ mail'.batches[j] = mail.batches[j + k]
          BY <3>2, <3>3, <4>1
        <5>. QED  BY <2>1, <3>8, <5>1 DEF VersionsForward
      <4>2. CASE j = Len(kept) + 1
        <5>1. w.element = e /\ w.version = remote'[e]
          BY <3>3, <3>5, <3>8, <4>2
        <5>2. heard[e] <= remote'[e]
          BY <2>3
        <5>3. \A i \in DOMAIN answer : \A u \in answer[i].updates : u.version <= remote'[u.element]
          BY <2>2 DEF VersionsOrdered
        <5>. QED  BY <5>1, <5>2, <5>3
      <4>. QED  BY <3>3, <3>4, <3>8, <4>1, <4>2
    <3>. QED  BY <1>1, <2>2, <2>3, <3>6, <3>7, <3>8 DEF VersionsForward
  <2>. QED  BY <2>4, <2>5
<1>. QED  BY <1>6, <1>7, <1>8, <1>9, <1>10, <1>11 DEF PushInv

-----------------------------------------------------------------------------
(* sync.                                                                    *)

LEMMA SyncKeeps ==
    ASSUME PushInv, UNCHANGED streamCapable, SyncServed
    PROVE  PushInv'
<1> DEFINE cur == IF registered THEN CurrentValues ELSE {}
           new == [seq |-> mail.next, updates |-> cur]
<1>1. /\ UNCHANGED <<remote, alive, registered, pending, leaked, reloads, named, lastSeq>>
      /\ UNCHANGED <<gapSeen, got, poll, data, heard>>
      /\ mail' = Numbered(Synced(mail, AckToSend, cur)) /\ answer' = mail'.batches
      /\ pc = "sync" /\ pc' = "synced"
  BY DEF SyncServed, Goto
<1>2. /\ mail \in Mailbox(Update) /\ mail.batches \in Seq(Batch(Update))
      /\ mail.next \in Nat /\ mail.next <= MaxSeq /\ MaxSeq \in Nat /\ MaxSeq # 0
      /\ remote \in [Elements -> 1..MaxVersion] /\ heard \in [Elements -> 1..MaxVersion]
      /\ lastSeq \in 0..MaxSeq /\ got \in SUBSET (1..MaxSeq) /\ gapSeen \in BOOLEAN
  BY PushFacts
<1>3. TypeOK /\ ModesKept /\ ~streamCapable /\ SyncNumbers /\ VersionsForward /\ QueueOK(mail)
  BY <1>1 DEF PushInv, ModesKept
<1>4. /\ cur \in SUBSET Update
      /\ \A u \in cur : u.element \in Elements /\ u.version = remote[u.element]
  BY <1>2 DEF CurrentValues, Update
<1>5. /\ QueueOK(mail') /\ mail.next <= mail'.next
      /\ \/ /\ Suffix(mail'.batches, mail.batches)
            /\ \A i \in DOMAIN mail'.batches : mail'.batches[i].seq > AckToSend
         \/ mail'.batches = <<new>>
  <2>1. AckToSend \in (1..MaxSeq) \cup {NoAck}
    BY <1>2 DEF AckToSend
  <2>. HIDE DEF cur, Update
  <2>. QED  BY <1>1, <1>3, <1>4, <2>1, QueueSync DEF new
<1>. HIDE DEF new, cur
<1>6. /\ mail'.batches \in Seq(Batch(Update)) /\ mail'.next \in Nat
      /\ mail' \in Mailbox(Update) /\ mail'.next <= MaxSeq
      /\ \A i \in DOMAIN mail'.batches :
            /\ mail'.batches[i].seq \in 1..MaxSeq
            /\ mail'.batches[i].seq = mail'.batches[1].seq + i - 1
            /\ Before(mail'.batches[i].seq, mail')
  BY <1>5, QueueNumbers DEF QueueOK
<1>7. TypeOK'
  <2>1. pc' \in Answered
    BY <1>1 DEF Answered
  <2>. HIDE DEF Update, Batch, Mailbox
  <2>. QED  BY <1>1, <1>3, <1>6, <2>1 DEF TypeOK
<1>8. (HeldByClient <= MaxPerClient)' /\ ModesKept'
  BY <1>1, <1>3 DEF PushInv, HeldByClient, ModesKept
<1>9. lastSeq < mail.next \/ (lastSeq = MaxSeq /\ mail.next = MaxSeq)
  BY <1>3 DEF SyncNumbers, Before
<1>10. /\ \A i \in DOMAIN mail'.batches :
             \/ mail'.batches[i].seq > lastSeq
             \/ Len(mail'.batches) = 1 /\ mail'.batches[i].seq = MaxSeq /\ lastSeq = MaxSeq
       /\ \A i \in DOMAIN mail'.batches : \A u \in mail'.batches[i].updates :
             heard[u.element] <= u.version
       /\ VersionsOrdered(mail'.batches, remote)
  <2>1. CASE mail'.batches = <<new>>
    <3>1. /\ DOMAIN mail'.batches = {1} /\ Len(mail'.batches) = 1 /\ mail'.batches[1] = new
          /\ new.seq = mail.next /\ new.updates = cur
      BY <2>1 DEF new
    <3>2. \A i \in DOMAIN mail'.batches :
             \/ mail'.batches[i].seq > lastSeq
             \/ Len(mail'.batches) = 1 /\ mail'.batches[i].seq = MaxSeq /\ lastSeq = MaxSeq
      BY <1>2, <1>9, <3>1
    <3>3. \A i \in DOMAIN mail'.batches : \A u \in mail'.batches[i].updates :
             heard[u.element] <= u.version
      BY <1>3, <1>4, <3>1 DEF VersionsForward
    <3>4. \A u \in cur : u.version <= remote[u.element]
      <4>1. TAKE u \in cur
      <4>2. u.version = remote[u.element] /\ remote[u.element] \in Int
        BY <1>2, <1>4
      <4>. QED  BY <4>2
    <3>. QED  BY <3>1, <3>2, <3>3, <3>4 DEF VersionsOrdered
  <2>2. CASE /\ Suffix(mail'.batches, mail.batches)
             /\ \A i \in DOMAIN mail'.batches : mail'.batches[i].seq > AckToSend
    <3>1. VersionsOrdered(mail'.batches, remote)
      BY <1>2, <1>3, <1>6, <2>2, OrderedSuffix DEF VersionsForward
    <3>2. \A i \in DOMAIN mail'.batches : mail'.batches[i].seq > lastSeq
      <4>1. CASE lastSeq = 0
        BY <1>6, <4>1
      <4>2. CASE lastSeq # 0
        BY <2>2, <4>2 DEF AckToSend
      <4>. QED  BY <4>1, <4>2
    <3>3. PICK k \in Nat : \A i \in DOMAIN mail'.batches :
             i + k \in DOMAIN mail.batches /\ mail'.batches[i] = mail.batches[i + k]
      BY <2>2 DEF Suffix
    <3>4. ASSUME NEW i \in DOMAIN mail'.batches, NEW u \in mail'.batches[i].updates
          PROVE  heard[u.element] <= u.version
      <4>1. /\ i + k \in DOMAIN mail.batches /\ u \in mail.batches[i + k].updates
            /\ mail.batches[i + k].seq > lastSeq
        BY <3>2, <3>3, <3>4
      <4>. QED  BY <1>3, <4>1 DEF VersionsForward
    <3>. QED  BY <3>1, <3>2, <3>4
  <2>. QED  BY <1>5, <2>1, <2>2
<1>11. SyncNumbers'
  <2>1. Before(lastSeq, mail')
    BY <1>2, <1>5, <1>6, <1>9 DEF Before
  <2>2. Missed' <=> Missed
    BY <1>1 DEF Missed
  <2>. QED  BY <1>1, <1>3, <1>6, <1>10, <2>1, <2>2 DEF SyncNumbers
<1>12. StreamNumbers'
  BY <1>3 DEF StreamNumbers
<1>13. VersionsForward'
  <2>1. ASSUME NEW j \in DOMAIN mail'.batches PROVE ~(mail'.batches[j].seq > LastOf(mail'.batches))
    <3>1. Len(mail'.batches) \in DOMAIN mail'.batches /\ j <= Len(mail'.batches)
      BY <1>6, <2>1
    <3>2. /\ LastOf(mail'.batches) = mail'.batches[1].seq + Len(mail'.batches) - 1
          /\ mail'.batches[j].seq = mail'.batches[1].seq + j - 1
      BY <1>6, <2>1, <3>1 DEF LastOf
    <3>3. mail'.batches[1].seq \in Int /\ j \in Int /\ Len(mail'.batches) \in Int
      BY <1>6, <2>1
    <3>. QED  BY <3>1, <3>2, <3>3
  <2>. QED  BY <1>1, <1>3, <1>10, <2>1 DEF VersionsForward
<1>. QED  BY <1>5, <1>7, <1>8, <1>11, <1>12, <1>13 DEF PushInv

\* What an answer that is applied does to what was heard: it stays behind the states
\* that are still to come.
LEMMA HeardAfter ==
    ASSUME NEW b \in Seq(Batch(Update)),
           NEW h \in [Elements -> 1..MaxVersion], NEW r \in [Elements -> 1..MaxVersion],
           \A e \in Elements : h[e] <= r[e], VersionsOrdered(b, r)
    PROVE  \A e \in Elements : Applied(h, b)[e] <= r[e]
<1>1. TAKE e \in Elements
<1>2. CASE Applied(h, b)[e] = h[e]
  BY <1>2
<1>3. ASSUME NEW i \in DOMAIN b, NEW u \in b[i].updates,
             u.element = e, Applied(h, b)[e] = u.version
      PROVE  Applied(h, b)[e] <= r[e]
  BY <1>3 DEF VersionsOrdered
<1>4. \/ Applied(h, b)[e] = h[e]
      \/ \E i \in DOMAIN b : \E u \in b[i].updates : u.element = e /\ Applied(h, b)[e] = u.version
  <2>. HIDE DEF Applied, Update, Batch
  <2>. QED  BY AppliedMeans
<1>. QED  BY <1>2, <1>3, <1>4

LEMMA AnswerKeeps ==
    ASSUME PushInv, UNCHANGED streamCapable, SyncAnswered
    PROVE  PushInv'
<1> DEFINE l == Len(answer)
<1>1. /\ UNCHANGED <<remote, alive, registered, mail, pending, leaked, reloads, named, poll>>
      /\ gapSeen' = (gapSeen \/ Gap(lastSeq, answer))
      /\ data' = Applied(data, answer) /\ heard' = Applied(heard, answer)
      /\ got' = got \cup Numbers(answer)
      /\ lastSeq' = IF answer = <<>> THEN lastSeq ELSE answer[Len(answer)].seq
      /\ answer' = <<>> /\ pc = "synced" /\ pc' = "pause"
  BY DEF SyncAnswered, Goto, serverVars
<1>2. /\ mail.next \in Nat /\ mail.next <= MaxSeq /\ MaxSeq \in Nat /\ MaxSeq # 0
      /\ answer \in Seq(Batch(Update)) /\ mail.batches \in Seq(Batch(Update))
      /\ remote \in [Elements -> 1..MaxVersion] /\ heard \in [Elements -> 1..MaxVersion]
      /\ lastSeq \in 0..MaxSeq /\ got \in SUBSET (1..MaxSeq) /\ gapSeen \in BOOLEAN
  BY PushFacts
<1>3. TypeOK /\ ModesKept /\ ~streamCapable /\ SyncNumbers /\ VersionsForward /\ QueueOK(mail)
  BY <1>1 DEF PushInv, ModesKept
<1>4. \A i \in DOMAIN answer : answer[i].seq \in 1..MaxSeq
  BY AnswerNumbers
<1>5. l \in Nat /\ DOMAIN answer = 1..l /\ (answer # <<>> => l \in 1..l /\ 1 \in 1..l)
  BY <1>2
<1>. HIDE DEF l
<1>6. /\ got \subseteq 1..lastSeq
      /\ lastSeq # 0 => lastSeq \in got
      /\ gapSeen <=> Missed
      /\ \A i \in 1..l :
            /\ answer[i].seq = answer[1].seq + i - 1
            /\ \/ answer[i].seq > lastSeq
               \/ l = 1 /\ answer[i].seq = MaxSeq /\ lastSeq = MaxSeq
            /\ Before(answer[i].seq, mail)
      /\ Before(lastSeq, mail)
  BY <1>3, <1>5 DEF SyncNumbers, l
<1>7. lastSeq' \in 0..MaxSeq /\ lastSeq <= lastSeq' /\ (answer # <<>> => lastSeq' = answer[l].seq)
  <2>1. CASE answer = <<>>
    BY <1>1, <1>2, <2>1
  <2>2. CASE answer # <<>>
    <3>1. lastSeq' = answer[l].seq /\ answer[l].seq \in 1..MaxSeq
      BY <1>1, <1>4, <1>5, <2>2 DEF l
    <3>2. answer[l].seq > lastSeq \/ answer[l].seq = lastSeq
      BY <1>5, <1>6, <2>2
    <3>. QED  BY <1>2, <2>2, <3>1, <3>2
  <2>. QED  BY <2>1, <2>2
<1>8. /\ data' \in [Elements -> 1..MaxVersion] /\ heard' \in [Elements -> 1..MaxVersion]
      /\ got' \in SUBSET (1..MaxSeq) /\ gapSeen' \in BOOLEAN
  <2>1. data \in [Elements -> 1..MaxVersion]
    BY <1>3 DEF TypeOK
  <2>2. data' \in [Elements -> 1..MaxVersion] /\ heard' \in [Elements -> 1..MaxVersion]
    <3>. HIDE DEF Applied, Update, Batch
    <3>. QED  BY <1>1, <1>2, <2>1, AppliedMeans
  <2>3. Numbers(answer) \in SUBSET (1..MaxSeq)
    BY <1>4 DEF Numbers
  <2>. QED  BY <1>1, <1>2, <2>2, <2>3
<1>9. TypeOK'
  <2>1. <<>> \in Seq(Batch(Update))
    OBVIOUS
  <2>. HIDE DEF Update, Batch, Mailbox
  <2>. QED  BY <1>1, <1>3, <1>7, <1>8, <2>1 DEF TypeOK
<1>10. (HeldByClient <= MaxPerClient)' /\ ModesKept' /\ QueueOK(mail)'
  BY <1>1, <1>3 DEF PushInv, HeldByClient, ModesKept
<1>11. /\ got' \subseteq 1..lastSeq' /\ (lastSeq' # 0 => lastSeq' \in got')
       /\ Before(lastSeq', mail)
  <2>1. CASE answer = <<>>
    <3>1. Numbers(answer) = {}
      BY <2>1 DEF Numbers
    <3>. QED  BY <1>1, <1>6, <2>1, <3>1
  <2>2. CASE answer # <<>>
    <3>1. lastSeq' = answer[l].seq /\ l \in 1..l
      BY <1>5, <1>7, <2>2
    <3>2. lastSeq' \in Numbers(answer) /\ Before(lastSeq', mail)
      BY <1>5, <1>6, <3>1 DEF Numbers
    <3>3. ASSUME NEW i \in 1..l PROVE answer[i].seq \in 1..lastSeq'
      <4>1. answer[i].seq = answer[1].seq + i - 1 /\ answer[l].seq = answer[1].seq + l - 1
        BY <1>6, <3>1, <3>3
      <4>2. answer[i].seq \in 1..MaxSeq /\ answer[l].seq \in 1..MaxSeq /\ answer[1].seq \in 1..MaxSeq
        BY <1>4, <1>5, <2>2, <3>3
      <4>. QED  BY <1>2, <1>5, <3>1, <3>3, <4>1, <4>2
    <3>4. Numbers(answer) \subseteq 1..lastSeq'
      BY <1>5, <3>3 DEF Numbers
    <3>5. got \subseteq 1..lastSeq'
      BY <1>2, <1>6, <1>7
    <3>. QED  BY <1>1, <3>2, <3>4, <3>5
  <2>. QED  BY <2>1, <2>2
<1>12. gapSeen' <=> Missed'
  <2>1. CASE answer = <<>>
    <3>1. Numbers(answer) = {} /\ ~Gap(lastSeq, answer)
      BY <2>1 DEF Numbers, Gap
    <3>2. got' = got /\ lastSeq' = lastSeq /\ gapSeen' = gapSeen
      BY <1>1, <1>2, <2>1, <3>1
    <3>. QED  BY <1>6, <3>2 DEF Missed
  <2>2. CASE answer # <<>>
    <3> DEFINE f == answer[1].seq
    <3>1. /\ f \in 1..MaxSeq /\ lastSeq' = answer[l].seq /\ l \in 1..l /\ 1 \in 1..l
          /\ \A i \in 1..l : answer[i].seq = f + i - 1
      BY <1>4, <1>5, <1>6, <1>7, <2>2
    <3>2. Gap(lastSeq, answer) <=> lastSeq # 0 /\ f > lastSeq + 1
      BY <2>2 DEF Gap
    <3>3. got' = got \cup Numbers(answer) /\ (gapSeen' <=> gapSeen \/ Gap(lastSeq, answer))
      BY <1>1
    <3>. HIDE DEF f
    <3>4. \A n \in Numbers(answer) : n \in Nat /\ (n > lastSeq \/ (n = MaxSeq /\ lastSeq = MaxSeq))
      BY <1>2, <1>4, <1>5, <1>6 DEF Numbers
    <3>5. \A n \in Numbers(answer) : f <= n
      BY <1>5, <3>1 DEF Numbers, f
    <3>6. \A n \in f..lastSeq' : n \in Numbers(answer)
      <4>1. TAKE n \in f..lastSeq'
      <4>2. lastSeq' = f + l - 1
        BY <3>1
      <4>3. n - f + 1 \in 1..l /\ f + (n - f + 1) - 1 = n
        BY <1>5, <3>1, <4>2
      <4>4. answer[n - f + 1].seq = n
        BY <3>1, <4>3
      <4>. QED  BY <1>5, <4>3, <4>4 DEF Numbers
    <3>7. ASSUME gapSeen' PROVE Missed'
      <4>1. CASE gapSeen
        <5>1. PICK n \in 1..lastSeq : n \notin got /\ \E m \in got : m < n
          BY <1>6, <4>1 DEF Missed
        <5>2. lastSeq # n
          BY <1>6, <5>1
        <5>3. n \notin Numbers(answer)
          BY <1>2, <3>4, <5>1, <5>2
        <5>4. n \in 1..lastSeq'
          BY <1>2, <1>7
        <5>. QED  BY <3>3, <5>1, <5>3, <5>4 DEF Missed
      <4>2. CASE Gap(lastSeq, answer)
        <5>1. lastSeq # 0 /\ f > lastSeq + 1 /\ lastSeq \in got
          BY <1>6, <3>2, <4>2
        <5>2. lastSeq + 1 \notin got /\ lastSeq + 1 \notin Numbers(answer)
          BY <1>2, <1>6, <3>1, <3>5, <5>1
        <5>3. lastSeq + 1 \in 1..lastSeq'
          <6>1. f \in Numbers(answer)
            BY <1>5, <3>1 DEF Numbers, f
          <6>2. f <= lastSeq'
            BY <1>5, <3>1
          <6>. QED  BY <1>2, <1>7, <3>1, <5>1, <6>2
        <5>4. lastSeq \in got' /\ lastSeq < lastSeq + 1 /\ lastSeq + 1 \notin got'
          BY <1>2, <3>3, <5>1, <5>2
        <5>. QED  BY <5>3, <5>4 DEF Missed
      <4>. QED  BY <3>3, <3>7, <4>1, <4>2
    <3>8. ASSUME Missed' PROVE gapSeen'
      <4>1. PICK n \in 1..lastSeq', m \in got' : n \notin got' /\ m < n
        BY <3>8 DEF Missed
      <4>2. n \in Int /\ m \in Int /\ n >= 1
        BY <1>7, <1>8, <4>1
      <4>3. n \notin got /\ n \notin Numbers(answer)
        BY <3>3, <4>1
      <4>4. n < f
        BY <1>7, <3>1, <3>6, <4>1, <4>3
      <4>5. m \in got
        BY <3>1, <3>3, <3>5, <4>1, <4>2, <4>4
      <4>6. CASE n <= lastSeq
        <5>1. n \in 1..lastSeq
          BY <1>2, <4>2, <4>6
        <5>. QED  BY <1>6, <3>3, <4>1, <4>3, <4>5, <5>1 DEF Missed
      <4>7. CASE n > lastSeq
        <5>1. lastSeq # 0
          BY <1>2, <1>6, <4>5
        <5>2. f > lastSeq + 1
          BY <1>2, <3>1, <4>2, <4>4, <4>7
        <5>. QED  BY <3>2, <3>3, <5>1, <5>2
      <4>. QED  BY <1>2, <4>2, <4>6, <4>7
    <3>. QED  BY <3>7, <3>8
  <2>. QED  BY <2>1, <2>2
<1>13. SyncNumbers'
  BY <1>1, <1>11, <1>12 DEF SyncNumbers
<1>14. StreamNumbers'
  BY <1>1, <1>3 DEF StreamNumbers
<1>15. VersionsForward'
  <2>1. \A e \in Elements : heard'[e] <= remote[e]
    <3>. HIDE DEF Applied, Update, Batch
    <3>. QED  BY <1>1, <1>2, <1>3, HeardAfter DEF VersionsForward
  <2>2. ASSUME NEW j \in DOMAIN mail.batches, NEW w \in mail.batches[j].updates,
               mail.batches[j].seq > lastSeq'
        PROVE  heard'[w.element] <= w.version
    <3>1. w.element \in Elements /\ mail.batches[j].seq \in Nat
      BY <1>2, <2>2, Reports
    <3>2. mail.batches[j].seq > lastSeq
      BY <1>2, <1>7, <2>2, <3>1
    <3>3. CASE heard'[w.element] = heard[w.element]
      BY <1>3, <2>2, <3>2, <3>3 DEF VersionsForward
    <3>4. ASSUME NEW i \in DOMAIN answer, NEW u \in answer[i].updates,
                 u.element = w.element, heard'[w.element] = u.version
          PROVE  heard'[w.element] <= w.version
      <4>1. answer # <<>>
        BY <1>5, <3>4
      <4>2. mail.batches[j].seq > LastOf(answer)
        BY <1>7, <2>2, <4>1 DEF LastOf, l
      <4>. QED  BY <1>3, <2>2, <3>4, <4>2 DEF VersionsForward
    <3>5. \/ heard'[w.element] = heard[w.element]
          \/ \E i \in DOMAIN answer : \E u \in answer[i].updates :
                u.element = w.element /\ heard'[w.element] = u.version
      <4>. HIDE DEF Applied, Update, Batch
      <4>. QED  BY <1>1, <1>2, <3>1, AppliedMeans
    <3>. QED  BY <3>3, <3>4, <3>5
  <2>3. VersionsOrdered(<<>>, remote)
    BY DEF VersionsOrdered
  <2>. QED  BY <1>1, <1>3, <2>1, <2>2, <2>3 DEF VersionsForward
<1>. QED  BY <1>9, <1>10, <1>13, <1>14, <1>15 DEF PushInv

-----------------------------------------------------------------------------
(* The stream.                                                              *)

LEMMA SentKeeps ==
    ASSUME PushInv, UNCHANGED streamCapable, StreamSent
    PROVE  PushInv'
<1> DEFINE b == mail.batches
           a == answer
           m == Len(a)
           n == Len(b)
<1>1. /\ UNCHANGED <<remote, alive, registered, pending, leaked, reloads, pc, named>>
      /\ UNCHANGED <<lastSeq, gapSeen, got, poll, data, heard>>
      /\ answer' = a \o b /\ mail' = Drained(mail) /\ pc = "streaming"
  BY DEF StreamSent
<1>2. /\ mail \in Mailbox(Update) /\ b \in Seq(Batch(Update))
      /\ mail.next \in Nat /\ mail.next <= MaxSeq /\ MaxSeq \in Nat /\ MaxSeq # 0
      /\ a \in Seq(Batch(Update)) /\ n \in Nat
      /\ remote \in [Elements -> 1..MaxVersion] /\ heard \in [Elements -> 1..MaxVersion]
      /\ lastSeq \in 0..MaxSeq /\ got \in SUBSET (1..MaxSeq)
  BY PushFacts
<1>3. TypeOK /\ ModesKept /\ streamCapable /\ StreamNumbers /\ VersionsForward /\ QueueOK(mail)
  BY <1>1 DEF PushInv, ModesKept
<1>4. /\ mail' \in Mailbox(Update) /\ Orderly(mail') /\ mail'.next = mail.next
      /\ mail'.batches = <<>> /\ Oldest(mail') = mail.next
  <2>1. mail' \in Mailbox(Update) /\ Orderly(mail') /\ mail'.next = mail.next /\ mail'.batches = <<>>
    BY <1>1, <1>2, DrainedOrderly DEF Drained
  <2>. QED  BY <1>2, <2>1 DEF Oldest
<1>5. QueueOK(mail)'
  BY <1>2, <1>4 DEF QueueOK
<1>6. \A i \in DOMAIN a : a[i].seq \in Nat
  BY AnswerNumbers
<1>7. /\ lastSeq = 0 /\ Orderly(mail)
      /\ \A x \in got : x < Oldest(mail) /\ \A i \in DOMAIN a : x < a[i].seq
      /\ \A i, j \in DOMAIN a : i < j => a[i].seq < a[j].seq
      /\ \A i \in DOMAIN a : a[i].seq < Oldest(mail)
  BY <1>3 DEF StreamNumbers
<1>8. /\ \A i \in DOMAIN b : /\ b[i].seq \in Nat /\ Oldest(mail) <= b[i].seq /\ b[i].seq < mail.next
                             /\ b[i].seq = b[1].seq + i - 1
      /\ Oldest(mail) \in Int /\ Oldest(mail) <= mail.next
  <2>1. \A i \in DOMAIN b : /\ b[i].seq \in 1..MaxSeq /\ Oldest(mail) <= b[i].seq
                            /\ b[i].seq < mail.next /\ b[i].seq = b[1].seq + i - 1
    BY <1>3, <1>7, QueueNumbers
  <2>2. Oldest(mail) \in Int /\ Oldest(mail) <= mail.next
    <3>1. Oldest(mail) = mail.next - n
      BY DEF Oldest
    <3>. HIDE DEF n
    <3>. QED  BY <1>2, <3>1
  <2>. QED  BY <2>1, <2>2
<1>. HIDE DEF a, b
<1>9. /\ answer' \in Seq(Batch(Update)) /\ m \in Nat
      /\ DOMAIN a = 1..m /\ DOMAIN b = 1..n /\ DOMAIN answer' = 1..(m + n)
      /\ \A i \in 1..(m + n) : answer'[i] = IF i <= m THEN a[i] ELSE b[i - m]
  <2>1. answer' \in Seq(Batch(Update)) /\ m \in Nat /\ DOMAIN a = 1..m /\ DOMAIN b = 1..n
    BY <1>1, <1>2
  <2>2. Len(answer') = m + n /\ DOMAIN answer' = 1..(m + n)
    BY <1>1, <1>2, <2>1
  <2>3. \A i \in 1..(m + n) : answer'[i] = IF i <= m THEN a[i] ELSE b[i - m]
    BY <1>1, <1>2, <2>1
  <2>. QED  BY <2>1, <2>2, <2>3
<1>. HIDE DEF m, n
<1>10. ASSUME NEW i \in 1..(m + n)
       PROVE  \/ i \in 1..m /\ answer'[i] = a[i]
              \/ i > m /\ i - m \in 1..n /\ answer'[i] = b[i - m]
  <2>1. answer'[i] = IF i <= m THEN a[i] ELSE b[i - m]
    BY <1>9
  <2>2. IF i <= m THEN i \in 1..m ELSE i > m /\ i - m \in 1..n
    BY <1>2, <1>9
  <2>. QED  BY <2>1, <2>2
<1>11. TypeOK'
  <2>. HIDE DEF Update, Batch, Mailbox
  <2>. QED  BY <1>1, <1>3, <1>4, <1>9 DEF TypeOK
<1>12. (HeldByClient <= MaxPerClient)' /\ ModesKept'
  BY <1>1, <1>3 DEF PushInv, HeldByClient, ModesKept
<1>13. SyncNumbers'
  BY <1>3 DEF SyncNumbers
<1>14. StreamNumbers'
  <2>1. ASSUME NEW i \in 1..(m + n) PROVE answer'[i].seq \in Nat /\ answer'[i].seq < mail.next
    <3>1. CASE i \in 1..m /\ answer'[i] = a[i]
      <4>1. a[i].seq \in Nat /\ a[i].seq < Oldest(mail)
        BY <1>6, <1>7, <1>9, <3>1
      <4>. QED  BY <1>2, <1>8, <3>1, <4>1
    <3>2. CASE i > m /\ i - m \in 1..n /\ answer'[i] = b[i - m]
      BY <1>8, <1>9, <3>2
    <3>. QED  BY <1>10, <3>1, <3>2
  <2>2. ASSUME NEW x \in got PROVE x < mail.next /\ \A i \in 1..(m + n) : x < answer'[i].seq
    <3>1. x \in Nat /\ x < Oldest(mail)
      BY <1>2, <1>7
    <3>2. x < mail.next
      BY <1>2, <1>8, <3>1
    <3>3. ASSUME NEW i \in 1..(m + n) PROVE x < answer'[i].seq
      <4>1. CASE i \in 1..m /\ answer'[i] = a[i]
        BY <1>7, <1>9, <2>2, <4>1
      <4>2. CASE i > m /\ i - m \in 1..n /\ answer'[i] = b[i - m]
        <5>1. Oldest(mail) <= b[i - m].seq /\ b[i - m].seq \in Nat
          BY <1>8, <1>9, <4>2
        <5>. QED  BY <1>8, <3>1, <4>2, <5>1
      <4>. QED  BY <1>10, <4>1, <4>2
    <3>. QED  BY <3>2, <3>3
  <2>3. ASSUME NEW i \in 1..(m + n), NEW j \in 1..(m + n), i < j
        PROVE  answer'[i].seq < answer'[j].seq
    <3>1. CASE i \in 1..m /\ j \in 1..m
      <4>1. answer'[i] = a[i] /\ answer'[j] = a[j]
        BY <1>9, <3>1
      <4>. QED  BY <1>7, <1>9, <2>3, <3>1, <4>1
    <3>2. CASE i \in 1..m /\ j > m
      <4>1. answer'[i] = a[i] /\ answer'[j] = b[j - m] /\ j - m \in 1..n
        BY <1>2, <1>9, <3>2
      <4>2. a[i].seq < Oldest(mail) /\ Oldest(mail) <= b[j - m].seq
        BY <1>7, <1>8, <1>9, <3>2, <4>1
      <4>3. a[i].seq \in Nat /\ b[j - m].seq \in Nat
        BY <1>6, <1>8, <1>9, <3>2, <4>1
      <4>. QED  BY <1>8, <4>1, <4>2, <4>3
    <3>3. CASE i > m /\ j > m
      <4>1. answer'[i] = b[i - m] /\ answer'[j] = b[j - m] /\ i - m \in 1..n /\ j - m \in 1..n
        BY <1>2, <1>9, <3>3
      <4>2. b[i - m].seq = b[1].seq + (i - m) - 1 /\ b[j - m].seq = b[1].seq + (j - m) - 1
        BY <1>8, <1>9, <4>1
      <4>3. b[1].seq \in Nat
        <5>1. 1 \in 1..n
          BY <1>2, <4>1
        <5>. QED  BY <1>8, <1>9, <5>1
      <4>. QED  BY <1>9, <2>3, <4>1, <4>2, <4>3
    <3>. QED  BY <1>2, <1>9, <2>3, <3>1, <3>2, <3>3
  <2>. QED  BY <1>1, <1>4, <1>7, <1>9, <2>1, <2>2, <2>3 DEF StreamNumbers
<1>15. VersionsForward'
  <2>1. /\ VersionsOrdered(b, remote) /\ VersionsOrdered(a, remote)
        /\ \A e \in Elements : heard[e] <= remote[e]
        /\ \A i \in DOMAIN a : \A u \in a[i].updates : heard[u.element] <= u.version
        /\ \A j \in DOMAIN b : \A w \in b[j].updates :
              /\ b[j].seq > lastSeq => heard[w.element] <= w.version
              /\ \A i \in DOMAIN a : \A u \in a[i].updates :
                    b[j].seq > LastOf(a) /\ u.element = w.element => u.version <= w.version
    BY <1>3 DEF VersionsForward, a, b
  <2>2. \A j \in DOMAIN b : b[j].seq > lastSeq
    <3>1. \A j \in DOMAIN b : b[j].seq \in Nat \ {0}
      BY <1>2, Reports
    <3>. QED  BY <1>7, <3>1
  <2>3. \A j \in DOMAIN b, i \in DOMAIN a : b[j].seq > LastOf(a)
    <3>1. TAKE j \in DOMAIN b, i \in DOMAIN a
    <3>2. m \in 1..m
      BY <1>9
    <3>3. a[m].seq < Oldest(mail) /\ Oldest(mail) <= b[j].seq /\ a[m].seq \in Nat /\ b[j].seq \in Nat
      BY <1>6, <1>7, <1>8, <1>9, <3>2
    <3>. QED  BY <1>8, <3>3 DEF LastOf, m
  <2>4. VersionsOrdered(answer', remote)
    <3>1. \A i \in DOMAIN a, j \in DOMAIN b : \A u \in a[i].updates, w \in b[j].updates :
              u.element = w.element => u.version <= w.version
      BY <2>1, <2>3
    <3>. QED  BY <1>1, <1>2, <2>1, <3>1, OrderedConcat
  <2>5. ASSUME NEW i \in 1..(m + n), NEW u \in answer'[i].updates
        PROVE  heard[u.element] <= u.version
    <3>1. CASE i \in 1..m /\ answer'[i] = a[i]
      BY <1>9, <2>1, <2>5, <3>1
    <3>2. CASE i > m /\ i - m \in 1..n /\ answer'[i] = b[i - m]
      BY <1>9, <2>1, <2>2, <2>5, <3>2
    <3>. QED  BY <1>10, <3>1, <3>2
  <2>6. VersionsOrdered(mail'.batches, remote) /\ DOMAIN mail'.batches = {}
    BY <1>4 DEF VersionsOrdered
  <2>. QED  BY <1>1, <1>9, <2>1, <2>4, <2>5, <2>6 DEF VersionsForward
<1>. QED  BY <1>5, <1>11, <1>12, <1>13, <1>14, <1>15 DEF PushInv

LEMMA ReceivedKeeps ==
    ASSUME PushInv, UNCHANGED streamCapable, StreamReceived
    PROVE  PushInv'
<1> DEFINE a == answer
           one == <<Head(a)>>
<1>1. /\ UNCHANGED <<remote, alive, registered, mail, pending, leaked, reloads, pc, named>>
      /\ UNCHANGED <<lastSeq, gapSeen, poll>>
      /\ a # <<>> /\ pc = "streaming"
      /\ data' = Applied(data, one) /\ heard' = Applied(heard, one)
      /\ got' = got \cup {Head(a).seq} /\ answer' = Tail(a)
  BY DEF StreamReceived, serverVars
<1>2. /\ mail \in Mailbox(Update) /\ mail.batches \in Seq(Batch(Update))
      /\ a \in Seq(Batch(Update)) /\ MaxSeq \in Nat
      /\ remote \in [Elements -> 1..MaxVersion] /\ heard \in [Elements -> 1..MaxVersion]
      /\ lastSeq \in 0..MaxSeq /\ got \in SUBSET (1..MaxSeq)
  BY PushFacts
<1>3. TypeOK /\ ModesKept /\ streamCapable /\ StreamNumbers /\ VersionsForward /\ QueueOK(mail)
  BY <1>1 DEF PushInv, ModesKept
<1>4. \A i \in DOMAIN a : a[i].seq \in 1..MaxSeq
  BY AnswerNumbers
<1>5. /\ lastSeq = 0 /\ Orderly(mail)
      /\ \A x \in got : x < Oldest(mail) /\ \A i \in DOMAIN a : x < a[i].seq
      /\ \A i, j \in DOMAIN a : i < j => a[i].seq < a[j].seq
      /\ \A i \in DOMAIN a : a[i].seq < Oldest(mail)
  BY <1>3 DEF StreamNumbers
<1>6. /\ VersionsOrdered(mail.batches, remote) /\ VersionsOrdered(a, remote)
      /\ \A e \in Elements : heard[e] <= remote[e]
      /\ \A i \in DOMAIN a : \A u \in a[i].updates : heard[u.element] <= u.version
      /\ \A j \in DOMAIN mail.batches : \A w \in mail.batches[j].updates :
            /\ mail.batches[j].seq > lastSeq => heard[w.element] <= w.version
            /\ \A i \in DOMAIN a : \A u \in a[i].updates :
                  mail.batches[j].seq > LastOf(a) /\ u.element = w.element
                      => u.version <= w.version
  BY <1>3 DEF VersionsForward
<1>. HIDE DEF a
<1>7. /\ Len(a) \in Nat /\ 1 \in DOMAIN a /\ Len(a) \in DOMAIN a /\ Head(a) = a[1]
      /\ answer' \in Seq(Batch(Update)) /\ Len(answer') = Len(a) - 1
      /\ \A i \in DOMAIN answer' : i + 1 \in DOMAIN a /\ answer'[i] = a[i + 1]
  BY <1>1, <1>2
<1>8. one \in Seq(Batch(Update)) /\ DOMAIN one = {1} /\ one[1] = a[1]
  BY <1>2, <1>7
<1>. HIDE DEF one
<1>9. /\ data' \in [Elements -> 1..MaxVersion] /\ heard' \in [Elements -> 1..MaxVersion]
      /\ \A e \in Elements : \/ heard'[e] = heard[e]
                             \/ \E u \in a[1].updates : u.element = e /\ heard'[e] = u.version
  <2>1. data \in [Elements -> 1..MaxVersion]
    BY <1>3 DEF TypeOK
  <2>. HIDE DEF Applied, Update, Batch
  <2>2. data' \in [Elements -> 1..MaxVersion] /\ heard' \in [Elements -> 1..MaxVersion]
    BY <1>1, <1>2, <1>8, <2>1, AppliedMeans
  <2>3. ASSUME NEW e \in Elements
        PROVE  \/ heard'[e] = heard[e]
               \/ \E i \in DOMAIN one : \E u \in one[i].updates :
                     u.element = e /\ heard'[e] = u.version
    <3>1. \/ Applied(heard, one)[e] = heard[e]
          \/ \E i \in DOMAIN one : \E u \in one[i].updates :
                u.element = e /\ Applied(heard, one)[e] = u.version
      BY <1>2, <1>8, AppliedMeans
    <3>2. heard' = Applied(heard, one)
      BY <1>1
    <3>. QED  BY <3>1, <3>2
  <2>. QED  BY <1>8, <2>2, <2>3
<1>10. TypeOK'
  <2>1. got' \subseteq 1..MaxSeq
    BY <1>1, <1>2, <1>4, <1>7
  <2>. HIDE DEF Update, Batch, Mailbox
  <2>2. /\ streamCapable' \in BOOLEAN /\ alive' \in BOOLEAN /\ registered' \in BOOLEAN
        /\ named' \in BOOLEAN /\ gapSeen' \in BOOLEAN
        /\ remote' \in [Elements -> 1..MaxVersion] /\ mail' \in Mailbox(Update)
        /\ pending' \in {"none", "live", "dead"} /\ leaked' \in 0..MaxPerClient
        /\ reloads' \in 0..MaxReloads /\ lastSeq' \in 0..MaxSeq
        /\ pc' \in Sending \cup Answered \cup {"pause", "backoff", "stopped"}
        /\ poll' \in [Elements -> 1..MaxVersion] \cup {NoPoll}
    BY <1>1, <1>3 DEF TypeOK
  <2>. QED  BY <1>7, <1>9, <2>1, <2>2 DEF TypeOK
<1>11. (HeldByClient <= MaxPerClient)' /\ ModesKept' /\ QueueOK(mail)'
  BY <1>1, <1>3 DEF PushInv, HeldByClient, ModesKept
<1>12. SyncNumbers'
  BY <1>3 DEF SyncNumbers
<1>13. StreamNumbers'
  <2>1. ASSUME NEW x \in got'
        PROVE  x < Oldest(mail) /\ \A i \in DOMAIN answer' : x < answer'[i].seq
    <3>1. CASE x \in got
      BY <1>5, <1>7, <3>1
    <3>2. CASE x = a[1].seq
      <4>1. \A i \in DOMAIN answer' : i + 1 \in DOMAIN a /\ 1 < i + 1
        BY <1>7
      <4>. QED  BY <1>5, <1>7, <3>2, <4>1
    <3>. QED  BY <1>1, <1>7, <3>1, <3>2
  <2>2. ASSUME NEW i \in DOMAIN answer', NEW j \in DOMAIN answer', i < j
        PROVE  answer'[i].seq < answer'[j].seq
    <3>1. i + 1 \in DOMAIN a /\ j + 1 \in DOMAIN a /\ i + 1 < j + 1
      BY <1>7, <2>2
    <3>. QED  BY <1>5, <1>7, <3>1
  <2>3. \A i \in DOMAIN answer' : answer'[i].seq < Oldest(mail)
    BY <1>5, <1>7
  <2>. QED  BY <1>1, <1>5, <2>1, <2>2, <2>3 DEF StreamNumbers
<1>14. VersionsForward'
  <2>1. VersionsOrdered(answer', remote)
    <3>1. Suffix(answer', a)
      BY <1>7 DEF Suffix
    <3>. QED  BY <1>2, <1>6, <1>7, <3>1, OrderedSuffix
  <2>2. ASSUME NEW e \in Elements PROVE heard'[e] <= remote[e]
    <3>1. CASE heard'[e] = heard[e]
      BY <1>6, <3>1
    <3>2. ASSUME NEW u \in a[1].updates, u.element = e, heard'[e] = u.version
          PROVE  heard'[e] <= remote[e]
      BY <1>6, <1>7, <3>2 DEF VersionsOrdered
    <3>. QED  BY <1>9, <3>1, <3>2
  <2>3. ASSUME NEW i \in DOMAIN answer', NEW w \in answer'[i].updates
        PROVE  heard'[w.element] <= w.version
    <3>1. i + 1 \in DOMAIN a /\ w \in a[i + 1].updates /\ 1 \in DOMAIN a /\ 1 < i + 1
      BY <1>7, <2>3
    <3>2. w.element \in Elements
      BY <1>2, <3>1, Reports
    <3>3. CASE heard'[w.element] = heard[w.element]
      BY <1>6, <3>1, <3>3
    <3>4. ASSUME NEW u \in a[1].updates, u.element = w.element, heard'[w.element] = u.version
          PROVE  heard'[w.element] <= w.version
      BY <1>6, <3>1, <3>4 DEF VersionsOrdered
    <3>. QED  BY <1>9, <3>2, <3>3, <3>4
  <2>4. ASSUME NEW j \in DOMAIN mail.batches, NEW w \in mail.batches[j].updates
        PROVE  /\ heard'[w.element] <= w.version
               /\ \A i \in DOMAIN answer' : \A u \in answer'[i].updates :
                     u.element = w.element => u.version <= w.version
    <3>1. w.element \in Elements /\ mail.batches[j].seq \in Nat \ {0}
      BY <1>2, <2>4, Reports
    <3>2. mail.batches[j].seq > LastOf(a)
      <4>1. Oldest(mail) <= mail.batches[j].seq
        BY <1>3, <1>5, QueueNumbers
      <4>2. LastOf(a) < Oldest(mail) /\ LastOf(a) \in Int
        BY <1>4, <1>5, <1>7 DEF LastOf
      <4>3. Oldest(mail) \in Int
        <5>1. mail.next \in Int /\ Len(mail.batches) \in Int
          BY PushFacts
        <5>. QED  BY <5>1 DEF Oldest
      <4>. QED  BY <3>1, <4>1, <4>2, <4>3
    <3>3. \A i \in DOMAIN a : \A u \in a[i].updates : u.element = w.element => u.version <= w.version
      BY <1>6, <2>4, <3>2
    <3>4. heard[w.element] <= w.version
      <4>1. mail.batches[j].seq > lastSeq
        BY <1>5, <3>1
      <4>. QED  BY <1>6, <2>4, <4>1
    <3>5. heard'[w.element] <= w.version
      BY <1>7, <1>9, <3>1, <3>3, <3>4
    <3>. QED  BY <1>7, <3>3, <3>5
  <2>. QED  BY <1>1, <1>6, <2>1, <2>2, <2>3, <2>4 DEF VersionsForward
<1>. QED  BY <1>10, <1>11, <1>12, <1>13, <1>14 DEF PushInv

-----------------------------------------------------------------------------
(* The invariant, and what follows.                                         *)

LEMMA PushInvNext == PushInv /\ [Next]_<<streamCapable, vars>> => PushInv'
<1>. SUFFICES ASSUME PushInv, [Next]_<<streamCapable, vars>> PROVE PushInv'
  OBVIOUS
<1>1. CASE UNCHANGED <<streamCapable, vars>>
  BY <1>1, QuietSteps
<1>2. CASE Next
  <2>1. UNCHANGED streamCapable
    BY <1>2 DEF Next
  <2>2. CASE QuietLoop \/ QuietElsewhere
    BY <2>1, <2>2, QuietSteps
  <2>3. CASE Lost \/ StopPush
    BY <2>1, <2>3, GivingUp
  <2>4. CASE CreateAnswered
    BY <2>1, <2>4, Recreated
  <2>5. CASE SyncServed
    BY <2>1, <2>5, SyncKeeps
  <2>6. CASE SyncAnswered
    BY <2>1, <2>6, AnswerKeeps
  <2>7. CASE StreamSent
    BY <2>1, <2>7, SentKeeps
  <2>8. CASE StreamReceived
    BY <2>1, <2>8, ReceivedKeeps
  <2>9. CASE \E e \in Elements : StateChange(e)
    BY <2>1, <2>9, ChangeKeeps
  <2>. QED  BY <1>2, <2>2, <2>3, <2>4, <2>5, <2>6, <2>7, <2>8, <2>9
            DEF Next, Loop, QuietLoop, QuietElsewhere
<1>. QED  BY <1>1, <1>2

LEMMA PushInvHolds == Spec => []PushInv
<1>1. PushInv /\ [Next]_<<streamCapable, vars>> => PushInv'
  BY PushInvNext
<1>. QED  BY PushInvInit, <1>1, PTL DEF Spec

\* The state of the client is well-typed, and the subscriptions it has created are
\* never more than the server allows one client, the ones it has lost track of
\* included (I3xPushManager, SubscriptionManager.create).
THEOREM PushTyped == Spec => [](TypeOK /\ HeldByClient <= MaxPerClient)
<1>1. PushInv => TypeOK /\ HeldByClient <= MaxPerClient
  BY DEF PushInv
<1>. QED  BY <1>1, PushInvHolds, PTL

\* gaps_seen is counted exactly when a batch between the first and the last one that
\* was applied never came (_run_sync).
THEOREM GapsAreExact == Spec => []GapsExact
<1>1. PushInv => GapsExact
  BY DEF PushInv, SyncNumbers, Missed, GapsExact
<1>. QED  BY <1>1, PushInvHolds, PTL

\* No batch that is in an answer or on the wire has been applied before, whatever
\* requests and answers were lost (_run_sync, _run_stream).
THEOREM BatchesAppliedOnce == Spec => []AppliedOnce
<1>1. PushInv => AppliedOnce
  <2>. SUFFICES ASSUME PushInv, NEW x \in Numbers(answer) \cap got PROVE x = MaxSeq
    BY DEF AppliedOnce
  <2>1. PICK i \in DOMAIN answer : x = answer[i].seq
    BY DEF Numbers
  <2>2. x \in Int /\ lastSeq \in Int /\ streamCapable \in BOOLEAN
    BY <2>1, AnswerNumbers, PushFacts
  <2>3. CASE streamCapable
    <3>1. x < answer[i].seq
      BY <2>3 DEF PushInv, StreamNumbers
    <3>. QED  BY <2>1, <2>2, <3>1
  <2>4. CASE ~streamCapable
    <3>1. x \in 1..lastSeq /\ (x > lastSeq \/ x = MaxSeq)
      BY <2>1, <2>4 DEF PushInv, SyncNumbers
    <3>. QED  BY <2>2, <3>1
  <2>. QED  BY <2>2, <2>3, <2>4
<1>. QED  BY <1>1, PushInvHolds, PTL

\* The states pushed for an element never go back in time: not within an answer, and
\* not behind what was pushed before it, over lost answers, snapshots, evicted batches
\* and new subscriptions (apply_push, Subscription._enqueue, SubscriptionManager.sync).
THEOREM PushedInOrder == Spec => []PushesForward
<1>1. PushInv => PushesForward
  <2>. SUFFICES ASSUME PushInv, NEW i \in DOMAIN answer, NEW u \in answer[i].updates
                PROVE  /\ heard[u.element] <= u.version
                       /\ \A j \in 1..(i - 1) : \A w \in answer[j].updates :
                             w.element = u.element => w.version <= u.version
    BY DEF PushesForward
  <2>1. VersionsForward
    BY DEF PushInv
  <2>2. ASSUME NEW j \in 1..(i - 1), NEW w \in answer[j].updates, w.element = u.element
        PROVE  w.version <= u.version
    <3>1. j \in DOMAIN answer /\ j < i
      BY PushFacts
    <3>. QED  BY <2>1, <2>2, <3>1 DEF VersionsForward, VersionsOrdered
  <2>. QED  BY <2>1, <2>2 DEF VersionsForward
<1>. QED  BY <1>1, PushInvHolds, PTL
=============================================================================
