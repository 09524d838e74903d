-------------------------- MODULE BatchQueueProofs --------------------------
(***************************************************************************)
(* Lemmas about the queue operators: each keeps the type of a mailbox, the *)
(* consecutive numbering of its batches, data_event over a queue that is   *)
(* not empty, and an overflow flag that goes with a full queue; and what   *)
(* each leaves in the queue: batches go off the front only, and at most    *)
(* one is added at the end.                                                *)
(***************************************************************************)
EXTENDS BatchQueue, TLAPS

\* What holds of every mailbox between two calls.
Orderly(m) ==
    /\ Contiguous(m)
    /\ m.batches # <<>> => m.ready
    /\ Len(m.batches) <= MaxQueued
    /\ m.overflow => Len(m.batches) = MaxQueued

\* A new subscription's mailbox (Subscription's field defaults).
LEMMA EmptyMailboxOrderly ==
    ASSUME NEW Update
    PROVE  EmptyMailbox \in Mailbox(Update) /\ Orderly(EmptyMailbox)
BY MaxQueuedAssumption DEF EmptyMailbox, Mailbox, Batch, Orderly, Contiguous

\* _enqueue keeps a mailbox a mailbox.
LEMMA EnqueueType ==
    ASSUME NEW Update, NEW m \in Mailbox(Update), NEW u \in SUBSET Update
    PROVE  Enqueue(m, u) \in Mailbox(Update)
<1> DEFINE B == Batch(Update)
<1> DEFINE kept == IF Full(m) THEN Tail(m.batches) ELSE m.batches
<1>1. m.batches \in Seq(B) /\ m.next \in Nat \ {0} /\ m.overflow \in BOOLEAN
  BY DEF Mailbox
<1>2. Full(m) => m.batches # <<>>
  BY <1>1, MaxQueuedAssumption DEF Full
<1>3. kept \in Seq(B)
  <2>. HIDE DEF B
  <2>. QED  BY <1>1, <1>2
<1>4. [seq |-> m.next, updates |-> u] \in B
  BY <1>1 DEF Batch
<1>5. Append(kept, [seq |-> m.next, updates |-> u]) \in Seq(B)
  <2>. HIDE DEF B, kept
  <2>. QED  BY <1>3, <1>4
<1>6. Full(m) \in BOOLEAN
  BY DEF Full
<1>. QED  BY <1>1, <1>5, <1>6 DEF Enqueue, Mailbox

\* _enqueue keeps a mailbox orderly, at the limit too, where it evicts.
LEMMA EnqueueOrderly ==
    ASSUME NEW Update, NEW m \in Mailbox(Update), NEW u \in SUBSET Update,
           Orderly(m)
    PROVE  Orderly(Enqueue(m, u))
<1> DEFINE b == m.batches
           kept == IF Full(m) THEN Tail(b) ELSE b
           new == [seq |-> m.next, updates |-> u]
           e == Enqueue(m, u)
<1>1. b \in Seq(Batch(Update)) /\ m.next \in Nat \ {0} /\ Len(b) \in Nat
  BY DEF Mailbox
<1>2. /\ e.batches = Append(kept, new) /\ e.next = m.next + 1
      /\ e.overflow = (m.overflow \/ Full(m)) /\ e.ready
  BY DEF Enqueue
<1>3. Full(m) => b # <<>> /\ Len(b) = MaxQueued
  BY <1>1, MaxQueuedAssumption DEF Full, Orderly
<1>4. /\ kept \in Seq(Batch(Update))
      /\ Len(kept) = IF Full(m) THEN Len(b) - 1 ELSE Len(b)
      /\ \A i \in 1..Len(kept) : kept[i] = IF Full(m) THEN b[i + 1] ELSE b[i]
  BY <1>1, <1>3
<1>5. \A i \in 1..Len(b) : b[i].seq = m.next - Len(b) + i - 1
  BY <1>1 DEF Orderly, Contiguous
<1>6. Len(kept) \in Nat
  BY <1>1, <1>3, <1>4
<1>7. ASSUME NEW i \in 1..Len(kept)
      PROVE  kept[i].seq = m.next - Len(kept) + i - 1
  <2>1. CASE Full(m)
    <3>1. Len(kept) = Len(b) - 1 /\ kept[i] = b[i + 1] /\ i + 1 \in 1..Len(b)
      <4>. HIDE DEF kept, b
      <4>. QED  BY <1>1, <1>4, <1>6, <2>1
    <3>2. b[i + 1].seq = m.next - Len(b) + (i + 1) - 1
      BY <1>5, <3>1
    <3>. HIDE DEF kept, b
    <3>. QED  BY <1>1, <1>6, <3>1, <3>2
  <2>2. CASE ~Full(m)
    <3>1. Len(kept) = Len(b) /\ kept[i] = b[i]
      <4>. HIDE DEF kept, b
      <4>. QED  BY <1>1, <1>4, <1>6, <2>2
    <3>. HIDE DEF kept, b
    <3>. QED  BY <1>5, <3>1
  <2>. QED  BY <2>1, <2>2
<1>8. /\ Len(e.batches) = Len(kept) + 1
      /\ \A i \in 1..Len(kept) : e.batches[i] = kept[i]
      /\ e.batches[Len(kept) + 1] = new
      /\ DOMAIN e.batches = 1..(Len(kept) + 1)
  <2>. HIDE DEF kept, new, e
  <2>. QED  BY <1>2, <1>4
<1>9. Contiguous(e)
  <2>1. Len(e.batches) < e.next
    <3>1. Len(b) < m.next
      BY DEF Orderly, Contiguous
    <3>2. Len(kept) <= Len(b)
      <4>. HIDE DEF kept, b
      <4>. QED  BY <1>1, <1>4, <1>6
    <3>. HIDE DEF e, kept, b
    <3>. QED  BY <1>1, <1>2, <1>6, <1>8, <3>1, <3>2
  <2>2. ASSUME NEW i \in 1..(Len(kept) + 1)
        PROVE  e.batches[i].seq = e.next - Len(e.batches) + i - 1
    <3>1. CASE i = Len(kept) + 1
      <4>1. e.batches[i].seq = m.next
        BY <1>8, <3>1
      <4>. HIDE DEF e, kept
      <4>. QED  BY <1>1, <1>2, <1>6, <1>8, <3>1, <4>1
    <3>2. CASE i \in 1..Len(kept)
      <4>1. e.batches[i].seq = m.next - Len(kept) + i - 1
        <5>. HIDE DEF e, kept
        <5>. QED  BY <1>7, <1>8, <3>2
      <4>. HIDE DEF e, kept
      <4>. QED  BY <1>1, <1>2, <1>6, <1>8, <3>2, <4>1
    <3>3. i = Len(kept) + 1 \/ i \in 1..Len(kept)
      <4>. HIDE DEF kept
      <4>. QED  BY <1>6
    <3>. QED  BY <3>1, <3>2, <3>3
  <2>. HIDE DEF e, kept
  <2>. QED  BY <1>8, <2>1, <2>2 DEF Contiguous
<1>10. Len(e.batches) <= MaxQueued /\ (e.overflow => Len(e.batches) = MaxQueued)
  <2>1. CASE Full(m)
    <3>. HIDE DEF e, kept, b
    <3>. QED  BY <1>1, <1>2, <1>3, <1>4, <1>6, <1>8, <2>1, MaxQueuedAssumption
  <2>2. CASE ~Full(m)
    <3>1. Len(b) < MaxQueued
      BY <1>1, <2>2, MaxQueuedAssumption DEF Full
    <3>2. ~m.overflow
      BY <1>1, <3>1, MaxQueuedAssumption DEF Orderly
    <3>3. ~e.overflow
      <4>. HIDE DEF e
      <4>. QED  BY <1>2, <2>2, <3>2, Zenon
    <3>. HIDE DEF e, kept, b
    <3>4. Len(kept) = Len(b)
      BY <1>4, <2>2
    <3>. QED  BY <1>1, <1>8, <3>1, <3>3, <3>4, MaxQueuedAssumption
  <2>. QED  BY <2>1, <2>2
<1>. QED  BY <1>2, <1>9, <1>10 DEF Orderly

\* The acknowledgement has a last batch it takes: AckedCount is well defined.
LEMMA AckedCountProperty ==
    ASSUME NEW Update, NEW m \in Mailbox(Update), Contiguous(m), NEW n \in Int
    PROVE  LET b == m.batches k == AckedCount(m.batches, n) IN
           /\ k \in 0..Len(b)
           /\ \A i \in 1..k : b[i].seq <= n
           /\ k < Len(b) => b[k + 1].seq > n
<1> DEFINE b == m.batches
           P(k) == (\A i \in 1..k : b[i].seq <= n) /\ (k < Len(b) => b[k + 1].seq > n)
           d == n - m.next + Len(b) + 1
           w == IF d < 0 THEN 0 ELSE IF d > Len(b) THEN Len(b) ELSE d
<1>1. b \in Seq(Batch(Update)) /\ m.next \in Nat \ {0} /\ Len(b) \in Nat
  BY DEF Mailbox
<1>2. \A i \in 1..Len(b) : b[i].seq = m.next - Len(b) + i - 1
  BY <1>1 DEF Contiguous
<1>3. /\ w \in 0..Len(b) /\ d \in Int
      /\ w < Len(b) => w >= d
      /\ w > 0 => w <= d
  <2>1. d \in Int
    BY <1>1
  <2>. HIDE DEF d, b
  <2>. QED  BY <1>1, <2>1
<1>4. \A i \in 1..w : b[i].seq <= n
  <2>. HIDE DEF w, b
  <2>1. ASSUME NEW i \in 1..w PROVE b[i].seq <= n
    <3>1. i \in 1..Len(b) /\ i <= d
      BY <1>1, <1>3
    <3>2. b[i].seq = m.next - Len(b) + i - 1
      BY <1>2, <3>1
    <3>. QED  BY <1>1, <3>1, <3>2
  <2>. QED  BY <2>1
<1>5. w < Len(b) => b[w + 1].seq > n
  <2>. HIDE DEF w, b
  <2>. SUFFICES ASSUME w < Len(b) PROVE b[w + 1].seq > n
    OBVIOUS
  <2>1. w + 1 \in 1..Len(b) /\ w >= d
    BY <1>1, <1>3
  <2>2. b[w + 1].seq = m.next - Len(b) + (w + 1) - 1
    BY <1>2, <2>1
  <2>. QED  BY <1>1, <1>3, <2>1, <2>2
<1>6. \E k \in 0..Len(b) : P(k)
  BY <1>3, <1>4, <1>5
<1>7. LET k == CHOOSE k \in 0..Len(b) : P(k) IN k \in 0..Len(b) /\ P(k)
  <2>. HIDE DEF P
  <2>. QED  BY <1>6
<1>. QED  BY <1>7 DEF AckedCount

\* The acknowledgement part of sync leaves a suffix of the queue.
LEMMA AckedOrderly ==
    ASSUME NEW Update, NEW m \in Mailbox(Update), Orderly(m), NEW n \in Int
    PROVE  LET a == Acked(m, n) IN
           /\ a \in Mailbox(Update)
           /\ a.next = m.next
           /\ Contiguous(a)
           /\ a.batches # <<>> => a.ready
           /\ Len(a.batches) <= MaxQueued
<1> DEFINE b == m.batches
           a == Acked(m, n)
<1>1. b \in Seq(Batch(Update)) /\ m.next \in Nat \ {0} /\ Len(b) \in Nat
      /\ m.overflow \in BOOLEAN /\ m.ready \in BOOLEAN
  BY DEF Mailbox
<1>2. CASE n = ClearAll
  <2>1. a = Holding(m, <<>>, m.overflow)
    BY <1>2 DEF Acked
  <2>. HIDE DEF a
  <2>2. a \in Mailbox(Update) /\ a.batches = <<>> /\ a.next = m.next
    <3>1. <<>> \in Seq(Batch(Update))
      OBVIOUS
    <3>. QED  BY <1>1, <2>1, <3>1 DEF Holding, Mailbox
  <2>3. Contiguous(a)
    BY <1>1, <2>2 DEF Contiguous
  <2>. QED  BY <2>2, <2>3, MaxQueuedAssumption DEF a
<1>3. CASE n # ClearAll
  <2> DEFINE k == AckedCount(b, n)
             rest == SubSeq(b, k + 1, Len(b))
  <2>1. k \in 0..Len(b)
    BY AckedCountProperty DEF Orderly
  <2>. HIDE DEF k
  <2>2. /\ rest \in Seq(Batch(Update))
        /\ Len(rest) = Len(b) - k
        /\ \A i \in 1..Len(rest) : rest[i] = b[k + i]
    <3>. HIDE DEF b
    <3>1. k + 1 \in Nat /\ \A i \in (k + 1)..Len(b) : b[i] \in Batch(Update)
      BY <1>1, <2>1
    <3>. QED  BY <1>1, <2>1, <3>1
  <2>3. a = Holding(m, rest, m.overflow)
    BY <1>3 DEF Acked, k
  <2>. HIDE DEF rest, a
  <2>4. /\ a \in Mailbox(Update) /\ a.batches = rest /\ a.next = m.next
        /\ a.ready = m.ready
    BY <1>1, <2>2, <2>3 DEF Holding, Mailbox
  <2>5. /\ Len(b) < m.next /\ Len(b) <= MaxQueued /\ (b # <<>> => m.ready)
        /\ \A i \in 1..Len(b) : b[i].seq = m.next - Len(b) + i - 1
    BY <1>1 DEF Orderly, Contiguous
  <2>. HIDE DEF b
  <2>6. ASSUME NEW i \in 1..Len(rest)
        PROVE  rest[i].seq = m.next - Len(rest) + i - 1
    <3>1. k + i \in 1..Len(b) /\ rest[i] = b[k + i]
      BY <1>1, <2>1, <2>2
    <3>2. b[k + i].seq = m.next - Len(b) + (k + i) - 1
      BY <2>5, <3>1
    <3>. QED  BY <1>1, <2>1, <2>2, <3>1, <3>2
  <2>7. Len(rest) < m.next /\ Len(rest) <= MaxQueued
    BY <1>1, <2>1, <2>2, <2>5, MaxQueuedAssumption
  <2>8. Contiguous(a)
    BY <2>2, <2>4, <2>6, <2>7 DEF Contiguous
  <2>9. rest # <<>> => m.ready
    BY <1>1, <2>1, <2>2, <2>5
  <2>. QED  BY <2>4, <2>7, <2>8, <2>9 DEF a
<1>. QED  BY <1>2, <1>3

\* sync keeps a mailbox orderly, whatever it is given to acknowledge and
\* whatever the current values are.
LEMMA SyncedOrderly ==
    ASSUME NEW Update, NEW m \in Mailbox(Update), Orderly(m), NEW n \in Int,
           NEW current \in SUBSET Update
    PROVE  Synced(m, n, current) \in Mailbox(Update) /\ Orderly(Synced(m, n, current))
<1> DEFINE a == Acked(m, n)
           cleared == Holding(a, a.batches, FALSE)
           fresh == Enqueue(a, current)
           reported == Holding(fresh, fresh.batches, FALSE)
<1>1. /\ a \in Mailbox(Update) /\ Contiguous(a)
      /\ a.batches # <<>> => a.ready
      /\ Len(a.batches) <= MaxQueued
  BY AckedOrderly
<1>2. CASE a.batches = <<>> /\ current # {}
  <2>1. Synced(m, n, current) = reported
    BY <1>2 DEF Synced
  <2>2. fresh \in Mailbox(Update)
    <3>. HIDE DEF a
    <3>. QED  BY <1>1, EnqueueType
  <2>3. /\ fresh.batches = <<[seq |-> a.next, updates |-> current]>>
        /\ fresh.next = a.next + 1 /\ fresh.ready
    <3>1. ~Full(a)
      BY <1>2, MaxQueuedAssumption DEF Full
    <3>. HIDE DEF a
    <3>. QED  BY <1>2, <3>1 DEF Enqueue
  <2>4. /\ reported \in Mailbox(Update) /\ reported.batches = fresh.batches
        /\ reported.next = fresh.next /\ ~reported.overflow
        /\ reported.ready = fresh.ready
    <3>. HIDE DEF fresh
    <3>1. fresh.batches \in Seq(Batch(Update))
      BY <2>2 DEF Mailbox
    <3>. QED  BY <2>2, <3>1 DEF Holding, Mailbox
  <2>5. a.next \in Nat \ {0}
    <3>. HIDE DEF a
    <3>. QED  BY <1>1 DEF Mailbox
  <2>6. Orderly(reported)
    <3>. HIDE DEF reported, fresh, a
    <3>. QED  BY <2>3, <2>4, <2>5, MaxQueuedAssumption DEF Orderly, Contiguous
  <2>. QED  BY <2>1, <2>4, <2>6
<1>3. CASE ~(a.batches = <<>> /\ current # {})
  <2>1. Synced(m, n, current) = cleared
    BY <1>3 DEF Synced
  <2>2. /\ cleared \in Mailbox(Update) /\ cleared.batches = a.batches
        /\ cleared.next = a.next /\ ~cleared.overflow /\ cleared.ready = a.ready
    <3>. HIDE DEF a
    <3>1. a.batches \in Seq(Batch(Update))
      BY <1>1 DEF Mailbox
    <3>. QED  BY <1>1, <3>1 DEF Holding, Mailbox
  <2>3. Orderly(cleared)
    <3>. HIDE DEF cleared, a
    <3>. QED  BY <1>1, <2>2 DEF Orderly, Contiguous
  <2>. QED  BY <2>1, <2>2, <2>3
<1>. QED  BY <1>2, <1>3

\* drain leaves an orderly mailbox.
LEMMA DrainedOrderly ==
    ASSUME NEW Update, NEW m \in Mailbox(Update)
    PROVE  Drained(m) \in Mailbox(Update) /\ Orderly(Drained(m))
BY MaxQueuedAssumption DEF Drained, Mailbox, Orderly, Contiguous

\* What is left of a queue after batches were taken off its front.
Suffix(rest, b) ==
    \E k \in Nat : \A i \in DOMAIN rest : i + k \in DOMAIN b /\ rest[i] = b[i + k]

\* _enqueue adds one batch to what it keeps, with the updates it is given.
LEMMA EnqueueContents ==
    ASSUME NEW Update, NEW m \in Mailbox(Update), NEW u \in SUBSET Update
    PROVE  \E kept \in Seq(Batch(Update)) :
              /\ Suffix(kept, m.batches)
              /\ Enqueue(m, u).batches = Append(kept, [seq |-> m.next, updates |-> u])
              /\ Enqueue(m, u).next = m.next + 1
<1> DEFINE b == m.batches
           kept == IF Full(m) THEN Tail(b) ELSE b
<1>1. b \in Seq(Batch(Update)) /\ Len(b) \in Nat
  BY DEF Mailbox
<1>2. /\ Enqueue(m, u).batches = Append(kept, [seq |-> m.next, updates |-> u])
      /\ Enqueue(m, u).next = m.next + 1
  BY DEF Enqueue
<1>3. CASE Full(m)
  <2>1. b # <<>>
    BY <1>1, <1>3, MaxQueuedAssumption DEF Full
  <2>2. kept = Tail(b)
    BY <1>3
  <2>. HIDE DEF kept, b
  <2>3. kept \in Seq(Batch(Update))
    BY <1>1, <2>1, <2>2
  <2>4. \A i \in DOMAIN kept : i + 1 \in DOMAIN b /\ kept[i] = b[i + 1]
    BY <1>1, <2>1, <2>2
  <2>5. Suffix(kept, b)
    BY <2>4 DEF Suffix
  <2>. QED  BY <1>2, <2>3, <2>5 DEF b
<1>4. CASE ~Full(m)
  <2>1. kept = b
    BY <1>4
  <2>. HIDE DEF kept, b
  <2>2. \A i \in DOMAIN b : i + 0 \in DOMAIN b /\ b[i] = b[i + 0]
    BY <1>1
  <2>3. Suffix(kept, b)
    BY <2>1, <2>2 DEF Suffix
  <2>. QED  BY <1>1, <1>2, <2>1, <2>3 DEF b
<1>. QED  BY <1>3, <1>4

\* An acknowledgement takes batches off the front and nothing else.
LEMMA AckedContents ==
    ASSUME NEW Update, NEW m \in Mailbox(Update), Contiguous(m), NEW n \in Int
    PROVE  Suffix(Acked(m, n).batches, m.batches) /\ Acked(m, n).next = m.next
<1> DEFINE b == m.batches
           k == AckedCount(b, n)
<1>1. b \in Seq(Batch(Update)) /\ Len(b) \in Nat
  BY DEF Mailbox
<1>2. CASE n = ClearAll
  BY <1>2 DEF Acked, Holding, Suffix
<1>3. CASE n # ClearAll
  <2>1. k \in 0..Len(b)
    BY AckedCountProperty
  <2>2. Acked(m, n).batches = SubSeq(b, k + 1, Len(b)) /\ Acked(m, n).next = m.next
    BY <1>3 DEF Acked, Holding
  <2>. HIDE DEF k, b
  <2>3. \A i \in DOMAIN SubSeq(b, k + 1, Len(b)) :
           i + k \in DOMAIN b /\ SubSeq(b, k + 1, Len(b))[i] = b[i + k]
    BY <1>1, <2>1
  <2>4. Suffix(SubSeq(b, k + 1, Len(b)), b)
    BY <2>1, <2>3 DEF Suffix
  <2>. QED  BY <2>2, <2>4 DEF b
<1>. QED  BY <1>2, <1>3

\* What sync leaves: a part of the old queue, or one new batch with the current
\* values.
LEMMA SyncedContents ==
    ASSUME NEW Update, NEW m \in Mailbox(Update), Contiguous(m), NEW n \in Int,
           NEW current \in SUBSET Update
    PROVE  LET s == Synced(m, n, current) IN
           \/ s.next = m.next /\ Suffix(s.batches, m.batches)
           \/ /\ s.next = m.next + 1
              /\ s.batches = <<[seq |-> m.next, updates |-> current]>>
<1> DEFINE a == Acked(m, n)
<1>1. Suffix(a.batches, m.batches) /\ a.next = m.next
  BY AckedContents
<1>2. CASE a.batches = <<>> /\ current # {}
  <2>1. ~Full(a)
    BY <1>2, MaxQueuedAssumption DEF Full
  <2>2. Enqueue(a, current).batches = <<[seq |-> a.next, updates |-> current]>>
        /\ Enqueue(a, current).next = a.next + 1
    <3>. HIDE DEF a
    <3>. QED  BY <1>2, <2>1 DEF Enqueue
  <2>3. /\ Synced(m, n, current).batches = Enqueue(a, current).batches
        /\ Synced(m, n, current).next = Enqueue(a, current).next
    BY <1>2 DEF Synced, Holding
  <2>. HIDE DEF a
  <2>. QED  BY <1>1, <2>2, <2>3
<1>3. CASE ~(a.batches = <<>> /\ current # {})
  <2>1. Synced(m, n, current).batches = a.batches /\ Synced(m, n, current).next = a.next
    BY <1>3 DEF Synced, Holding
  <2>. HIDE DEF a
  <2>. QED  BY <1>1, <2>1
<1>. QED  BY <1>2, <1>3

\* An acknowledgement leaves nothing it is about.
LEMMA AckedAbove ==
    ASSUME NEW Update, NEW m \in Mailbox(Update), Contiguous(m), NEW n \in Int,
           n # ClearAll
    PROVE  LET rest == Acked(m, n).batches IN
           /\ rest \in Seq(Batch(Update)) /\ Len(rest) <= Len(m.batches)
           /\ \A i \in DOMAIN rest : rest[i].seq > n
<1> DEFINE b == m.batches
           k == AckedCount(b, n)
           rest == SubSeq(b, k + 1, Len(b))
<1>1. b \in Seq(Batch(Update)) /\ Len(b) \in Nat /\ m.next \in Nat
  BY DEF Mailbox
<1>2. k \in 0..Len(b) /\ (k < Len(b) => b[k + 1].seq > n)
  BY AckedCountProperty
<1>3. Acked(m, n).batches = rest
  BY DEF Acked, Holding
<1>4. \A i \in 1..Len(b) : b[i].seq = m.next - Len(b) + i - 1
  BY <1>1 DEF Contiguous
<1>. HIDE DEF k, b
<1>5. /\ rest \in Seq(Batch(Update)) /\ Len(rest) = Len(b) - k
      /\ \A i \in 1..Len(rest) : rest[i] = b[k + i]
  <2>1. k + 1 \in Nat /\ \A i \in (k + 1)..Len(b) : b[i] \in Batch(Update)
    BY <1>1, <1>2
  <2>. QED  BY <1>1, <1>2, <2>1
<1>. HIDE DEF rest
<1>6. ASSUME NEW i \in 1..Len(rest) PROVE rest[i].seq > n
  <2>1. k + 1 \in 1..Len(b) /\ k + i \in 1..Len(b) /\ k < Len(b) /\ k + 1 <= k + i
    BY <1>1, <1>2, <1>5
  <2>2. /\ b[k + 1].seq = m.next - Len(b) + (k + 1) - 1
        /\ b[k + i].seq = m.next - Len(b) + (k + i) - 1
    BY <1>4, <2>1
  <2>3. rest[i] = b[k + i] /\ b[k + 1].seq > n
    BY <1>2, <1>5, <2>1
  <2>4. k \in Int /\ i \in Int /\ m.next \in Int /\ Len(b) \in Int
    BY <1>1, <1>2
  <2>. HIDE DEF Contiguous
  <2>5. b[k + i].seq > n
    BY <2>1, <2>2, <2>3, <2>4
  <2>. QED  BY <2>3, <2>5
<1>7. Len(rest) <= Len(b)
  BY <1>1, <1>2, <1>5
<1>. QED  BY <1>3, <1>5, <1>6, <1>7 DEF b
=============================================================================
