----------------------------- MODULE BatchQueue -----------------------------
(***************************************************************************)
(* The update queue of one server subscription: the fields queue,          *)
(* next_seq, overflow and data_event of server/subscriptions.py's          *)
(* Subscription, and the four things the code does to them.  A mailbox is  *)
(*   batches   the queue, oldest first, each batch with its number;        *)
(*   next      next_seq, the number the next batch gets;                   *)
(*   overflow  a batch was evicted and nobody has been told yet;           *)
(*   ready     data_event, what a streaming handler waits for.             *)
(* What a batch carries is left to the user of the module.                 *)
(***************************************************************************)
EXTENDS Integers, Sequences

CONSTANT MaxQueued        \* MAX_QUEUED_BATCHES

ASSUME MaxQueuedAssumption == MaxQueued \in Nat \ {0}

Batch(Update) == [seq : Nat \ {0}, updates : SUBSET Update]

Mailbox(Update) == [batches  : Seq(Batch(Update)),
                    next     : Nat \ {0},
                    overflow : BOOLEAN,
                    ready    : BOOLEAN]

EmptyMailbox == [batches |-> <<>>, next |-> 1, overflow |-> FALSE, ready |-> FALSE]

\* lastSequenceNumber as sync understands it: -1 clears the queue, a natural
\* number acknowledges; anything else (absent, a boolean, a string, -7) is NoAck.
ClearAll == -1
NoAck    == -2

\* m with other batches and another overflow flag.
Holding(m, batches, overflow) ==
    [batches |-> batches, next |-> m.next, overflow |-> overflow, ready |-> m.ready]

Full(m) == Len(m.batches) >= MaxQueued

\* Faulty variants of the operations (here and below, named after the fault):
\* they show that the properties can fail, nothing else uses them.
EnqueueAtFront(m, updates) ==
    [batches  |-> <<[seq |-> m.next, updates |-> updates]>> \o
                     (IF Full(m) THEN Tail(m.batches) ELSE m.batches),
     next     |-> m.next + 1,
     overflow |-> m.overflow \/ Full(m),
     ready    |-> TRUE]

EnqueueEvictedNumber(m, updates) ==
    LET kept == IF Full(m) THEN Tail(m.batches) ELSE m.batches
    IN  [batches  |-> Append(kept, [seq |-> m.next, updates |-> updates]),
         next     |-> IF Full(m) THEN m.next ELSE m.next + 1,
         overflow |-> m.overflow \/ Full(m),
         ready    |-> TRUE]

\* _enqueue: at the limit the oldest batch goes and the overflow is remembered.
Enqueue(m, updates) ==
    LET kept == IF Full(m) THEN Tail(m.batches) ELSE m.batches
    IN  [batches  |-> Append(kept, [seq |-> m.next, updates |-> updates]),
         next     |-> m.next + 1,
         overflow |-> m.overflow \/ Full(m),
         ready    |-> TRUE]

\* How many batches the acknowledgement of number n takes off the front.
AckedCount(b, n) ==
    CHOOSE k \in 0..Len(b) : /\ \A i \in 1..k : b[i].seq <= n
                             /\ k < Len(b) => b[k + 1].seq > n

\* The acknowledgement part of sync.
Acked(m, ack) ==
    Holding(m, IF ack = ClearAll
               THEN <<>>
               ELSE SubSeq(m.batches, AckedCount(m.batches, ack) + 1, Len(m.batches)),
            m.overflow)

SyncedWithoutReset(m, ack, current) ==
    LET acked == Acked(m, ack)
    IN  IF acked.batches = <<>> /\ current # {} THEN Enqueue(acked, current) ELSE acked

SyncedWithoutSnapshot(m, ack, current) ==
    LET acked == Acked(m, ack) IN Holding(acked, acked.batches, FALSE)

\* What sync leaves behind: the acknowledged batches are gone, an empty queue
\* is given one batch with the current values (when there are any), and the
\* overflow is reported by this very answer.
Synced(m, ack, current) ==
    LET acked  == Acked(m, ack)
        staged == IF acked.batches = <<>> /\ current # {}
                  THEN Enqueue(acked, current) ELSE acked
    IN  Holding(staged, staged.batches, FALSE)

DrainedWithoutClear(m) == [m EXCEPT !.overflow = FALSE, !.ready = FALSE]

\* drain: a stream takes everything, and the overflow flag with it.
Drained(m) ==
    [batches |-> <<>>, next |-> m.next, overflow |-> FALSE, ready |-> FALSE]

\* The numbers in a queue are consecutive and end just below next.
Contiguous(m) ==
    /\ Len(m.batches) < m.next
    /\ \A i \in DOMAIN m.batches :
          m.batches[i].seq = m.next - Len(m.batches) + i - 1
=============================================================================
