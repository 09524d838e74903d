--------------------------- MODULE UpdateChannels ---------------------------
(***************************************************************************)
(* What the subscriptions of server/subscriptions.py promise their         *)
(* readers, without queues, acknowledgements or streams: each is a channel *)
(* of numbered updates.  A channel holds the updates oldest .. next - 1.   *)
(* The detailed queue of Subscriptions implements this specification.      *)
(***************************************************************************)
EXTENDS Integers

CONSTANTS
    Channels,
    Capacity      \* how many updates a channel holds

VARIABLE channel

Fresh == [next |-> 1, oldest |-> 1, owed |-> FALSE]

\* A new update gets the next number.  When the channel is full the oldest one is
\* given up, and the reader is owed the news of it.
Put(ch) ==
    LET full == ch.next - ch.oldest >= Capacity
    IN  [next   |-> ch.next + 1,
         oldest |-> IF full THEN ch.oldest + 1 ELSE ch.oldest,
         owed   |-> ch.owed \/ full]

\* The reader has everything below n, and has been told of a loss.
Take(ch, n) == [next |-> ch.next, oldest |-> n, owed |-> FALSE]

\* One step of a channel; a reader that finds nothing is given a first update.
Steps(ch) ==
    {ch, Put(ch), Put(Take(ch, ch.next))} \cup {Take(ch, n) : n \in ch.oldest..ch.next}

Init == channel = [c \in Channels |-> Fresh]

\* One event may reach several channels.
Next ==
    /\ channel' = [c \in Channels |-> channel'[c]]
    /\ \A c \in Channels : channel'[c] \in Steps(channel[c])

Spec == Init /\ [][Next]_channel
=============================================================================
