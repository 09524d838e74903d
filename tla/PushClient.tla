----------------------------- MODULE PushClient -----------------------------
(***************************************************************************)
(* The client side (coordinator.py, with api.py's requests): the push loop *)
(* of I3xPushManager and the polls of I3xLiveCoordinator, against a server *)
(* whose queue behaves as server/subscriptions.py's (BatchQueue).          *)
(*                                                                         *)
(* A request is two steps: the server acts on it, then the answer arrives; *)
(* it may fail in between or before (timeout, connection error), and the   *)
(* loop then backs off.  The client names one subscription at a time.  The *)
(* ones it created and no longer names are only counted (leaked): they     *)
(* stay on the server until their idle TTL is over.  An element's state is *)
(* the count of its changes.                                               *)
(***************************************************************************)
EXTENDS BatchQueue, FiniteSets

CONSTANTS
    Elements,        \* the monitored remote elementIds
    MaxPerClient,    \* MAX_SUBSCRIPTIONS_PER_CLIENT
    NoPoll,          \* no poll of the values under way
    MaxVersion,      \* bound: state changes per element
    MaxSeq,          \* bound: batches per subscription
    MaxReloads       \* bound: restarts of the server's entry

ASSUME PushClientAssumption ==
    /\ {MaxPerClient, MaxVersion, MaxSeq} \subseteq Nat \ {0}
    /\ MaxReloads \in Nat

VARIABLES
    streamCapable,  \* the server declares subscribe.stream (never changes)
    remote,      \* the states at the server
    alive,       \* the subscription the client names exists
    registered,  \* and monitors the elements
    mail,        \* and has this queue
    pending,     \* a subscription created whose answer has not arrived
    leaked,      \* subscriptions of this client that it no longer names
    reloads,     \* restarts so far
    pc,          \* where the push loop is
    named,       \* _subscription_id is set
    lastSeq,     \* last_seq of _run_sync, 0 for None
    answer,      \* batches in the sync answer, or on the wire of the stream
    gapSeen,     \* gaps_seen was counted on this subscription
    got,         \* history: batch numbers applied from this subscription
    poll,        \* the values a poll has read, or NoPoll
    data,        \* the coordinator's data
    heard        \* history: the last state of each element that was pushed

serverVars == <<remote, alive, registered, mail, pending, leaked, reloads>>
loopVars   == <<pc, named, lastSeq, answer, gapSeen, got>>
vars       == <<serverVars, loopVars, poll, data, heard>>

Update == [element : Elements, version : 1..MaxVersion]

\* Requests of the push loop: being sent, and answered by the server.
Sending   == {"create", "register", "sync", "open"}
Answered  == {"created", "registered", "synced", "streaming"}

TypeOK ==
    /\ remote \in [Elements -> 1..MaxVersion]
    /\ {streamCapable, alive, registered, named, gapSeen} \subseteq BOOLEAN
    /\ mail \in Mailbox(Update)
    /\ pending \in {"none", "live", "dead"}
    /\ leaked \in 0..MaxPerClient
    /\ reloads \in 0..MaxReloads
    /\ pc \in Sending \cup Answered \cup {"pause", "backoff", "stopped"}
    /\ lastSeq \in 0..MaxSeq
    /\ answer \in Seq(Batch(Update))
    /\ got \subseteq 1..MaxSeq
    /\ poll \in [Elements -> 1..MaxVersion] \cup {NoPoll}
    /\ {data, heard} \subseteq [Elements -> 1..MaxVersion]

\* The entry is set up: the first refresh has filled the data.
Init ==
    /\ streamCapable \in BOOLEAN
    /\ remote = [e \in Elements |-> 1]
    /\ alive = FALSE /\ registered = FALSE
    /\ mail = EmptyMailbox
    /\ pending = "none" /\ leaked = 0 /\ reloads = 0
    /\ pc = "create" /\ named = FALSE
    /\ lastSeq = 0 /\ answer = <<>> /\ gapSeen = FALSE /\ got = {}
    /\ poll = NoPoll
    /\ data = [e \in Elements |-> 1] /\ heard = data

-----------------------------------------------------------------------------
(* The server, seen from outside.                                           *)

\* MaxSeq stands for every later number: sync may stage further snapshots at
\* it, new states come only below it.
Numbered(m) == [m EXCEPT !.next = IF m.next > MaxSeq THEN MaxSeq ELSE m.next]

CurrentValues == {[element |-> e, version |-> remote[e]] : e \in Elements}

One(b) == IF b THEN 1 ELSE 0
HeldByClient == leaked + One(alive) + One(pending = "live")

StateChange(e) ==
    /\ remote[e] < MaxVersion
    /\ remote' = [remote EXCEPT ![e] = @ + 1]
    /\ IF alive /\ registered
       THEN /\ mail.next < MaxSeq
            /\ mail' = Enqueue(mail, {[element |-> e, version |-> remote'[e]]})
       ELSE UNCHANGED mail
    /\ UNCHANGED <<alive, registered, pending, leaked, reloads, loopVars, poll, data, heard>>

\* The idle TTL of a subscription nobody names is over; so may be that of the
\* named one while the loop backs off from it.
Expire ==
    /\ \/ leaked > 0 /\ leaked' = leaked - 1 /\ UNCHANGED alive
       \/ pc \in {"backoff", "create"} /\ alive /\ alive' = FALSE /\ UNCHANGED leaked
    /\ UNCHANGED <<remote, registered, mail, pending, reloads, loopVars, poll, data, heard>>

\* The server's entry is reloaded: all subscriptions are gone.  Open streams are
\* not told (the connection stays up, with heartbeats).
Reload ==
    /\ reloads < MaxReloads
    /\ reloads' = reloads + 1
    /\ alive' = FALSE /\ leaked' = 0
    /\ pending' = IF pending = "none" THEN "none" ELSE "dead"
    /\ UNCHANGED <<remote, registered, mail, loopVars, poll, data, heard>>

-----------------------------------------------------------------------------
(* _run: create, register, then one of the two modes.                       *)

Goto(where) == pc' = where

CreateServed ==
    /\ pc = "create"
    /\ HeldByClient < MaxPerClient
    /\ pending' = "live"
    /\ Goto("created")
    /\ UNCHANGED <<remote, alive, registered, mail, leaked, reloads, named, lastSeq,
                   answer, gapSeen, got, poll, data, heard>>

\* The answer: the loop names the new subscription and forgets the old one,
\* which nobody deletes.
CreateAnswered ==
    /\ pc = "created"
    /\ Goto("register")
    /\ leaked' = leaked + One(alive)
    /\ alive' = (pending = "live")
    /\ pending' = "none"
    /\ named' = TRUE
    /\ registered' = FALSE /\ mail' = EmptyMailbox
    /\ lastSeq' = 0 /\ answer' = <<>> /\ gapSeen' = FALSE /\ got' = {}
    /\ UNCHANGED <<remote, reloads, poll, data, heard>>

\* Faulty variants (here and below, named after the fault) show that the
\* properties can fail; nothing else uses them.
NotFoundTriesAgain ==
    /\ pc \in {"register", "sync", "open"}
    /\ ~alive
    /\ Goto("register")
    /\ named' = FALSE
    /\ UNCHANGED <<serverVars, lastSeq, answer, gapSeen, got, poll, data, heard>>

\* An answer with 404 means: start over at once, with no subscription named.
\* Any other error, and no answer at all, mean: start over after the backoff.
NotFound ==
    /\ pc \in {"register", "sync", "open"}
    /\ ~alive
    /\ Goto("create")
    /\ named' = FALSE
    /\ UNCHANGED <<serverVars, lastSeq, answer, gapSeen, got, poll, data, heard>>

Refused ==
    /\ \/ pc = "create" /\ HeldByClient >= MaxPerClient    \* 400
       \/ pc = "open" /\ alive                             \* 503
    /\ Goto("backoff")
    /\ UNCHANGED <<serverVars, named, lastSeq, answer, gapSeen, got, poll, data, heard>>

Lost ==
    /\ pc \in Sending \cup Answered
    /\ Goto("backoff")
    /\ pending' = "none"
    /\ leaked' = leaked + One(pending = "live")
    /\ answer' = <<>>
    /\ UNCHANGED <<remote, alive, registered, mail, reloads, named, lastSeq, gapSeen,
                   got, poll, data, heard>>

BackoffOver ==
    /\ pc = "backoff"
    /\ Goto("create")
    /\ UNCHANGED <<serverVars, named, lastSeq, answer, gapSeen, got, poll, data, heard>>

RegisterServed ==
    /\ pc = "register"
    /\ alive
    /\ registered' = TRUE
    /\ Goto("registered")
    /\ UNCHANGED <<remote, alive, mail, pending, leaked, reloads, named, lastSeq,
                   answer, gapSeen, got, poll, data, heard>>

RegisterAnswered ==
    /\ pc = "registered"
    /\ Goto(IF streamCapable THEN "open" ELSE "sync")
    /\ UNCHANGED <<serverVars, named, lastSeq, answer, gapSeen, got, poll, data, heard>>

-----------------------------------------------------------------------------
(* _run_sync                                                                *)

\* The lastSequenceNumber of the next request; the first one carries none.
AckBehindByOne == IF lastSeq = 0 THEN NoAck ELSE lastSeq - 1

AckToSend == IF lastSeq = 0 THEN NoAck ELSE lastSeq

SyncServed ==
    /\ pc = "sync"
    /\ alive
    /\ mail' = Numbered(Synced(mail, AckToSend,
                               IF registered THEN CurrentValues ELSE {}))
    /\ answer' = mail'.batches
    /\ Goto("synced")
    /\ UNCHANGED <<remote, alive, registered, pending, leaked, reloads, named, lastSeq,
                   gapSeen, got, poll, data, heard>>

\* apply_push, batch by batch, for a whole answer: the last report wins.
Applied(d, batches) ==
    [e \in Elements |->
        LET about == {i \in DOMAIN batches : \E u \in batches[i].updates : u.element = e}
        IN  IF about = {} THEN d[e]
            ELSE LET i == CHOOSE i \in about : \A j \in about : j <= i
                 IN  (CHOOSE u \in batches[i].updates : u.element = e).version]

Numbers(batches) == {batches[i].seq : i \in DOMAIN batches}

GapByTwo(last, batches) == last # 0 /\ batches # <<>> /\ batches[1].seq > last + 2

\* An answer that does not start right after what was acknowledged.
Gap(last, batches) == last # 0 /\ batches # <<>> /\ batches[1].seq > last + 1

SyncAnswered ==
    /\ pc = "synced"
    /\ Goto("pause")
    /\ gapSeen' = (gapSeen \/ Gap(lastSeq, answer))
    /\ data' = Applied(data, answer)
    /\ heard' = Applied(heard, answer)
    /\ got' = got \cup Numbers(answer)
    /\ lastSeq' = IF answer = <<>> THEN lastSeq ELSE answer[Len(answer)].seq
    /\ answer' = <<>>
    /\ UNCHANGED <<serverVars, named, poll>>

PauseOver ==
    /\ pc = "pause"
    /\ Goto("sync")
    /\ UNCHANGED <<serverVars, named, lastSeq, answer, gapSeen, got, poll, data, heard>>

-----------------------------------------------------------------------------
(* _run_stream                                                              *)

StreamOpened ==
    /\ pc = "open"
    /\ alive
    /\ Goto("streaming")
    /\ UNCHANGED <<serverVars, named, lastSeq, answer, gapSeen, got, poll, data, heard>>

\* The server's handler drains the queue onto the wire.
StreamSent ==
    /\ pc = "streaming"
    /\ alive /\ mail.batches # <<>>
    /\ answer' = answer \o mail.batches
    /\ mail' = Drained(mail)
    /\ UNCHANGED <<remote, alive, registered, pending, leaked, reloads, pc, named,
                   lastSeq, gapSeen, got, poll, data, heard>>

\* One event of the stream is applied.
StreamReceived ==
    /\ pc = "streaming"
    /\ answer # <<>>
    /\ data' = Applied(data, <<Head(answer)>>)
    /\ heard' = Applied(heard, <<Head(answer)>>)
    /\ got' = got \cup {Head(answer).seq}
    /\ answer' = Tail(answer)
    /\ UNCHANGED <<serverVars, pc, named, lastSeq, gapSeen, poll>>

\* The server ends the stream: not an error, the loop starts over at once.
StreamEnded ==
    /\ pc = "streaming"
    /\ answer = <<>>
    /\ Goto("create")
    /\ UNCHANGED <<serverVars, named, lastSeq, answer, gapSeen, got, poll, data, heard>>

-----------------------------------------------------------------------------
(* The coordinator's poll, and the end.                                     *)

\* The values are read at the server, and arrive (or not) later.
PollServed ==
    /\ pc # "stopped"
    /\ poll = NoPoll
    /\ poll' = remote
    /\ UNCHANGED <<serverVars, loopVars, data, heard>>

\* A poll that succeeds replaces all the data.
PollAnswered ==
    /\ poll # NoPoll
    /\ poll' = NoPoll
    /\ data' = poll
    /\ UNCHANGED <<serverVars, loopVars, heard>>

PollLost ==
    /\ poll # NoPoll
    /\ poll' = NoPoll
    /\ UNCHANGED <<serverVars, loopVars, data, heard>>

\* async_stop: the loop is cancelled wherever it is; the subscription named is
\* deleted, if the request gets through.
StopPush ==
    /\ pc # "stopped"
    /\ Goto("stopped")
    /\ named' = FALSE
    /\ alive' \in IF named THEN {alive, FALSE} ELSE {alive}
    /\ pending' = "none"
    /\ leaked' = leaked + One(pending = "live")
    /\ answer' = <<>>
    /\ UNCHANGED <<remote, registered, mail, reloads, lastSeq, gapSeen, got, poll, data, heard>>

-----------------------------------------------------------------------------
Loop ==
    \/ CreateServed \/ CreateAnswered \/ RegisterServed \/ RegisterAnswered
    \/ NotFound \/ Refused \/ BackoffOver
    \/ SyncServed \/ SyncAnswered \/ PauseOver
    \/ StreamOpened \/ StreamSent \/ StreamReceived

Next ==
    /\ \/ Loop \/ Lost \/ StreamEnded \/ StopPush
       \/ PollServed \/ PollAnswered \/ PollLost
       \/ (\E e \in Elements : StateChange(e)) \/ Expire \/ Reload
    /\ UNCHANGED streamCapable

Spec == Init /\ [][Next]_<<streamCapable, vars>>

\* Of the requests sent again and again some get through; the server's handler
\* and the reader of a stream proceed; timers fire, idle subscriptions expire.
\* (Of the steps that share a conjunct no two are enabled in the same mode at the
\* same time, but for the two ends of a stream.)  Every push makes the coordinator
\* put its poll off by a full interval, so polls are fair only where pushes come to
\* an end: not with sync, whose snapshots come faster than the interval.
FairSpec ==
    /\ Spec
    /\ SF_vars(CreateServed)   /\ SF_vars(CreateAnswered)
    /\ SF_vars(RegisterServed) /\ SF_vars(RegisterAnswered)
    /\ SF_vars(SyncServed \/ StreamOpened) /\ SF_vars(SyncAnswered)
    /\ WF_vars(StreamSent \/ StreamReceived)
    /\ WF_vars(NotFound \/ Refused \/ PauseOver \/ BackoffOver)
    /\ WF_vars(Expire)
    /\ WF_vars(streamCapable /\ PollServed)
    /\ SF_vars(streamCapable /\ PollAnswered)

-----------------------------------------------------------------------------
(* Properties.                                                              *)

\* The gap counter tells the truth: from the first answer on, sync counts a gap
\* exactly when there is a batch it never got.
GapsExact ==
    ~streamCapable /\ pc \in {"pause", "sync", "synced"} =>
        (gapSeen <=> \E n \in 1..lastSeq : n \notin got /\ \E m \in got : m < n)

\* No batch is applied twice, neither from one answer to the next nor on a
\* stream, although nothing but the acknowledgement removes it (MaxSeq stands
\* for many numbers).
AppliedOnce ==
    pc \in {"synced", "streaming"} => Numbers(answer) \cap got \subseteq {MaxSeq}

\* The states pushed for an element never go back in time, batch by batch, across
\* overflows, snapshots, lost answers and new subscriptions.
PushesForward ==
    \A i \in DOMAIN answer : \A u \in answer[i].updates :
        /\ heard[u.element] <= u.version
        /\ \A j \in 1..(i - 1) : \A w \in answer[j].updates :
              w.element = u.element => w.version <= u.version

\* When the remote states come to rest the coordinator shows them and goes on
\* showing them, an old poll answer in flight notwithstanding.
Converges ==
    <>[](pc = "stopped") \/ <>[](\A e \in Elements : data[e] = remote[e])

\* After every failure the loop gets back to a live subscription, unless it is
\* left with the open stream of one that a reload of the server has ended.
Recovers ==
    \/ <>[](pc = "stopped")
    \/ []<>(alive /\ registered /\ pc \in {"pause", "streaming"})
    \/ <>[](pc = "streaming" /\ ~alive)
=============================================================================
