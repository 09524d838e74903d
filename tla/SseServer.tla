----------------------------- MODULE SseServer -----------------------------
(***************************************************************************)
(* The SSE endpoint (server/views.py, I3xSubscriptionsStreamView.post)     *)
(* running over the subscription manager: one coroutine per handle, any    *)
(* number of them on one subscription while takeovers are in progress.     *)
(*                                                                         *)
(* A coroutine is interrupted only where it awaits: preparing (prepare),   *)
(* writing (the write of the first batch of out), waiting (asyncio.wait on *)
(* close_event and data_event), beating (the keep-alive write), ending     *)
(* (write_eof).  Between two awaits it is one step, so the check of        *)
(* close_event at the top of the loop and the drain after it are one.      *)
(***************************************************************************)
EXTENDS Subscriptions

VARIABLES
    pc,       \* where the coroutine of a handle awaits; "none": no request yet
    target,   \* the subscription the request named
    out,      \* batches drained and not yet written
    gone,     \* handles whose connection is closing or lost
    sent      \* history: numbers of the batches written, in order

handlerVars == <<pc, target, out, gone, sent>>
sseVars == <<vars, handlerVars>>

Awaits  == {"preparing", "writing", "waiting", "beating", "ending"}
InLoop  == {"writing", "waiting", "beating"}
Running == {h \in Handles : pc[h] \in Awaits}

HandlerTypeOK ==
    /\ TypeOK
    /\ pc \in [Handles -> Awaits \cup {"none", "done"}]
    /\ target \in [opened -> SubIds]
    /\ out \in [Handles -> Seq(Batch(Update))]
    /\ gone \subseteq opened
    /\ sent \in [Handles -> Seq(Nat \ {0})]

SseInit ==
    /\ Init
    /\ pc = [h \in Handles |-> "none"]
    /\ target = <<>>
    /\ out = [h \in Handles |-> <<>>]
    /\ gone = {}
    /\ sent = [h \in Handles |-> <<>>]

-----------------------------------------------------------------------------
Goto(h, where) == pc' = [pc EXCEPT ![h] = where]

\* The request is validated and takes the slot; then prepare is awaited.
Open(c, s, h) ==
    /\ StreamOpen(c, s, h)
    /\ Goto(h, "preparing")
    /\ target' = [g \in opened \cup {h} |-> IF g = h THEN s ELSE target[g]]
    /\ UNCHANGED <<out, gone, sent>>

\* Faulty variants (here and below, named after the fault) show that the
\* properties can fail; nothing else uses them.
TopOfLoopUntold(h) ==
    LET s == target[h] IN
    /\ Drain(s)
    /\ out' = [out EXCEPT ![h] = mail[s].batches]
    /\ Goto(h, IF mail[s].batches = <<>> THEN "waiting" ELSE "writing")
    /\ UNCHANGED <<target, gone, sent>>

TopOfLoopWaitsFirst(h) ==
    IF h \in closed \cup gone
    THEN Goto(h, "ending") /\ UNCHANGED <<vars, target, out, gone, sent>>
    ELSE Goto(h, "waiting") /\ UNCHANGED <<vars, target, out, gone, sent>>

\* The top of the loop, reached whenever an await of it returns: leave when told
\* to or when the connection is going, else take what is queued and write it,
\* or wait when there is nothing.
TopOfLoop(h) ==
    LET s == target[h] IN
    IF h \in closed \cup gone
    THEN Goto(h, "ending") /\ UNCHANGED <<vars, target, out, gone, sent>>
    ELSE /\ Drain(s)
         /\ out' = [out EXCEPT ![h] = mail[s].batches]
         /\ Goto(h, IF mail[s].batches = <<>> THEN "waiting" ELSE "writing")
         /\ UNCHANGED <<target, gone, sent>>

Prepared(h) == pc[h] = "preparing" /\ TopOfLoop(h)

\* prepare raises when the client is gone already; it is outside the try whose
\* finally gives the slot back.
PrepareFails(h) ==
    /\ pc[h] = "preparing"
    /\ h \in gone
    /\ Goto(h, "done")
    /\ UNCHANGED <<vars, target, out, gone, sent>>

\* A batch is out; after the last one the subscription is touched.
Written(h) ==
    /\ pc[h] = "writing"
    /\ h \notin gone
    /\ sent' = [sent EXCEPT ![h] = Append(@, Head(out[h]).seq)]
    /\ out' = [out EXCEPT ![h] = Tail(@)]
    /\ IF Tail(out[h]) = <<>>
       THEN Goto(h, "waiting") /\ HandlerTouch(target[h])
       ELSE UNCHANGED <<pc, vars>>
    /\ UNCHANGED <<target, gone>>

\* A write raises: what was drained is lost, finally gives the slot back.
WriteFails(h) ==
    /\ pc[h] \in {"writing", "beating"}
    /\ h \in gone
    /\ StreamClose(target[h], h)
    /\ Goto(h, "done")
    /\ out' = [out EXCEPT ![h] = <<>>]
    /\ UNCHANGED <<target, gone, sent>>

Wake(h) ==
    /\ pc[h] = "waiting"
    /\ h \in closed \/ mail[target[h]].ready
    /\ TopOfLoop(h)

\* Nothing for SSE_HEARTBEAT_SECONDS: write a keep-alive, then start over.
HeartbeatDue(h) ==
    /\ pc[h] = "waiting"
    /\ Goto(h, "beating")
    /\ UNCHANGED <<vars, target, out, gone, sent>>

Beaten(h) == pc[h] = "beating" /\ h \notin gone /\ TopOfLoop(h)

EndedFreesAnySlot(h) ==
    /\ pc[h] = "ending"
    /\ stream' = [stream EXCEPT ![target[h]] = NoHandle]
    /\ UNCHANGED <<subVars, opened, closed, listening, worldVars, followUps>>
    /\ Goto(h, "done")
    /\ UNCHANGED <<target, out, gone, sent>>

\* write_eof returns or raises; either way finally gives the slot back.
Ended(h) ==
    /\ pc[h] = "ending"
    /\ StreamClose(target[h], h)
    /\ Goto(h, "done")
    /\ UNCHANGED <<target, out, gone, sent>>

\* The client, or a proxy, drops the connection.
Disconnect(h) ==
    /\ h \in Running \ gone
    /\ gone' = gone \cup {h}
    /\ UNCHANGED <<vars, pc, target, out, sent>>

-----------------------------------------------------------------------------
Handler(h) ==
    \/ Prepared(h) \/ PrepareFails(h)
    \/ Written(h) \/ WriteFails(h)
    \/ Wake(h) \/ HeartbeatDue(h) \/ Beaten(h)
    \/ Ended(h)

\* The rest of the manager: the other endpoints, events, the janitor, stop.
Elsewhere ==
    /\ (\E c \in Clients : Calls(c)) \/ World \/ Janitor \/ Stop
    /\ UNCHANGED handlerVars

SseNext ==
    \/ \E c \in Clients, s \in SubIds, h \in Handles : Open(c, s, h)
    \/ \E h \in Handles : Handler(h) \/ Disconnect(h)
    \/ Elsewhere

SseSpec == SseInit /\ [][SseNext]_sseVars

\* The event loop resumes every coroutine whose await is over (the write of a
\* live connection returns, that of a lost one raises, the heartbeat timer
\* fires), and the clock and the janitor's timer advance.
SseFairSpec ==
    /\ SseSpec
    /\ \A h \in Handles : WF_sseVars(Handler(h))
    /\ WF_sseVars(Tick /\ UNCHANGED handlerVars)
    /\ WF_sseVars(Janitor /\ UNCHANGED handlerVars)

-----------------------------------------------------------------------------
(* Properties.                                                              *)

SeqNumbers(b) == {b[i].seq : i \in DOMAIN b}
Taken(h) == {sent[h][i] : i \in DOMAIN sent[h]} \cup SeqNumbers(out[h])

\* A single stream per subscription: a handler in its loop that was not told to
\* end holds the slot of its subscription, so two of them never share one.
SingleStream ==
    \A h \in Handles : pc[h] \in InLoop /\ h \notin closed => stream[target[h]] = h

\* At most once, in order: what a handler has written and is about to write is
\* increasing; no two handlers of a subscription ever had the same batch, and
\* no batch a handler took is still in the queue for sync to return.
AtMostOnce ==
    /\ \A h \in Handles :
          LET all == sent[h] \o [i \in DOMAIN out[h] |-> out[h][i].seq] IN
          \A i, j \in DOMAIN all : i < j => all[i] < all[j]
    /\ \A g, h \in opened :
          g # h /\ target[g] = target[h] => Taken(g) \cap Taken(h) = {}
    /\ \A h \in opened : Taken(h) \cap SeqNumbers(mail[target[h]].batches) = {}

\* The manager's own promises survive its handlers: they use it as its
\* specification says.
ManagerSpec == Init /\ [][Next]_vars

\* What is queued while a stream is up is taken by it in the end, unless the
\* stream loses the slot or its connection.
StreamDelivers ==
    \A s \in SubIds, h \in Handles :
        (mail[s].batches # <<>> /\ stream[s] = h /\ pc[h] \in Awaits) ~>
            (mail[s].batches = <<>> \/ stream[s] # h \/ h \in gone)

\* A stream that was taken over or whose subscription was deleted ends, and so
\* does one whose connection is gone.
ToldStreamsEnd ==
    \A h \in Handles : (h \in closed \cup gone) ~> (pc[h] = "done")

\* views.py, at the end of the loop: "Clean end-of-stream (takeover, deletion,
\* or shutdown)" - after a shutdown the open streams are told to end.
ShutdownEndsStreams ==
    ~listening => \A h \in Handles : pc[h] \in InLoop => h \in closed

\* README: "mandatory idle-TTL expiry" - a subscription no call touches and no
\* handler is running for is expired in the end.
IdleExpiry ==
    \A s \in SubIds :
        (s \in subs /\ idle[s] > 0 /\ ~\E h \in Running : target[h] = s) ~>
            (s \notin subs \/ idle[s] = 0 \/ ~listening
                \/ \E h \in Running : target[h] = s)
=============================================================================
