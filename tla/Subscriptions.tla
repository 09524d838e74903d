--------------------------- MODULE Subscriptions ---------------------------
(***************************************************************************)
(* server/subscriptions.py: the subscription manager of the i3X server.    *)
(*                                                                         *)
(* Every method of the manager runs to completion on Home Assistant's      *)
(* event loop, so each is one action.  The only asynchronous piece is the  *)
(* follow-up task a state change of a service-backed entity (todo list,    *)
(* calendar, weather) starts: it is in followUps until it resumes.         *)
(*                                                                         *)
(* Data: the state of an entity is the count of its state changes, an      *)
(* update is an element with the version it reports (NoData for an element *)
(* without a state of its own), a batch holds a set of updates.  A         *)
(* Subscription object outlives its deletion, because a stream handler     *)
(* keeps a reference to it; subs are the ids the manager knows.            *)
(***************************************************************************)
EXTENDS BatchQueue, FiniteSets

CONSTANTS
    Clients,              \* clientIds
    NoClient,             \* owner of a token not handed out
    SubIds,               \* the tokens secrets.token_urlsafe may return
    Handles,              \* the StreamHandle objects that may be created
    NoHandle,             \* None
    Elements,             \* elementIds
    ServiceElements,      \* entities whose payload lives behind a service call
    StructuralElements,   \* devices and areas: elements without a state
    MaxPerClient,         \* MAX_SUBSCRIPTIONS_PER_CLIENT
    MaxTotal,             \* MAX_SUBSCRIPTIONS_TOTAL
    MaxMonitored,         \* MAX_MONITORED_PER_SUBSCRIPTION
    MaxStreams,           \* MAX_SSE_STREAMS
    TTL,                  \* subscription_ttl, in ticks
    MaxVersion,           \* bound: state changes per entity
    MaxSeq                \* bound: batches per subscription

ASSUME SubscriptionsAssumption ==
    /\ NoHandle \notin Handles
    /\ NoClient \notin Clients
    /\ ServiceElements \subseteq Elements
    /\ StructuralElements \subseteq Elements
    /\ IsFiniteSet(Elements)
    /\ ServiceElements \cap StructuralElements = {}
    /\ {MaxPerClient, MaxTotal, MaxMonitored, MaxStreams, TTL, MaxSeq} \subseteq Nat
    /\ MaxVersion \in Nat \ {0}

VARIABLES
    subs,        \* keys of _subs
    issued,      \* tokens handed out so far
    owner,       \* client_id
    monitored,   \* keys of monitored
    watchers,    \* _watchers; an absent key is the empty set
    mail,        \* queue, next_seq, overflow, data_event
    idle,        \* ticks since last_activity, at most TTL + 1
    stream,      \* the handle in the stream slot, or NoHandle
    opened,      \* handles created so far
    closed,      \* handles whose close_event is set
    listening,   \* the state listener and the janitor are installed
    exposed,     \* element ids in model.snapshot().objects
    present,     \* entities that have a state in hass.states
    version,     \* how often the state of an entity has changed
    followUps    \* _async_service_follow_up tasks awaiting the payload

subVars  == <<subs, issued, owner, monitored, watchers, mail, idle>>
slotVars == <<stream, opened, closed>>
worldVars == <<exposed, present, version>>
vars == <<subVars, slotVars, listening, worldVars, followUps>>

Entities == Elements \ StructuralElements
NoData   == 0
Update   == [element : Elements, version : 0..MaxVersion]

TypeOK ==
    /\ subs \subseteq issued
    /\ issued \subseteq SubIds
    /\ owner \in [SubIds -> Clients \cup {NoClient}]
    /\ monitored \in [SubIds -> SUBSET Elements]
    /\ watchers \in [Elements -> SUBSET SubIds]
    /\ mail \in [SubIds -> Mailbox(Update)]
    /\ idle \in [SubIds -> 0..(TTL + 1)]
    /\ stream \in [SubIds -> Handles \cup {NoHandle}]
    /\ opened \subseteq Handles
    /\ closed \subseteq opened
    /\ listening \in BOOLEAN
    /\ exposed \subseteq Elements
    /\ present \subseteq Entities
    /\ version \in [Entities -> 0..MaxVersion]
    /\ followUps \subseteq [element : ServiceElements, version : 0..MaxVersion]

\* A fresh engine, its manager started.
Init ==
    /\ subs = {}
    /\ issued = {}
    /\ owner = [s \in SubIds |-> NoClient]
    /\ monitored = [s \in SubIds |-> {}]
    /\ watchers = [e \in Elements |-> {}]
    /\ mail = [s \in SubIds |-> EmptyMailbox]
    /\ idle = [s \in SubIds |-> 0]
    /\ stream = [s \in SubIds |-> NoHandle]
    /\ opened = {}
    /\ closed = {}
    /\ listening = TRUE
    /\ exposed \in SUBSET Elements
    /\ present = Entities
    /\ version = [e \in Entities |-> 1]
    /\ followUps = {}

-----------------------------------------------------------------------------
(* Helpers.                                                                *)

\* _owned: a wrong clientId sees the same 404 as a subscription that is gone.
Owned(c, s) == s \in subs /\ owner[s] = c

OwnedBy(c) == {s \in subs : owner[s] = c}

ActiveStreams == {s \in subs : stream[s] # NoHandle}

Room(s) == mail[s].next <= MaxSeq

Touch(S) == idle' = [s \in SubIds |-> IF s \in S THEN 0 ELSE idle[s]]

\* Faulty variants of _drop (here and below, variants named after the fault show
\* that the properties can fail; nothing else uses them).
DropSetsAnyCloseEvent(D) ==
    /\ subs' = subs \ D
    /\ closed' = closed \cup {stream[s] : s \in D}
    /\ stream' = [s \in SubIds |-> IF s \in D THEN NoHandle ELSE stream[s]]
    /\ watchers' = [e \in Elements |-> watchers[e] \ {s \in D : e \in monitored[s]}]

DropKeepsSlot(D) ==
    /\ subs' = subs \ D
    /\ closed' = closed \cup {stream[s] : s \in D \cap ActiveStreams}
    /\ UNCHANGED stream
    /\ watchers' = [e \in Elements |-> watchers[e] \ {s \in D : e \in monitored[s]}]

DropDeletesWatchers(D) ==
    /\ subs' = subs \ D
    /\ closed' = closed \cup {stream[s] : s \in D \cap ActiveStreams}
    /\ stream' = [s \in SubIds |-> IF s \in D THEN NoHandle ELSE stream[s]]
    /\ watchers' = [e \in Elements |->
                      IF \E s \in D : e \in monitored[s] THEN {} ELSE watchers[e]]

\* _drop for every subscription of D: out of _subs, its stream told to end,
\* out of the watchers of what it monitored.
Drop(D) ==
    /\ subs' = subs \ D
    /\ closed' = closed \cup {stream[s] : s \in D \cap ActiveStreams}
    /\ stream' = [s \in SubIds |-> IF s \in D THEN NoHandle ELSE stream[s]]
    /\ watchers' = [e \in Elements |-> watchers[e] \ {s \in D : e \in monitored[s]}]

\* _fan_out
FanOut(e, v) ==
    mail' = [s \in SubIds |->
               IF s \in watchers[e] \cap subs
               THEN Enqueue(mail[s], {[element |-> e, version |-> v]})
               ELSE mail[s]]

FanOutFits(e) == \A s \in watchers[e] \cap subs : Room(s)

\* The values _snapshot_batch stages for s.
CurrentValues(s) ==
    {[element |-> e, version |-> IF e \in StructuralElements THEN NoData ELSE version[e]] :
        e \in {x \in monitored[s] \cap exposed : x \in StructuralElements \cup present}}

-----------------------------------------------------------------------------
(* The endpoints, as called by the views.  Each first resolves the          *)
(* subscription with _owned, which touches it; a call that is then refused  *)
(* (400 for sync beside a stream, 503 for a stream too many, every item of  *)
(* a bulk call refused) has had no other effect, and neither has list.      *)

Create(c, s) ==
    /\ s \notin issued
    /\ Cardinality(subs) < MaxTotal
    /\ Cardinality(OwnedBy(c)) < MaxPerClient
    /\ subs' = subs \cup {s}
    /\ issued' = issued \cup {s}
    /\ owner' = [owner EXCEPT ![s] = c]
    /\ monitored' = [monitored EXCEPT ![s] = {}]
    /\ mail' = [mail EXCEPT ![s] = EmptyMailbox]
    /\ stream' = [stream EXCEPT ![s] = NoHandle]
    /\ Touch({s})
    /\ UNCHANGED <<watchers, opened, closed, listening, worldVars, followUps>>

\* list_items, and the refusals of the other calls.
TouchOnly(c, S) ==
    /\ S \subseteq OwnedBy(c)
    /\ Touch(S)
    /\ UNCHANGED <<subs, issued, owner, monitored, watchers, mail, slotVars,
                   listening, worldVars, followUps>>

\* delete_items; ids that are not the client's get a 404 and change nothing.
Delete(c, S) ==
    /\ S \subseteq OwnedBy(c)
    /\ Drop(S)
    /\ Touch(S)
    /\ UNCHANGED <<issued, owner, monitored, mail, opened, listening,
                   worldVars, followUps>>

\* register: ids outside the snapshot are refused; of the new ones as many are
\* admitted as the limit leaves room for, which of them depends on their order.
Register(c, s, ids) ==
    /\ Owned(c, s)
    /\ LET new  == (ids \cap exposed) \ monitored[s]
           room == MaxMonitored - Cardinality(monitored[s])
       IN  \E admitted \in SUBSET new :
             /\ Cardinality(admitted) =
                   IF Cardinality(new) <= room THEN Cardinality(new) ELSE room
             /\ monitored' = [monitored EXCEPT ![s] = @ \cup admitted]
             /\ watchers' = [e \in Elements |->
                               IF e \in ids \cap exposed \cap monitored'[s]
                               THEN watchers[e] \cup {s} ELSE watchers[e]]
    /\ Touch({s})
    /\ UNCHANGED <<subs, issued, owner, mail, slotVars, listening, worldVars,
                   followUps>>

UnregisterKeepsWatcher(c, s, ids) ==
    /\ Owned(c, s)
    /\ monitored' = [monitored EXCEPT ![s] = @ \ ids]
    /\ Touch({s})
    /\ UNCHANGED <<subs, issued, owner, watchers, mail, slotVars, listening,
                   worldVars, followUps>>

\* unregister: what is queued stays queued.
Unregister(c, s, ids) ==
    /\ Owned(c, s)
    /\ monitored' = [monitored EXCEPT ![s] = @ \ ids]
    /\ watchers' = [e \in Elements |->
                      IF e \in ids \cap monitored[s] THEN watchers[e] \ {s}
                                                     ELSE watchers[e]]
    /\ Touch({s})
    /\ UNCHANGED <<subs, issued, owner, mail, slotVars, listening, worldVars,
                   followUps>>

\* sync; the answer is mail'[s].batches, a 206 iff mail[s].overflow.
Sync(c, s, ack) ==
    /\ Owned(c, s)
    /\ stream[s] = NoHandle
    /\ mail' = [mail EXCEPT ![s] = Synced(@, ack, CurrentValues(s))]
    /\ mail'[s].next <= MaxSeq + 1
    /\ Touch({s})
    /\ UNCHANGED <<subs, issued, owner, monitored, watchers, slotVars,
                   listening, worldVars, followUps>>

StreamOpenBesideOld(c, s, h) ==
    /\ Owned(c, s)
    /\ h \in Handles \ opened
    /\ stream[s] # NoHandle \/ Cardinality(ActiveStreams) < MaxStreams
    /\ opened' = opened \cup {h}
    /\ stream' = [stream EXCEPT ![s] = h]
    /\ Touch({s})
    /\ UNCHANGED <<subs, issued, owner, monitored, watchers, mail, closed,
                   listening, worldVars, followUps>>

StreamOpenUnlimited(c, s, h) ==
    /\ Owned(c, s)
    /\ h \in Handles \ opened
    /\ opened' = opened \cup {h}
    /\ closed' = IF stream[s] = NoHandle THEN closed ELSE closed \cup {stream[s]}
    /\ stream' = [stream EXCEPT ![s] = h]
    /\ Touch({s})
    /\ UNCHANGED <<subs, issued, owner, monitored, watchers, mail, listening,
                   worldVars, followUps>>

\* stream_open: a second stream takes the slot over and ends the first.
StreamOpen(c, s, h) ==
    /\ Owned(c, s)
    /\ h \in Handles \ opened
    /\ stream[s] # NoHandle \/ Cardinality(ActiveStreams) < MaxStreams
    /\ opened' = opened \cup {h}
    /\ closed' = IF stream[s] = NoHandle THEN closed ELSE closed \cup {stream[s]}
    /\ stream' = [stream EXCEPT ![s] = h]
    /\ Touch({s})
    /\ UNCHANGED <<subs, issued, owner, monitored, watchers, mail, listening,
                   worldVars, followUps>>

-----------------------------------------------------------------------------
(* What a stream handler does to the subscription it was given; the         *)
(* handler holds the object, so the subscription may have been dropped.     *)

\* stream_close: only the handle in the slot gives it back.
StreamClose(s, h) ==
    /\ h \in opened
    /\ IF s \in subs /\ stream[s] = h
       THEN stream' = [stream EXCEPT ![s] = NoHandle] /\ Touch({s})
       ELSE UNCHANGED <<stream, idle>>
    /\ UNCHANGED <<subs, issued, owner, monitored, watchers, mail, opened,
                   closed, listening, worldVars, followUps>>

\* drain, by the handler whose handle is in the slot and not closed.  With
\* nothing to write the handler's round goes on to its touch at once; otherwise
\* the touch comes after the writes, when the slot may have changed hands.
Drain(s) ==
    /\ stream[s] # NoHandle
    /\ mail' = [mail EXCEPT ![s] = Drained(@)]
    /\ IF mail[s].batches = <<>> THEN Touch({s}) ELSE UNCHANGED idle
    /\ UNCHANGED <<subs, issued, owner, monitored, watchers, slotVars,
                   listening, worldVars, followUps>>

HandlerTouch(s) ==
    /\ opened # {}
    /\ Touch({s})
    /\ UNCHANGED <<subs, issued, owner, monitored, watchers, mail, slotVars,
                   listening, worldVars, followUps>>

-----------------------------------------------------------------------------
(* Events.                                                                  *)

\* An entity's state is set; _handle_state_changed runs inside that call.
StateChange(e) ==
    /\ version[e] < MaxVersion
    /\ version' = [version EXCEPT ![e] = @ + 1]
    /\ present' = present \cup {e}
    /\ IF listening /\ watchers[e] # {} /\ e \in exposed
       THEN /\ FanOutFits(e)
            /\ FanOut(e, version'[e])
            /\ followUps' = IF e \in ServiceElements
                            THEN followUps \cup {[element |-> e, version |-> version'[e]]}
                            ELSE followUps
       ELSE UNCHANGED <<mail, followUps>>
    /\ UNCHANGED <<subs, issued, owner, monitored, watchers, idle, slotVars,
                   listening, exposed>>

\* An entity's state is removed: new_state is None, nothing is sent.
StateRemoved(e) ==
    /\ e \in present
    /\ present' = present \ {e}
    /\ UNCHANGED <<subVars, slotVars, listening, exposed, version, followUps>>

\* The address-space snapshot is rebuilt and gains or loses an element.
Reindex(e) ==
    /\ exposed' = IF e \in exposed THEN exposed \ {e} ELSE exposed \cup {e}
    /\ UNCHANGED <<subVars, slotVars, listening, present, version, followUps>>

\* The follow-up of an earlier state change has the payload: when it is not the
\* one already sent, the state of THEN is sent again with it.
FollowUp(f) ==
    /\ followUps' = followUps \ {f}
    /\ \/ UNCHANGED mail
       \/ FanOutFits(f.element) /\ FanOut(f.element, f.version)
    /\ UNCHANGED <<subs, issued, owner, monitored, watchers, idle, slotVars,
                   listening, worldVars>>

Tick ==
    /\ idle' = [s \in SubIds |-> IF s \in subs /\ idle[s] <= TTL THEN idle[s] + 1
                                                                ELSE idle[s]]
    /\ UNCHANGED <<subs, issued, owner, monitored, watchers, mail, slotVars,
                   listening, worldVars, followUps>>

ExpiredWhileStreaming == {s \in ActiveStreams : idle[s] > TTL}

Expired == {s \in subs \ ActiveStreams : idle[s] > TTL}

Janitor ==
    /\ listening
    /\ Drop(Expired)
    /\ UNCHANGED <<issued, owner, monitored, mail, idle, opened, listening,
                   worldVars, followUps>>

\* async_stop: the listeners go, both dictionaries are emptied; the
\* Subscription objects and their stream handles are left as they are.
Stop ==
    /\ listening
    /\ listening' = FALSE
    /\ subs' = {}
    /\ watchers' = [e \in Elements |-> {}]
    /\ UNCHANGED <<issued, owner, monitored, mail, idle, slotVars, worldVars,
                   followUps>>

-----------------------------------------------------------------------------
Calls(c) ==
    \/ \E s \in SubIds : Create(c, s)
    \/ \E S \in SUBSET OwnedBy(c) : TouchOnly(c, S) \/ Delete(c, S)
    \/ \E s \in SubIds, ids \in SUBSET Elements : Register(c, s, ids) \/ Unregister(c, s, ids)
    \/ \E s \in SubIds, ack \in {ClearAll, NoAck} \cup 1..MaxSeq : Sync(c, s, ack)

Streaming ==
    \/ \E c \in Clients, s \in SubIds, h \in Handles : StreamOpen(c, s, h)
    \/ \E s \in SubIds, h \in Handles : StreamClose(s, h)
    \/ \E s \in SubIds : Drain(s) \/ HandlerTouch(s)

World ==
    \/ \E e \in Entities : StateChange(e) \/ StateRemoved(e)
    \/ \E e \in Elements : Reindex(e)
    \/ \E f \in followUps : FollowUp(f)
    \/ Tick

Next == (\E c \in Clients : Calls(c)) \/ Streaming \/ World \/ Janitor \/ Stop

Spec == Init /\ [][Next]_vars

\* The clock advances and the janitor's interval timer keeps firing.
FairSpec == Spec /\ WF_vars(Tick) /\ WF_vars(Janitor)

-----------------------------------------------------------------------------
(* Properties.                                                              *)

\* _watchers, which decides who gets an event, says the same as the monitored
\* dictionaries of the live subscriptions: nobody is forgotten by register, and
\* nobody is left behind by unregister, delete, the janitor or stop.
WatchersAgree ==
    \A e \in Elements, s \in SubIds :
        s \in watchers[e] <=> s \in subs /\ e \in monitored[s]

\* The batches of a queue carry consecutive numbers up to next_seq - 1 whatever
\* mix of evictions, acknowledgements, drains and snapshots made it: a client
\* may take a jump in the numbers as the only sign of loss.
NumbersContiguous == \A s \in SubIds : Contiguous(mail[s])

\* A handler that waits on data_event cannot sleep beside a queue with batches.
ReadyCoversQueue == \A s \in SubIds : mail[s].batches # <<>> => mail[s].ready

\* An overflow not yet reported goes with a full queue: no call empties or
\* shortens a queue and leaves the flag for a later, unrelated answer.
FlagMeansFull ==
    \A s \in SubIds : /\ Len(mail[s].batches) <= MaxQueued
                      /\ mail[s].overflow => Len(mail[s].batches) = MaxQueued

\* Along one queue the reported states of an entity never go back in time, and
\* none is newer than the entity; service-backed entities are excepted, because
\* their follow-up task sends the state it was started with.
QueuesInOrder ==
    \A s \in SubIds :
        LET b == mail[s].batches IN
        \A i, j \in DOMAIN b :
            \A u \in b[i].updates, w \in b[j].updates :
                (i < j /\ u.element = w.element
                       /\ u.element \in Entities \ ServiceElements)
                => u.version <= w.version /\ w.version <= version[w.element]

\* A handle in a stream slot has not been told to end, and is in one slot only:
\* takeover, delete, the janitor and stream_close never cross.
SlotIsOpen ==
    \A s \in SubIds : stream[s] # NoHandle =>
        /\ stream[s] \in opened \ closed
        /\ \A t \in SubIds \ {s} : stream[t] # stream[s]

\* The limits on subscriptions, monitored objects and streams are never passed,
\* a takeover at the stream limit included.
LimitsHold ==
    /\ Cardinality(subs) <= MaxTotal
    /\ \A c \in Clients : Cardinality(OwnedBy(c)) <= MaxPerClient
    /\ \A s \in SubIds : Cardinality(monitored[s]) <= MaxMonitored
    /\ Cardinality(ActiveStreams) <= MaxStreams

\* A state change reaches exactly the live subscriptions that monitor the
\* entity, as one batch each, whatever registrations came before.
FanOutExact ==
    [][\A e \in Entities : version'[e] # version[e] =>
          \A s \in SubIds :
             mail'[s] = IF listening /\ s \in subs /\ e \in monitored[s] \cap exposed
                        THEN Enqueue(mail[s], {[element |-> e, version |-> version'[e]]})
                        ELSE mail[s]]_vars

\* A batch is only ever added to a live subscription and for elements it
\* monitors at that moment, by late follow-ups too.
OnlyMonitoredQueued ==
    [][\A s \in SubIds : mail'[s].next # mail[s].next =>
          /\ s \in subs
          /\ \A u \in mail'[s].batches[Len(mail'[s].batches)].updates :
                u.element \in monitored[s]]_vars

\* What a subscription promises the one client that reads it (UpdateChannels):
\* numbered updates of which only the oldest are given up, only when the queue is
\* full, and never without the loss being owed to the reader until it is told.
ChannelOf(m) ==
    [next   |-> m.next,
     oldest |-> IF m.batches = <<>> THEN m.next ELSE m.batches[1].seq,
     owed   |-> m.overflow]

channels == [s \in SubIds |-> ChannelOf(mail[s])]

Channel == INSTANCE UpdateChannels WITH
    Channels <- SubIds, Capacity <- MaxQueued, channel <- channels

ChannelSpec == Channel!Spec

\* A subscription nobody uses, without a stream, is expired in the end unless
\* somebody touches it again or the server stops (mandatory idle-TTL expiry).
AbandonedReclaimed ==
    \A s \in SubIds :
        (s \in subs /\ idle[s] > 0) ~>
            (s \notin subs \/ idle[s] = 0 \/ stream[s] # NoHandle \/ ~listening)
=============================================================================
