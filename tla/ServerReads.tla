----------------------------- MODULE ServerReads -----------------------------
(***************************************************************************)
(* Reads of current values (POST /objects/value, server/views.py) and the  *)
(* reports to subscribers, over the address space and the cache of service *)
(* data (server/service_data.py): the items of a to-do list, the events of *)
(* a calendar, the forecast of a weather entity.                           *)
(*                                                                         *)
(* The cache keeps one payload per entity, filed under the time of the     *)
(* state it was fetched for, in milliseconds.  Whoever misses it fetches,  *)
(* and several may at the same time: the requests, and the follow-up task  *)
(* of every state change of a watched entity.  The last to return is kept. *)
(*                                                                         *)
(* Data: states and payloads are counted.  A change in the same millisecond*)
(* as the one before it has the same time.  Every entity is watched.       *)
(***************************************************************************)
EXTENDS AddressSpace, Sequences, FiniteSetsExt

CONSTANTS
    Requests,
    IdLists,           \* the elementIds lists of requests
    ServiceBacked,     \* entities with a service_key
    NoPayload,         \* None for a payload
    DataTTL,           \* SERVICE_DATA_TTL_SECONDS, in ticks
    MaxVersion,        \* bound: states of an entity
    MaxPayload         \* bound: payloads of an entity

ASSUME ServerReadsAssumption ==
    /\ ServiceBacked \subseteq Entities
    /\ {MaxVersion, MaxPayload} \subseteq Nat \ {0} /\ DataTTL \in Nat
    /\ NoPayload \notin Nat
    /\ \A ids \in IdLists : ids \in Seq(Range(ids))

VARIABLES
    states,      \* history: of each entity the states so far, the last is current
    payload,     \* what the service would answer
    justNow,     \* entities whose last change is in this millisecond
    cache,       \* _data
    req,         \* the value requests
    followUps,   \* _async_service_follow_up tasks
    sent,        \* history: what was put in the queues of subscribers
    failed       \* history: states whose follow-up got no payload

readVars == <<states, payload, justNow, cache, req, followUps, sent, failed>>
vars     == <<spaceVars, readVars>>

Payloads == 1..MaxPayload \cup {NoPayload}

\* The record of an entity nothing was fetched for has key 0.
Record == [key : 0..MaxVersion, payload : Payloads, age : 0..DataTTL]

\* A state has a number, the number of the first one of its millisecond as its
\* time, and the payload the service had at that moment.
State == [number : 1..MaxVersion, time : 1..MaxVersion, owed : 1..MaxPayload]

\* What is read of an entity: number of the state and payload.
Value == [number : 1..MaxVersion, payload : Payloads]

\* A fetch under way: for which state, and what the service answered.
NotAsked == 0
Fetch == [element : ServiceBacked, state : State, got : Payloads \cup {NotAsked}]

FollowUp == [fetch : Fetch, cached : Payloads]

\* The elementIds that are asked for: objects, and what is none.
Ids == UNION {Range(ids) : ids \in IdLists}

AnswerItem == [id : Ids, found : BOOLEAN, value : SUBSET Value,
               parts : SUBSET (Objects \X SUBSET Value)]

ReadState == [at : {"idle", "fetching", "answered"}, ids : IdLists \cup {<<>>},
              space : Spaces \cup {None}, fetch : SUBSET Fetch, results : Seq(AnswerItem)]

\* A request fetches for the first of its items that it has no result for.
TypeOK ==
    /\ SpaceTypeOK
    /\ states \in [Entities -> Seq(State)]
    /\ \A e \in Entities : Len(states[e]) \in 1..MaxVersion
    /\ payload \in [ServiceBacked -> 1..MaxPayload]
    /\ justNow \subseteq Entities
    /\ cache \in [ServiceBacked -> Record]
    /\ req \in [Requests -> ReadState]
    /\ \A r \in Requests : \A f \in req[r].fetch :
          /\ req[r].at = "fetching" /\ Len(req[r].results) < Len(req[r].ids)
          /\ f.element = req[r].ids[Len(req[r].results) + 1] /\ req[r].space \in Spaces
    /\ followUps \subseteq FollowUp
    /\ sent \subseteq [element : ServiceBacked, value : Value]
    /\ failed \subseteq ServiceBacked \X (1..MaxVersion)

\* A request that has looked at nothing yet.
Unread(ids, space) ==
    [at |-> "idle", ids |-> ids, space |-> space, fetch |-> {}, results |-> <<>>]

Init ==
    /\ SpaceInit
    /\ states = [e \in Entities |-> <<[number |-> 1, time |-> 1, owed |-> 1]>>]
    /\ payload = [e \in ServiceBacked |-> 1]
    /\ justNow = {}
    /\ cache = [e \in ServiceBacked |-> [key |-> 0, payload |-> NoPayload, age |-> 0]]
    /\ req = [r \in Requests |-> Unread(<<>>, None)]
    /\ followUps = {}
    /\ sent = {} /\ failed = {}

Current(e) == states[e][Len(states[e])]

-----------------------------------------------------------------------------
(* ServiceDataCache                                                         *)

Peek(e) == IF e \in ServiceBacked THEN cache[e].payload ELSE NoPayload

\* Faulty variants (here and below, named after the fault) show that the
\* properties can fail; nothing else uses them.
HitAnyState(c, e, state) == c[e].key # 0 /\ c[e].age < DataTTL

\* async_get has an answer at once: a record for this very state, young enough.
Hit(c, e, state) == c[e].key = state.time /\ c[e].age < DataTTL

\* What the cache is when a fetch returns; a failed one counts as None.
Stored(f) == [cache EXCEPT ![f.element] = [key |-> f.state.time, payload |-> f.got, age |-> 0]]

\* The service answers a fetch, or fails.
Answers(f) == {[f EXCEPT !.got = p] : p \in {payload[f.element], NoPayload}}

-----------------------------------------------------------------------------
(* The value view.                                                          *)

\* Of an entity without a state, and of what is no entity, there is no value.
ReadOf(o, p) == IF o \in present THEN {[number |-> Current(o).number, payload |-> p]} ELSE {}

NeedsFetch(c, space, o) ==
    o \in DOMAIN space \cap ServiceBacked \cap present /\ ~Hit(c, o, Current(o))

\* An item: not found, or the value and those of the components.
Item(c, space, o) ==
    LET kept(x) == IF x \in ServiceBacked THEN c[x].payload ELSE NoPayload
    IN  [id |-> o, found |-> o \in DOMAIN space,
         value |-> IF o \in DOMAIN space THEN ReadOf(o, kept(o)) ELSE {},
         parts |-> IF o \in DOMAIN space
                   THEN {<<x, ReadOf(x, kept(x))>> : x \in ComponentChildren(space, o)} ELSE {}]

\* q goes on after the items it has, up to the next one that must be fetched.
Resume(q, c) ==
    LET next  == Len(q.results) + 1
        stops == {k \in next..Len(q.ids) : NeedsFetch(c, q.space, q.ids[k])}
        stop  == IF stops = {} THEN Len(q.ids) + 1 ELSE Min(stops)
    IN  [q EXCEPT !.results = @ \o [i \in 1..(stop - next) |->
                                       Item(c, q.space, q.ids[next + i - 1])],
                  !.at      = IF stops = {} THEN "answered" ELSE "fetching",
                  !.fetch   = {[element |-> q.ids[k], state |-> Current(q.ids[k]),
                                got |-> NotAsked] : k \in stops \cap {stop}}]

Read(r, ids) ==
    /\ req[r].at # "fetching"
    /\ Use(present)
    /\ req' = [req EXCEPT ![r] = Resume(Unread(ids, Served(present)), cache)]
    /\ UNCHANGED <<registries, present, since, changes>>
    /\ UNCHANGED <<states, payload, justNow, cache, followUps, sent, failed>>

\* The fetch of r is over: its item reports the state the fetch was for.
ReadOn(r) ==
    \E f \in req[r].fetch :
        /\ f.got # NotAsked
        /\ cache' = Stored(f)
        /\ LET item == [id |-> f.element, found |-> TRUE, parts |-> {},
                        value |-> {[number |-> f.state.number, payload |-> f.got]}]
           IN  req' = [req EXCEPT ![r] = Resume([req[r] EXCEPT !.results = Append(@, item)],
                                                cache')]
        /\ UNCHANGED <<spaceVars, states, payload, justNow, followUps, sent, failed>>

ReadServed(r) ==
    \E f \in req[r].fetch : \E g \in Answers(f) :
        /\ f.got = NotAsked
        /\ req' = [req EXCEPT ![r].fetch = {g}]
        /\ UNCHANGED <<spaceVars, states, payload, justNow, cache, followUps, sent, failed>>

-----------------------------------------------------------------------------
(* State changes and follow-ups (server/subscriptions.py).                  *)

Report(f, p) == [element |-> f.element, value |-> [number |-> f.state.number, payload |-> p]]

\* A state is set, the first one of an entity or the next; watchers of a
\* service-backed entity that is served get it with the payload at hand, and its
\* follow-up starts.
StateChanges(e) ==
    LET n     == Len(states[e]) + 1
        state == [number |-> n, time |-> IF e \in justNow THEN Current(e).time ELSE n,
                  owed |-> IF e \in ServiceBacked THEN payload[e] ELSE 1]
        f     == [element |-> e, state |-> state, got |-> NotAsked]
    IN  /\ n <= MaxVersion
        /\ states' = [states EXCEPT ![e] = Append(@, state)]
        /\ justNow' = justNow \cup {e}
        /\ Appears(e)
        /\ Use(present')
        /\ IF e \in DOMAIN snapshot' \cap ServiceBacked
           THEN /\ followUps' = followUps \cup {[fetch |-> f, cached |-> Peek(e)]}
                /\ sent' = sent \cup {Report(f, Peek(e))}
           ELSE UNCHANGED <<followUps, sent, failed>>
        /\ UNCHANGED <<registries, payload, cache, req, failed>>

Failing(f, p) == failed' = IF p = NoPayload THEN failed \cup {<<f.element, f.state.number>>}
                                             ELSE failed

\* async_get has the payload already.
FollowUpHit(t) ==
    /\ t.fetch.got = NotAsked
    /\ Hit(cache, t.fetch.element, t.fetch.state)
    /\ followUps' = followUps \ {t}
    /\ sent' = IF Peek(t.fetch.element) = t.cached THEN sent
               ELSE sent \cup {Report(t.fetch, Peek(t.fetch.element))}
    /\ Failing(t.fetch, Peek(t.fetch.element))
    /\ UNCHANGED <<spaceVars, states, payload, justNow, cache, req>>

FollowUpServed(t) ==
    /\ t.fetch.got = NotAsked
    /\ \E g \in Answers(t.fetch) : followUps' = (followUps \ {t}) \cup {[t EXCEPT !.fetch = g]}
    /\ UNCHANGED <<spaceVars, states, payload, justNow, cache, req, sent, failed>>

FollowUpComparesCache(t) ==
    /\ t.fetch.got # NotAsked
    /\ cache' = Stored(t.fetch)
    /\ followUps' = followUps \ {t}
    /\ sent' = IF t.fetch.got = Peek(t.fetch.element) THEN sent
               ELSE sent \cup {Report(t.fetch, t.fetch.got)}
    /\ Failing(t.fetch, t.fetch.got)
    /\ UNCHANGED <<spaceVars, states, payload, justNow, req>>

\* The fetch of a follow-up is over: the state it is for is sent once more unless
\* it went out with this payload.
FollowUpOn(t) ==
    /\ t.fetch.got # NotAsked
    /\ cache' = Stored(t.fetch)
    /\ followUps' = followUps \ {t}
    /\ sent' = IF t.fetch.got = t.cached THEN sent
               ELSE sent \cup {Report(t.fetch, t.fetch.got)}
    /\ Failing(t.fetch, t.fetch.got)
    /\ UNCHANGED <<spaceVars, states, payload, justNow, req>>

\* An item is edited, a forecast comes in: the state need not change.
PayloadChanges(e) ==
    /\ payload[e] < MaxPayload
    /\ payload' = [payload EXCEPT ![e] = @ + 1]
    /\ UNCHANGED <<spaceVars, states, justNow, cache, req, followUps, sent, failed>>

Tick ==
    /\ Ageing
    /\ justNow' = {}
    /\ cache' = [e \in ServiceBacked |->
                    [cache[e] EXCEPT !.age = IF @ < DataTTL THEN @ + 1 ELSE @]]
    /\ UNCHANGED <<states, payload, req, followUps, sent, failed>>

-----------------------------------------------------------------------------
Next ==
    \/ \E r \in Requests : (\E ids \in IdLists : Read(r, ids)) \/ ReadServed(r) \/ ReadOn(r)
    \/ \E t \in followUps : FollowUpHit(t) \/ FollowUpServed(t) \/ FollowUpOn(t)
    \/ \E e \in Entities : StateChanges(e)
    \/ \E e \in ServiceBacked : PayloadChanges(e)
    \/ SpaceWorld /\ UNCHANGED readVars
    \/ Tick

Spec == Init /\ [][Next]_vars

-----------------------------------------------------------------------------
(* Properties.                                                              *)

\* A state that had its millisecond to itself.
Alone(e, n) ==
    \A m \in DOMAIN states[e] : states[e][m].time = states[e][n].time => m = n

\* "Payload current as of the given state": what a request is told of an entity it
\* asks for is never older than the state it comes with, however many fetches
\* of older states return late.
AnswerCurrent ==
    \A r \in Requests : \A i \in DOMAIN req[r].results :
        LET item == req[r].results[i] IN
        \A v \in item.value :
            item.id \in ServiceBacked /\ v.payload # NoPayload /\ Alone(item.id, v.number)
                => v.payload >= states[item.id][v.number].owed

\* "Push the state with the cached payload now, then follow up once a fresh payload
\* arrives": when the follow-up of the last state is over subscribers have that
\* state with a payload at least as new, whatever they had before and whoever
\* else was fetching - unless none could be had.
FollowUpCatchesUp ==
    \A e \in ServiceBacked :
        LET n    == Len(states[e])
            told == {m.value.payload : m \in {x \in sent : x.element = e /\ x.value.number = n}}
        IN  told # {} /\ Alone(e, n) /\ <<e, n>> \notin failed
              /\ ~(\E t \in followUps : t.fetch.element = e /\ t.fetch.state.number = n)
            => \E p \in told \ {NoPayload} : p >= states[e][n].owed
=============================================================================
