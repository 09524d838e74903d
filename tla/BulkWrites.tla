----------------------------- MODULE BulkWrites -----------------------------
(***************************************************************************)
(* PUT /objects/value (server/views.py, server/writes.py): bulks of value  *)
(* writes that run beside each other and beside the devices they change.   *)
(*                                                                         *)
(* A bulk takes the address space and the write options as they are when   *)
(* it begins and goes through its updates in order.  The only await is the *)
(* blocking service call of an update that changes something; the updates  *)
(* between two calls are handled in one step (Resume).  The device acts    *)
(* while the call is under way, and what Home Assistant says of it may     *)
(* follow later.                                                           *)
(*                                                                         *)
(* Data: the value of an entity and a written value are the same when the  *)
(* code's == says so; which service and fields a domain takes is left out. *)
(***************************************************************************)
EXTENDS Integers, Sequences, FiniteSetsExt

CONSTANTS
    Requests,
    Actuators,     \* exposed entities whose domain has a service to set them
    Pressed,       \* buttons and scenes: the call is the same whatever is written
    Fixed,         \* exposed entities without one: sensors, and all locks
    Structural,    \* areas and devices: exposed, without a live value
    Values,
    Unusable,      \* a value the domain of the entity cannot interpret
    Breaking,      \* one that raises: int() of infinity, the service's schema
    Missing,       \* updates[].value.value is absent
    Unknown,       \* an elementId of nothing that is exposed
    NoId,          \* updates[].elementId is absent
    Unavailable,   \* the entity's state is unavailable, its quality Bad
    Bulks,         \* the updates lists that are sent
    MaxOutside     \* bound: changes from elsewhere

Entities == Actuators \cup Pressed \cup Fixed

Update == [id    : Entities \cup Structural \cup {Unknown, NoId},
           value : Values \cup {Unusable, Breaking, Missing}]

ASSUME BulkWritesAssumption ==
    /\ Actuators \cap Fixed = {} /\ Pressed \cap (Actuators \cup Fixed) = {}
    /\ Entities \cap Structural = {}
    /\ {Unusable, Breaking, Missing, Unavailable} \cap Values = {}
    /\ {Unknown, NoId} \cap (Entities \cup Structural) = {} /\ Unknown # NoId
    /\ Bulks \subseteq Seq(Update)
    /\ MaxOutside \in Nat

VARIABLES
    options,    \* write_enabled, and the entities the write filter lets through
    actual,     \* what the device is set to
    reported,   \* what Home Assistant says it is
    req,        \* the bulks
    calls,      \* history: the service calls of a bulk that are over
    disturbed,  \* history: entities a bulk did not have to itself (see Disturb)
    outside     \* changes from elsewhere so far

vars == <<options, actual, reported, req, calls, disturbed, outside>>

Options == [enabled : BOOLEAN, allowed : SUBSET Entities]

\* Answers of one item: 200, 400, 403, 404, 500.
ItemAnswers == {"ok", "bad request", "forbidden", "not found", "failed"}

Idle == [at |-> "idle", updates |-> <<>>, options |-> [enabled |-> FALSE, allowed |-> {}],
         results |-> <<>>, acted |-> FALSE]

BulkState == [at      : {"idle", "calling", "answered", "refused", "broken"},
              updates : Bulks \cup {<<>>},
              options : Options,
              results : Seq(ItemAnswers),
              acted   : BOOLEAN]

TypeOK ==
    /\ options \in Options
    /\ actual \in [Entities -> Values]
    /\ reported \in [Entities -> Values \cup {Unavailable}]
    /\ disturbed \in [Requests -> SUBSET Entities]
    /\ outside \in 0..MaxOutside
    /\ req \in [Requests -> BulkState]
    /\ calls \in [Requests -> Seq([item : Nat, ok : BOOLEAN])]
    /\ \A r \in Requests : /\ Len(req[r].results) <= Len(req[r].updates)
                           /\ req[r].acted => req[r].at = "calling"

Init ==
    /\ options \in {[enabled |-> b, allowed |-> A] : b \in BOOLEAN, A \in {Entities, {}}}
    /\ actual \in [Entities -> Values]
    /\ reported = actual
    /\ req = [r \in Requests |-> Idle]
    /\ calls = [r \in Requests |-> <<>>]
    /\ disturbed = [r \in Requests |-> {}]
    /\ outside = 0

-----------------------------------------------------------------------------
(* write_values                                                             *)

\* Faulty variants (here and below, named after the fault) show that the
\* properties can fail; nothing else uses them.
VerdictUnfiltered(granted, seen, u) ==
    IF u.id = NoId THEN "refused"
    ELSE IF u.value = Missing \/ u.id \in Structural THEN "bad request"
    ELSE IF u.id \notin Entities THEN "not found"
    ELSE IF u.value = seen[u.id] THEN "ok"
    ELSE IF ~granted.enabled THEN "forbidden"
    ELSE IF u.id \in Pressed THEN "calling"
    ELSE IF u.id \in Fixed \/ u.value = Unusable THEN "bad request"
    ELSE IF u.value = Breaking THEN "broken" ELSE "calling"

\* What becomes of an update, given the options of its bulk and the states Home
\* Assistant has when its turn comes: an answer, the end of the whole bulk, or
\* a call.  Writing back the current value is a success whatever the options.
Verdict(granted, seen, u) ==
    IF u.id = NoId THEN "refused"
    ELSE IF u.value = Missing \/ u.id \in Structural THEN "bad request"
    ELSE IF u.id \notin Entities THEN "not found"
    ELSE IF u.value = seen[u.id] THEN "ok"
    ELSE IF ~granted.enabled \/ u.id \notin granted.allowed THEN "forbidden"
    ELSE IF u.id \in Pressed THEN "calling"
    ELSE IF u.id \in Fixed \/ u.value = Unusable THEN "bad request"
    ELSE IF u.value = Breaking THEN "broken" ELSE "calling"

ResumeOncePerElement(q, seen) ==
    LET verdict(k) == IF \E j \in 1..(k - 1) : q.updates[j].id = q.updates[k].id
                      THEN "ok" ELSE Verdict(q.options, seen, q.updates[k])
        next   == Len(q.results) + 1
        stops  == {k \in next..Len(q.updates) : verdict(k) \in {"refused", "broken", "calling"}}
        stop   == IF stops = {} THEN Len(q.updates) + 1 ELSE Min(stops)
        passed == q.results \o [i \in 1..(stop - next) |-> verdict(next + i - 1)]
        at     == IF stops = {} THEN "answered" ELSE verdict(stop)
    IN  [q EXCEPT !.at = at, !.acted = FALSE,
                  !.results = IF at \in {"refused", "broken"} THEN <<>> ELSE passed]

\* q goes on after the items it has results for, up to the next call, the first
\* update that ends it, or its end; results are dropped when it is ended.
Resume(q, seen) ==
    LET verdict(k) == Verdict(q.options, seen, q.updates[k])
        next   == Len(q.results) + 1
        stops  == {k \in next..Len(q.updates) : verdict(k) \in {"refused", "broken", "calling"}}
        stop   == IF stops = {} THEN Len(q.updates) + 1 ELSE Min(stops)
        passed == q.results \o [i \in 1..(stop - next) |-> verdict(next + i - 1)]
        at     == IF stops = {} THEN "answered" ELSE verdict(stop)
    IN  [q EXCEPT !.at = at, !.acted = FALSE,
                  !.results = IF at \in {"refused", "broken"} THEN <<>> ELSE passed]

\* A bulk no longer has an entity to itself when somebody else changes it, or
\* when the bulk goes on while Home Assistant's state of it lags behind.
Disturb(r, es) == disturbed' = [disturbed EXCEPT ![r] = @ \cup es]

Lagging == {e \in Entities : reported[e] # actual[e]}

\* The request arrives.
Put(r, updates) ==
    /\ req[r] = Idle
    /\ req' = [req EXCEPT ![r] = Resume([Idle EXCEPT !.updates = updates,
                                                     !.options = options], reported)]
    /\ Disturb(r, Lagging)
    /\ UNCHANGED <<options, actual, reported, calls, outside>>

Called(r) == req[r].updates[Len(req[r].results) + 1]

\* The call of r is over, with this answer for its item; the loop goes on.
GoOn(r, answer) ==
    /\ calls' = [calls EXCEPT ![r] = Append(@, [item |-> Len(req[r].results) + 1,
                                                ok   |-> answer = "ok"])]
    /\ req' = [req EXCEPT ![r] = Resume([req[r] EXCEPT !.results = Append(@, answer)], reported)]
    /\ Disturb(r, Lagging)
    /\ UNCHANGED <<options, actual, reported, outside>>

\* The service returns when the device has acted.
CallSucceeds(r) ==
    /\ req[r].at = "calling"
    /\ req[r].acted
    /\ GoOn(r, "ok")

CallFailsUnanswered(r) ==
    /\ req[r].at = "calling"
    /\ calls' = [calls EXCEPT ![r] = Append(@, [item |-> Len(req[r].results) + 1,
                                                ok   |-> FALSE])]
    /\ req' = [req EXCEPT ![r] = Resume(@, reported)]
    /\ Disturb(r, Lagging)
    /\ UNCHANGED <<options, actual, reported, outside>>

\* It raises a HomeAssistantError, whether the device has acted or not.
CallFails(r) ==
    /\ req[r].at = "calling"
    /\ GoOn(r, "failed")

\* It raises anything else: the whole request is answered with 500.
CallRaises(r) ==
    /\ req[r].at = "calling"
    /\ req' = [req EXCEPT ![r].at = "broken", ![r].acted = FALSE, ![r].results = <<>>]
    /\ UNCHANGED <<options, actual, reported, calls, disturbed, outside>>

-----------------------------------------------------------------------------
(* The world.                                                               *)

\* For everyone but r the entity has been disturbed.
ChangedFor(others, e) ==
    disturbed' = [q \in Requests |-> IF q \in others THEN disturbed[q] \cup {e}
                                                     ELSE disturbed[q]]

\* The device does what the call of r asks of it.  The state of a button or scene is
\* the time it was last pressed, a new one.
Act(r) ==
    LET u == Called(r) IN
    /\ req[r].at = "calling"
    /\ ~req[r].acted
    /\ \E v \in Values :
          /\ IF u.id \in Pressed THEN v # actual[u.id] ELSE v = u.value
          /\ actual' = [actual EXCEPT ![u.id] = v]
    /\ req' = [req EXCEPT ![r].acted = TRUE]
    /\ ChangedFor(Requests \ {r}, u.id)
    /\ UNCHANGED <<options, reported, calls, outside>>

\* Home Assistant is told what the device is set to.
Report(e) ==
    /\ reported' = [reported EXCEPT ![e] = actual[e]]
    /\ UNCHANGED <<options, actual, req, calls, disturbed, outside>>

\* Somebody else sets an entity, or it becomes unavailable.
Elsewhere(e) ==
    /\ outside < MaxOutside
    /\ outside' = outside + 1
    /\ \/ \E v \in Values \ {actual[e]} : actual' = [actual EXCEPT ![e] = v] /\ UNCHANGED reported
       \/ reported' = [reported EXCEPT ![e] = Unavailable] /\ UNCHANGED actual
    /\ ChangedFor(Requests, e)
    /\ UNCHANGED <<options, req, calls>>

\* The options flow reloads the entry: requests from now on see other options.
SetOptions ==
    /\ outside < MaxOutside
    /\ outside' = outside + 1
    /\ options' \in {[enabled |-> b, allowed |-> A] : b \in BOOLEAN, A \in {Entities, {}}}
    /\ UNCHANGED <<actual, reported, req, calls, disturbed>>

-----------------------------------------------------------------------------
Next ==
    \/ \E r \in Requests :
          \/ \E b \in Bulks : Put(r, b)
          \/ Act(r) \/ CallSucceeds(r) \/ CallFails(r) \/ CallRaises(r)
    \/ \E e \in Entities : Report(e) \/ Elsewhere(e)
    \/ SetOptions

Spec == Init /\ [][Next]_vars

-----------------------------------------------------------------------------
(* Properties.                                                              *)

\* The last write stands: of several updates of one entity in a bulk the last
\* successful one decides, echoes included, whatever other bulks do to other
\* entities in between - provided nobody else touched this one.
LastWriteStands ==
    \A r \in Requests : \A e \in Entities \ (Pressed \cup disturbed[r]) :
        LET about == {k \in DOMAIN req[r].results : req[r].updates[k].id = e} IN
        req[r].at = "answered" /\ about # {} /\ req[r].results[Max(about)] = "ok"
            => actual[e] = req[r].updates[Max(about)].value

\* "Same order/length as the request, per-item failures": an answer with results
\* has one for every update, and they tell of every call what came of it; no
\* update is carried out twice, and none out of order.
AnswersTell ==
    \A r \in Requests :
        /\ \A i, j \in DOMAIN calls[r] : i < j => calls[r][i].item < calls[r][j].item
        /\ req[r].at = "answered" =>
              /\ Len(req[r].results) = Len(req[r].updates)
              /\ \A i \in DOMAIN calls[r] :
                    (req[r].results[calls[r][i].item] = "ok") <=> calls[r][i].ok

\* A device is changed, or a button pressed, only by a bulk that began while the
\* options let it (or from elsewhere), and never one that is not writable, locks
\* above all.
OnlyGranted ==
    [][\A e \in Entities : actual'[e] # actual[e] =>
          \/ outside' # outside
          \/ \E r \in Requests : /\ req[r].at = "calling" /\ Called(r).id = e
                                 /\ req[r].options.enabled
                                 /\ e \in req[r].options.allowed \ Fixed]_vars
=============================================================================
