---------------------------- MODULE HistoryReads ----------------------------
(***************************************************************************)
(* History of the server (server/history.py, write_history of              *)
(* server/writes.py and their views).  A POST is answered from three jobs  *)
(* in the recorder's executor: the recorded states of scalar entities,     *)
(* those of structured entities, and the hourly statistics of the numeric  *)
(* entities whose states do not reach back to the start of the window.     *)
(* Between the jobs the recorder goes on: it commits, compiles statistics  *)
(* and purges.  A PUT accepts only a point that exists already.            *)
(*                                                                         *)
(* Time is counted in ticks of at least a millisecond, so that an entity   *)
(* has at most one state per tick.                                         *)
(***************************************************************************)
EXTENDS Integers, Sequences, FiniteSets, SequencesExt

CONSTANTS
    Entities,
    Numeric,          \* entities of KIND_NUMERIC; all of them keep statistics
    Structured,       \* entities of KIND_STRUCTURED
    Devices,          \* compositions
    Components,       \* device -> the sequence of its entities
    HourLength,       \* ticks to an hour
    MaxHistoryRows,   \* MAX_HISTORY_ROWS
    Requests,         \* the id lists that are requested
    Windows,          \* the start and end times they ask for
    MaxTime,          \* bound on the clock
    MaxReadings       \* bound on the states of an entity

ASSUME HistoryAssumption ==
    /\ Numeric \subseteq Entities /\ Structured \subseteq Entities
    /\ Numeric \cap Structured = {}
    /\ Components \in [Devices -> Seq(Entities)]
    /\ Requests \subseteq Seq(Entities \cup Devices) /\ Windows \subseteq (0..MaxTime) \X (0..MaxTime)
    /\ HourLength \in Nat \ {0} /\ {MaxHistoryRows, MaxTime, MaxReadings} \subseteq Nat

VARIABLES
    now,
    readings,     \* all states an entity ever had: [at, changed]
    committed,    \* the recorder has written everything before this tick
    purged,       \* ... and removed everything before this one
    compiled,     \* how many hours have statistics
    req,          \* the POST
    put           \* the PUT

vars == <<now, readings, committed, purged, compiled, req, put>>

NoSource == [e \in Entities |-> {}]

NoReq == [pc |-> "idle", ids |-> <<>>, start |-> 0, end |-> 0, upTo |-> 0,
          states |-> NoSource, rows |-> <<>>, truncated |-> FALSE]

NoPut == [pc |-> "idle", point |-> <<>>, accepted |-> FALSE]

Time    == 0..MaxTime
Reading == [at : Time, changed : BOOLEAN]
Row     == [entity : Entities, at : Time, mean : BOOLEAN]
Point   == [entity : Entities, at : Time, same : BOOLEAN]

Post == [pc     : {"idle", "scalar", "structured", "statistics", "done"},
         ids    : Requests \cup {<<>>}, start : Time, end : Time, upTo : 0..MaxTime + 1,
         states : [Entities -> SUBSET Reading], rows : Seq(Row), truncated : BOOLEAN]

Put == [pc : {"idle", "lookup", "done"}, point : Point \cup {<<>>}, accepted : BOOLEAN]

TypeOK ==
    /\ now \in Time
    /\ readings \in [Entities -> SUBSET Reading]
    /\ committed \in 0..MaxTime + 1 /\ compiled \in Nat
    /\ purged \in 0..compiled * HourLength /\ compiled * HourLength <= committed
    /\ req \in Post
    /\ put \in Put /\ (put.pc # "idle" => put.point \in Point)

Init ==
    /\ now = 0 /\ committed = 0 /\ purged = 0 /\ compiled = 0
    /\ readings = [e \in Entities |-> {}]
    /\ req = NoReq
    /\ put = NoPut

----------------------------------------------------------------------------
\* Home Assistant and its recorder.

\* An entity gets a new state, or an update of its attributes alone (~changed):
\* the value of a scalar entity is the state, that of a structured one has the
\* attributes in it.
Report(e) ==
    /\ Cardinality(readings[e]) < MaxReadings
    /\ committed <= now /\ \A r \in readings[e] : r.at < now
    /\ \E changed \in BOOLEAN :
          /\ readings[e] = {} => changed
          /\ readings' = [readings EXCEPT ![e] = @ \cup {[at |-> now, changed |-> changed]}]
    /\ UNCHANGED <<now, committed, purged, compiled, req, put>>

Tick ==
    /\ now < MaxTime
    /\ now' = now + 1
    /\ UNCHANGED <<readings, committed, purged, compiled, req, put>>

\* The recorder writes what it has queued, later than it happens.
Commit ==
    /\ committed <= now
    /\ committed' = now + 1
    /\ UNCHANGED <<now, readings, purged, compiled, req, put>>

\* Statistics of an hour follow its end.
Compile ==
    /\ (compiled + 1) * HourLength <= committed
    /\ compiled' = compiled + 1
    /\ UNCHANGED <<now, readings, committed, purged, req, put>>

\* Purging keeps at least a day: it never reaches hours without statistics.
Purge ==
    /\ purged < compiled * HourLength
    /\ purged' = purged + 1
    /\ UNCHANGED <<now, readings, committed, compiled, req, put>>

Recorded(e) == {r \in readings[e] : purged <= r.at /\ r.at < committed}

HourOf(t) == (t \div HourLength) * HourLength

\* An hour has a row once the entity has had a state.
HourRows(e) ==
    {h * HourLength : h \in {k \in 0..compiled - 1 :
                               \E r \in readings[e] : r.at < (k + 1) * HourLength}}

----------------------------------------------------------------------------
\* POST /objects/history

\* The entities whose values make up the answer, in order; a device expands to
\* its components.
Involved(ids) ==
    FlattenSeq([i \in DOMAIN ids |->
        IF ids[i] \in Devices THEN Components[ids[i]] ELSE <<ids[i]>>])

\* The view swaps a start after the end.  A client asks once, at any time, and then
\* may write back once: neither request changes what another one sees.
Ask ==
    /\ req.pc = "idle"
    /\ \E ids \in Requests, w \in Windows :
          req' = [NoReq EXCEPT !.pc    = "scalar", !.ids = ids,
                               !.start = IF w[1] > w[2] THEN w[2] ELSE w[1],
                               !.end   = IF w[1] > w[2] THEN w[1] ELSE w[2],
                               !.upTo  = committed]
    /\ UNCHANGED <<now, readings, committed, purged, compiled, put>>

InWindow(t) == req.start <= t /\ t <= req.end

\* Faulty variants (here and below, named after the fault) show that the
\* properties can fail; nothing else uses them.
StatesReadSignificant(ids, significantOnly) ==
    [e \in Entities |->
        IF e \in Range(Involved(req.ids)) \cap ids
        THEN {r \in Recorded(e) : InWindow(r.at) /\ r.changed}
        ELSE req.states[e]]

\* _blocking_history for the entities of one kind.
StatesRead(ids, significantOnly) ==
    [e \in Entities |->
        IF e \in Range(Involved(req.ids)) \cap ids
        THEN {r \in Recorded(e) : InWindow(r.at) /\ (significantOnly => r.changed)}
        ELSE req.states[e]]

\* The two jobs of the loop; one without entities reads nothing.
ReadScalar ==
    /\ req.pc = "scalar"
    /\ req' = [req EXCEPT !.pc = "structured",
                          !.states = StatesRead(Entities \ Structured, TRUE)]
    /\ UNCHANGED <<now, readings, committed, purged, compiled, put>>

ReadStructured ==
    /\ req.pc = "structured"
    /\ req' = [req EXCEPT !.pc = "statistics",
                          !.states = StatesRead(Structured, FALSE)]
    /\ UNCHANGED <<now, readings, committed, purged, compiled, put>>

\* Where the recorder takes over from the statistics: the first state read.
Cutoff(e) == IF req.states[e] = {} THEN MaxTime + 1
             ELSE CHOOSE t \in {r.at : r \in req.states[e]} :
                     \A r \in req.states[e] : t <= r.at

MeansIncludingCutoff(e, hours) == {t \in hours : InWindow(t) /\ t <= Cutoff(e)}
MeansOfWholeHours(e, hours) == {t \in hours : InWindow(t) /\ t < HourOf(Cutoff(e))}

\* The rows that backfill the states.
Means(e, hours) == {t \in hours : InWindow(t) /\ t < Cutoff(e)}

\* Rows of different times in the order of time, as the recorder returns them.
InOrder(rows) ==
    CHOOSE s \in [1..Cardinality(rows) -> rows] :
        \A i, j \in DOMAIN s : i < j => s[i].at < s[j].at

\* What an entity has to show: hourly means, then states, each in order.
SourceRows(e, means) ==
    InOrder({[entity |-> e, at |-> t, mean |-> TRUE] : t \in means})
    \o InOrder({[entity |-> e, at |-> r.at, mean |-> FALSE] : r \in req.states[e]})

\* _RowCounter: every row of every entity of a request counts.
CutQuietlyAtLimit(all) ==
    [rows      |-> SubSeq(all, 1, IF Len(all) > MaxHistoryRows THEN MaxHistoryRows ELSE Len(all)),
     truncated |-> Len(all) > MaxHistoryRows + 1]
CutOneLate(all) ==
    [rows      |-> IF Len(all) > MaxHistoryRows THEN SubSeq(all, 1, MaxHistoryRows + 1) ELSE all,
     truncated |-> Len(all) > MaxHistoryRows]

Cut(all) ==
    [rows      |-> IF Len(all) > MaxHistoryRows THEN SubSeq(all, 1, MaxHistoryRows) ELSE all,
     truncated |-> Len(all) > MaxHistoryRows]

\* Candidates for the statistics: numeric entities whose states do not reach back far
\* enough.
Backfill(e) ==
    IF e \in Numeric /\ (req.states[e] = {} \/ req.start < Cutoff(e))
    THEN Means(e, HourRows(e)) ELSE {}

Answer ==
    LET shown == Involved(req.ids)
    IN  Cut(FlattenSeq([i \in DOMAIN shown |-> SourceRows(shown[i], Backfill(shown[i]))]))

\* The statistics job, and the answer without an await between.
ReadStatistics ==
    /\ req.pc = "statistics"
    /\ LET answer == Answer
       IN  req' = [req EXCEPT !.pc = "done", !.states = NoSource, !.rows = answer.rows,
                              !.truncated = answer.truncated]
    /\ UNCHANGED <<now, readings, committed, purged, compiled, put>>

----------------------------------------------------------------------------
\* PUT /objects/history: each item of the list is decided on its own.  "same" says
\* that the value to write is the one the entity had at that time.

IsPoint(p) == p.same /\ \E r \in readings[p.entity] : r.at = p.at

\* The cheap path: the point is the current state.
IsCurrent(p) == IsPoint(p) /\ \A r \in readings[p.entity] : r.at <= p.at

PutPoint ==
    /\ req.pc = "done" /\ put.pc = "idle"
    /\ \E p \in [entity : Entities, at : 0..now, same : BOOLEAN] :
          put' = [pc       |-> IF IsCurrent(p) THEN "done" ELSE "lookup",
                  point    |-> p,
                  accepted |-> IsCurrent(p)]
    /\ UNCHANGED <<now, readings, committed, purged, compiled, req>>

MatchTime(p) == \E r \in Recorded(p.entity) : r.at = p.at

\* Does the recorder hold this point?  All its states count, those that only
\* update attributes too.
Match(p) == p.same /\ \E r \in Recorded(p.entity) : r.at = p.at

Lookup ==
    /\ put.pc = "lookup"
    /\ put' = [put EXCEPT !.pc = "done", !.accepted = Match(put.point)]
    /\ UNCHANGED <<now, readings, committed, purged, compiled, req>>

Next ==
    \/ \E e \in Entities : Report(e)
    \/ Tick \/ Commit \/ Compile \/ Purge
    \/ Ask \/ ReadScalar \/ ReadStructured \/ ReadStatistics
    \/ PutPoint \/ Lookup

Spec == Init /\ [][Next]_vars

----------------------------------------------------------------------------
\* Properties

RowsOf(e) == {row \in Range(req.rows) : row.entity = e}

\* "Server-imposed limits must never be silent" (history.py:15), and "older spans
\* come from long-term statistics" (README): whatever the recorder commits, compiles
\* or purges between the three jobs, each state that was recorded in the window when
\* the request came is in the answer, or the mean of its hour is, or the answer is a
\* 206.  A scalar state is owed when it is a change.  Not owed are purged states of
\* what is not numeric, and those of the hour the window cuts at its start.
NothingSilentlyMissing ==
    (req.pc = "done" /\ ~req.truncated) =>
        \A e \in Range(Involved(req.ids)) :
            \A r \in {q \in readings[e] : /\ InWindow(q.at) /\ q.at < req.upTo
                                          /\ e \in Structured \/ q.changed} :
                \/ [entity |-> e, at |-> r.at, mean |-> FALSE] \in RowsOf(e)
                \/ [entity |-> e, at |-> HourOf(r.at), mean |-> TRUE] \in RowsOf(e)
                \/ r.at < purged /\ (e \notin Numeric \/ HourOf(r.at) < req.start)

\* The two sources of an entity are merged in the order of time, and no instant comes
\* from both.
Chronological ==
    req.pc = "done" =>
        \A i, j \in DOMAIN req.rows :
            LET p == req.rows[i]  q == req.rows[j]
            IN  (i < j /\ p.entity = q.entity /\ p.at >= q.at) =>
                    \* the same entity again: requested twice
                    \E k, l \in DOMAIN Involved(req.ids) :
                        k # l /\ Involved(req.ids)[k] = p.entity /\ Involved(req.ids)[l] = p.entity

\* "An honest HTTP 206" (README): no answer exceeds the limit, whatever it expands to,
\* and one that says it was cut has used the limit up.
PartialIsTold ==
    req.pc = "done" =>
        /\ Len(req.rows) <= MaxHistoryRows
        /\ req.truncated => Len(req.rows) = MaxHistoryRows

\* "History writes can never invent or alter data points" (README), yet every state a
\* client has read it may write back as it is, even while the recorder moves on:
\* only a purge in between refuses it.
WriteBackAccepted ==
    put.pc = "done" =>
        LET p == put.point
        IN  /\ put.accepted => IsPoint(p)
            /\ (/\ p.same /\ ~put.accepted
                /\ [entity |-> p.entity, at |-> p.at, mean |-> FALSE] \in Range(req.rows))
               => p.at < purged
=============================================================================
