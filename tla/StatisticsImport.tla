-------------------------- MODULE StatisticsImport --------------------------
(***************************************************************************)
(* statistics.py: hourly imports of remote history into Home Assistant's   *)
(* long-term statistics.                                                   *)
(*                                                                         *)
(* An import is a coroutine of three awaits per element: the last stored   *)
(* row (a job of the recorder's executor), the history request, and so on  *)
(* to the next element.  Imports overlap: nothing guards against a slow    *)
(* one when the timer fires, and the reload of an entry starts a new       *)
(* importer beside the running import of the old one.  What an import adds *)
(* goes through the recorder's queue.                                      *)
(*                                                                         *)
(* Data: time is in ticks, an element has at most one reading per tick;    *)
(* an hour that has a row stands in stats[e] with the readings the row was *)
(* made from (of a counter the last one, its state) and the sum.           *)
(***************************************************************************)
EXTENDS Integers, Sequences, FiniteSets, FiniteSetsExt

CONSTANTS
    Measurements,      \* _measurement_ids, a sequence
    Counters,          \* _counter_ids, a sequence
    Imports,           \* import runs that may overlap
    TicksPerHour,
    Lookback,          \* IMPORT_MAX_LOOKBACK_HOURS
    MaxHistoryRows,    \* MAX_HISTORY_ROWS of the remote server
    MaxDelay,          \* ticks from reading an element's last row until its rows are stored
    Values,            \* what is read
    MaxTick,           \* bound: the clock
    MaxQueue,          \* bound: writes waiting in the recorder's queue
    MaxCrashes         \* bound: crashes of Home Assistant

ListedIn(s) == {s[k] : k \in DOMAIN s}
Elements == ListedIn(Measurements) \cup ListedIn(Counters)

ASSUME StatisticsImportAssumption ==
    /\ Measurements \in Seq(ListedIn(Measurements)) /\ Counters \in Seq(ListedIn(Counters))
    /\ ListedIn(Measurements) \cap ListedIn(Counters) = {}
    /\ {TicksPerHour, Lookback, MaxHistoryRows, MaxTick, MaxQueue} \subseteq Nat \ {0}
    /\ {MaxDelay, MaxCrashes} \subseteq Nat
    /\ Values \subseteq Nat

VARIABLES
    now,        \* ticks
    remote,     \* readings the remote server's history holds
    late,       \* readings it has taken but not yet recorded
    lateHours,  \* history: hours a reading of which was recorded after their end
    job,        \* the state of an import
    queue,      \* writes the recorder has yet to carry out
    stats,      \* the stored rows
    crashes     \* so far

vars == <<now, remote, late, lateHours, job, queue, stats, crashes>>

Hour(t)  == t \div TicksPerHour
ThisHour == Hour(now)
Hours    == 0..Hour(MaxTick)

Reading == [at : 0..MaxTick, value : Values]
Row     == [hour : Hours, seen : SUBSET Reading, sum : Nat]

\* Where a job awaits: the stored row, the executor's return with it, the server
\* (the request is on its way), the answer.
Awaits == {"last", "window", "serve", "points"}

\* A job knows since when it goes by the last row.
Job == [at   : Awaits \cup {"idle"}, todo : Seq(Elements), since  : Nat, last : SUBSET Row,
        from : Int,                  to   : Nat,           points : SUBSET Reading]

NoJob == [at |-> "idle", todo |-> <<>>, since |-> 0, last |-> {}, from |-> 0, to |-> 0,
          points |-> {}]

\* What waits in the recorder's queue.
Write == [element : Elements, rows : SUBSET Row, since : Nat]

OneRowAnHour(rows) == \A r, q \in rows : q.hour = r.hour => q = r

TypeOK ==
    /\ now \in 0..MaxTick
    /\ remote \in [Elements -> SUBSET Reading] /\ late \in [Elements -> SUBSET Reading]
    /\ lateHours \in [Elements -> SUBSET Hours]
    /\ job \in [Imports -> Job]
    /\ \A i \in Imports : job[i].at = "idle" <=> job[i].todo = <<>>
    /\ queue \in Seq(Write) /\ Len(queue) <= MaxQueue
    /\ \A k \in DOMAIN queue : OneRowAnHour(queue[k].rows)
    /\ stats \in [Elements -> SUBSET Row]
    /\ \A e \in Elements : OneRowAnHour(stats[e])
    /\ crashes \in 0..MaxCrashes

Init ==
    /\ now = 0
    /\ remote = [e \in Elements |-> {}]
    /\ late = [e \in Elements |-> {}]
    /\ lateHours = [e \in Elements |-> {}]
    /\ job = [i \in Imports |-> NoJob]
    /\ queue = <<>>
    /\ stats = [e \in Elements |-> {}]
    /\ crashes = 0

-----------------------------------------------------------------------------
(* The remote server.                                                       *)

Take(e, v) ==
    LET r == [at |-> now, value |-> v] IN
    \/ remote' = [remote EXCEPT ![e] = @ \cup {r}] /\ UNCHANGED late
    \/ late[e] = {} /\ late' = [late EXCEPT ![e] = {r}] /\ UNCHANGED remote

\* Since when a last row is gone by, in a job or a queued write.
Due == {job[i].since : i \in {n \in Imports : job[n].at \in {"window", "serve", "points"}}}
          \cup {queue[k].since : k \in DOMAIN queue}

\* A tick goes by, in which a reading may be taken; it is recorded at once or
\* with a delay (one reading of an element at a time is delayed).  Nothing that is
\* under way takes longer than MaxDelay: a request is given up after REQUEST_TIMEOUT,
\* and the recorder is taken to get on with its work.
Tick ==
    /\ now < MaxTick
    /\ \A t \in Due : now < t + MaxDelay
    /\ now' = now + 1
    /\ \/ UNCHANGED <<remote, late>>
       \/ \E e \in Elements, v \in Values : Take(e, v)
    /\ UNCHANGED <<lateHours, job, queue, stats, crashes>>

RecordLate(e, r) ==
    /\ late' = [late EXCEPT ![e] = @ \ {r}]
    /\ remote' = [remote EXCEPT ![e] = @ \cup {r}]
    /\ lateHours' = IF Hour(r.at) < ThisHour
                    THEN [lateHours EXCEPT ![e] = @ \cup {Hour(r.at)}] ELSE lateHours
    /\ UNCHANGED <<now, job, queue, stats, crashes>>

\* What the server answers to a history request: what lies in the window, both
\* ends included, oldest first, up to its row limit.
Served(e, from, to) ==
    LET asked == {r \in remote[e] : from * TicksPerHour <= r.at /\ r.at <= to * TicksPerHour}
    IN  {r \in asked : Cardinality({q \in asked : q.at < r.at}) < MaxHistoryRows}

-----------------------------------------------------------------------------
(* The importer.                                                            *)

\* Faulty variants (here and below, named after the fault) show that the
\* properties can fail; nothing else uses them.
OnwardsStops(j) == NoJob

\* On to the next element, or done.
Onwards(j) ==
    IF Len(j.todo) = 1 THEN NoJob ELSE [NoJob EXCEPT !.at = "last", !.todo = Tail(j.todo)]

\* The timer fires, or an importer starts.
Start(i) ==
    /\ job[i] = NoJob
    /\ Elements # {}
    /\ job' = [job EXCEPT ![i] = [NoJob EXCEPT !.at = "last", !.todo = Measurements \o Counters]]
    /\ UNCHANGED <<now, remote, late, lateHours, queue, stats, crashes>>

LastRow(e) == {r \in stats[e] : \A q \in stats[e] : q.hour <= r.hour}

\* _async_get_last_stat, on the executor's thread.
ReadLast(i) ==
    /\ job[i].at = "last"
    /\ job' = [job EXCEPT ![i].at = "window", ![i].since = now,
                          ![i].last = LastRow(Head(job[i].todo))]
    /\ UNCHANGED <<now, remote, late, lateHours, queue, stats, crashes>>

WindowSkipsAnHour(last) == IF last = {} THEN ThisHour - Lookback
                                        ELSE (CHOOSE r \in last : TRUE).hour + 2

\* _resume_window: it ends with the last completed hour.
WindowStart(last) == IF last = {} THEN ThisHour - Lookback
                                  ELSE (CHOOSE r \in last : TRUE).hour + 1

WindowEndsNow == ThisHour + 1

WindowEnd == ThisHour

OpenWindow(i) ==
    LET j    == job[i]
        from == WindowStart(j.last)
    IN  /\ j.at = "window"
        /\ job' = [job EXCEPT ![i] =
                      IF from >= WindowEnd THEN Onwards(j)
                      ELSE [j EXCEPT !.at = "serve", !.from = from, !.to = WindowEnd]]
        /\ UNCHANGED <<now, remote, late, lateHours, queue, stats, crashes>>

\* The server answers.  What it answers for the end of the window itself is
\* dropped again by _async_read_points.
Serve(i) ==
    LET j == job[i] IN
    /\ j.at = "serve"
    /\ job' = [job EXCEPT ![i].at = "points",
                          ![i].points = {r \in Served(Head(j.todo), j.from, j.to) :
                                            r.at < j.to * TicksPerHour}]
    /\ UNCHANGED <<now, remote, late, lateHours, queue, stats, crashes>>

Bucket(points, h) == {r \in points : Hour(r.at) = h}
Latest(points)    == CHOOSE r \in points : \A q \in points : q.at <= r.at

DeltaCountsBaseline(prev, value) == IF prev = {} \/ value < Latest(prev).value
                                    THEN value ELSE value - Latest(prev).value

\* What a counter that stands at value has counted since it was last seen; less
\* than then means that the meter was reset.
Delta(prev, value) == CASE prev = {} -> 0
                        [] prev # {} /\ value < Latest(prev).value -> value
                        [] OTHER -> value - Latest(prev).value

\* accumulate_counter: state and sum after each hour of the window.
Accumulated(j) ==
    LET prev == [seen |-> UNION {r.seen : r \in j.last},
                 sum  |-> IF j.last = {} THEN 0 ELSE (CHOOSE r \in j.last : TRUE).sum]
        after[h \in (j.from - 1)..(j.to - 1)] ==
            IF h < j.from THEN prev
            ELSE IF Bucket(j.points, h) = {} THEN after[h - 1]
            ELSE LET r == Latest(Bucket(j.points, h))
                 IN  [seen |-> {r}, sum |-> after[h - 1].sum + Delta(after[h - 1].seen, r.value)]
    IN  after

\* The rows an answer makes: of a measurement mean, min and max of the readings
\* of the hour, of a counter its last state and the sum.
NewRows(j) ==
    LET hours == {Hour(r.at) : r \in j.points}
    IN  IF Head(j.todo) \in ListedIn(Counters)
        THEN {[hour |-> h, seen |-> Accumulated(j)[h].seen, sum |-> Accumulated(j)[h].sum] :
                 h \in hours}
        ELSE {[hour |-> h, seen |-> Bucket(j.points, h), sum |-> 0] : h \in hours}

\* The answer arrives; rows go to the recorder, nothing is added without points.
Import(i) ==
    LET j == job[i] IN
    /\ j.at = "points"
    /\ job' = [job EXCEPT ![i] = Onwards(@)]
    /\ IF j.points = {} THEN UNCHANGED queue
       ELSE /\ Len(queue) < MaxQueue
            /\ queue' = Append(queue, [element |-> Head(j.todo), rows |-> NewRows(j),
                                         since |-> j.since])
    /\ UNCHANGED <<now, remote, late, lateHours, stats, crashes>>

\* The request fails (I3xError): the import ends, the elements still to do wait
\* for the next one.
Fail(i) ==
    /\ job[i].at \in {"serve", "points"}
    /\ job' = [job EXCEPT ![i] = NoJob]
    /\ UNCHANGED <<now, remote, late, lateHours, queue, stats, crashes>>

-----------------------------------------------------------------------------
(* The recorder.                                                            *)

\* A row takes the place of the row of its hour.
Upserted(rows, new) == {r \in rows : \A n \in new : n.hour # r.hour} \cup new

Store ==
    /\ queue # <<>>
    /\ queue' = Tail(queue)
    /\ stats' = [stats EXCEPT ![Head(queue).element] = Upserted(@, Head(queue).rows)]
    /\ UNCHANGED <<now, remote, late, lateHours, job, crashes>>

\* Home Assistant dies and starts again.
Crash ==
    /\ crashes < MaxCrashes
    /\ crashes' = crashes + 1
    /\ job' = [i \in Imports |-> NoJob]
    /\ queue' = <<>>
    /\ UNCHANGED <<now, remote, late, lateHours, stats>>

-----------------------------------------------------------------------------
Next ==
    \/ Tick \/ Store \/ Crash
    \/ \E e \in Elements : \E r \in late[e] : RecordLate(e, r)
    \/ \E i \in Imports : \/ Start(i) \/ ReadLast(i) \/ OpenWindow(i)
                          \/ Serve(i) \/ Import(i) \/ Fail(i)

Spec == Init /\ [][Next]_vars

\* The import timer fires, the executor and the recorder get on with their work,
\* and of the requests sent for an element again and again some get through.
FairSpec ==
    /\ Spec
    /\ WF_vars(Store)
    /\ \A i \in Imports : /\ WF_vars(Start(i) \/ ReadLast(i) \/ OpenWindow(i))
                          /\ \A e \in Elements : /\ SF_vars(Serve(i) /\ Head(job[i].todo) = e)
                                                 /\ SF_vars(Import(i) /\ Head(job[i].todo) = e)

-----------------------------------------------------------------------------
(* Properties.  An hour is recorded in time when none of its readings reached *)
(* the server's history after its end; the importer cannot know of others.   *)

InTime(e, h) == /\ h \notin lateHours[e]
                /\ \A r \in late[e] : Hour(r.at) # h

\* A row stands for its whole hour ("aggregates completed hours"): no boundary, overlap, crash or resumption
\* gives an aggregate of a part of the readings of an hour.
HoursWhole ==
    \A e \in Elements : \A r \in stats[e] :
        InTime(e, r.hour) =>
            r.seen = IF e \in ListedIn(Counters) THEN {Latest(Bucket(remote[e], r.hour))}
                                                 ELSE Bucket(remote[e], r.hour)

\* No hour within the lookback is left out before a stored one, whatever imports
\* overlapped, failed or crashed, however long they took and wherever answers were
\* cut at the row limit.
RecentHoursStored ==
    \A e \in Elements : \A q \in stats[e] : \A h \in Hours :
        /\ h < q.hour /\ h >= ThisHour - Lookback
        /\ Bucket(remote[e], h) # {} /\ InTime(e, h)
        => \E p \in stats[e] : p.hour = h

\* Between two stored rows no hour is missing that had readings, however long ago.
\* Only two first imports can leave such a gap, when one of them waits so long that
\* their lookbacks start hours apart (MaxDelay).
NoHourSkipped ==
    \A e \in Elements : \A r, q \in stats[e] : \A h \in (r.hour + 1)..(q.hour - 1) :
        Bucket(remote[e], h) # {} /\ InTime(e, h) => \E p \in stats[e] : p.hour = h

\* What a meter with these readings has counted up to the end of every hour: a meter
\* that stands lower than before was reset, and has counted what it stands at.
Meter(readings) ==
    LET before(h) == {r \in readings : Hour(r.at) < h}
        rise(h) ==
            LET value == Latest(Bucket(readings, h)).value
                old   == Latest(before(h)).value
            IN  IF value < old THEN value ELSE value - old
        counted[h \in Hours] ==
            (IF h = 0 THEN 0 ELSE counted[h - 1])
            + (IF Bucket(readings, h) = {} \/ before(h) = {} THEN 0 ELSE rise(h))
    IN  counted

\* "Re-imports never double-count": whatever imports overlapped, failed or were
\* cut off by a crash, the sum of a counter is at most what its meter has counted
\* since the first hour imported.  (It may be less: two first imports that
\* overlap as an hour ends start a lookback apart, and the later one sets a
\* baseline of its own.)
NeverDoubleCounts ==
    \A e \in ListedIn(Counters) : \A q \in stats[e] :
        (\A h \in Hours : InTime(e, h)) =>
            LET first == Min({r.hour : r \in stats[e]})
            IN  q.sum <= Meter(remote[e])[q.hour] - Meter(remote[e])[first]

\* Imports get there in the end although requests fail: an hour with readings is
\* imported, or a later one is, unless the first import comes too late for it.
CaughtUp ==
    \A e \in Elements, h \in Hours :
        (Bucket(remote[e], h) # {} /\ h < ThisHour) ~>
            (h < ThisHour - Lookback \/ \E r \in stats[e] : r.hour >= h)
=============================================================================
