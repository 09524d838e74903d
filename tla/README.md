# TLA+ models of the i3X integration for Home Assistant

This directory specifies the behaviour of `custom_components/i3x`: an i3X server that
exposes Home Assistant, and an i3X client that connects it to other i3X servers. The
specifications are translated from the Python source. TLC model-checks them on small
instances; with TLAPS the safety properties of every part are proved for every value of
their constants. `PROJECT.json` lists the runs and theorems, says which definition stands
for which lines, and names the fault (mutant) that each property detects.

## 1. The system

Everything runs on Home Assistant's event loop: code between two `await`s is atomic, and
what makes the system hard is what happens *at* the awaits. Threads appear in two places
only, the recorder's executor and its queue.

| Component | Source | State it keeps | Operations | What is hard |
| --- | --- | --- | --- | --- |
| Subscription manager | `server/subscriptions.py` | `_subs`, the `_watchers` index, per subscription a queue, `next_seq`, `overflow`, `data_event`, a stream slot, the time of last use | create, list, delete, register, unregister, sync, stream_open, stream_close, drain; state listener, follow-up task, janitor, stop | two indexes kept in step by every operation; several consumers of one queue; expiry against use |
| SSE endpoint | `server/views.py` (`I3xSubscriptionsStreamView`) | one coroutine per open stream, batches drained and not yet written | open, loop, write, heartbeat, end | takeover in any await of the old handler, clients that leave at any time |
| Push client | `coordinator.py`, `api.py` | subscription id, last sequence number, backoff; the coordinator's data | create, register, sync or stream, apply, poll, stop | requests lost before or after they are served, expiry, reload of the server, polls racing pushes |
| Statistics importer | `statistics.py` | none of its own: it resumes from the last stored row | timer, read last row, request history, aggregate, hand rows to the recorder | overlapping imports, failed requests, crashes with rows in the recorder's queue, meter resets, boundaries of hours |
| Bulk value writes | `server/writes.py` | none; device state lives in Home Assistant | `PUT /objects/value` | bulks that await service calls beside each other, states that lag behind devices |
| Address space | `server/model.py` | the snapshot and its age | build, invalidate, related | registries that contradict each other, staleness |
| Value reads | `server/service_data.py`, `server/views.py` | one cached payload per service-backed entity | value request, follow-up of a state change | concurrent fetches that return out of order |
| History endpoint | `server/history.py`, `server/writes.py` (`write_history`) | none | `POST` and `PUT /objects/history`: window, row limit, merge with long-term statistics, replacement of a point by itself | a recorder that commits, compiles and purges between the jobs of one request; the 206 |
| Guards | `server/http_util.py` | token buckets per address | rate limit, parsing, address check | the bounded map of buckets |
| Entry lifecycle | `__init__.py`, `server/__init__.py`, `sensor.py` (set-up) | what runs for an entry: engine and limiter, or coordinator, push task and importer | set-up, failure and retry, reload, unload, disabling | options that change in any await, platforms that cannot be unloaded, requests that hold the old engine |
| Remote entities, write service | `sensor.py`, `__init__.py` | none | show data, one write request | nothing stateful |
| Conversions | `server/values.py`, `server/schemas.py` | none | state to VQT, schemas | data, covered by tests |
| Config flow, diagnostics | `config_flow.py`, `diagnostics.py` | none | forms | nothing stateful |

Interactions: the views call the manager, the model, the cache and the writer directly (a
call, no message); Home Assistant calls the state listener inside the update of a state
and registry listeners inside the update of a registry; the manager wakes stream handlers
through `data_event` and ends them through `close_event`; the client talks to a server
only by HTTP requests that may fail on either way; the importer reads from and writes to
the recorder through its executor and its queue.

What makes each part correct is what the properties in section 4 say; `PROJECT.json`
(`hazards`) lists, at their lines, the places where it could go wrong and a test would
hardly notice, including those no property covers and why.

## 2. The modules

| Module | Models | Remarks |
| --- | --- | --- |
| `BatchQueue` | the queue of a subscription: `_enqueue`, the acknowledgement and snapshot of `sync`, `drain` | pure operators on a *mailbox*, used by server and client side |
| `Subscriptions` | `SubscriptionManager`, one action per method, listener, task and timer | extends `BatchQueue` |
| `UpdateChannels` | what a subscription promises its reader: a channel of numbered updates | abstract specification, implemented by `Subscriptions` (`ChannelSpec`) |
| `SseServer` | the stream handlers over the manager, one step per await | extends `Subscriptions`; its abstract specification is the manager's |
| `PushClient` | push loop, polls and stop of the client against one server queue | extends `BatchQueue` |
| `StatisticsImport` | overlapping imports, the remote history, the recorder's queue | |
| `BulkWrites` | bulks of value writes, devices, what Home Assistant reports of them | |
| `AddressSpace` | `_build`, the edges, the snapshot | |
| `ServerReads` | value requests, cache of service data, follow-ups | extends `AddressSpace` |
| `HistoryReads` | history requests against a recorder that goes on, the write-back of a point | |
| `InfoRateLimiter` | the token buckets of `/info` | pure operators on the map of buckets |
| `EntryLifecycle` | the life of a server or client entry, and `/info` | extends `InfoRateLimiter` |
| `BatchQueueProofs`, `SubscriptionsProofs`, `PushClientProofs`, `BulkWritesProofs`, `ServerReadsProofs`, `StatisticsImportProofs`, `HistoryReadsProofs`, `EntryLifecycleProofs` | theorems | section 6; the proofs about `SseServer` are in `SubscriptionsProofs`, those about `AddressSpace` in `ServerReadsProofs` |
| `MC*` | instances for TLC | |

Definitions carry the names of the code where there is one (`_drop` is `Drop`, `stream_open`
is `StreamOpen`). Operators named after a fault (`DropKeepsSlot`, `GapByTwo`, ...) are faulty
variants of the definition below them; no specification uses them. They exist to show that
a property fails when the code is wrong in that way.

How state and actions correspond to the code:

* **Subscriptions.** A subscription object outlives its deletion because a handler may hold
  it, so its fields are functions on all ids and `subs` says which ids are in `_subs`. Each
  endpoint resolves the subscription with `_owned`, which touches it: a call that is then
  refused is `TouchOnly`. `idle` counts clock ticks since `last_activity`. The payload of a
  state is its version number, which is what order and staleness are about. The follow-up of
  a service-backed entity is in `followUps` between the state change and the answer.
* **SseServer.** `pc` says which await a coroutine is in. The check of `close_event` and the
  drain after it are one step because no await is between them. `sent` is a history variable.
* **PushClient.** A request is two steps, the server's and the answer's, and `Lost` may come
  before, between or after. Subscriptions the client no longer names are counted (`leaked`).
  Whether the server offers streams is chosen at the start (`streamCapable`).
* **StatisticsImport.** A row carries the readings it was made from, so that "the aggregate
  of an hour" is comparable with the history; the sum of a counter is kept as a number.
  `since` in an import and in what it queued is a history variable: when the import read the
  last stored row it goes by. The clock does not run more than `MaxDelay` ticks beyond it.
* **BulkWrites.** `actual` is the device, `reported` what Home Assistant believes; the gap
  between the two is what an echo write is judged by. Which service and which fields a
  domain uses is abstracted away: only whether a value is equal, usable or raising matters;
  buttons and scenes (`Pressed`) are called whatever the value.
* **AddressSpace / ServerReads.** Objects are ids and an address space is a function from
  objects to parents. `Edges` is what `object_response` serves in the metadata (the edge up is
  `parentId`), `Related` what `related` leaves of it: the edges that lead to an object. A state
  that is set, the first one of an entity included, and what the manager's listener does about
  it are one step (`StateChanges`): the listener runs inside the update and calls `snapshot()`.
  Every entity in `Entities` had a state once, so the history of one that appears is not empty.
  Payloads are numbered; a state is filed in the cache under its time in
  milliseconds, and two states in one millisecond share a key, as in the code.
* **UpdateChannels.** A channel is the interval of numbers it holds and whether its reader is
  owed the news of a loss. `ChannelOf` is the refinement mapping: `next_seq`, the number at
  the head of the queue (or `next_seq` when it is empty) and `overflow`.
* **HistoryReads.** Time is in ticks an entity changes at most once in; a state is its time
  and whether the value changed or attributes alone did. The recorder is three marks on the
  time line: `committed`, `purged` and, in hours, `compiled`. The three jobs of a request are
  three steps, with everything the recorder does in between; the merge and the cut at the row
  limit are one step with the last, since no await separates them. `InOrder` is the one list of
  a set of rows in the order of time, chosen rather than sorted.
* **InfoRateLimiter.** The `OrderedDict` is a rank per address, 1 for the most recently used;
  `popitem(last=False)` takes the rank beyond `MaxIps` away. Tokens are counted in `Unit`s
  of a token, so that the rate may be a fraction. `Info` writes only addresses that are not
  local, the only ones the limiter keeps.
* **EntryLifecycle.** `state` is Home Assistant's state of the entry, or the await that
  `async_setup_entry` or `async_unload_entry` is in; `forwarded` is the end of the await of the
  platforms, before the options of the import are read. A change of options carries a version,
  so that "the options as they are" and "the options it was built with" can be compared.
  Home Assistant's `setup_lock` serialises set-up, unload and reload (`LockFree`); a reload
  that waits for it is counted in `reloads`. `window` is a history variable that counts what
  one address, chosen at any time, was admitted since then.

## 3. The plan

Done, in this order: the queue and the manager; the stream handlers over it; the client;
the importer; bulk writes; address space and reads; the proofs about queue and manager;
the channels as abstract specification and their refinement; history and its write-back;
the life of an entry with the limiter of `/info`, and proofs about it; the proofs about the
rest of the manager, the handlers, the client, the writes, the reads and the importer; the
proofs about history. With them every safety property of a run has its theorem.

Left: disagreements that are known and have no run: options that change during set-up
(`__init__.py:174` "Reload the entry when options change"), the overflow a drain forgets
(`const.py:76`), results of a bulk lost when one update breaks it (`writes.py:178`),
states that share a millisecond (`service_data.py:51`), the catch-up window
(`const.py:60` "cap first import / catch-up window" against `statistics.py:219`), and the
parent of an entity of an unregistered device (`model.py:7` "Every object is reachable from
the single root, parentId always resolves" against `model.py:271` and `model.py:294`). For
the last one the run `server_reads` shows the state: `EdgesFit` says exactly when a parent is
named that is not served, so it would fail if these entities were placed elsewhere.

Abstract specifications: the manager's `Init /\ [][Next]_vars` is the abstract
specification of the composed server (`ManagerSpec`); above it stands `UpdateChannels`
(`ChannelSpec`). Both refinements are checked and proved.

## 4. The runs

Bounds are constants named in the modules: `MaxVersion`, `MaxSeq`, `MaxReloads`,
`MaxChanges`, `MaxOutside`, `MaxTick`, `MaxQueue`, `MaxCrashes`, `MaxPayload`, `MaxTime`,
`MaxReadings` and `MaxActs` cut off
counters the code leaves unbounded; the others are the code's own limits, made small so that
they are reached. `MaxDelay` is of another kind: it bounds how long an import of one element
takes, from reading the last row until its rows are stored. In the code it is the
`REQUEST_TIMEOUT` of 30 seconds and the time the executor and the recorder need.

| Run | Asks | Bounds, and why they do |
| --- | --- | --- |
| `subscription_pairs` | Do the indexes, the slots and the limits of two clients' subscriptions stay in order (`WatchersAgree`, `SlotIsOpen`, `LimitsHold`), does a state change reach exactly those that monitor (`FanOutExact`), and is nothing queued for those that do not (`OnlyMonitoredQueued`)? | two of everything that interferes in pairs: clients, subscriptions, handles; one entity; one stream allowed, so takeover and refusal both occur at the limit; TTL 0 expires at the first tick unused |
| `sse_safety` | Is there one stream per subscription, is a batch handed out at most once, are queues in order and numbered without gaps, is the whole an implementation of the manager (`ManagerSpec`) and of numbered channels (`ChannelSpec`)? | two handlers that can take over from each other, beside syncs; queue of two, three numbers, so eviction occurs with something left |
| `sse_liveness` | Under fairness: is what is queued taken, do streams end when told, are abandoned subscriptions reclaimed? | two handlers, one batch; no symmetry, since liveness is checked |
| `sse_shutdown` | violation: does shutdown end open streams, as the comment says? | one handler |
| `sse_expiry` | violation: is idle expiry really mandatory? | one handler, fair |
| `push` | Is the gap count exact, is nothing applied twice or backwards, does the client converge and recover, with streams and without? | one element (elements do not interact in the loop), queue of two, four states and five numbers: a snapshot, an overflow with a gap, then snapshots again; one reload; one subscription per client, so that its own leftovers lock it out |
| `statistics_overlap` | Do overlapping, failing and crashing imports leave out an hour of the lookback (`RecentHoursStored`) or count twice? | two imports that may take two hours each, one counter, three hours with two possible values, so resets occur; a lookback of two hours, so that at the end the first hour is out of it; one crash; one write in the recorder's queue |
| `statistics_hours` | Do rows stand for whole hours, and are all hours imported in the end? | two readings to the hour, a measurement and a counter, row limit not reached, fair |
| `bulk_writes` | Does the last write stand, do answers tell the truth, is only what is granted changed? | two bulks at once on two switches, a button, a lock, a device, unknown ids and every kind of refusal; one change from elsewhere |
| `server_reads` | Do the edges and parents that are served fit together (`EdgesFit`), is the snapshot current, are answers and follow-ups as new as the state they come with? | one area, one device, one entity in all combinations of registries, one change, one request at a time for two ids, again and again; two states and payloads |
| `history` | Is nothing silently missing from an answer, are its two sources in order and apart, is the row limit honest, can what was read be written back? | one numeric and one structured entity and a device of both; the request names the structured one twice, by itself and with the device, from the start or from the middle of an hour; hours of two ticks, four ticks, two states each, so that states fall into a purged, a compiled and a running hour; a limit of three rows, below what the device can fill |
| `entry_lifecycle` | Is nothing left running, does `/info` keep to its rate and its memory, do changed options take effect? | three addresses for a map of two; a rate of one and a half tokens per tick and a burst of two, so that buckets run dry, refill in part and fill up; three acts of the user, so that changes and reloads pile up over one set-up; one tick |

All passing runs hold. `Next` of every module is exercised completely by them. Deadlock
checking is off where the bounds, or the server's or the client's stop, end a behaviour.
Symmetry is used in safety runs only, over sets whose members no definition distinguishes.

What the two violation runs show:

* **`sse_shutdown`** - `async_stop` (`subscriptions.py:93`) clears the dictionary without
  setting the `close_event` of open streams. The handlers remain in their loop and write
  heartbeats until the client leaves, although the comment at `views.py:580` counts shutdown
  among the reasons for a clean end of the stream.
* **`sse_expiry`** - `stream_open` has taken the slot when `prepare` is awaited
  (`views.py:557`), outside the `try` whose `finally` gives it back. If the client is gone
  by then, the slot stays taken; the janitor spares subscriptions with a stream, so this one
  is never expired (README: "mandatory idle-TTL expiry") and counts against the limit on
  streams until the same subscription is streamed again, deleted, or the server stops.

Properties with exceptions that the code makes necessary: `QueuesInOrder` leaves out
service-backed entities, whose follow-up sends the state it was started with and may come
after a newer one; `LastWriteStands` leaves out entities whose reported state lags;
`AnswerCurrent` and `FollowUpCatchesUp` leave out states that share a millisecond; `EdgesFit`
says of an entity whose entry names an unregistered device that `parentId` and the `HasParent`
edge of its metadata lead to an object that is not served (and `related` leaves the edge out),
and asks of all other objects that their parents and edges resolve. The registries agree in
the end, so one finds such an entity while a device is being removed, or after a registry was
repaired by hand;
`RecentHoursStored` is about hours of the lookback that lie before a stored one - what comes
after the newest row is yet to be imported, which is `CaughtUp`'s matter - and were recorded in
time; that older hours are not missing either (`NoHourSkipped`) is proved, for imports that take
at most half an hour; `HoursWhole` and `NeverDoubleCounts` are about hours recorded in time,
and assume a row limit that is not reached; `NeverDoubleCounts` bounds the sum of a row by what the meter
has counted since the first imported hour (`Meter`), and does not equate them, since two first
imports that overlap may start from different baselines. `NothingSilentlyMissing` does not owe states
that are purged and of an entity without statistics, nor those of the hour that the window
cuts at its start (its row starts before the window); `RateBound` is about an address whose
bucket is kept, because eviction and a new engine give it a full one; `OptionsTakeEffect`
leaves out a change that came during the last set-up, which registers its listener last.

## 5. Fairness

* `SseFairSpec`: weak fairness of each handler (the event loop resumes a coroutine whose
  await is over; a write on a live connection returns, on a lost one it raises; the heartbeat
  timer fires), of the clock and of the janitor's interval timer. No fairness for clients,
  for entities or for `Disconnect`.
* `PushClient!FairSpec`: strong fairness of the served and the answered half of the
  requests the loop sends again and again - the claim that a network that always fails in
  the end lets one through; weak fairness of timers and of the server's expiry. Polls are
  fair only in stream mode: every push puts the poll off by a full interval, and in sync mode
  the snapshots come faster than that, so `Converges` must hold there without polls.
  In stream mode the bound on changes lets pushes come to an end, after which polls go on.
* `StatisticsImport!FairSpec`: weak fairness of the timer, the executor and the recorder,
  strong fairness of each request of each element. An element whose request *always*
  fails starves the elements after it; that is the code's behaviour and is listed as a hazard.
* `EntryLifecycle!FairSpec`: weak fairness of what Home Assistant does for the entry (start,
  retry timer, reload, the awaits of set-up and unload), strong fairness of the answer to
  the info request - a server that can never be reached leaves the entry in retry for ever.
  None for the user, the clock or the addresses.

## 6. The proofs

`BatchQueueProofs` states what each queue operation returns: it keeps the type, and it keeps
a mailbox *orderly* - numbers consecutive up to just below `next_seq`, length within the
limit, `data_event` set whenever there is a batch, an unreported overflow only with a full
queue. The lemma on the acknowledgement shows that the `CHOOSE` in `AckedCount` has a value
in an orderly queue.

`SubscriptionsProofs` proves, for any sets of clients, ids, handles and elements and any
limits:

| Theorem | Property |
| --- | --- |
| `TypeCorrect` | `TypeOK` |
| `IndexesAgree` | `WatchersAgree` |
| `QueueNumbering` | `NumbersContiguous` |
| `NoLostWakeup` | `ReadyCoversQueue` |
| `OverflowMeansFull` | `FlagMeansFull` |
| `SlotOwnership` | `SlotIsOpen` |
| `FanOutReachesExactly` | `FanOutExact` |
| `LimitsNeverPassed` | `LimitsHold` |
| `QueuedIsMonitored` | `OnlyMonitoredQueued` |
| `ReportsInOrder` | `QueuesInOrder` |
| `SubscriptionsAreChannels` | `ChannelSpec` |

The inductive invariant is `Inv == TypeOK /\ WatchersAgree /\ MailOrderly /\ SlotIsOpen`.
None of the three queue properties is inductive alone: that the flag means a full queue
needs the length bound, and that the acknowledgement keeps numbers consecutive needs them to
be increasing; `MailOrderly` carries them together. `FlagMeansFull` survives a
partial acknowledgement only because `sync` clears the flag in the same step. `SlotIsOpen`
needs its second half (no handle in two slots) so that telling one stream to end does not
close another's handle. `WatchersAgree` is what turns the fan-out over `_watchers` into a
statement about `monitored` (`FanOutExact`).

Three more parts are inductive beside it. `Counted` adds to `LimitsHold` that the sets it
counts are finite. `Untouched` says that a token not handed out has an empty queue and no
stream, so that a new subscription starts from nothing. `AllInOrder` adds to `QueuesInOrder`
that no report is ahead of the entity's state, so that the next state can be put behind it.
For the refinement each operation is shown to make a permitted step of every channel, `Inv`
supplying what the mapping needs: the number at the head of a queue is `next` less the length
only because numbers are consecutive, and an acknowledgement takes an interval away from the
head for the same reason.

The second half of `SubscriptionsProofs` proves of `SseServer`, for any number of handlers over
any of those managers:

| Theorem | Property |
| --- | --- |
| `HandlersTyped` | `HandlerTypeOK` |
| `HandlersUseTheManager` | `ManagerSpec` |
| `ManagerPromisesKept` | `NumbersContiguous`, `ReadyCoversQueue`, `QueuesInOrder`, `SlotIsOpen`, `WatchersAgree`, `ChannelSpec` |
| `OneStreamEach` | `SingleStream` |
| `WrittenAtMostOnce` | `AtMostOnce` |

`HandlerInv` says what a handler is in each await: it has a coroutine and a subscription from
`stream_open` on, and holds batches only while it writes. From it every step of a handler is a
call of the manager or leaves the manager alone (`ManagerStep`), so that what is proved of the
manager holds of the whole (`ManagerPromisesKept`). `SingleStream` speaks of handlers in their loop; what is
inductive is `HoldsSlot`, about every handler that was not told to end, in any await from
`stream_open` on. For `AtMostOnce` it has to be known where the numbers are: what a handler
wrote and holds rises (`Rises`), all of it lies below the oldest number still queued
(`TakenBefore`), and that number never falls, the acknowledgements of `sync` included.

`PushClientProofs` proves, for both modes, any elements, limits and numbers of reloads:

| Theorem | Property |
| --- | --- |
| `PushTyped` | `TypeOK`, and what the client holds on the server is within its limit |
| `GapsAreExact` | `GapsExact` |
| `BatchesAppliedOnce` | `AppliedOnce` |
| `PushedInOrder` | `PushesForward` |

`PushInv` is about three places a batch can be in: applied, in an answer, in the server's
queue. With `sync` (`SyncNumbers`) the last number seen is the last one applied and an answer
continues it; a queue whose acknowledgement was lost still holds what was applied, and all that
keeps it from being applied again is that the client names the last number in its next request.
On a stream (`StreamNumbers`) a batch is in one place only, and the places follow
each other. `VersionsForward` is the same for the states: heard, then answered, then queued.
The case at the bound, where `sync` stages one snapshot after another under the number
`MaxSeq`, is in the invariant (`Capped`).

`BulkWritesProofs` proves, for any number of bulks of any length:

| Theorem | Property |
| --- | --- |
| `WritesTyped` | `TypeOK` |
| `LastWriteDecides` | `LastWriteStands` |
| `AnswersAreTrue` | `AnswersTell` |
| `ChangesAreGranted` | `OnlyGranted` |

`BulksInv` follows a bulk through its awaits: a call in flight was granted by the options of
its own bulk (`CallsGranted`), calls were made in the order of the updates and the results say
how they ended (`CallsTold`), and a device only this bulk has written stands as its last
answered update decides, or as the call in flight wants it once the device has acted
(`Standing`). The last case is the one that makes the property inductive: a device acts before
its service returns, and the service may still raise.

`ServerReadsProofs` proves, for any registries, entities, requests and any number of fetches
under way:

| Theorem | Property |
| --- | --- |
| `ReadsTyped` | `TypeOK` |
| `EdgesFitTogether` | `EdgesFit` |
| `SnapshotIsCurrent` | `SnapshotCurrent` |
| `AnswersAreCurrent` | `AnswerCurrent` |
| `FollowUpsCatchUp` | `FollowUpCatchesUp` |

`SnapshotKept` says that a kept snapshot was built from the registries as they are, and that
what it is wrong about came or went no longer ago than it was built. So what is served is
always `Build` of some entities over the registries of the moment, and `BuildPlaces` says where
that puts each object: a parent one level up that is an object too, or, for an orphan,
the device its entry names. `EdgesComeInPairs` does the rest. For the reads it is
enough to know three things: a payload in the cache is as new as *a* state filed under its key
(`CacheAsOf`), a fetch under way is for a state there was and brings nothing older
(`FetchesOK`), and every report has a follow-up under way or was caught up with (`SentOK`).
The first is the reason for the exception: when two states share a millisecond, "a state under
this key" need not be the one that is asked for.

`StatisticsImportProofs` proves, for any number of overlapping imports, elements, hours,
crashes and readings:

| Theorem | Property | Hypothesis |
| --- | --- | --- |
| `ImportsTyped` | `TypeOK` | |
| `RecentHoursKept` | `RecentHoursStored` | |
| `NoHourIsSkipped` | `NoHourSkipped` | `2 * MaxDelay <= TicksPerHour` |
| `HoursAreWhole` | `HoursWhole` | `MaxTick <= MaxHistoryRows` |
| `NothingIsCountedTwice` | `NeverDoubleCounts` | `MaxTick <= MaxHistoryRows` |

`ImportInv` says at each await what an import may rely on although others run beside it: no
hour within the lookback is missing before its window (`WindowOK`), before the hours of its
answer (`PointsOK`), of the rows it handed over or of those stored (`NoneLeftOut`). It holds
because nothing an import has seen is taken back (`Forward`): a completed hour gets no more
readings, or is no longer counted as recorded in time, and a stored hour stays stored. `Store` and `Crash` are then
the only steps that need care: the first because rows of two imports interleave in the queue,
the second because it drops what imports believed to be handed over. `WholeInv` adds that rows
and points stand for whole hours, `SumsInv` that a sum is bounded by the meter from some hour
that is stored or in the same write on.

The hypotheses mark where the code's promise ends. An answer that is cut at the row limit makes a row of a part of an
hour, which is the hazard listed at `statistics.py:158`; an entity has one reading to a tick,
so `MaxTick <= MaxHistoryRows` says that no answer is cut. `NoHourIsSkipped` needs to know that
what is under way takes at most half an hour: in the code a request is given up after 30
seconds (`REQUEST_TIMEOUT`), and the recorder is taken to get on with its queue. It presumes nothing of
the row limit, the lookback, or for how long nothing was imported. `RecentHoursKept` holds
however long imports take.

The danger `NoHourSkipped` is about comes from first imports: each starts a lookback before its
own time, so that two of them which overlap start at different hours, and the rows of the one
that started later may be stored while those of the other are lost or still to come. If there
were an hour between what the one stores and what the other starts with, a gap would remain
for ever, because later windows start after the newest row. `GapsInv` says that each thing an
import can go by - the stored rows, an import's last row with its window, a write in the
queue - is a stretch of hours without gaps (`Gapless`, from where it `StartsWith`), and that
any two such stretches meet (`Linked`): what a first import and its like leave between them is
at most the boundary of one hour, since neither is under way for more than half of one
(`Timely`). `Founded` says that whatever goes by a row goes by one that is stored. Stretches
that meet make one stretch when the recorder stores the rows of both (`SpansMeet`,
`GaplessBeside`), and a crash takes whole stretches away.
`MCStatisticsLookback.cfg` is an instance for TLC beside the runs: a lookback of one hour, three
hours of two ticks and a `MaxDelay` of one, with 5.3 million states. With a `MaxDelay` of two it
is violated, so the hypothesis is needed.

`HistoryReadsProofs` proves, for any entities, devices, requests, windows and row limits:

| Theorem | Property |
| --- | --- |
| `HistoryTyped` | `TypeOK` |
| `NothingIsSilentlyMissing` | `NothingSilentlyMissing` |
| `SourcesMergeInOrder` | `Chronological` |
| `LimitIsTold` | `PartialIsTold` |
| `ReadsCanBeWrittenBack` | `WriteBackAccepted` |

An answer is a list of rows that was put in order, laid end to end with others and cut, so
the lemmas come first: rows of different times have an order and `InOrder` returns all of them
(`InOrderMeans`, by induction on how many there are), `FlattenSeq` keeps every list whole and
in its place (`FlattenMeans`, by induction on how many it has laid out), a cut keeps a
beginning (`CutMeans`). From them `AllMeans` says what is to be shown before the limit: every
state read, every mean that backfills it, and where two rows of one entity come from that are
not in order of time.

None of the four properties is inductive, as they say nothing before the request is done.
`HistoryInv` adds what is known between the jobs. `ReadIsRecorded`: what was read exists and
was committed; `WriteBackAccepted` rests on it, for a point the lookup does not find again can
then only have been purged. `StatesComplete`: once the job for its kind is done, a state the
request is owed was read, or it was purged before the job *and is older than all that was
read*. The second half is what makes the backfill work: the means reach up to the first state
read, so they cover the hour of every purged state, and the hour has a mean because nothing
is purged before it was compiled. What happens while a job is awaited cannot add to what is
owed, since new states come after everything committed (`Goes`).

`EntryLifecycleProofs` proves, for any addresses, rates, options and bounds:

| Theorem | Property |
| --- | --- |
| `EntryTyped` | `TypeOK` |
| `RateBounded` | `RateBound` |
| `LimiterBounded` | `BucketsBounded` |
| `NothingIsLeftRunning` | `NothingLeftRunning` |

`LimiterSteps` reduces every step of an entry to four kinds for the limiter: a new map, one
request, a new count, the clock. `RateBound` alone is not inductive, since it does not see
what is left in the bucket; `RatePaid` adds the level of the bucket to what was admitted, and
the sum is what a burst and the rate bound. `BucketsBounded` follows from `RanksDiffer`:
ranks are an injection into `1..MaxIps`. `NothingLeftRunning` is proved from `Running`, which says for
each mode and state what runs: a set-up starts beside nothing (`Quiet`; only the push task of
a set-up that is about to end runs before it is loaded), so that what it starts is the only one.

Assumptions: those named in `BatchQueue` (`MaxQueued` is positive), `Subscriptions`
(`None` is not a handle or a client; elements are finitely many, service-backed and structural
ones disjoint subsets of them; limits are natural numbers), `PushClient` (limits are positive),
`BulkWrites` (kinds of entities and of values are disjoint, a bulk is a sequence of updates), `AddressSpace`
(areas, devices, entities and the home are disjoint), `ServerReads` (service-backed entities
are entities, a request is a sequence of ids), `StatisticsImport` (measurements and counters are lists with nothing
in common, limits are positive), `HistoryReads` (numeric and structured entities are disjoint,
a device has a sequence of entities, an hour has a length), `InfoRateLimiter` and `EntryLifecycle` (rates and
limits are natural numbers, at least one address can be kept; `None` is no options). TLC
evaluates them in the runs. The bounds (`MaxVersion`, `MaxSeq`, `MaxActs`, `MaxTick`, ...) are among the
constants, so the theorems hold for every value of them.

Only model-checked: all liveness (`StreamDelivers`, `AbandonedReclaimed`, `ToldStreamsEnd`,
`Converges`, `Recovers`, `CaughtUp`, `OptionsTakeEffect`), which is out of the prover's reach
under fairness. Where a proof needed an induction over data (the hours of a counter, the
updates of a bulk, the rows of an answer and the lists it is made of) it was made with the
well-foundedness of the naturals, since the library's induction theorems cannot be instantiated.

## 7. Not modelled, and why

* The exploratory views (types, objects, related): pure reads of one snapshot. The edges they
  serve, in metadata and as related objects, and the parents are in `AddressSpace`, the one
  that leads nowhere included (`EdgesFit`); filters by relationship and `maxDepth` are not.
* Value conversion and schemas: stateless and data-heavy, enumerated by the repository's tests.
* Request parsing, address checks, the entities of `sensor.py`, `i3x.write`, config flow,
  diagnostics: no state.
* In modelled parts: names, descriptions, types and schemas of objects; the slug of a
  statistic id; the client's
  metadata fetch at set-up; an exception other than `I3xError` in the push loop, which ends it
  for good; `maxDepth`, taken to include components; elements without data (structural
  objects) are modelled in `Subscriptions` but in no run.
* Home Assistant and its recorder, as the models assume them: one lock serialises set-up,
  unload and reload of an entry; a forwarded platform whose set-up fails leaves the entry
  loaded; purging never reaches hours that have no statistics yet.

## 8. Running

    tlc -config MCSubscriptions.cfg MCSubscriptions.tla
    tlapm SubscriptionsProofs.tla

A run takes between a few seconds and two minutes, and so does a module of proofs.
