--------------------------- MODULE EntryLifecycle ---------------------------
(***************************************************************************)
(* The life of a config entry (__init__.py), in server or in client mode:  *)
(* set-up, retries, reload when options change, unload.  A server entry    *)
(* makes an engine (server/__init__.py) and publishes it for the views; a  *)
(* client entry starts sensors, the push task (sensor.py) and the importer.*)
(* Home Assistant holds one lock over set-up, unload and reload of an      *)
(* entry, so that one at a time is under way; options may change at any of *)
(* its awaits, and requests come at any time.                              *)
(***************************************************************************)
EXTENDS InfoRateLimiter, FiniteSets

CONSTANTS
    None,
    Choices,         \* what options may say: [localOnly, live, import : BOOLEAN]
    MaxActs,         \* bound: changes of options, reloads and so on by the user
    MaxTime          \* bound: the clock

ASSUME EntryAssumption ==
    /\ MaxActs \in Nat /\ MaxTime \in Nat
    /\ Choices \subseteq [localOnly : BOOLEAN, live : BOOLEAN, import : BOOLEAN]
    /\ None \notin [version : 0..MaxActs, choice : Choices]

VARIABLES
    mode,
    options,         \* entry.options: a choice and its version
    state,           \* of the entry, by Home Assistant
    wanted,          \* the entry is not disabled
    reloads,         \* reloads that wait for the lock
    listener,        \* _async_update_listener is registered
    missed,          \* history: options changed in the last set-up, when nobody listens
    acts,            \* what the user did so far
    \* server
    engine,          \* runtime.server: the options it was built with, or None
    listening,       \* how many engines listen to Home Assistant
    served,          \* hass.data["server"]: an engine, or None
    buckets,         \* its info_limiter
    window,          \* history: how often one address was admitted since when
    clock,
    \* client
    coordinator,     \* the options the live coordinator was made for, or None
    push,            \* how many push tasks run
    importers        \* the options of the importers that run

entryVars  == <<state, wanted, reloads, listener, missed>>
userVars   == <<mode, options, acts>>
serverVars == <<engine, listening, served, buckets, window>>
clientVars == <<coordinator, push, importers>>
vars == <<entryVars, userVars, serverVars, clock, clientVars>>

\* Set-up awaits the integration (server), or the info of the remote server and then
\* that its platforms are set up, which await the first refresh of the live data
\* (client).  Unload awaits, in client mode only, the platforms and then the end of
\* the push task.
SettingUp == {"integration", "info", "refresh", "forwarded"}
Unloading == {"platforms", "pushEnd", "pushEndStaying"}
States    == {"notLoaded", "loaded", "retry", "failedUnload"} \cup SettingUp \cup Unloading
LockFree  == state \in {"notLoaded", "loaded", "retry", "failedUnload"}

NewWindow(a) == [of |-> a, since |-> clock, count |-> 0]

TypeOK ==
    /\ mode \in {"server", "client"} /\ state \in States
    /\ acts \in 0..MaxActs /\ options \in [version : 0..acts, choice : Choices]
    /\ clock \in 0..MaxTime
    /\ \A a \in Addresses : /\ buckets[a].rank \in 0..MaxIps /\ buckets[a].tokens \in 0..Burst
                            /\ buckets[a].last \in 0..clock
    /\ window \in [of : Addresses, since : 0..clock, count : Nat]
    /\ listening \in Int /\ push \in Nat /\ reloads \in Nat

Init ==
    /\ mode \in {"server", "client"}
    /\ \E c \in Choices : options = [version |-> 0, choice |-> c]
    /\ state = "notLoaded" /\ wanted = TRUE /\ reloads = 0 /\ listener = FALSE
    /\ missed = FALSE /\ acts = 0
    /\ engine = None /\ listening = 0 /\ served = None
    /\ clock = 0 /\ buckets = NoBuckets
    /\ \E a \in Addresses : window = [of |-> a, since |-> 0, count |-> 0]
    /\ coordinator = None /\ push = 0 /\ importers = {}

-----------------------------------------------------------------------------
(* Set-up                                                                   *)

\* Home Assistant starts, the retry timer fires, or a reload goes on.  The engine
\* reads the options now: its model keeps a copy.
BeginSetup ==
    /\ wanted /\ state \in {"notLoaded", "retry"}
    /\ state' = IF mode = "server" THEN "integration" ELSE "info"
    /\ engine' = IF mode = "server" THEN options ELSE None
    /\ coordinator' = None
    /\ missed' = FALSE
    /\ UNCHANGED <<userVars, wanted, reloads, listener, listening, served, buckets, window,
                   clock, push, importers>>

LoadedUnheard == state' = "loaded" /\ UNCHANGED listener

\* The end of a set-up: from now on changed options reload the entry.
Loaded == state' = "loaded" /\ listener' = TRUE

\* I3xServer.async_start has its integration: engine and janitor start, and the views
\* find the engine, which has a rate limiter of its own.
EngineStarts ==
    /\ state = "integration"
    /\ Loaded
    /\ listening' = listening + 1 /\ served' = engine
    /\ buckets' = NoBuckets /\ window' = NewWindow(window.of)
    /\ UNCHANGED <<userVars, wanted, reloads, missed, engine, clock, clientVars>>

\* The server answers with its info and the sensor platform is set up: it reads what
\* is to be live and awaits the first refresh of it, or has nothing to do.
InfoAnswered ==
    /\ state = "info"
    /\ IF options.choice.live
       THEN state' = "refresh" /\ coordinator' = options
       ELSE state' = "forwarded" /\ UNCHANGED coordinator
    /\ UNCHANGED <<userVars, wanted, reloads, listener, missed, serverVars, clock, push, importers>>

\* It cannot be reached (ConfigEntryNotReady): nothing runs yet.
InfoFails ==
    /\ state = "info"
    /\ state' = "retry"
    /\ UNCHANGED <<userVars, wanted, reloads, listener, missed, serverVars, clock, clientVars>>

\* The first refresh comes back.  When it fails Home Assistant gives up the platform
\* and not the entry, which is loaded without sensors and push task.
RefreshAnswered ==
    /\ state = "refresh"
    /\ state' = "forwarded"
    /\ \/ push' = push + 1
       \/ UNCHANGED push
    /\ UNCHANGED <<userVars, wanted, reloads, listener, missed, serverVars, clock, coordinator,
                   importers>>

\* async_forward_entry_setups returns.  What is to be imported is read now: the
\* importer starts, if there is anything, as set-up ends.
PlatformsForwarded ==
    /\ state = "forwarded"
    /\ importers' = IF options.choice.import THEN importers \cup {options} ELSE importers
    /\ Loaded
    /\ UNCHANGED <<userVars, wanted, reloads, missed, serverVars, clock, coordinator, push>>

-----------------------------------------------------------------------------
(* Unload                                                                   *)

ServerUnloadsStaysServed ==
    /\ listening' = listening - 1
    /\ engine' = None /\ buckets' = NoBuckets /\ window' = NewWindow(window.of)
    /\ state' = "notLoaded" /\ listener' = FALSE
    /\ UNCHANGED <<served, clientVars>>

\* async_unload_entry in server mode does not wait for anything: the engine stops
\* and the views no longer find it.
ServerUnloads ==
    /\ listening' = listening - 1
    /\ served' = IF served = engine THEN None ELSE served
    /\ engine' = None /\ buckets' = NoBuckets /\ window' = NewWindow(window.of)
    /\ state' = "notLoaded" /\ listener' = FALSE
    /\ UNCHANGED clientVars

\* What begins when the entry is to be unloaded; one that waits for a retry has
\* nothing to unload.
BeginUnload ==
    CASE state = "loaded" /\ mode = "server" -> ServerUnloads
      [] state = "loaded" /\ mode = "client" ->
            state' = "platforms" /\ UNCHANGED <<listener, serverVars, clientVars>>
      [] state = "retry" ->
            state' = "notLoaded" /\ UNCHANGED <<listener, serverVars, clientVars>>
      [] OTHER -> UNCHANGED <<state, listener, serverVars, clientVars>>

\* async_reload has the lock: unload, and set up again unless the entry is disabled.
Reload ==
    /\ reloads > 0 /\ LockFree
    /\ reloads' = reloads - 1
    /\ BeginUnload
    /\ UNCHANGED <<userVars, wanted, missed, clock>>

\* async_unload_platforms returns, successful or not.
PlatformsUnloaded ==
    /\ state = "platforms"
    /\ state' \in {"pushEnd", "pushEndStaying"}
    /\ UNCHANGED <<userVars, wanted, reloads, listener, missed, serverVars, clock, clientVars>>

ClientUnloadsOnlyIfOk ==
    /\ state \in {"pushEnd", "pushEndStaying"}
    /\ IF state = "pushEnd"
       THEN state' = "notLoaded" /\ listener' = FALSE /\ push' = 0 /\ importers' = {}
       ELSE state' = "failedUnload" /\ UNCHANGED <<listener, push, importers>>
    /\ UNCHANGED <<userVars, wanted, reloads, missed, serverVars, clock, coordinator>>

\* push.async_stop has cancelled the task and asked the server to delete the
\* subscription, which may fail unnoticed; the importer's timer stops.
ClientUnloads ==
    /\ state \in {"pushEnd", "pushEndStaying"}
    /\ push' = 0 /\ importers' = {}
    /\ IF state = "pushEnd" THEN state' = "notLoaded" /\ listener' = FALSE
                            ELSE state' = "failedUnload" /\ UNCHANGED listener
    /\ UNCHANGED <<userVars, wanted, reloads, missed, serverVars, clock, coordinator>>

-----------------------------------------------------------------------------
(* The user, the clock and the clients of a server.                         *)

ActsUp == acts < MaxActs /\ acts' = acts + 1

\* Options are stored at once, whatever the entry is at.
ChangeOptions ==
    /\ ActsUp
    /\ \E c \in Choices \ {options.choice} :
          options' = [version |-> options.version + 1, choice |-> c]
    /\ reloads' = IF listener THEN reloads + 1 ELSE reloads
    /\ missed' = (missed \/ state \in SettingUp)
    /\ UNCHANGED <<mode, state, wanted, listener, serverVars, clock, clientVars>>

UserReloads ==
    /\ ActsUp
    /\ reloads' = reloads + 1
    /\ UNCHANGED <<mode, options, state, wanted, listener, missed, serverVars, clock, clientVars>>

Disable ==
    /\ ActsUp /\ wanted /\ LockFree
    /\ wanted' = FALSE
    /\ BeginUnload
    /\ UNCHANGED <<mode, options, reloads, missed, clock>>

Enable ==
    /\ ActsUp /\ ~wanted /\ state \in {"notLoaded", "retry"}
    /\ wanted' = TRUE
    /\ UNCHANGED <<mode, options, state, reloads, listener, missed, serverVars, clock, clientVars>>

Tick ==
    /\ clock < MaxTime
    /\ clock' = clock + 1
    /\ UNCHANGED <<entryVars, userVars, serverVars, clientVars>>

\* Counting may start anew at any time, for any address.
Watch ==
    /\ \E a \in Addresses : window' = NewWindow(a)
    /\ UNCHANGED <<entryVars, userVars, engine, listening, served, buckets, clock, clientVars>>

\* The option is read from the entry, not from the engine.
LocalOnly == options.choice.localOnly

\* GET /info from an address that is not local: the view finds the engine (or
\* answers 503), refuses with 403, or asks the limiter, without an await.
Info(a) ==
    /\ served # None /\ ~LocalOnly
    /\ buckets' = Checked(buckets, a, clock)
    /\ LET w     == window.of
           begun == IF buckets[w].rank = 0 THEN NewWindow(w) ELSE window
       IN  window' = CASE buckets'[w].rank = 0 -> NewWindow(w)
                       [] buckets'[w].rank # 0 /\ a = w /\ Admits(buckets, a, clock) ->
                             [begun EXCEPT !.count = @ + 1]
                       [] OTHER -> begun
    /\ UNCHANGED <<entryVars, userVars, engine, listening, served, clock, clientVars>>

Entry == BeginSetup \/ EngineStarts \/ InfoAnswered \/ InfoFails \/ RefreshAnswered
            \/ PlatformsForwarded \/ Reload \/ PlatformsUnloaded \/ ClientUnloads

User == ChangeOptions \/ UserReloads \/ Disable \/ Enable

Next == Entry \/ User \/ Tick \/ Watch \/ \E a \in Addresses : Info(a)

Spec == Init /\ [][Next]_vars

\* Timers, tasks and requests get on, and a server that is asked for its info again
\* and again answers some time.
FairSpec == Spec /\ WF_vars(Entry) /\ SF_vars(InfoAnswered)

-----------------------------------------------------------------------------
(* Properties                                                               *)

\* However set-ups, failures, reloads and unloads follow each other there is never a
\* second engine, push task or importer of the entry; what the views find is an engine
\* that listens; and an entry that is not loaded or unloading has nothing running,
\* even when its platforms could not be unloaded - but for the push task of one whose
\* set-up is about to end.
NothingLeftRunning ==
    /\ listening = (IF served = None THEN 0 ELSE 1)
    /\ push <= 1 /\ Cardinality(importers) <= 1
    /\ state = "loaded" /\ mode = "server" => served = engine /\ engine # None
    /\ state \notin {"loaded"} \cup Unloading =>
          listening = 0 /\ importers = {} /\ (push = 0 \/ state = "forwarded")

\* "Reload the entry when options change" (__init__.py:174): when the user is done, a
\* loaded entry ends up working by the options as they are, however changes,
\* reloads and failed set-ups overlapped - except for a change that came while the last
\* set-up was under way: the listener is registered at its end, so nobody heard of it.
OptionsTakeEffect ==
    <>[](/\ state \in {"loaded", "failedUnload", "notLoaded"}
         /\ state = "notLoaded" => ~wanted
         /\ state = "loaded" =>
              \/ missed
              \/ mode = "server" /\ engine = options
              \/ /\ mode = "client"
                 /\ coordinator = (IF options.choice.live THEN options ELSE None)
                 /\ importers = (IF options.choice.import THEN {options} ELSE {}))

\* "/info is rate limited per IP": as long as its bucket is kept, an address is
\* admitted no more than a burst and what trickles in meanwhile, in any stretch of time.
\* (A reload, or more addresses than the map holds, give it a full bucket.)
RateBound ==
    buckets[window.of].rank # 0 =>
        window.count * Unit <= Burst + (clock - window.since) * Rate

\* The limiter's memory is bounded, whoever asks.
BucketsBounded ==
    Cardinality({a \in Addresses : buckets[a].rank # 0}) <= MaxIps
=============================================================================
