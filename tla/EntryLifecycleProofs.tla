------------------------ MODULE EntryLifecycleProofs ------------------------
(***************************************************************************)
(* Theorems about the life of an entry and the limiter of its engine, for  *)
(* any addresses, rates, options and bounds.                               *)
(***************************************************************************)
EXTENDS EntryLifecycle, FiniteSetTheorems, TLAPS

USE RateAssumption, EntryAssumption

\* One use of a bucket leaves every bucket within its limits.
LEMMA CheckedType ==
    ASSUME TypeOK, NEW a \in Addresses
    PROVE  \A x \in Addresses : /\ Checked(buckets, a, clock)[x].rank \in 0..MaxIps
                                /\ Checked(buckets, a, clock)[x].tokens \in 0..Burst
                                /\ Checked(buckets, a, clock)[x].last \in 0..clock
<1> SUFFICES ASSUME NEW x \in Addresses
             PROVE  /\ Checked(buckets, a, clock)[x].rank \in 0..MaxIps
                    /\ Checked(buckets, a, clock)[x].tokens \in 0..Burst
                    /\ Checked(buckets, a, clock)[x].last \in 0..clock
  OBVIOUS
<1>1. /\ buckets[x].rank \in 0..MaxIps /\ buckets[x].tokens \in 0..Burst
      /\ buckets[x].last \in 0..clock /\ clock \in Nat
      /\ buckets[a].rank \in 0..MaxIps /\ buckets[a].tokens \in 0..Burst
      /\ buckets[a].last \in 0..clock
  BY DEF TypeOK
<1>2. Level(buckets, a, clock) \in 0..Burst
  <2>1. (clock - buckets[a].last) * Rate \in Nat
    BY <1>1
  <2>. QED  BY <1>1, <2>1 DEF Level
<1>3. RankAfter(buckets, a, x) \in 0..MaxIps
  BY <1>1 DEF RankAfter
<1>. QED  BY <1>1, <1>2, <1>3 DEF Checked, Admits

\* What may become of the limiter in any step: a new engine has no buckets, a request
\* uses one, and otherwise time passes at most.
LimiterStep ==
    \/ clock' = clock /\ buckets' = NoBuckets /\ window' = NewWindow(window.of)
    \/ \E a \in Addresses : Info(a)
    \/ clock' = clock /\ buckets' = buckets /\ \E a \in Addresses : window' = NewWindow(a)
    \/ clock' \in {clock, clock + 1} /\ clock' <= MaxTime /\ buckets' = buckets /\ window' = window

\* Every step of an entry is one of these for its limiter.
LEMMA LimiterSteps ==
    ASSUME TypeOK, [Next]_vars
    PROVE  LimiterStep
<1> USE DEF LimiterStep, TypeOK, userVars, serverVars
<1>0. clock \in Nat /\ clock <= MaxTime
  OBVIOUS
<1>1. CASE Entry
  <2>1. CASE \/ BeginSetup \/ EngineStarts \/ InfoAnswered \/ InfoFails \/ RefreshAnswered
             \/ PlatformsForwarded
    BY <1>0, <2>1 DEF BeginSetup, EngineStarts, InfoAnswered, InfoFails, RefreshAnswered,
                      PlatformsForwarded
  <2>2. CASE Reload
    BY <1>0, <2>2 DEF Reload, BeginUnload, ServerUnloads
  <2>3. CASE PlatformsUnloaded \/ ClientUnloads
    BY <1>0, <2>3 DEF PlatformsUnloaded, ClientUnloads
  <2>. QED  BY <1>1, <2>1, <2>2, <2>3 DEF Entry
<1>2. CASE User
  <2>1. CASE ChangeOptions \/ UserReloads \/ Enable
    BY <1>0, <2>1 DEF ChangeOptions, UserReloads, Enable
  <2>2. CASE Disable
    BY <1>0, <2>2 DEF Disable, BeginUnload, ServerUnloads
  <2>. QED  BY <1>2, <2>1, <2>2 DEF User
<1>3. CASE Tick
  BY <1>0, <1>3 DEF Tick
<1>4. CASE Watch
  BY <1>0, <1>4 DEF Watch
<1>5. CASE \E a \in Addresses : Info(a)
  BY <1>5
<1>6. CASE UNCHANGED vars
  BY <1>0, <1>6 DEF vars
<1>. QED  BY <1>1, <1>2, <1>3, <1>4, <1>5, <1>6 DEF Next

LifeOK ==
    /\ mode \in {"server", "client"} /\ state \in States
    /\ acts \in 0..MaxActs /\ options \in [version : 0..acts, choice : Choices]
    /\ listening \in Int /\ push \in Nat /\ reloads \in Nat

LimiterOK ==
    /\ clock \in 0..MaxTime
    /\ \A a \in Addresses : /\ buckets[a].rank \in 0..MaxIps /\ buckets[a].tokens \in 0..Burst
                            /\ buckets[a].last \in 0..clock
    /\ window \in [of : Addresses, since : 0..clock, count : Nat]

\* Set-up, unload and the user keep the entry's own variables within their ranges.
LEMMA LifeStep ==
    ASSUME TypeOK, [Next]_vars
    PROVE  LifeOK'
<1> USE DEF TypeOK, LifeOK, entryVars, userVars, serverVars, clientVars
<1>0. /\ state \in States /\ acts \in Nat /\ push \in Nat /\ reloads \in Nat
      /\ listening \in Int /\ options \in [version : 0..acts, choice : Choices]
  OBVIOUS
<1>1. CASE BeginSetup
  BY <1>1 DEF BeginSetup, States, SettingUp
<1>2. CASE EngineStarts
  BY <1>2 DEF EngineStarts, Loaded, States
<1>3. CASE InfoAnswered
  BY <1>3 DEF InfoAnswered, States, SettingUp
<1>4. CASE InfoFails
  BY <1>4 DEF InfoFails, States
<1>5. CASE RefreshAnswered \/ PlatformsForwarded
  BY <1>5 DEF RefreshAnswered, PlatformsForwarded, Loaded, States, SettingUp
<1>6. ASSUME BeginUnload
      PROVE  /\ state' \in States /\ listening' \in Int /\ push' \in Nat
  BY <1>6 DEF BeginUnload, ServerUnloads, States, Unloading
<1>7. CASE Reload
  BY <1>6, <1>7 DEF Reload
<1>8. CASE PlatformsUnloaded
  BY <1>8 DEF PlatformsUnloaded, States, Unloading
<1>9. CASE ClientUnloads
  BY <1>9 DEF ClientUnloads, States
<1>10. CASE ChangeOptions
  <2>1. PICK c \in Choices \ {options.choice} :
           options' = [version |-> options.version + 1, choice |-> c]
    BY <1>10 DEF ChangeOptions
  <2>2. options' \in [version : 0..acts', choice : Choices] /\ acts' \in 0..MaxActs
    BY <1>10, <2>1 DEF ChangeOptions, ActsUp
  <2>. QED  BY <1>10, <2>2 DEF ChangeOptions
<1>11. CASE UserReloads \/ Enable
  BY <1>11 DEF UserReloads, Enable, ActsUp
<1>12. CASE Disable
  BY <1>6, <1>12 DEF Disable, ActsUp
<1>13. CASE Tick \/ Watch \/ UNCHANGED vars
  BY <1>13 DEF Tick, Watch, vars
<1>14. CASE \E a \in Addresses : Info(a)
  BY <1>14 DEF Info
<1>. QED  BY <1>1, <1>2, <1>3, <1>4, <1>5, <1>7, <1>8, <1>9, <1>10, <1>11, <1>12, <1>13, <1>14
          DEF Next, Entry, User

\* Every variable keeps to its range.
THEOREM EntryTyped == Spec => []TypeOK
<1>1. Init => TypeOK
  BY DEF Init, TypeOK, States, NoBuckets
<1>2. TypeOK /\ [Next]_vars => TypeOK'
  <2> SUFFICES ASSUME TypeOK, [Next]_vars
               PROVE  TypeOK'
    OBVIOUS
  <2>1. LimiterStep
    BY LimiterSteps
  <2>2. LimiterOK'
    <3> USE DEF TypeOK, LimiterOK
    <3>1. CASE clock' = clock /\ buckets' = NoBuckets /\ window' = NewWindow(window.of)
      BY <3>1 DEF NoBuckets, NewWindow
    <3>2. ASSUME NEW a \in Addresses, Info(a) PROVE LimiterOK'
      <4>1. /\ clock' = clock /\ clock \in Nat
            /\ \A x \in Addresses : /\ buckets'[x].rank \in 0..MaxIps
                                    /\ buckets'[x].tokens \in 0..Burst
                                    /\ buckets'[x].last \in 0..clock
        BY <3>2, CheckedType DEF Info
      <4>2. window' \in [of : Addresses, since : 0..clock, count : Nat]
        BY <3>2 DEF Info, NewWindow
      <4>. QED  BY <4>1, <4>2
    <3>3. CASE clock' = clock /\ buckets' = buckets /\ \E a \in Addresses : window' = NewWindow(a)
      BY <3>3 DEF NewWindow
    <3>4. CASE /\ clock' \in {clock, clock + 1} /\ clock' <= MaxTime
               /\ buckets' = buckets /\ window' = window
      BY <3>4
    <3>. QED  BY <2>1, <3>1, <3>2, <3>3, <3>4 DEF LimiterStep
  <2>3. LifeOK'
    BY LifeStep
  <2>. QED  BY <2>2, <2>3 DEF TypeOK, LifeOK, LimiterOK
<1>. QED  BY <1>1, <1>2, PTL DEF Spec

-----------------------------------------------------------------------------
(* The limiter                                                              *)

\* What an address was admitted since the count began and what its bucket still holds
\* together never exceed a burst and what has trickled in.
RatePaid ==
    buckets[window.of].rank # 0 =>
        Level(buckets, window.of, clock) + window.count * Unit
            <= Burst + (clock - window.since) * Rate

\* Where the level of a bucket goes as time passes.
LEMMA LevelType ==
    ASSUME TypeOK, NEW a \in Addresses
    PROVE  Level(buckets, a, clock) \in 0..Burst
<1>1. /\ buckets[a].tokens \in 0..Burst /\ buckets[a].last \in 0..clock /\ clock \in Nat
  BY DEF TypeOK
<1>2. (clock - buckets[a].last) * Rate \in Nat
  BY <1>1
<1>. QED  BY <1>1, <1>2 DEF Level

\* However often and in whatever order addresses ask, one whose bucket is kept is not
\* admitted beyond its burst and its rate.
THEOREM RateBounded == Spec => []RateBound
<1>1. Init => RatePaid
  BY DEF Init, RatePaid, NoBuckets
<1>2. TypeOK /\ RatePaid /\ [Next]_vars => RatePaid'
  <2> SUFFICES ASSUME TypeOK, RatePaid, [Next]_vars
               PROVE  RatePaid'
    OBVIOUS
  <2> DEFINE w == window.of
             n == window.count
  <2>0. /\ w \in Addresses /\ clock \in Nat /\ window.since \in 0..clock /\ n \in Nat
        /\ buckets[w].tokens \in 0..Burst /\ buckets[w].last \in 0..clock
        /\ buckets[w].rank \in 0..MaxIps
        /\ Level(buckets, w, clock) \in 0..Burst
    BY LevelType DEF TypeOK
  <2>1. CASE clock' = clock /\ buckets' = NoBuckets /\ window' = NewWindow(w)
    BY <2>0, <2>1 DEF RatePaid, NoBuckets, NewWindow
  <2>2. ASSUME NEW a \in Addresses, Info(a) PROVE RatePaid'
    <3> DEFINE begun == IF buckets[w].rank = 0 THEN NewWindow(w) ELSE window
    <3>1. /\ clock' = clock /\ buckets' = Checked(buckets, a, clock)
          /\ window' = CASE buckets'[w].rank = 0 -> NewWindow(w)
                         [] buckets'[w].rank # 0 /\ a = w /\ Admits(buckets, a, clock) ->
                               [begun EXCEPT !.count = @ + 1]
                         [] OTHER -> begun
      BY <2>2 DEF Info
    <3>2. begun.of = w /\ begun.since \in 0..clock /\ begun.count \in Nat
      BY <2>0 DEF NewWindow, TypeOK
    <3>3. Level(buckets, w, clock) + begun.count * Unit <= Burst + (clock - begun.since) * Rate
      <4>1. CASE buckets[w].rank = 0
        BY <2>0, <4>1 DEF NewWindow
      <4>2. CASE buckets[w].rank # 0
        BY <4>2 DEF RatePaid
      <4>. QED  BY <4>1, <4>2
    <3>4. CASE buckets'[w].rank = 0
      BY <2>0, <3>1, <3>4 DEF RatePaid, NewWindow
    <3>5. CASE buckets'[w].rank # 0 /\ a = w /\ Admits(buckets, a, clock)
      <4>1. window' = [begun EXCEPT !.count = @ + 1]
        BY <3>1, <3>5
      <4>2. window'.of = w /\ window'.since = begun.since /\ window'.count = begun.count + 1
        BY <4>1, <3>2, <2>0 DEF NewWindow, TypeOK
      <4>3. buckets'[w].tokens = Level(buckets, w, clock) - Unit /\ buckets'[w].last = clock
        BY <3>1, <3>5, <2>0 DEF Checked
      <4>4. Level(buckets', w, clock') = Level(buckets, w, clock) - Unit
        <5>1. (clock' - buckets'[w].last) * Rate = 0
          BY <2>0, <3>1, <4>3
        <5>. QED  BY <2>0, <3>5, <4>3, <5>1 DEF Level, Admits
      <4>5. (begun.count + 1) * Unit = begun.count * Unit + Unit
        BY <3>2
      <4>6. Level(buckets', w, clock') + window'.count * Unit
               <= Burst + (clock' - window'.since) * Rate
        <5>1. begun.count * Unit \in Nat /\ (clock - begun.since) * Rate \in Nat
          BY <2>0, <3>2
        <5>. QED  BY <2>0, <3>1, <3>3, <4>2, <4>4, <4>5, <5>1
      <4>. QED  BY <4>2, <4>6 DEF RatePaid, Level
    <3>6. CASE buckets'[w].rank # 0 /\ ~(a = w /\ Admits(buckets, a, clock))
      <4>1. window' = begun
        BY <3>1, <3>6
      <4>2. CASE a = w
        <5>1. buckets'[w].tokens = Level(buckets, w, clock) /\ buckets'[w].last = clock
          BY <3>1, <3>6, <4>2, <2>0 DEF Checked
        <5>2. (clock' - buckets'[w].last) * Rate = 0
          BY <2>0, <3>1, <5>1
        <5>3. Level(buckets', w, clock') = Level(buckets, w, clock)
          BY <2>0, <3>6, <5>1, <5>2 DEF Level
        <5>. QED  BY <3>1, <3>2, <3>3, <4>1, <5>3 DEF RatePaid, Level
      <4>3. CASE a # w
        <5>1. /\ buckets'[w].tokens = buckets[w].tokens /\ buckets'[w].last = buckets[w].last
              /\ buckets[w].rank # 0
          BY <3>1, <3>6, <4>3, <2>0 DEF Checked, RankAfter
        <5>2. Level(buckets', w, clock') = Level(buckets, w, clock)
          BY <2>0, <3>1, <3>6, <5>1 DEF Level
        <5>. QED  BY <3>1, <3>2, <3>3, <4>1, <5>2 DEF RatePaid, Level
      <4>. QED  BY <4>2, <4>3
    <3>. QED  BY <3>4, <3>5, <3>6
  <2>3. ASSUME NEW a \in Addresses, clock' = clock, buckets' = buckets, window' = NewWindow(a)
        PROVE  RatePaid'
    <3>1. Level(buckets, a, clock) \in 0..Burst
      BY LevelType
    <3>2. /\ window'.of = a /\ window'.count = 0 /\ window'.since = clock
          /\ (clock - clock) * Rate = 0 /\ 0 * Unit = 0
      BY <2>0, <2>3 DEF NewWindow
    <3>3. Level(buckets', window'.of, clock') + window'.count * Unit
             <= Burst + (clock' - window'.since) * Rate
      BY <2>3, <3>1, <3>2
    <3>. QED  BY <3>3 DEF RatePaid, Level
  <2>4. CASE clock' \in {clock, clock + 1} /\ buckets' = buckets /\ window' = window
    <3>1. CASE clock' = clock
      BY <2>4, <3>1 DEF RatePaid, Level
    <3>2. CASE clock' = clock + 1
      <4>1. /\ (clock + 1 - buckets[w].last) * Rate = (clock - buckets[w].last) * Rate + Rate
            /\ (clock + 1 - window.since) * Rate = (clock - window.since) * Rate + Rate
            /\ (clock - buckets[w].last) * Rate \in Nat
            /\ (clock - window.since) * Rate \in Nat
            /\ n * Unit \in Nat
        BY <2>0
      <4>2. Level(buckets, w, clock + 1) <= Level(buckets, w, clock) + Rate
        BY <2>0, <4>1 DEF Level
      <4>3. Level(buckets, w, clock + 1) \in Int
        BY <2>0, <4>1 DEF Level
      <4>4. CASE buckets[w].rank # 0
        <5>1. Level(buckets', window'.of, clock') + window'.count * Unit
                 <= Burst + (clock' - window'.since) * Rate
          <6>1. Level(buckets, w, clock) + n * Unit <= Burst + (clock - window.since) * Rate
            BY <4>4 DEF RatePaid
          <6>2. Level(buckets, w, clock + 1) + n * Unit
                   <= Burst + (clock + 1 - window.since) * Rate
            <7> DEFINE s == window.since
            <7>1. w \in Addresses /\ n \in Nat /\ s \in 0..clock /\ clock \in Nat
                  /\ Level(buckets, w, clock) \in 0..Burst
              BY <2>0
            <7>2. (clock + 1 - s) * Rate = (clock - s) * Rate + Rate /\ (clock - s) * Rate \in Nat
              BY <4>1
            <7>. HIDE DEF n, w, s
            <7>. QED  BY <6>1, <7>1, <7>2, <4>1, <4>2, <4>3
          <6>3. window'.of = w /\ window'.count = n /\ window'.since = window.since
            BY <2>4
          <6>4. Level(buckets', window'.of, clock') = Level(buckets, w, clock + 1)
            BY <2>4, <3>2, <6>3 DEF Level
          <6>5. clock' = clock + 1
            BY <3>2
          <6>6. (clock' - window'.since) * Rate = (clock + 1 - window.since) * Rate
            BY <2>0, <6>3, <6>5
          <6>. QED  BY <6>2, <6>3, <6>4, <6>6
        <5>. QED  BY <5>1 DEF RatePaid, Level
      <4>. QED  BY <2>4, <4>4 DEF RatePaid
    <3>. QED  BY <2>4, <3>1, <3>2
  <2>. QED  BY LimiterSteps, <2>1, <2>2, <2>3, <2>4 DEF LimiterStep
<1>3. TypeOK /\ RatePaid => RateBound
  <2> SUFFICES ASSUME TypeOK, RatePaid, buckets[window.of].rank # 0
               PROVE  window.count * Unit <= Burst + (clock - window.since) * Rate
    BY DEF RateBound
  <2>1. window.of \in Addresses /\ window.count \in Nat /\ window.since \in 0..clock /\ clock \in Nat
    BY DEF TypeOK
  <2>2. Level(buckets, window.of, clock) \in 0..Burst
    BY <2>1, LevelType
  <2>3. window.count * Unit \in Nat /\ (clock - window.since) * Rate \in Nat
    BY <2>1
  <2>. QED  BY <2>2, <2>3 DEF RatePaid
<1>. QED  BY <1>1, <1>2, <1>3, EntryTyped, PTL DEF Spec

\* The buckets that are kept are ranked apart from each other.
Ranked == {a \in Addresses : buckets[a].rank # 0}

RanksDiffer == \A a, b \in Ranked : buckets[a].rank = buckets[b].rank => a = b

\* The limiter never keeps more buckets than it may, whoever asks.
THEOREM LimiterBounded == Spec => []BucketsBounded
<1>1. Init => RanksDiffer
  BY DEF Init, RanksDiffer, Ranked, NoBuckets
<1>2. TypeOK /\ RanksDiffer /\ [Next]_vars => RanksDiffer'
  <2> SUFFICES ASSUME TypeOK, RanksDiffer, [Next]_vars
               PROVE  RanksDiffer'
    OBVIOUS
  <2>1. CASE buckets' = NoBuckets
    BY <2>1 DEF RanksDiffer, Ranked, NoBuckets
  <2>2. CASE buckets' = buckets
    BY <2>2 DEF RanksDiffer, Ranked
  <2>3. ASSUME NEW a \in Addresses, Info(a) PROVE RanksDiffer'
    <3> SUFFICES ASSUME NEW x \in Addresses, NEW y \in Addresses,
                        buckets'[x].rank # 0, buckets'[x].rank = buckets'[y].rank
                 PROVE  x = y
      BY DEF RanksDiffer, Ranked
    <3>1. buckets'[x].rank = RankAfter(buckets, a, x) /\ buckets'[y].rank = RankAfter(buckets, a, y)
      BY <2>3 DEF Info, Checked
    <3>2. /\ buckets[x].rank \in 0..MaxIps /\ buckets[y].rank \in 0..MaxIps
          /\ buckets[a].rank \in 0..MaxIps
      BY DEF TypeOK
    <3>3. /\ buckets[x].rank # 0 /\ buckets[x].rank = buckets[y].rank => x = y
          /\ buckets[x].rank # 0 /\ buckets[x].rank = buckets[a].rank => x = a
          /\ buckets[y].rank # 0 /\ buckets[y].rank = buckets[a].rank => y = a
      BY <3>2 DEF RanksDiffer, Ranked
    <3> DEFINE p == buckets[x].rank
               q == buckets[y].rank
               r == buckets[a].rank
    <3>4. RankAfter(buckets, a, x) # 0 /\ RankAfter(buckets, a, x) = RankAfter(buckets, a, y)
      BY <3>1
    <3>5. p \in Nat /\ q \in Nat /\ r \in Nat /\ MaxIps \in Nat
      BY <3>2
    <3>6. CASE x = a \/ y = a
      BY <3>3, <3>4, <3>5, <3>6 DEF RankAfter
    <3>7. CASE x # a /\ y # a
      BY <3>3, <3>4, <3>5, <3>7 DEF RankAfter
    <3>. QED  BY <3>6, <3>7
  <2>. QED  BY LimiterSteps, <2>1, <2>2, <2>3 DEF LimiterStep
<1>3. TypeOK /\ RanksDiffer => BucketsBounded
  <2> SUFFICES ASSUME TypeOK, RanksDiffer
               PROVE  Cardinality(Ranked) <= MaxIps
    BY DEF BucketsBounded, Ranked
  <2> DEFINE rank == [a \in Ranked |-> buckets[a].rank]
  <2>1. rank \in Injection(Ranked, 1..MaxIps)
    <3>1. \A a \in Ranked : buckets[a].rank \in 1..MaxIps
      <4> SUFFICES ASSUME NEW a \in Addresses, buckets[a].rank # 0
                   PROVE  buckets[a].rank \in 1..MaxIps
        BY DEF Ranked
      <4>1. buckets[a].rank \in 0..MaxIps
        BY DEF TypeOK
      <4>. QED  BY <4>1
    <3>. QED  BY <3>1 DEF RanksDiffer, Injection, IsInjective
  <2>2. IsFiniteSet(1..MaxIps) /\ Cardinality(1..MaxIps) = MaxIps
    BY FS_Interval
  <2>. QED  BY <2>1, <2>2, FS_Injection
<1>. QED  BY <1>1, <1>2, <1>3, EntryTyped, PTL DEF Spec

-----------------------------------------------------------------------------
(* Nothing is left running                                                  *)

\* What runs follows from where the entry is in its life, and what a set-up starts
\* starts beside nothing.
ServerLife ==
    mode = "server" => /\ state \in {"notLoaded", "integration", "loaded"}
                       /\ push = 0 /\ importers = {}

ClientLife == mode = "client" => served = None /\ state # "integration"

Engine ==
    /\ engine # None => engine \in [version : 0..MaxActs, choice : Choices]
    /\ state = "integration" => engine # None
    /\ state = "loaded" /\ mode = "server" => served = engine /\ engine # None
    /\ listening = (IF served = None THEN 0 ELSE 1)

Quiet == state \notin {"loaded"} \cup Unloading =>
             served = None /\ importers = {} /\ (push = 0 \/ state = "forwarded")

AtMostOne == push \in {0, 1} /\ (importers = {} \/ \E o : importers = {o})

Running == ServerLife /\ ClientLife /\ Engine /\ Quiet /\ AtMostOne

\* However set-ups, failures, reloads and unloads follow each other, an entry that is
\* neither loaded nor about to be nor unloading runs nothing, and one that is runs
\* nothing twice.
THEOREM NothingIsLeftRunning == Spec => []NothingLeftRunning
<1> USE DEF Running, ServerLife, ClientLife, Engine, Quiet, AtMostOne
<1>1. Init => Running
  BY DEF Init, Unloading
<1>2. TypeOK /\ Running /\ [Next]_vars => Running'
  <2> SUFFICES ASSUME TypeOK, Running, [Next]_vars
               PROVE  Running'
    OBVIOUS
  <2> USE DEF entryVars, userVars, serverVars, clientVars
  <2>0. /\ mode \in {"server", "client"} /\ options # None
        /\ options \in [version : 0..MaxActs, choice : Choices]
    BY DEF TypeOK
  <2>1. CASE BeginSetup
    BY <2>0, <2>1 DEF BeginSetup, Unloading
  <2>2. CASE EngineStarts
    BY <2>0, <2>2 DEF EngineStarts, Loaded, Unloading
  <2>3. CASE InfoAnswered
    BY <2>0, <2>3 DEF InfoAnswered, Unloading
  <2>4. CASE InfoFails
    BY <2>0, <2>4 DEF InfoFails, Unloading
  <2>5. CASE RefreshAnswered
    BY <2>0, <2>5 DEF RefreshAnswered, Unloading
  <2>14. CASE PlatformsForwarded
    BY <2>0, <2>14 DEF PlatformsForwarded, Loaded, Unloading
  <2>6. ASSUME BeginUnload, mode' = mode, options' = options PROVE Running'
    <3>1. CASE state = "loaded" /\ mode = "server"
      BY <2>0, <2>6, <3>1 DEF BeginUnload, ServerUnloads, Unloading
    <3>2. CASE state = "loaded" /\ mode = "client"
      BY <2>0, <2>6, <3>2 DEF BeginUnload, Unloading
    <3>3. CASE state = "retry"
      BY <2>0, <2>6, <3>3 DEF BeginUnload, Unloading
    <3>4. CASE state \notin {"loaded", "retry"}
      BY <2>0, <2>6, <3>4 DEF BeginUnload, Unloading
    <3>. QED  BY <2>0, <3>1, <3>2, <3>3, <3>4
  <2>7. CASE Reload
    BY <2>6, <2>7 DEF Reload
  <2>8. CASE PlatformsUnloaded
    BY <2>0, <2>8 DEF PlatformsUnloaded, Unloading
  <2>9. CASE ClientUnloads
    BY <2>0, <2>9 DEF ClientUnloads, Unloading
  <2>10. CASE ChangeOptions \/ UserReloads \/ Enable \/ Tick \/ Watch
    BY <2>10 DEF ChangeOptions, UserReloads, Enable, Tick, Watch, Unloading
  <2>11. CASE Disable
    BY <2>6, <2>11 DEF Disable
  <2>12. CASE \E a \in Addresses : Info(a)
    BY <2>12 DEF Info
  <2>13. CASE UNCHANGED vars
    BY <2>13 DEF vars
  <2>. QED  BY <2>1, <2>2, <2>3, <2>4, <2>5, <2>7, <2>8, <2>9, <2>10, <2>11, <2>12, <2>13,
               <2>14
            DEF Next, Entry, User
<1>3. Running => NothingLeftRunning
  <2> SUFFICES ASSUME Running PROVE NothingLeftRunning
    OBVIOUS
  <2>1. Cardinality(importers) <= 1
    <3>1. CASE importers = {}
      BY <3>1, FS_EmptySet
    <3>2. CASE \E o : importers = {o}
      <4>1. PICK o : importers = {o}
        BY <3>2
      <4>2. Cardinality({o}) = 1
        BY FS_Singleton, Zenon
      <4>. QED  BY <4>1, <4>2
    <3>. QED  BY <3>1, <3>2
  <2>. QED  BY <2>1 DEF NothingLeftRunning
<1>. QED  BY <1>1, <1>2, <1>3, EntryTyped, PTL DEF Spec
=============================================================================
