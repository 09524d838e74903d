-------------------------- MODULE ServerReadsProofs --------------------------
(***************************************************************************)
(* The address space and the reads over it, with any registries, entities  *)
(* and requests: the snapshot that is served is current but for what came  *)
(* or went within its maximum age, and no payload is told that is older    *)
(* than the state it is told with.                                         *)
(***************************************************************************)
EXTENDS ServerReads, WellFoundedInduction, TLAPS

-----------------------------------------------------------------------------
(* The inductive invariant.                                                 *)

\* A snapshot that is kept was built from the registries as they are, and what it is
\* wrong about is no older than itself.
SnapshotKept ==
    snapshot # None =>
        LET exposed == DOMAIN snapshot \cap Entities IN
        /\ snapshot = Build(exposed)
        /\ \A e \in Entities : (e \in exposed) # (e \in present) => since[e] <= age

SpaceInv == SpaceTypeOK /\ SnapshotKept

\* States are numbered as they came, and services do not go back.
StatesCounted ==
    /\ \A e \in Entities : \A n \in DOMAIN states[e] : states[e][n].number = n
    /\ \A e \in ServiceBacked : \A n \in DOMAIN states[e] : states[e][n].owed <= payload[e]

\* In a history h of states: payload p is as new as a state of e that has this time.
AsOf(h, e, time, p) ==
    \E n \in DOMAIN h[e] : h[e][n].time = time /\ h[e][n].owed <= p

CacheAsOf ==
    \A e \in ServiceBacked : cache[e].payload # NoPayload
                                 => AsOf(states, e, cache[e].key, cache[e].payload)

\* A fetch is for a state there was, and brings nothing older.
FetchOK(h, f) ==
    /\ f.state.number \in DOMAIN h[f.element]
    /\ h[f.element][f.state.number] = f.state
    /\ f.got \notin {NotAsked, NoPayload} => f.state.owed <= f.got

FetchesOK == /\ \A r \in Requests : \A f \in req[r].fetch : FetchOK(states, f)
             /\ \A t \in followUps : FetchOK(states, t.fetch)

\* The state has its millisecond to itself (Alone).
Apart(h, e, n) == \A m \in DOMAIN h[e] : h[e][m].time = h[e][n].time => m = n

\* What a request is told of an entity it asks for.
ItemOK(h, item) ==
    \A v \in item.value : item.id \in ServiceBacked =>
        /\ v.number \in DOMAIN h[item.id]
        /\ v.payload # NoPayload /\ Apart(h, item.id, v.number)
              => h[item.id][v.number].owed <= v.payload

AnswersOK == \A r \in Requests : \A i \in DOMAIN req[r].results :
                ItemOK(states, req[r].results[i])

About(m, e, n) == m.element = e /\ m.value.number = n

Settled(e, n) ==
    \/ <<e, n>> \in failed
    \/ \E t \in followUps : t.fetch.element = e /\ t.fetch.state.number = n
    \/ \E m \in sent : /\ About(m, e, n)
                       /\ m.value.payload # NoPayload
                       /\ states[e][n].owed <= m.value.payload

\* What subscribers were sent has a follow-up under way, or has been caught up with.
SentOK ==
    /\ \A m \in sent : m.value.number \in DOMAIN states[m.element]
    /\ \A t \in followUps : Report(t.fetch, t.cached) \in sent
    /\ \A e \in ServiceBacked : \A n \in DOMAIN states[e] :
          Apart(states, e, n) /\ (\E m \in sent : About(m, e, n)) => Settled(e, n)

ReadsInv == /\ TypeOK /\ SnapshotKept
            /\ StatesCounted /\ CacheAsOf /\ FetchesOK /\ AnswersOK /\ SentOK

-----------------------------------------------------------------------------
(* The address space.                                                       *)

\* What a partial function is.
LEMMA PartialMeans ==
    ASSUME NEW D, NEW R, NEW f \in PartialFunctions(D, R)
    PROVE  DOMAIN f \subseteq D /\ \A x \in DOMAIN f : f[x] \in R
<1>1. PICK S \in SUBSET D : f \in [S -> R]
  BY DEF PartialFunctions
<1>. QED  BY <1>1

\* _build makes an address space, of exactly the entities it is given.
LEMMA BuildTyped ==
    ASSUME SpaceTypeOK, NEW S \in SUBSET Entities
    PROVE  Build(S) \in Spaces /\ DOMAIN Build(S) \cap Entities = S
<1> DEFINE used == UsedDevices(S)
           known == used \cap DOMAIN devices
           D == {Home} \cup areas \cup known \cup S
           up(o) == IF o = Home THEN None
                    ELSE IF o \in areas THEN Home
                    ELSE IF o \in known THEN (IF devices[o] \in areas THEN devices[o] ELSE Home)
                    ELSE ParentOfEntity(o, used)
<1>1. Build(S) = [o \in D |-> up(o)]
  BY DEF Build
<1>2. /\ areas \subseteq Areas /\ DOMAIN devices \subseteq Devices
      /\ \A e \in DOMAIN entries : entries[e] \in Entry
  BY PartialMeans DEF SpaceTypeOK
<1>3. used \subseteq Devices
  BY <1>2 DEF UsedDevices, Entry
<1>4. D \subseteq Objects /\ D \cap Entities = S
  BY <1>2, AddressSpaceAssumption DEF Objects
<1>5. \A o : ParentOfEntity(o, used) \in Objects
  BY <1>2, <1>3 DEF ParentOfEntity, Objects
<1>6. \A o \in D : up(o) \in Objects \cup {None}
  BY <1>2, <1>5 DEF Objects
<1>. HIDE DEF D, up
<1>7. Build(S) \in [D -> Objects \cup {None}]
  BY <1>1, <1>6
<1>8. Build(S) \in Spaces
  BY <1>4, <1>7 DEF Spaces, PartialFunctions
<1>. QED  BY <1>1, <1>4, <1>8

\* What is served is an address space.
LEMMA ServedTyped ==
    ASSUME SpaceTypeOK, NEW S \in SUBSET Entities
    PROVE  Served(S) \in Spaces
BY BuildTyped DEF SpaceTypeOK, Served

LEMMA SpaceInvInit == SpaceInit => SpaceInv
<1>. SUFFICES ASSUME SpaceInit PROVE SpaceInv
  OBVIOUS
<1>1. SpaceTypeOK
  BY AddressSpaceAssumption DEF SpaceInit, SpaceTypeOK
<1>2. SnapshotKept
  BY DEF SpaceInit, SnapshotKept
<1>. QED  BY <1>1, <1>2 DEF SpaceInv

\* A call of snapshot() keeps it what it has to be, also when an entity has just got
\* its first state.
LEMMA UseKeeps ==
    ASSUME SpaceInv, Use(present'), UNCHANGED registries,
           present' \in SUBSET Entities, changes' \in 0..MaxChanges,
           since' \in [Entities -> 0..(MaxAge + 1)],
           \A e \in Entities : \/ (e \in present' <=> e \in present) /\ since'[e] = since[e]
                              \/ since'[e] = 0
    PROVE  SpaceInv'
<1>. USE DEF registries
<1>1. SpaceTypeOK /\ SnapshotKept
  BY DEF SpaceInv
<1>2. \A S : Build(S)' = Build(S)
  BY DEF Build, UsedDevices, ParentOfEntity
<1>3. SpaceTypeOK'
  <2>1. snapshot' \in Spaces \cup {None}
    BY <1>1, ServedTyped DEF Use
  <2>2. age' \in 0..(MaxAge + 1)
    BY <1>1, AddressSpaceAssumption DEF Use, SpaceTypeOK
  <2>. QED  BY <1>1, <2>1, <2>2 DEF SpaceTypeOK
<1>4. SnapshotKept'
  <2>1. CASE snapshot = None \/ age > MaxAge
    <3>1. snapshot' = Build(present')
      BY <2>1 DEF Use, Served
    <3>2. DOMAIN snapshot' \cap Entities = present'
      BY <1>1, <3>1, BuildTyped
    <3>. QED  BY <1>2, <3>1, <3>2 DEF SnapshotKept
  <2>2. CASE ~(snapshot = None \/ age > MaxAge)
    <3>1. snapshot' = snapshot /\ age' = age /\ 0 <= age
      BY <1>1, <2>2, AddressSpaceAssumption DEF Use, Served, SpaceTypeOK
    <3>. QED  BY <1>1, <1>2, <3>1 DEF SnapshotKept
  <2>. QED  BY <2>1, <2>2
<1>. QED  BY <1>3, <1>4 DEF SpaceInv

\* What may appear.
LEMMA AppearsKeeps ==
    ASSUME SpaceTypeOK, NEW e \in Entities, Appears(e)
    PROVE  /\ present' \in SUBSET Entities /\ changes' \in 0..MaxChanges
           /\ since' \in [Entities -> 0..(MaxAge + 1)]
           /\ \A x \in Entities : \/ (x \in present' <=> x \in present) /\ since'[x] = since[x]
                                 \/ since'[x] = 0
<1>1. /\ present \in SUBSET Entities /\ since \in [Entities -> 0..(MaxAge + 1)]
      /\ changes \in 0..MaxChanges /\ MaxAge \in Nat /\ MaxChanges \in Nat
  BY AddressSpaceAssumption DEF SpaceTypeOK
<1>2. CASE e \in present
  BY <1>1, <1>2 DEF Appears
<1>3. CASE e \notin present
  <2>1. Change /\ present' = present \cup {e} /\ since' = [since EXCEPT ![e] = 0]
    BY <1>3 DEF Appears
  <2>2. changes' \in 0..MaxChanges
    BY <1>1, <2>1 DEF Change
  <2>. QED  BY <1>1, <2>1, <2>2
<1>. QED  BY <1>2, <1>3

LEMMA WorldKeeps ==
    ASSUME SpaceInv, SpaceWorld
    PROVE  SpaceInv'
<1>1. SpaceTypeOK /\ SnapshotKept
  BY DEF SpaceInv
<1>2. changes' \in 0..MaxChanges
  <2>1. Change
    BY DEF SpaceWorld, AreaChanges, DeviceChanges, EntryChanges, StateGoes
  <2>. QED  BY <1>1, <2>1, AddressSpaceAssumption DEF Change, SpaceTypeOK
<1>3. CASE AreaChanges
  <2>1. SpaceTypeOK'
    BY <1>1, <1>2, <1>3 DEF AreaChanges, Invalidate, SpaceTypeOK
  <2>. QED  BY <1>3, <2>1 DEF AreaChanges, Invalidate, SpaceInv, SnapshotKept
<1>4. CASE DeviceChanges
  <2>1. SpaceTypeOK'
    BY <1>1, <1>2, <1>4 DEF DeviceChanges, Invalidate, SpaceTypeOK
  <2>. QED  BY <1>4, <2>1 DEF DeviceChanges, Invalidate, SpaceInv, SnapshotKept
<1>5. CASE EntryChanges
  <2>1. SpaceTypeOK'
    BY <1>1, <1>2, <1>5 DEF EntryChanges, Invalidate, SpaceTypeOK
  <2>. QED  BY <1>5, <2>1 DEF EntryChanges, Invalidate, SpaceInv, SnapshotKept
<1>6. ASSUME NEW e \in Entities, StateGoes(e) PROVE SpaceInv'
  <2>. USE DEF registries
  <2>0. /\ UNCHANGED <<areas, devices, entries, snapshot, age>>
        /\ present' = present \ {e}
        /\ since' = [since EXCEPT ![e] = 0]
    BY <1>6 DEF StateGoes
  <2>1. since \in [Entities -> 0..(MaxAge + 1)] /\ age \in Nat /\ MaxAge \in Nat
    BY <1>1, AddressSpaceAssumption DEF SpaceTypeOK
  <2>2. since' \in [Entities -> 0..(MaxAge + 1)]
    BY <2>0, <2>1
  <2>3. SpaceTypeOK'
    BY <1>1, <1>2, <1>6, <2>0, <2>2 DEF SpaceTypeOK
  <2>4. \A S : Build(S)' = Build(S)
    BY <2>0 DEF Build, UsedDevices, ParentOfEntity
  <2>5. \A x \in Entities : x # e => (x \in present' <=> x \in present) /\ since'[x] = since[x]
    BY <2>0, <2>1
  <2>6. since'[e] = 0 /\ 0 <= age
    BY <2>0, <2>1
  <2>7. SnapshotKept'
    BY <1>1, <2>0, <2>4, <2>5, <2>6 DEF SnapshotKept
  <2>. QED  BY <2>3, <2>7 DEF SpaceInv
<1>. QED  BY <1>3, <1>4, <1>5, <1>6 DEF SpaceWorld

LEMMA AgeingKeeps ==
    ASSUME SpaceInv, Ageing
    PROVE  SpaceInv'
<1>. USE DEF registries
<1>1. SpaceTypeOK /\ SnapshotKept
  BY DEF SpaceInv
<1>2. /\ UNCHANGED <<areas, devices, entries, present, snapshot, changes>>
      /\ age' = Older(age) /\ since' = [e \in Entities |-> Older(since[e])]
  BY DEF Ageing
<1>3. since \in [Entities -> 0..(MaxAge + 1)] /\ age \in 0..(MaxAge + 1) /\ MaxAge \in Nat
  BY <1>1, AddressSpaceAssumption DEF SpaceTypeOK
<1>4. \A t \in 0..(MaxAge + 1) : Older(t) \in 0..(MaxAge + 1)
  BY <1>3 DEF Older
<1>5. \A t, u \in 0..(MaxAge + 1) : t <= u => Older(t) <= Older(u)
  BY <1>3 DEF Older
<1>. HIDE DEF Older
<1>6. SpaceTypeOK'
  BY <1>1, <1>2, <1>3, <1>4 DEF SpaceTypeOK
<1>7. \A S : Build(S)' = Build(S)
  BY <1>2 DEF Build, UsedDevices, ParentOfEntity
<1>8. \A e \in Entities : since[e] <= age => since'[e] <= age'
  BY <1>2, <1>3, <1>5
<1>9. SnapshotKept'
  BY <1>1, <1>2, <1>7, <1>8 DEF SnapshotKept
<1>. QED  BY <1>6, <1>9 DEF SpaceInv

\* Where _build puts its objects: every parent is an object a level up, but for that
\* of an orphan.
LEMMA BuildPlaces ==
    ASSUME SpaceTypeOK, NEW S \in SUBSET Entities, NEW o \in DOMAIN Build(S)
    PROVE  LET space == Build(S)
               known == UsedDevices(S) \cap DOMAIN devices
           IN  /\ DOMAIN space = {Home} \cup areas \cup known \cup S
               /\ o = Home => space[o] = None
               /\ o \in areas => space[o] = Home
               /\ o \in known => space[o] \in areas \cup {Home}
               /\ Orphan(o) => o \in S /\ space[o] = entries[o].device
               /\ o \in S /\ ~Orphan(o) => space[o] \in known \cup areas \cup {Home}
<1> DEFINE used == UsedDevices(S)
           known == used \cap DOMAIN devices
           D == {Home} \cup areas \cup known \cup S
<1>1. Build(S) = [x \in D |->
                     IF x = Home THEN None
                     ELSE IF x \in areas THEN Home
                     ELSE IF x \in known THEN (IF devices[x] \in areas THEN devices[x] ELSE Home)
                     ELSE ParentOfEntity(x, used)]
  BY DEF Build
<1>2. /\ areas \subseteq Areas /\ DOMAIN devices \subseteq Devices
      /\ DOMAIN entries \subseteq Entities
      /\ \A e \in DOMAIN entries : entries[e] \in Entry
  BY PartialMeans, AddressSpaceAssumption DEF SpaceTypeOK
<1>3. used \subseteq Devices
  BY <1>2 DEF UsedDevices, Entry
<1>4. /\ o \in D /\ DOMAIN Build(S) = D
      /\ Home \notin areas \cup known \cup S
      /\ areas \cap known = {} /\ areas \cap S = {} /\ known \cap S = {}
  BY <1>1, <1>2, <1>3, AddressSpaceAssumption
<1>5. o \in S \cap DOMAIN entries /\ entries[o].device # None => entries[o].device \in used
  BY DEF UsedDevices
<1>6. used \cap {None} = {}
  BY DEF UsedDevices
<1>. HIDE DEF known, used, D
<1>7. o \in S => Build(S)[o] = ParentOfEntity(o, used)
  BY <1>1, <1>4
<1>8. Orphan(o) => o \in S /\ Build(S)[o] = entries[o].device
  <2>1. SUFFICES ASSUME Orphan(o) PROVE o \in S /\ Build(S)[o] = entries[o].device
    OBVIOUS
  <2>2. o \in DOMAIN entries /\ entries[o].device # None
    BY <2>1 DEF Orphan
  <2>3. o \in S
    BY <1>2, <1>3, <1>4, <2>2, AddressSpaceAssumption DEF D, known
  <2>. QED  BY <1>5, <1>7, <2>2, <2>3 DEF ParentOfEntity
<1>9. o \in S /\ ~Orphan(o) => Build(S)[o] \in known \cup areas \cup {Home}
  BY <1>6, <1>7 DEF ParentOfEntity, Orphan, known
<1>10. /\ o = Home => Build(S)[o] = None
       /\ o \in areas => Build(S)[o] = Home
       /\ o \in known => Build(S)[o] \in areas \cup {Home}
  BY <1>1, <1>4
<1>. QED  BY <1>4, <1>8, <1>9, <1>10 DEF known, used, D

\* Edges between objects come in pairs, in any function from objects to their parents.
LEMMA EdgesComeInPairs ==
    ASSUME NEW space, None \notin DOMAIN space, NEW o \in DOMAIN space,
           NEW edge \in Edges(space, o), edge.to \in DOMAIN space
    PROVE  /\ edge \in Related(space, o)
           /\ [by |-> Reverse(edge.by), to |-> o] \in Related(space, edge.to)
<1>1. CASE edge \in {[by |-> UpEdgeLabel(space, o), to |-> p] : p \in {space[o]} \ {None}}
  <2>1. /\ space[o] \in DOMAIN space /\ edge.to = space[o] /\ edge.by = UpEdgeLabel(space, o)
        /\ o \in Children(space, space[o])
    BY <1>1 DEF Children
  <2>2. Reverse(edge.by) = DownEdgeLabel(space[o])
    BY <2>1 DEF UpEdgeLabel, DownEdgeLabel, Reverse
  <2>. QED  BY <2>1, <2>2 DEF Related, Edges
<1>2. CASE edge \in {[by |-> DownEdgeLabel(o), to |-> c] : c \in Children(space, o)}
  <2>1. /\ edge.to \in DOMAIN space /\ space[edge.to] = o /\ edge.by = DownEdgeLabel(o)
    BY <1>2 DEF Children
  <2>2. Reverse(edge.by) = UpEdgeLabel(space, edge.to)
    BY <2>1 DEF UpEdgeLabel, DownEdgeLabel, Reverse
  <2>3. o # None
    OBVIOUS
  <2>. QED  BY <2>1, <2>2, <2>3 DEF Related, Edges
<1>. QED  BY <1>1, <1>2 DEF Edges

\* An address space that was built from these registries fits together.
LEMMA BuildFits ==
    ASSUME SpaceTypeOK, NEW S \in SUBSET Entities, NEW o \in DOMAIN Build(S)
    PROVE  LET space == Build(S) IN
           IF Orphan(o) THEN Edges(space, o) = {[by |-> "HasParent", to |-> entries[o].device]}
           ELSE /\ Up(space, Up(space, Up(space, o))) = Home
                /\ \A edge \in Edges(space, o) :
                      /\ edge \in Related(space, o)
                      /\ [by |-> Reverse(edge.by), to |-> o] \in Related(space, edge.to)
<1> DEFINE space == Build(S)
           known == UsedDevices(S) \cap DOMAIN devices
<1>1. DOMAIN space = {Home} \cup areas \cup known \cup S
  BY BuildPlaces
<1>2. \A x \in DOMAIN space :
          /\ x = Home => space[x] = None
          /\ x \in areas => space[x] = Home
          /\ x \in known => space[x] \in areas \cup {Home}
          /\ Orphan(x) => x \in S /\ space[x] = entries[x].device
          /\ x \in S /\ ~Orphan(x) => space[x] \in known \cup areas \cup {Home}
  BY BuildPlaces
<1>3. /\ areas \subseteq Areas /\ known \subseteq Devices /\ S \subseteq Entities
      /\ \A e \in DOMAIN entries : entries[e] \in Entry
  BY PartialMeans DEF SpaceTypeOK
<1>. HIDE DEF space, known
<1>4. None \notin DOMAIN space
  BY <1>1, <1>3, AddressSpaceAssumption
<1>5. CASE Orphan(o)
  <2>1. o \in S /\ space[o] = entries[o].device /\ space[o] \notin DOMAIN devices \cup {None}
        /\ space[o] \in Devices
    BY <1>2, <1>3, <1>5 DEF Orphan, Entry, space
  <2>2. space[o] \notin DOMAIN space
    BY <1>1, <1>3, <2>1, AddressSpaceAssumption DEF known
  <2>3. UpEdgeLabel(space, o) = "HasParent"
    BY <2>2 DEF UpEdgeLabel
  <2>4. \A c \in DOMAIN space : space[c] # o
    <3>1. TAKE c \in DOMAIN space
    <3>2. \/ space[c] = None \/ space[c] \in known \cup areas \cup {Home}
          \/ Orphan(c) /\ space[c] = entries[c].device
      BY <1>1, <1>2
    <3>3. Orphan(c) => entries[c].device \in Devices
      BY <1>3 DEF Orphan, Entry
    <3>. QED  BY <1>3, <2>1, <3>2, <3>3, AddressSpaceAssumption
  <2>5. Children(space, o) = {}
    BY <2>4 DEF Children
  <2>6. Edges(space, o) = {[by |-> UpEdgeLabel(space, o), to |-> space[o]]}
    BY <2>1, <2>5 DEF Edges
  <2>. QED  BY <1>5, <2>1, <2>3, <2>6 DEF space
<1>6. CASE ~Orphan(o)
  <2>1. Up(space, Home) = Home /\ \A x \in areas : Up(space, x) = Home
    BY <1>1, <1>2, <1>4 DEF Up
  <2>2. \A x \in known : Up(space, x) \in areas \cup {Home}
    BY <1>1, <1>2 DEF Up
  <2>3. Up(space, o) \in known \cup areas \cup {Home}
    BY <1>1, <1>2, <1>6, <2>1, <2>2 DEF Up, space
  <2>4. Up(space, Up(space, Up(space, o))) = Home
    BY <2>1, <2>2, <2>3
  <2>5. space[o] \in DOMAIN space \cup {None}
    BY <1>1, <1>2, <1>6 DEF space
  <2>6. \A edge \in Edges(space, o) : edge.to \in DOMAIN space
    BY <2>5 DEF Edges, Children
  <2>7. \A edge \in Edges(space, o) :
            /\ edge \in Related(space, o)
            /\ [by |-> Reverse(edge.by), to |-> o] \in Related(space, edge.to)
    BY <1>4, <2>6, EdgesComeInPairs DEF space
  <2>. QED  BY <1>6, <2>4, <2>7 DEF space
<1>. QED  BY <1>5, <1>6

\* What the served snapshot is wrong about.
LEMMA ServedCurrent == SpaceInv => SnapshotCurrent
<1>. SUFFICES ASSUME SpaceInv PROVE SnapshotCurrent
  OBVIOUS
<1>1. present \in SUBSET Entities /\ age \in Nat /\ MaxAge \in Nat
      /\ since \in [Entities -> 0..(MaxAge + 1)]
  BY AddressSpaceAssumption DEF SpaceInv, SpaceTypeOK
<1>2. CASE snapshot = None \/ age > MaxAge
  <2>1. Served(present) = Build(present) /\ DOMAIN Served(present) \cap Entities = present
    BY <1>1, <1>2, BuildTyped DEF Served, SpaceInv
  <2>. QED  BY <2>1 DEF SnapshotCurrent
<1>3. CASE ~(snapshot = None \/ age > MaxAge)
  <2>1. Served(present) = snapshot /\ age <= MaxAge
    BY <1>1, <1>3 DEF Served
  <2>2. /\ snapshot = Build(DOMAIN snapshot \cap Entities)
        /\ \A e \in Entities : (e \in DOMAIN snapshot \cap Entities) # (e \in present)
                                   => since[e] <= age
    BY <1>3 DEF SpaceInv, SnapshotKept
  <2>3. \A e \in Entities : since[e] <= age => since[e] <= MaxAge
    BY <1>1, <2>1
  <2>. QED  BY <2>1, <2>2, <2>3 DEF SnapshotCurrent
<1>. QED  BY <1>2, <1>3

-----------------------------------------------------------------------------
(* Requests.                                                                *)

\* A set of numbers has a least one.
LEMMA LeastExists ==
    ASSUME NEW S \in SUBSET Nat, S # {}
    PROVE  Min(S) \in S /\ \A y \in S : Min(S) <= y
<1> DEFINE R == OpToRel(<, Nat)
<1>1. IsWellFoundedOn(R, Nat)
  BY NatLessThanWellFounded
<1>2. ASSUME NEW x \in Nat, NEW y \in Nat, x < y PROVE <<x, y>> \in R
  BY <1>2 DEF OpToRel
<1>. HIDE DEF R
<1>3. PICK x \in S : \A y \in S : ~(<<y, x>> \in R)
  BY <1>1, WFMin
<1>4. \A y \in S : ~(y < x)
  BY <1>2, <1>3
<1>5. \A y \in S : x <= y
  BY <1>4
<1>. QED  BY <1>5 DEF Min

\* The last state of an entity.
LEMMA CurrentTyped ==
    ASSUME TypeOK, NEW e \in Entities
    PROVE  /\ states[e] \in Seq(State) /\ Len(states[e]) \in Nat
           /\ Len(states[e]) \in DOMAIN states[e] /\ Len(states[e]) <= MaxVersion
           /\ Current(e) \in State
<1>1. states[e] \in Seq(State) /\ Len(states[e]) \in 1..MaxVersion
  BY DEF TypeOK
<1>2. MaxVersion \in Nat
  BY ServerReadsAssumption
<1>3. Len(states[e]) \in DOMAIN states[e]
  BY <1>1
<1>. QED  BY <1>1, <1>2, <1>3 DEF Current

\* What is asked for.
LEMMA ListTyped ==
    ASSUME NEW ids \in IdLists \cup {<<>>}
    PROVE  Len(ids) \in Nat /\ \A k \in 1..Len(ids) : ids[k] \in Ids
<1>1. CASE ids = <<>>
  BY <1>1
<1>2. CASE ids \in IdLists
  <2>1. ids \in Seq(Range(ids)) /\ Range(ids) \subseteq Ids
    BY <1>2, ServerReadsAssumption DEF Ids
  <2>. HIDE DEF Ids, Range
  <2>. QED  BY <2>1
<1>. QED  BY <1>1, <1>2

LEMMA ItemTyped ==
    ASSUME TypeOK, NEW c \in [ServiceBacked -> Record], NEW space \in Spaces, NEW o \in Ids
    PROVE  Item(c, space, o) \in AnswerItem
<1> DEFINE kept(x) == IF x \in ServiceBacked THEN c[x].payload ELSE NoPayload
<1>1. \A x : kept(x) \in Payloads
  BY DEF Payloads, Record
<1>2. present \subseteq Entities
  BY DEF TypeOK, SpaceTypeOK
<1>3. \A x, p : p \in Payloads => ReadOf(x, p) \in SUBSET Value
  BY <1>2, CurrentTyped DEF ReadOf, Value, State
<1>4. DOMAIN space \subseteq Objects
  BY PartialMeans DEF Spaces
<1>5. ComponentChildren(space, o) \subseteq Objects
  BY <1>4 DEF ComponentChildren, Children
<1>6. Item(c, space, o) =
        [id |-> o, found |-> o \in DOMAIN space,
         value |-> IF o \in DOMAIN space THEN ReadOf(o, kept(o)) ELSE {},
         parts |-> IF o \in DOMAIN space
                   THEN {<<x, ReadOf(x, kept(x))>> : x \in ComponentChildren(space, o)} ELSE {}]
  BY DEF Item
<1>. HIDE DEF kept
<1>7. (IF o \in DOMAIN space THEN ReadOf(o, kept(o)) ELSE {}) \in SUBSET Value
  BY <1>1, <1>3
<1>8. (IF o \in DOMAIN space
       THEN {<<x, ReadOf(x, kept(x))>> : x \in ComponentChildren(space, o)} ELSE {})
         \in SUBSET (Objects \X SUBSET Value)
  BY <1>1, <1>3, <1>5
<1>9. (o \in DOMAIN space) \in BOOLEAN
  OBVIOUS
<1>. QED  BY <1>6, <1>7, <1>8, <1>9 DEF AnswerItem

\* The view goes on from q to what it must fetch next: the results there were stay,
\* and for each new one nothing had to be fetched.
LEMMA ResumeMeans ==
    ASSUME TypeOK, NEW q \in ReadState, q.space \in Spaces, Len(q.results) <= Len(q.ids),
           NEW c \in [ServiceBacked -> Record]
    PROVE  LET p == Resume(q, c) IN
           /\ p \in ReadState /\ p.space = q.space
           /\ \A f \in p.fetch :
                 /\ p.at = "fetching" /\ Len(p.results) < Len(p.ids)
                 /\ f.element = p.ids[Len(p.results) + 1]
                 /\ f.element \in ServiceBacked
                 /\ f.state = Current(f.element) /\ f.got = NotAsked
           /\ \A i \in DOMAIN p.results :
                 \/ i \in DOMAIN q.results /\ p.results[i] = q.results[i]
                 \/ \E o \in Ids : /\ ~NeedsFetch(c, q.space, o)
                                   /\ p.results[i] = Item(c, q.space, o)
<1> DEFINE next  == Len(q.results) + 1
           stops == {k \in next..Len(q.ids) : NeedsFetch(c, q.space, q.ids[k])}
           stop  == IF stops = {} THEN Len(q.ids) + 1 ELSE Min(stops)
           new   == [i \in 1..(stop - next) |-> Item(c, q.space, q.ids[next + i - 1])]
           at    == IF stops = {} THEN "answered" ELSE "fetching"
           fetch == {[element |-> q.ids[k], state |-> Current(q.ids[k]),
                      got |-> NotAsked] : k \in stops \cap {stop}}
           p     == Resume(q, c)
<1>1. /\ q.results \in Seq(AnswerItem) /\ Len(q.results) \in Nat /\ next \in Nat
      /\ Len(q.ids) \in Nat /\ next <= Len(q.ids) + 1
      /\ \A k \in 1..Len(q.ids) : q.ids[k] \in Ids
  <2>1. q.results \in Seq(AnswerItem) /\ q.ids \in IdLists \cup {<<>>}
    BY DEF ReadState
  <2>2. Len(q.ids) \in Nat /\ \A k \in 1..Len(q.ids) : q.ids[k] \in Ids
    BY <2>1, ListTyped
  <2>. QED  BY <2>1, <2>2
<1>2. /\ stop \in next..(Len(q.ids) + 1)
      /\ \A k \in next..(stop - 1) : k \in 1..Len(q.ids) /\ k \notin stops
      /\ stops # {} => stop \in stops
  <2>1. stops \in SUBSET Nat /\ \A k \in stops : k \in next..Len(q.ids)
    BY <1>1
  <2>2. CASE stops = {}
    <3>1. stop = Len(q.ids) + 1
      BY <2>2
    <3>. HIDE DEF stop, stops
    <3>. QED  BY <1>1, <2>2, <3>1
  <2>3. CASE stops # {}
    <3>1. stop = Min(stops)
      BY <2>3
    <3>. HIDE DEF stops, stop
    <3>2. stop \in stops /\ \A y \in stops : stop <= y
      BY <2>1, <2>3, <3>1, LeastExists
    <3>3. stop \in next..Len(q.ids)
      BY <2>1, <3>2
    <3>4. \A k \in next..(stop - 1) : k \in 1..Len(q.ids) /\ ~(stop <= k)
      BY <1>1, <3>3
    <3>. QED  BY <1>1, <3>2, <3>3, <3>4
  <2>. QED  BY <2>2, <2>3
<1>3. p = [q EXCEPT !.results = q.results \o new, !.at = at, !.fetch = fetch]
  BY DEF Resume
<1>4. \A k \in next..(stop - 1) : q.ids[k] \in Ids /\ ~NeedsFetch(c, q.space, q.ids[k])
  <2>1. TAKE k \in next..(stop - 1)
  <2>2. k \in next..Len(q.ids) /\ k \in 1..Len(q.ids) /\ k \notin stops
    <3>. HIDE DEF stop, stops
    <3>. QED  BY <1>1, <1>2
  <2>. QED  BY <1>1, <2>2
<1>5. /\ at \in {"answered", "fetching"}
      /\ \A f \in fetch : /\ at = "fetching" /\ f.element = q.ids[stop] /\ f.element \in ServiceBacked
                          /\ f.state = Current(f.element) /\ f.got = NotAsked
                          /\ stop <= Len(q.ids)
                          /\ f = [element |-> f.element, state |-> f.state, got |-> f.got]
  <2>1. \A f \in fetch : /\ at = "fetching" /\ stop \in stops
                         /\ f.element = q.ids[stop] /\ f.state = Current(f.element)
                         /\ f.got = NotAsked
                         /\ f = [element |-> f.element, state |-> f.state, got |-> f.got]
    <3>1. stop \in stops => stops # {}
      OBVIOUS
    <3>. HIDE DEF stop, stops
    <3>2. TAKE f \in fetch
    <3>3. PICK k \in stops \cap {stop} : f = [element |-> q.ids[k], state |-> Current(q.ids[k]),
                                              got |-> NotAsked]
      OBVIOUS
    <3>4. k = stop /\ stop \in stops
      BY <3>3
    <3>. QED  BY <3>1, <3>3, <3>4
  <2>2. \A k \in stops : q.ids[k] \in ServiceBacked /\ k <= Len(q.ids)
    BY <1>1 DEF NeedsFetch
  <2>. HIDE DEF stop, stops, fetch
  <2>. QED  BY <2>1, <2>2
<1>6. fetch \subseteq Fetch
  <2>1. \A f \in fetch : f = [element |-> f.element, state |-> f.state, got |-> f.got]
    BY <1>5
  <2>2. ServiceBacked \subseteq Entities
    BY ServerReadsAssumption
  <2>. HIDE DEF fetch
  <2>3. \A f \in fetch : f.element \in ServiceBacked /\ f.state \in State /\ f.got = NotAsked
    BY <1>5, <2>2, CurrentTyped
  <2>. QED  BY <2>1, <2>3 DEF Fetch
<1>. HIDE DEF fetch, at, stops
<1>7. /\ stop - next \in Nat
      /\ \A i \in 1..(stop - next) : /\ next + i - 1 \in next..(stop - 1)
                                     /\ new[i] = Item(c, q.space, q.ids[next + i - 1])
  <2>1. stop \in next..(Len(q.ids) + 1)
    BY <1>2
  <2>. HIDE DEF stop
  <2>2. stop - next \in Nat /\ \A i \in 1..(stop - next) : next + i - 1 \in next..(stop - 1)
    BY <1>1, <2>1
  <2>. QED  BY <2>2
<1>. HIDE DEF stop, next
<1>8. \A i \in 1..(stop - next) :
         \E o \in Ids : ~NeedsFetch(c, q.space, o) /\ new[i] = Item(c, q.space, o)
  BY <1>4, <1>7
<1>9. new \in Seq(AnswerItem) /\ Len(new) = stop - next
  <2>1. \A i \in 1..(stop - next) : new[i] \in AnswerItem
    BY <1>8, ItemTyped
  <2>2. new = [i \in 1..(stop - next) |-> new[i]]
    OBVIOUS
  <2>. HIDE DEF new
  <2>. QED  BY <1>7, <2>1, <2>2
<1>. HIDE DEF new
<1>10. /\ p.results = q.results \o new /\ p.at = at /\ p.fetch = fetch /\ p.ids = q.ids
       /\ p.space = q.space
  BY <1>3 DEF ReadState
<1>11. /\ p.results \in Seq(AnswerItem) /\ Len(p.results) = Len(q.results) + (stop - next)
       /\ \A i \in DOMAIN p.results :
             \/ i \in DOMAIN q.results /\ p.results[i] = q.results[i]
             \/ i - Len(q.results) \in 1..(stop - next) /\ p.results[i] = new[i - Len(q.results)]
  <2> DEFINE a == q.results
             d == stop - next
             s == a \o new
  <2>1. a \in Seq(AnswerItem) /\ new \in Seq(AnswerItem) /\ Len(new) = d /\ d \in Nat
        /\ Len(a) \in Nat
    BY <1>1, <1>7, <1>9
  <2>. HIDE DEF a, d
  <2>2. s \in Seq(AnswerItem) /\ Len(s) = Len(a) + d
    BY <2>1
  <2>3. \A i \in 1..(Len(a) + d) : s[i] = IF i <= Len(a) THEN a[i] ELSE new[i - Len(a)]
    BY <2>1
  <2>. HIDE DEF s
  <2>4. \A i \in DOMAIN s : \/ i \in DOMAIN a /\ s[i] = a[i]
                            \/ i - Len(a) \in 1..d /\ s[i] = new[i - Len(a)]
    BY <2>1, <2>2, <2>3
  <2>5. p.results = s
    BY <1>10 DEF s, a
  <2>. QED  BY <2>2, <2>4, <2>5 DEF a, d
<1>12. p \in ReadState
  <2>1. p = [at |-> at, ids |-> q.ids, space |-> q.space, fetch |-> fetch,
             results |-> q.results \o new]
    BY <1>3 DEF ReadState
  <2>2. /\ q.ids \in IdLists \cup {<<>>} /\ q.space \in Spaces \cup {None}
        /\ at \in {"idle", "fetching", "answered"} /\ fetch \in SUBSET Fetch
    BY <1>5, <1>6 DEF ReadState
  <2>3. q.results \o new \in Seq(AnswerItem)
    BY <1>10, <1>11
  <2>. HIDE DEF p
  <2>. QED  BY <2>1, <2>2, <2>3 DEF ReadState
<1>. HIDE DEF p
<1>13. \A f \in p.fetch :
          /\ p.at = "fetching" /\ Len(p.results) < Len(p.ids)
          /\ f.element = p.ids[Len(p.results) + 1] /\ f.element \in ServiceBacked
          /\ f.state = Current(f.element) /\ f.got = NotAsked
  <2>1. Len(p.results) + 1 = stop
    <3>1. Len(q.results) + (stop - (Len(q.results) + 1)) + 1 = stop
      <4>1. stop \in Int /\ Len(q.results) \in Int
        BY <1>1, <1>2
      <4>. QED  BY <4>1
    <3>. QED  BY <1>11, <3>1 DEF next
  <2>2. stop \in Int /\ Len(q.ids) \in Int /\ Len(p.results) \in Int
    BY <1>1, <1>2, <1>11
  <2>3. stop <= Len(q.ids) => Len(p.results) < Len(p.ids)
    BY <1>10, <2>1, <2>2
  <2>. QED  BY <1>5, <1>10, <2>1, <2>3
<1>14. \A i \in DOMAIN p.results :
          \/ i \in DOMAIN q.results /\ p.results[i] = q.results[i]
          \/ \E o \in Ids : ~NeedsFetch(c, q.space, o) /\ p.results[i] = Item(c, q.space, o)
  BY <1>8, <1>11
<1>. QED  BY <1>10, <1>12, <1>13, <1>14 DEF p

-----------------------------------------------------------------------------
(* What is told, fetched and kept.                                          *)

\* What was true of a history of states stays so when states are added.
LEMMA HistoryGrows ==
    ASSUME NEW h, NEW g,
           \A e \in Entities : \A n \in DOMAIN h[e] : n \in DOMAIN g[e] /\ g[e][n] = h[e][n]
    PROVE  /\ \A f : f.element \in Entities /\ FetchOK(h, f) => FetchOK(g, f)
           /\ \A item : ItemOK(h, item) => ItemOK(g, item)
           /\ \A e \in Entities : \A t, p : AsOf(h, e, t, p) => AsOf(g, e, t, p)
           /\ \A e \in Entities : \A n \in DOMAIN h[e] : Apart(g, e, n) => Apart(h, e, n)
<1>1. \A f : f.element \in Entities /\ FetchOK(h, f) => FetchOK(g, f)
  BY DEF FetchOK
<1>2. \A e \in Entities : \A n \in DOMAIN h[e] : Apart(g, e, n) => Apart(h, e, n)
  BY DEF Apart
<1>3. ASSUME NEW item, ItemOK(h, item), NEW v \in item.value, item.id \in ServiceBacked
      PROVE  /\ v.number \in DOMAIN g[item.id]
             /\ v.payload # NoPayload /\ Apart(g, item.id, v.number)
                   => g[item.id][v.number].owed <= v.payload
  <2>1. /\ item.id \in Entities /\ v.number \in DOMAIN h[item.id]
        /\ v.payload # NoPayload /\ Apart(h, item.id, v.number)
              => h[item.id][v.number].owed <= v.payload
    BY <1>3, ServerReadsAssumption DEF ItemOK
  <2>. QED  BY <1>2, <2>1
<1>4. \A e \in Entities : \A t, p : AsOf(h, e, t, p) => AsOf(g, e, t, p)
  BY DEF AsOf
<1>5. \A item : ItemOK(h, item) => ItemOK(g, item)
  BY <1>3 DEF ItemOK
<1>. QED  BY <1>1, <1>2, <1>4, <1>5

\* The last state is one there was.
LEMMA CurrentCounted ==
    ASSUME TypeOK, StatesCounted, NEW e \in Entities
    PROVE  /\ Current(e).number = Len(states[e]) /\ Len(states[e]) \in DOMAIN states[e]
           /\ states[e][Current(e).number] = Current(e)
BY CurrentTyped DEF StatesCounted, Current

\* The cache holds no payload that is older than the state it is filed under.
LEMMA StoredKeeps ==
    ASSUME TypeOK, CacheAsOf, NEW f \in Fetch, FetchOK(states, f), f.got # NotAsked
    PROVE  /\ Stored(f) \in [ServiceBacked -> Record]
           /\ \A e \in ServiceBacked :
                 Stored(f)[e].payload # NoPayload
                     => AsOf(states, e, Stored(f)[e].key, Stored(f)[e].payload)
<1> DEFINE rec == [key |-> f.state.time, payload |-> f.got, age |-> 0]
<1>1. /\ f.element \in ServiceBacked /\ f.state \in State /\ f.got \in Payloads
  BY DEF Fetch
<1>2. rec \in Record
  BY <1>1, ServerReadsAssumption DEF Record, State
<1>3. cache \in [ServiceBacked -> Record]
  BY DEF TypeOK
<1>4. Stored(f) = [cache EXCEPT ![f.element] = rec]
  BY DEF Stored
<1>5. Stored(f) \in [ServiceBacked -> Record]
  <2>. HIDE DEF rec, Record
  <2>. QED  BY <1>1, <1>2, <1>3, <1>4
<1>6. ASSUME NEW e \in ServiceBacked, Stored(f)[e].payload # NoPayload
      PROVE  AsOf(states, e, Stored(f)[e].key, Stored(f)[e].payload)
  <2>1. CASE e = f.element
    <3>1. Stored(f)[e] = rec
      BY <1>3, <1>4, <2>1
    <3>2. f.got \notin {NotAsked, NoPayload}
      BY <1>6, <3>1
    <3>3. /\ f.state.number \in DOMAIN states[e] /\ states[e][f.state.number] = f.state
          /\ f.state.owed <= f.got
      BY <2>1, <3>2 DEF FetchOK
    <3>. QED  BY <3>1, <3>3 DEF AsOf
  <2>2. CASE e # f.element
    <3>1. Stored(f)[e] = cache[e]
      BY <1>3, <1>4, <2>2
    <3>. QED  BY <1>6, <3>1 DEF CacheAsOf
  <2>. QED  BY <2>1, <2>2
<1>. QED  BY <1>5, <1>6

\* An item that needs no fetch is not older than the state it comes with.
LEMMA ItemIsOK ==
    ASSUME TypeOK, StatesCounted, NEW c,
           \A e \in ServiceBacked : c[e].payload # NoPayload
                                        => AsOf(states, e, c[e].key, c[e].payload),
           NEW space, NEW o, ~NeedsFetch(c, space, o)
    PROVE  ItemOK(states, Item(c, space, o))
<1> DEFINE item == Item(c, space, o)
<1>1. item.id = o
  BY DEF Item
<1>2. ASSUME NEW v \in item.value, o \in ServiceBacked
      PROVE  /\ v.number \in DOMAIN states[o]
             /\ v.payload # NoPayload /\ Apart(states, o, v.number)
                   => states[o][v.number].owed <= v.payload
  <2>1. o \in Entities
    BY <1>2, ServerReadsAssumption
  <2>2. o \in DOMAIN space /\ v \in ReadOf(o, c[o].payload)
    BY <1>2 DEF Item
  <2>3. o \in present /\ v.number = Current(o).number /\ v.payload = c[o].payload
    BY <2>2 DEF ReadOf
  <2>4. c[o].key = Current(o).time
    BY <1>2, <2>2, <2>3 DEF NeedsFetch, Hit
  <2>5. v.number \in DOMAIN states[o] /\ states[o][v.number].time = c[o].key
    BY <2>1, <2>3, <2>4, CurrentCounted
  <2>6. ASSUME v.payload # NoPayload, Apart(states, o, v.number)
        PROVE  states[o][v.number].owed <= v.payload
    <3>1. PICK n \in DOMAIN states[o] : states[o][n].time = c[o].key /\ states[o][n].owed <= v.payload
      BY <1>2, <2>3, <2>6 DEF AsOf
    <3>2. n = v.number
      BY <2>5, <2>6, <3>1 DEF Apart
    <3>. QED  BY <3>1, <3>2
  <2>. QED  BY <2>5, <2>6
<1>. HIDE DEF item
<1>. QED  BY <1>1, <1>2 DEF ItemOK, item

\* What the invariant says of the state a request is in.
RequestOK(h, q) ==
    /\ q \in ReadState
    /\ \A f \in q.fetch :
          /\ q.at = "fetching" /\ Len(q.results) < Len(q.ids)
          /\ f.element = q.ids[Len(q.results) + 1] /\ q.space \in Spaces
          /\ FetchOK(h, f)
    /\ \A i \in DOMAIN q.results : ItemOK(h, q.results[i])

LEMMA ResumedIsOK ==
    ASSUME TypeOK, StatesCounted,
           NEW q \in ReadState, q.space \in Spaces, Len(q.results) <= Len(q.ids),
           \A i \in DOMAIN q.results : ItemOK(states, q.results[i]),
           NEW c \in [ServiceBacked -> Record],
           \A e \in ServiceBacked : c[e].payload # NoPayload
                                        => AsOf(states, e, c[e].key, c[e].payload)
    PROVE  RequestOK(states, Resume(q, c))
<1> DEFINE p == Resume(q, c)
<1>1. /\ p \in ReadState /\ p.space = q.space
      /\ \A f \in p.fetch :
            /\ p.at = "fetching" /\ Len(p.results) < Len(p.ids)
            /\ f.element = p.ids[Len(p.results) + 1]
            /\ f.element \in ServiceBacked
            /\ f.state = Current(f.element) /\ f.got = NotAsked
      /\ \A i \in DOMAIN p.results :
            \/ i \in DOMAIN q.results /\ p.results[i] = q.results[i]
            \/ \E o \in Ids : /\ ~NeedsFetch(c, q.space, o)
                              /\ p.results[i] = Item(c, q.space, o)
  BY ResumeMeans
<1>. HIDE DEF p
<1>2. \A f \in p.fetch : FetchOK(states, f)
  BY <1>1, CurrentCounted, ServerReadsAssumption DEF FetchOK
<1>3. \A i \in DOMAIN p.results : ItemOK(states, p.results[i])
  BY <1>1, ItemIsOK
<1>. QED  BY <1>1, <1>2, <1>3 DEF RequestOK, p

\* The invariant, request by request.
RequestsOK == req \in [Requests -> ReadState] /\ \A r \in Requests : RequestOK(states, req[r])

LEMMA RequestsAreOK ==
    ASSUME ReadsInv
    PROVE  RequestsOK
BY DEF ReadsInv, TypeOK, FetchesOK, AnswersOK, RequestsOK, RequestOK

\* The rest of the type invariant.
OthersTyped ==
    /\ SpaceTypeOK
    /\ states \in [Entities -> Seq(State)]
    /\ \A e \in Entities : Len(states[e]) \in 1..MaxVersion
    /\ payload \in [ServiceBacked -> 1..MaxPayload]
    /\ justNow \subseteq Entities
    /\ cache \in [ServiceBacked -> Record]
    /\ followUps \subseteq FollowUp
    /\ sent \subseteq [element : ServiceBacked, value : Value]
    /\ failed \subseteq ServiceBacked \X (1..MaxVersion)

FollowUpsOK == \A t \in followUps : FetchOK(states, t.fetch)

\* The invariant in the parts in which the steps disturb it.
LEMMA ReadsInvParts ==
    ReadsInv <=> /\ OthersTyped /\ SnapshotKept /\ RequestsOK
                 /\ StatesCounted /\ CacheAsOf /\ FollowUpsOK /\ SentOK
<1>1. ReadsInv => RequestsOK
  BY RequestsAreOK
<1>2. ReadsInv => OthersTyped /\ SnapshotKept /\ StatesCounted /\ CacheAsOf /\ FollowUpsOK /\ SentOK
  BY DEF ReadsInv, TypeOK, OthersTyped, FetchesOK, FollowUpsOK
<1>3. OthersTyped /\ RequestsOK => TypeOK
  BY DEF TypeOK, OthersTyped, RequestsOK, RequestOK
<1>4. RequestsOK /\ FollowUpsOK => FetchesOK /\ AnswersOK
  BY DEF RequestsOK, RequestOK, FollowUpsOK, FetchesOK, AnswersOK
<1>. QED  BY <1>1, <1>2, <1>3, <1>4 DEF ReadsInv

LEMMA ReadsInvPartsNext ==
    (/\ OthersTyped /\ SnapshotKept /\ RequestsOK
     /\ StatesCounted /\ CacheAsOf /\ FollowUpsOK /\ SentOK)' => ReadsInv'
BY ReadsInvParts, PTL

-----------------------------------------------------------------------------
(* The steps of requests.                                                   *)

\* What the steps use of the invariant.
LEMMA ReadsFacts ==
    ASSUME ReadsInv
    PROVE  /\ TypeOK /\ SpaceInv /\ OthersTyped /\ SnapshotKept /\ RequestsOK
           /\ StatesCounted /\ CacheAsOf /\ FollowUpsOK /\ SentOK
BY ReadsInvParts DEF ReadsInv, SpaceInv, TypeOK

\* One request goes on, over the same history.
LEMMA RequestGoesOn ==
    ASSUME RequestsOK, NEW r \in Requests, NEW p, RequestOK(states, p),
           req' = [req EXCEPT ![r] = p], UNCHANGED states
    PROVE  RequestsOK'
<1>1. p \in ReadState
  BY DEF RequestOK
<1>2. req' \in [Requests -> ReadState]
  BY <1>1 DEF RequestsOK
<1>3. \A q \in Requests : req'[q] = p \/ req'[q] = req[q]
  BY DEF RequestsOK
<1>4. \A q \in Requests : RequestOK(states, req'[q])
  BY <1>3 DEF RequestsOK
<1>. QED  BY <1>2, <1>4 DEF RequestsOK

\* What the service answers is as new as the state the fetch is for.
LEMMA AnsweredOK ==
    ASSUME ReadsInv, NEW f \in Fetch, FetchOK(states, f), NEW g \in Answers(f)
    PROVE  /\ g \in Fetch /\ FetchOK(states, g) /\ g.got # NotAsked
           /\ g.element = f.element /\ g.state = f.state
<1>1. PICK p \in {payload[f.element], NoPayload} : g = [f EXCEPT !.got = p]
  BY DEF Answers
<1>2. /\ f.element \in ServiceBacked /\ f.state \in State
      /\ f = [element |-> f.element, state |-> f.state, got |-> f.got]
  BY DEF Fetch
<1>3. payload[f.element] \in 1..MaxPayload /\ NoPayload # 0
  BY <1>2, ReadsFacts, ServerReadsAssumption DEF OthersTyped
<1>4. p \in Payloads /\ p # NotAsked
  BY <1>1, <1>3 DEF Payloads, NotAsked
<1>5. g = [element |-> f.element, state |-> f.state, got |-> p]
  BY <1>1, <1>2
<1>6. states[f.element][f.state.number].owed <= payload[f.element]
  BY <1>2, ReadsFacts DEF StatesCounted, FetchOK
<1>7. FetchOK(states, g)
  BY <1>1, <1>5, <1>6 DEF FetchOK
<1>. QED  BY <1>2, <1>4, <1>5, <1>7 DEF Fetch

LEMMA ReadKeeps ==
    ASSUME ReadsInv, NEW r \in Requests, NEW ids \in IdLists, Read(r, ids)
    PROVE  ReadsInv'
<1> DEFINE q == Unread(ids, Served(present))
<1>1. /\ Use(present) /\ UNCHANGED <<registries, present, since, changes>>
      /\ UNCHANGED <<states, payload, justNow, cache, followUps, sent, failed>>
      /\ req' = [req EXCEPT ![r] = Resume(q, cache)]
  BY DEF Read
<1>2. TypeOK /\ SpaceInv /\ OthersTyped /\ RequestsOK
      /\ StatesCounted /\ CacheAsOf /\ FollowUpsOK /\ SentOK
  BY ReadsFacts
<1>3. SpaceInv'
  <2>1. /\ present' = present /\ since' = since /\ changes' = changes /\ UNCHANGED registries
        /\ Use(present')
    BY <1>1
  <2>2. /\ present \in SUBSET Entities /\ changes \in 0..MaxChanges
        /\ since \in [Entities -> 0..(MaxAge + 1)]
    BY <1>2 DEF SpaceInv, SpaceTypeOK
  <2>. QED  BY <1>2, <2>1, <2>2, UseKeeps
<1>4. Served(present) \in Spaces
  BY <1>2, ServedTyped DEF SpaceInv, SpaceTypeOK
<1>5. q = [at |-> "idle", ids |-> ids, space |-> Served(present), fetch |-> {}, results |-> <<>>]
  BY DEF Unread
<1>6. /\ q \in ReadState /\ q.space \in Spaces /\ Len(q.results) <= Len(q.ids)
      /\ \A i \in DOMAIN q.results : ItemOK(states, q.results[i])
  <2>1. <<>> \in Seq(AnswerItem) /\ Len(ids) \in Nat
    BY ListTyped
  <2>2. Len(<<>>) <= Len(ids) /\ DOMAIN <<>> = {}
    BY <2>1
  <2>. HIDE DEF q, AnswerItem, Spaces
  <2>. QED  BY <1>4, <1>5, <2>1, <2>2 DEF ReadState
<1>. HIDE DEF q
<1>7. RequestOK(states, Resume(q, cache))
  <2>1. cache \in [ServiceBacked -> Record]
    BY <1>2 DEF OthersTyped
  <2>. QED  BY <1>2, <1>6, <2>1, ResumedIsOK DEF CacheAsOf
<1>8. RequestsOK'
  BY <1>1, <1>2, <1>7, RequestGoesOn
<1>9. OthersTyped' /\ SnapshotKept'
  BY <1>1, <1>2, <1>3 DEF OthersTyped, SpaceInv
<1>10. StatesCounted' /\ CacheAsOf' /\ FollowUpsOK' /\ SentOK'
  BY <1>1, <1>2 DEF StatesCounted, CacheAsOf, FollowUpsOK, SentOK, Settled
<1>. QED  BY <1>8, <1>9, <1>10, ReadsInvPartsNext

LEMMA ReadServedKeeps ==
    ASSUME ReadsInv, NEW r \in Requests, ReadServed(r)
    PROVE  ReadsInv'
<1>0. PICK f \in req[r].fetch : \E g \in Answers(f) : req' = [req EXCEPT ![r].fetch = {g}]
  BY DEF ReadServed
<1>1. PICK g \in Answers(f) : req' = [req EXCEPT ![r].fetch = {g}]
  BY <1>0
<1>2. UNCHANGED <<spaceVars, states, payload, justNow, cache, followUps, sent, failed>>
  BY DEF ReadServed
<1>3. /\ OthersTyped /\ SnapshotKept /\ RequestsOK
      /\ StatesCounted /\ CacheAsOf /\ FollowUpsOK /\ SentOK
  BY ReadsFacts
<1> DEFINE p == [req[r] EXCEPT !.fetch = {g}]
<1>4. req' = [req EXCEPT ![r] = p]
  BY <1>1
<1>5. /\ req[r] \in ReadState /\ RequestOK(states, req[r])
      /\ f \in Fetch /\ FetchOK(states, f)
  <2>1. RequestOK(states, req[r])
    BY <1>3 DEF RequestsOK
  <2>2. req[r] \in ReadState /\ FetchOK(states, f)
    BY <1>1, <2>1 DEF RequestOK
  <2>3. req[r].fetch \subseteq Fetch
    BY <2>2 DEF ReadState
  <2>. QED  BY <1>1, <2>1, <2>2, <2>3
<1>6. g \in Fetch /\ FetchOK(states, g) /\ g.element = f.element
  BY <1>5, AnsweredOK
<1>7. /\ p.at = req[r].at /\ p.ids = req[r].ids /\ p.space = req[r].space
      /\ p.results = req[r].results /\ p.fetch = {g} /\ p \in ReadState
  BY <1>5, <1>6 DEF ReadState
<1>. HIDE DEF p
<1>8. RequestOK(states, p)
  BY <1>1, <1>5, <1>6, <1>7 DEF RequestOK
<1>9. RequestsOK'
  BY <1>2, <1>3, <1>4, <1>8, RequestGoesOn
<1>10. OthersTyped' /\ SnapshotKept'
  BY <1>2, <1>3 DEF OthersTyped, SpaceTypeOK, SnapshotKept, spaceVars, registries, Build,
                    UsedDevices, ParentOfEntity
<1>11. StatesCounted' /\ CacheAsOf' /\ FollowUpsOK' /\ SentOK'
  BY <1>2, <1>3 DEF StatesCounted, CacheAsOf, FollowUpsOK, SentOK, Settled
<1>. QED  BY <1>9, <1>10, <1>11, ReadsInvPartsNext

\* The item a request fetched for.
LEMMA FetchedIsOK ==
    ASSUME TypeOK, NEW f \in Fetch, FetchOK(states, f), f.got # NotAsked, f.element \in Ids
    PROVE  LET item == [id |-> f.element, found |-> TRUE, parts |-> {},
                        value |-> {[number |-> f.state.number, payload |-> f.got]}]
           IN  item \in AnswerItem /\ ItemOK(states, item)
<1> DEFINE v == [number |-> f.state.number, payload |-> f.got]
           item == [id |-> f.element, found |-> TRUE, parts |-> {}, value |-> {v}]
<1>1. /\ f.element \in ServiceBacked /\ f.state \in State /\ f.got \in Payloads
  BY DEF Fetch
<1>2. v \in Value
  BY <1>1 DEF State, Value
<1>3. item \in AnswerItem
  <2>. HIDE DEF v, Value
  <2>. QED  BY <1>2 DEF AnswerItem
<1>4. item.id = f.element /\ \A w \in item.value : w.number = f.state.number /\ w.payload = f.got
  OBVIOUS
<1>. HIDE DEF item
<1>5. ItemOK(states, item)
  BY <1>1, <1>4 DEF ItemOK, FetchOK
<1>. QED  BY <1>3, <1>5 DEF item

LEMMA ReadOnKeeps ==
    ASSUME ReadsInv, NEW r \in Requests, ReadOn(r)
    PROVE  ReadsInv'
<1> DEFINE item(f) == [id |-> f.element, found |-> TRUE, parts |-> {},
                       value |-> {[number |-> f.state.number, payload |-> f.got]}]
           q(f) == [req[r] EXCEPT !.results = Append(req[r].results, item(f))]
<1>1. PICK f \in req[r].fetch : /\ f.got # NotAsked /\ cache' = Stored(f)
                                /\ req' = [req EXCEPT ![r] = Resume(q(f), cache')]
  BY DEF ReadOn
<1>2. UNCHANGED <<spaceVars, states, payload, justNow, followUps, sent, failed>>
  BY DEF ReadOn
<1>3. /\ TypeOK /\ OthersTyped /\ SnapshotKept /\ RequestsOK
      /\ StatesCounted /\ CacheAsOf /\ FollowUpsOK /\ SentOK
  BY ReadsFacts
<1>4. /\ req[r] \in ReadState /\ f \in Fetch /\ FetchOK(states, f)
      /\ Len(req[r].results) < Len(req[r].ids)
      /\ f.element = req[r].ids[Len(req[r].results) + 1] /\ req[r].space \in Spaces
      /\ \A i \in DOMAIN req[r].results : ItemOK(states, req[r].results[i])
  <2>1. RequestOK(states, req[r])
    BY <1>3 DEF RequestsOK
  <2>2. req[r] \in ReadState
    BY <2>1 DEF RequestOK
  <2>3. req[r].fetch \subseteq Fetch
    BY <2>2 DEF ReadState
  <2>. QED  BY <1>1, <2>1, <2>2, <2>3 DEF RequestOK
<1>5. /\ req[r].results \in Seq(AnswerItem) /\ req[r].ids \in IdLists \cup {<<>>}
  BY <1>4 DEF ReadState
<1>6. Len(req[r].ids) \in Nat /\ Len(req[r].results) \in Nat /\ f.element \in Ids
  <2>1. Len(req[r].ids) \in Nat /\ \A k \in 1..Len(req[r].ids) : req[r].ids[k] \in Ids
    BY <1>5, ListTyped
  <2>. QED  BY <1>4, <1>5, <2>1
<1>7. item(f) \in AnswerItem /\ ItemOK(states, item(f))
  BY <1>1, <1>3, <1>4, <1>6, FetchedIsOK
<1>. HIDE DEF item
<1>8. /\ Append(req[r].results, item(f)) \in Seq(AnswerItem)
      /\ Len(Append(req[r].results, item(f))) = Len(req[r].results) + 1
      /\ \A i \in DOMAIN Append(req[r].results, item(f)) :
            \/ i \in DOMAIN req[r].results
               /\ Append(req[r].results, item(f))[i] = req[r].results[i]
            \/ Append(req[r].results, item(f))[i] = item(f)
  <2> DEFINE s == req[r].results
             it == item(f)
  <2>1. s \in Seq(AnswerItem) /\ it \in AnswerItem
    BY <1>5, <1>7
  <2>. HIDE DEF s, it, AnswerItem
  <2>2. /\ Append(s, it) \in Seq(AnswerItem) /\ Len(Append(s, it)) = Len(s) + 1
        /\ \A i \in DOMAIN Append(s, it) : \/ i \in DOMAIN s /\ Append(s, it)[i] = s[i]
                                           \/ Append(s, it)[i] = it
    BY <2>1
  <2>. QED  BY <2>2 DEF s, it
<1>9. /\ q(f).results = Append(req[r].results, item(f)) /\ q(f).ids = req[r].ids
      /\ q(f).space = req[r].space /\ q(f) \in ReadState
  <2>. HIDE DEF AnswerItem, Spaces
  <2>. QED  BY <1>4, <1>8 DEF ReadState
<1>. HIDE DEF q
<1>10. /\ cache' \in [ServiceBacked -> Record]
       /\ \A e \in ServiceBacked : cache'[e].payload # NoPayload
                                       => AsOf(states, e, cache'[e].key, cache'[e].payload)
  BY <1>1, <1>3, <1>4, StoredKeeps
<1>11. Len(q(f).results) <= Len(q(f).ids)
  BY <1>4, <1>6, <1>8, <1>9
<1>12. \A i \in DOMAIN q(f).results : ItemOK(states, q(f).results[i])
  BY <1>4, <1>7, <1>8, <1>9
<1>13. RequestOK(states, Resume(q(f), cache'))
  BY <1>3, <1>4, <1>9, <1>10, <1>11, <1>12, ResumedIsOK
<1>14. RequestsOK'
  BY <1>1, <1>2, <1>3, <1>13, RequestGoesOn
<1>15. OthersTyped' /\ SnapshotKept'
  BY <1>2, <1>3, <1>10 DEF OthersTyped, SpaceTypeOK, SnapshotKept, spaceVars, registries, Build,
                           UsedDevices, ParentOfEntity
<1>16. CacheAsOf'
  BY <1>2, <1>10 DEF CacheAsOf
<1>17. StatesCounted' /\ FollowUpsOK' /\ SentOK'
  BY <1>2, <1>3 DEF StatesCounted, FollowUpsOK, SentOK, Settled
<1>. QED  BY <1>14, <1>15, <1>16, <1>17, ReadsInvPartsNext

-----------------------------------------------------------------------------
(* The steps of follow-ups.                                                 *)

LEMMA ReportTyped ==
    ASSUME NEW f \in Fetch, NEW p \in Payloads
    PROVE  /\ Report(f, p) \in [element : ServiceBacked, value : Value]
           /\ About(Report(f, p), f.element, f.state.number)
           /\ Report(f, p).value.payload = p
           /\ <<f.element, f.state.number>> \in ServiceBacked \X (1..MaxVersion)
BY DEF Report, Fetch, State, Value, About

\* What a step of a follow-up has to do for subscribers to be caught up with: what it
\* sends is about its state, and when it is over that state is settled.
LEMMA FollowedUp ==
    ASSUME ReadsInv, UNCHANGED states, NEW t \in followUps,
           sent \subseteq sent', failed \subseteq failed', followUps \ {t} \subseteq followUps',
           \A m \in sent' \ sent : About(m, t.fetch.element, t.fetch.state.number),
           \A u \in followUps' : u \in followUps \/ Report(u.fetch, u.cached) \in sent',
           Apart(states, t.fetch.element, t.fetch.state.number)
               => Settled(t.fetch.element, t.fetch.state.number)'
    PROVE  SentOK'
<1>1. SentOK /\ FetchOK(states, t.fetch)
  BY ReadsFacts DEF FollowUpsOK
<1>2. Report(t.fetch, t.cached) \in sent
  BY <1>1 DEF SentOK
<1>3. \A m \in sent' : m.value.number \in DOMAIN states'[m.element]
  BY <1>1 DEF SentOK, FetchOK, About
<1>4. \A u \in followUps' : Report(u.fetch, u.cached) \in sent'
  BY <1>1 DEF SentOK
<1>5. ASSUME NEW e \in ServiceBacked, NEW n \in DOMAIN states[e], Apart(states, e, n),
             NEW m \in sent', About(m, e, n)
      PROVE  Settled(e, n)'
  <2>1. CASE e = t.fetch.element /\ n = t.fetch.state.number
    BY <1>5, <2>1
  <2>2. CASE ~(e = t.fetch.element /\ n = t.fetch.state.number)
    <3>1. m \in sent
      BY <1>5, <2>2 DEF About
    <3>2. Settled(e, n)
      BY <1>1, <1>5, <3>1 DEF SentOK
    <3>. QED  BY <2>2, <3>2 DEF Settled
  <2>. QED  BY <2>1, <2>2
<1>. QED  BY <1>3, <1>4, <1>5 DEF SentOK

\* A follow-up ends with payload p, and reports it unless it was reported before.
LEMMA FollowUpEnds ==
    ASSUME ReadsInv, NEW t \in followUps, NEW p \in Payloads,
           UNCHANGED <<spaceVars, states, payload, justNow, req>>,
           followUps' = followUps \ {t},
           sent' = IF p = t.cached THEN sent ELSE sent \cup {Report(t.fetch, p)},
           Failing(t.fetch, p),
           cache' \in [ServiceBacked -> Record], CacheAsOf',
           p # NoPayload /\ Apart(states, t.fetch.element, t.fetch.state.number)
               => t.fetch.state.owed <= p
    PROVE  ReadsInv'
<1> DEFINE e == t.fetch.element
           n == t.fetch.state.number
<1>1. /\ OthersTyped /\ SnapshotKept /\ RequestsOK
      /\ StatesCounted /\ FollowUpsOK /\ SentOK
  BY ReadsFacts
<1>2. t.fetch \in Fetch /\ FetchOK(states, t.fetch)
  <2>1. t \in FollowUp
    BY <1>1 DEF OthersTyped
  <2>. QED  BY <1>1, <2>1 DEF FollowUp, FollowUpsOK
<1>3. /\ Report(t.fetch, p) \in [element : ServiceBacked, value : Value]
      /\ About(Report(t.fetch, p), e, n) /\ Report(t.fetch, p).value.payload = p
      /\ <<e, n>> \in ServiceBacked \X (1..MaxVersion)
  BY <1>2, ReportTyped
<1>4. Report(t.fetch, p) \in sent'
  BY <1>1 DEF SentOK
<1>5. failed' = IF p = NoPayload THEN failed \cup {<<e, n>>} ELSE failed
  BY DEF Failing
<1>6. Apart(states, e, n) => Settled(e, n)'
  <2>1. CASE p = NoPayload
    BY <1>5, <2>1 DEF Settled
  <2>2. CASE p # NoPayload
    <3>1. Apart(states, e, n) => states'[e][n].owed <= p
      BY <1>2, <2>2 DEF FetchOK
    <3>. HIDE DEF e, n
    <3>. QED  BY <1>3, <1>4, <2>2, <3>1 DEF Settled
  <2>. QED  BY <2>1, <2>2
<1>7. SentOK'
  <2>1. \A m \in sent' \ sent : About(m, e, n)
    BY <1>3
  <2>2. /\ sent \subseteq sent' /\ failed \subseteq failed' /\ followUps \ {t} \subseteq followUps'
        /\ \A u \in followUps' : u \in followUps
    BY <1>5
  <2>. QED  BY <1>6, <2>1, <2>2, FollowedUp
<1>8. OthersTyped'
  <2>1. SpaceTypeOK'
    BY <1>1 DEF OthersTyped, SpaceTypeOK, spaceVars, registries
  <2>2. sent' \subseteq [element : ServiceBacked, value : Value]
    BY <1>1, <1>3 DEF OthersTyped
  <2>3. failed' \subseteq ServiceBacked \X (1..MaxVersion)
    BY <1>1, <1>3, <1>5 DEF OthersTyped
  <2>4. followUps' \subseteq FollowUp
    BY <1>1 DEF OthersTyped
  <2>. QED  BY <1>1, <2>1, <2>2, <2>3, <2>4 DEF OthersTyped
<1>9. SnapshotKept'
  BY <1>1 DEF SnapshotKept, spaceVars, registries, Build, UsedDevices, ParentOfEntity
<1>10. RequestsOK' /\ StatesCounted' /\ FollowUpsOK'
  BY <1>1 DEF RequestsOK, StatesCounted, FollowUpsOK
<1>. QED  BY <1>7, <1>8, <1>9, <1>10, ReadsInvPartsNext

LEMMA FollowUpHitKeeps ==
    ASSUME ReadsInv, NEW t \in followUps, FollowUpHit(t)
    PROVE  ReadsInv'
<1> DEFINE e == t.fetch.element
<1>1. /\ OthersTyped /\ CacheAsOf /\ FollowUpsOK
  BY ReadsFacts
<1>2. t.fetch \in Fetch /\ FetchOK(states, t.fetch)
  <2>1. t \in FollowUp
    BY <1>1 DEF OthersTyped
  <2>. QED  BY <1>1, <2>1 DEF FollowUp, FollowUpsOK
<1>3. e \in ServiceBacked /\ Peek(e) = cache[e].payload /\ Peek(e) \in Payloads
  BY <1>1, <1>2 DEF Fetch, Peek, OthersTyped, Record
<1>4. cache[e].key = t.fetch.state.time
  BY DEF FollowUpHit, Hit
<1>5. ASSUME Peek(e) # NoPayload, Apart(states, e, t.fetch.state.number)
      PROVE  t.fetch.state.owed <= Peek(e)
  <2>1. PICK m \in DOMAIN states[e] : /\ states[e][m].time = t.fetch.state.time
                                      /\ states[e][m].owed <= Peek(e)
    BY <1>1, <1>3, <1>4, <1>5 DEF CacheAsOf, AsOf
  <2>2. m = t.fetch.state.number
    BY <1>2, <1>5, <2>1 DEF Apart, FetchOK
  <2>. QED  BY <1>2, <2>1, <2>2 DEF FetchOK
<1>6. /\ UNCHANGED <<spaceVars, states, payload, justNow, cache, req>>
      /\ followUps' = followUps \ {t} /\ Failing(t.fetch, Peek(e))
      /\ sent' = IF Peek(e) = t.cached THEN sent ELSE sent \cup {Report(t.fetch, Peek(e))}
  BY DEF FollowUpHit
<1>7. cache' \in [ServiceBacked -> Record] /\ CacheAsOf'
  BY <1>1, <1>6 DEF CacheAsOf, OthersTyped
<1>. QED  BY <1>3, <1>5, <1>6, <1>7, FollowUpEnds

LEMMA FollowUpServedKeeps ==
    ASSUME ReadsInv, NEW t \in followUps, FollowUpServed(t)
    PROVE  ReadsInv'
<1>1. PICK g \in Answers(t.fetch) : followUps' = (followUps \ {t}) \cup {[t EXCEPT !.fetch = g]}
  BY DEF FollowUpServed
<1>2. UNCHANGED <<spaceVars, states, payload, justNow, cache, req, sent, failed>>
  BY DEF FollowUpServed
<1>3. /\ OthersTyped /\ SnapshotKept /\ RequestsOK
      /\ StatesCounted /\ CacheAsOf /\ FollowUpsOK /\ SentOK
  BY ReadsFacts
<1>4. t \in FollowUp /\ t.fetch \in Fetch /\ FetchOK(states, t.fetch)
  <2>1. t \in FollowUp
    BY <1>3 DEF OthersTyped
  <2>. QED  BY <1>3, <2>1 DEF FollowUp, FollowUpsOK
<1>5. g \in Fetch /\ FetchOK(states, g) /\ g.element = t.fetch.element /\ g.state = t.fetch.state
  BY <1>4, AnsweredOK
<1> DEFINE u == [t EXCEPT !.fetch = g]
<1>6. u \in FollowUp /\ u.fetch = g /\ u.cached = t.cached
  BY <1>4, <1>5 DEF FollowUp
<1>7. followUps' = (followUps \ {t}) \cup {u}
  BY <1>1
<1>. HIDE DEF u
<1>8. followUps' \subseteq FollowUp /\ FollowUpsOK'
  BY <1>2, <1>3, <1>5, <1>6, <1>7 DEF OthersTyped, FollowUpsOK
<1>9. Report(u.fetch, u.cached) = Report(t.fetch, t.cached) /\ Report(t.fetch, t.cached) \in sent
  BY <1>3, <1>5, <1>6 DEF Report, SentOK
<1>10. SentOK'
  <2>1. Settled(t.fetch.element, t.fetch.state.number)'
    BY <1>2, <1>5, <1>6, <1>7 DEF Settled
  <2>2. \A x \in followUps' : x \in followUps \/ Report(x.fetch, x.cached) \in sent'
    BY <1>2, <1>7, <1>9
  <2>3. /\ sent \subseteq sent' /\ failed \subseteq failed' /\ followUps \ {t} \subseteq followUps'
        /\ sent' \ sent = {} /\ UNCHANGED states
    BY <1>2, <1>7
  <2>. QED  BY <2>1, <2>2, <2>3, FollowedUp
<1>11. OthersTyped' /\ SnapshotKept'
  BY <1>2, <1>3, <1>8 DEF OthersTyped, SpaceTypeOK, SnapshotKept, spaceVars, registries, Build,
                          UsedDevices, ParentOfEntity
<1>12. RequestsOK' /\ StatesCounted' /\ CacheAsOf'
  BY <1>2, <1>3 DEF RequestsOK, StatesCounted, CacheAsOf
<1>. QED  BY <1>8, <1>10, <1>11, <1>12, ReadsInvPartsNext

LEMMA FollowUpOnKeeps ==
    ASSUME ReadsInv, NEW t \in followUps, FollowUpOn(t)
    PROVE  ReadsInv'
<1>1. /\ TypeOK /\ OthersTyped /\ CacheAsOf /\ FollowUpsOK
  BY ReadsFacts
<1>2. t.fetch \in Fetch /\ FetchOK(states, t.fetch)
  <2>1. t \in FollowUp
    BY <1>1 DEF OthersTyped
  <2>. QED  BY <1>1, <2>1 DEF FollowUp, FollowUpsOK
<1>3. /\ t.fetch.got # NotAsked /\ cache' = Stored(t.fetch)
      /\ UNCHANGED <<spaceVars, states, payload, justNow, req>>
      /\ followUps' = followUps \ {t} /\ Failing(t.fetch, t.fetch.got)
      /\ sent' = IF t.fetch.got = t.cached THEN sent ELSE sent \cup {Report(t.fetch, t.fetch.got)}
  BY DEF FollowUpOn
<1>4. t.fetch.got \in Payloads
  BY <1>2, <1>3 DEF Fetch
<1>5. cache' \in [ServiceBacked -> Record]
      /\ \A e \in ServiceBacked : cache'[e].payload # NoPayload
                                      => AsOf(states, e, cache'[e].key, cache'[e].payload)
  BY <1>1, <1>2, <1>3, StoredKeeps
<1>6. CacheAsOf'
  BY <1>3, <1>5 DEF CacheAsOf
<1>7. t.fetch.got # NoPayload => t.fetch.state.owed <= t.fetch.got
  BY <1>2, <1>3 DEF FetchOK
<1>. QED  BY <1>3, <1>4, <1>5, <1>6, <1>7, FollowUpEnds

-----------------------------------------------------------------------------
(* The steps of the world.                                                  *)

\* A state is added to the history of e.
LEMMA StateAdded ==
    ASSUME TypeOK, NEW e \in Entities, NEW state \in State,
           Len(states[e]) + 1 <= MaxVersion,
           states' = [states EXCEPT ![e] = Append(states[e], state)]
    PROVE  LET n == Len(states[e]) + 1 IN
           /\ states' \in [Entities -> Seq(State)]
           /\ \A x \in Entities : Len(states'[x]) \in 1..MaxVersion
           /\ n \in DOMAIN states'[e] /\ states'[e][n] = state /\ n \notin DOMAIN states[e]
           /\ \A x \in Entities : \A k \in DOMAIN states[x] :
                 k \in DOMAIN states'[x] /\ states'[x][k] = states[x][k]
           /\ \A x \in Entities : \A k \in DOMAIN states'[x] :
                 k \in DOMAIN states[x] \/ (x = e /\ k = n)
<1> DEFINE s == states[e]
           t == Append(s, state)
<1>1. /\ states \in [Entities -> Seq(State)] /\ \A x \in Entities : Len(states[x]) \in 1..MaxVersion
      /\ MaxVersion \in Nat
  BY ServerReadsAssumption DEF TypeOK
<1>2. s \in Seq(State) /\ Len(s) \in Nat
  BY <1>1
<1>3. states' = [states EXCEPT ![e] = t]
  OBVIOUS
<1>3a. Len(s) + 1 <= MaxVersion
  OBVIOUS
<1>. HIDE DEF s, State
<1>4. /\ t \in Seq(State) /\ Len(t) = Len(s) + 1 /\ t[Len(s) + 1] = state
      /\ DOMAIN t = 1..(Len(s) + 1) /\ DOMAIN s = 1..Len(s)
      /\ \A k \in 1..Len(s) : t[k] = s[k]
  BY <1>2
<1>. HIDE DEF t
<1>5. /\ Len(s) + 1 \in DOMAIN t /\ Len(s) + 1 \notin DOMAIN s
      /\ \A k \in DOMAIN s : k \in DOMAIN t /\ t[k] = s[k]
      /\ \A k \in DOMAIN t : k \in DOMAIN s \/ k = Len(s) + 1
      /\ Len(t) \in 1..MaxVersion
  BY <1>1, <1>2, <1>3a, <1>4
<1>6. \A x \in Entities : states'[x] = IF x = e THEN t ELSE states[x]
  BY <1>1, <1>3
<1>7. states' \in [Entities -> Seq(State)]
  BY <1>1, <1>3, <1>4
<1>. QED  BY <1>1, <1>4, <1>5, <1>6, <1>7 DEF s

LEMMA StateChangesKeeps ==
    ASSUME ReadsInv, NEW e \in Entities, StateChanges(e)
    PROVE  ReadsInv'
<1> DEFINE n     == Len(states[e]) + 1
           state == [number |-> n, time |-> IF e \in justNow THEN Current(e).time ELSE n,
                     owed |-> IF e \in ServiceBacked THEN payload[e] ELSE 1]
           f     == [element |-> e, state |-> state, got |-> NotAsked]
           t     == [fetch |-> f, cached |-> Peek(e)]
           watched == e \in DOMAIN snapshot' \cap ServiceBacked
<1>1. /\ n <= MaxVersion /\ states' = [states EXCEPT ![e] = Append(states[e], state)]
      /\ justNow' = justNow \cup {e} /\ Appears(e) /\ Use(present')
      /\ IF watched THEN /\ followUps' = followUps \cup {t}
                         /\ sent' = sent \cup {Report(f, Peek(e))}
                    ELSE UNCHANGED <<followUps, sent, failed>>
      /\ UNCHANGED <<registries, payload, cache, req, failed>>
  BY DEF StateChanges
<1>2. /\ TypeOK /\ SpaceInv /\ OthersTyped /\ RequestsOK
      /\ StatesCounted /\ CacheAsOf /\ FollowUpsOK /\ SentOK
  BY ReadsFacts
<1>3. /\ Len(states[e]) \in Nat /\ Current(e) \in State /\ n \in 1..MaxVersion
      /\ 1 \in 1..MaxPayload
  BY <1>1, <1>2, CurrentTyped, ServerReadsAssumption
<1>4. state \in State
  <2>1. (IF e \in ServiceBacked THEN payload[e] ELSE 1) \in 1..MaxPayload
    BY <1>2, <1>3 DEF OthersTyped
  <2>2. (IF e \in justNow THEN Current(e).time ELSE n) \in 1..MaxVersion
    BY <1>3 DEF State
  <2>. HIDE DEF n
  <2>. QED  BY <1>3, <2>1, <2>2 DEF State
<1>5. state.number = n /\ (e \in ServiceBacked => state.owed = payload[e])
  OBVIOUS
<1>. HIDE DEF state
<1>6. /\ states' \in [Entities -> Seq(State)]
      /\ \A x \in Entities : Len(states'[x]) \in 1..MaxVersion
      /\ n \in DOMAIN states'[e] /\ states'[e][n] = state /\ n \notin DOMAIN states[e]
      /\ \A x \in Entities : \A k \in DOMAIN states[x] :
            k \in DOMAIN states'[x] /\ states'[x][k] = states[x][k]
      /\ \A x \in Entities : \A k \in DOMAIN states'[x] :
            k \in DOMAIN states[x] \/ (x = e /\ k = n)
  BY <1>1, <1>2, <1>4, StateAdded
<1>. HIDE DEF n
<1>7. /\ \A g : g.element \in Entities /\ FetchOK(states, g) => FetchOK(states', g)
      /\ \A item : ItemOK(states, item) => ItemOK(states', item)
      /\ \A x \in Entities : \A time, p : AsOf(states, x, time, p) => AsOf(states', x, time, p)
      /\ \A x \in Entities : \A k \in DOMAIN states[x] :
            Apart(states', x, k) => Apart(states, x, k)
  BY <1>6, HistoryGrows
<1>8. Peek(e) \in Payloads
  BY <1>2 DEF Peek, OthersTyped, Record, Payloads
<1>9. watched => /\ f \in Fetch /\ FetchOK(states', f) /\ t \in FollowUp
                 /\ Report(f, Peek(e)) \in [element : ServiceBacked, value : Value]
                 /\ About(Report(f, Peek(e)), e, n)
  <2>0. f.element = e /\ f.state = state /\ f.got = NotAsked
    OBVIOUS
  <2>1. watched => f \in Fetch
    BY <1>4 DEF Fetch
  <2>2. FetchOK(states', f)
    BY <1>5, <1>6, <2>0 DEF FetchOK
  <2>. HIDE DEF f
  <2>3. watched => t \in FollowUp
    BY <1>8, <2>1 DEF FollowUp
  <2>. QED  BY <1>5, <1>8, <2>0, <2>1, <2>2, <2>3, ReportTyped
<1>10. /\ t.fetch = f /\ t.cached = Peek(e) /\ f.element = e /\ f.state.number = n
  BY <1>5
<1>. HIDE DEF t, f
<1>11. RequestsOK'
  <2>1. \A r \in Requests : RequestOK(states', req[r])
    <3>1. TAKE r \in Requests
    <3>2. RequestOK(states, req[r])
      BY <1>2 DEF RequestsOK
    <3>3. \A g \in req[r].fetch : g.element \in Entities
      BY <3>2, ServerReadsAssumption DEF RequestOK, ReadState, Fetch
    <3>. QED  BY <1>7, <3>2, <3>3 DEF RequestOK
  <2>. QED  BY <1>1, <1>2, <2>1 DEF RequestsOK
<1>12. StatesCounted'
  <2>1. \A x \in Entities : \A k \in DOMAIN states'[x] : states'[x][k].number = k
    BY <1>2, <1>5, <1>6 DEF StatesCounted
  <2>2. \A x \in ServiceBacked : \A k \in DOMAIN states'[x] : states'[x][k].owed <= payload[x]
    <3>1. TAKE x \in ServiceBacked
    <3>2. TAKE k \in DOMAIN states'[x]
    <3>3. x \in Entities /\ payload[x] \in Nat
      BY <1>2, ServerReadsAssumption DEF OthersTyped
    <3>4. CASE k \in DOMAIN states[x]
      BY <1>2, <1>6, <3>3, <3>4 DEF StatesCounted
    <3>5. CASE x = e /\ k = n
      BY <1>5, <1>6, <3>3, <3>5
    <3>. QED  BY <1>6, <3>3, <3>4, <3>5
  <2>. QED  BY <1>1, <2>1, <2>2 DEF StatesCounted
<1>13. CacheAsOf'
  BY <1>1, <1>2, <1>7, ServerReadsAssumption DEF CacheAsOf
<1>14. FollowUpsOK'
  <2>1. \A u \in followUps : FetchOK(states', u.fetch)
    <3>1. TAKE u \in followUps
    <3>2. u \in FollowUp /\ FetchOK(states, u.fetch)
      BY <1>2 DEF OthersTyped, FollowUpsOK
    <3>3. u.fetch.element \in Entities
      BY <3>2, ServerReadsAssumption DEF FollowUp, Fetch
    <3>. QED  BY <1>7, <3>2, <3>3
  <2>. QED  BY <1>1, <1>9, <1>10, <2>1 DEF FollowUpsOK
<1>15. SentOK'
  <2>1. /\ sent \subseteq sent' /\ followUps \subseteq followUps' /\ failed' = failed
        /\ \A m \in sent' : m \in sent \/ (watched /\ m = Report(f, Peek(e)))
        /\ \A u \in followUps' : u \in followUps \/ (watched /\ u = t)
        /\ watched => t \in followUps' /\ Report(f, Peek(e)) \in sent'
    BY <1>1
  <2>. HIDE DEF watched
  <2>2. \A m \in sent' : m.value.number \in DOMAIN states'[m.element]
    <3>1. \A m \in sent : m.element \in Entities /\ m.value.number \in DOMAIN states[m.element]
      BY <1>2, ServerReadsAssumption DEF OthersTyped, SentOK
    <3>. QED  BY <1>6, <1>9, <2>1, <3>1 DEF About
  <2>3. \A u \in followUps' : Report(u.fetch, u.cached) \in sent'
    BY <1>2, <1>10, <2>1 DEF SentOK
  <2>4. ASSUME NEW x \in ServiceBacked, NEW k \in DOMAIN states'[x], Apart(states', x, k),
               NEW m \in sent', About(m, x, k)
        PROVE  Settled(x, k)'
    <3>1. x \in Entities
      BY ServerReadsAssumption
    <3>2. CASE m \in sent
      <4>1. k \in DOMAIN states[x]
        BY <1>2, <2>4, <3>2 DEF SentOK, About
      <4>2. Settled(x, k)
        BY <1>2, <1>7, <2>4, <3>1, <3>2, <4>1 DEF SentOK
      <4>3. states'[x][k] = states[x][k]
        BY <1>6, <3>1, <4>1
      <4>. QED  BY <2>1, <4>2, <4>3 DEF Settled
    <3>3. CASE watched /\ m = Report(f, Peek(e))
      <4>1. x = e /\ k = n
        BY <1>9, <2>4, <3>3 DEF About
      <4>. QED  BY <1>10, <2>1, <3>3, <4>1 DEF Settled
    <3>. QED  BY <2>1, <3>2, <3>3
  <2>. QED  BY <2>2, <2>3, <2>4 DEF SentOK
<1>16. SpaceInv'
  BY <1>1, <1>2, AppearsKeeps, UseKeeps DEF SpaceInv
<1>17. OthersTyped'
  <2>1. followUps' \subseteq FollowUp /\ sent' \subseteq [element : ServiceBacked, value : Value]
    BY <1>1, <1>2, <1>9 DEF OthersTyped
  <2>2. justNow' \subseteq Entities
    BY <1>1, <1>2 DEF OthersTyped
  <2>. QED  BY <1>1, <1>2, <1>6, <1>16, <2>1, <2>2 DEF OthersTyped, SpaceInv
<1>. QED  BY <1>11, <1>12, <1>13, <1>14, <1>15, <1>16, <1>17, ReadsInvPartsNext DEF SpaceInv

LEMMA PayloadChangesKeeps ==
    ASSUME ReadsInv, NEW e \in ServiceBacked, PayloadChanges(e)
    PROVE  ReadsInv'
<1>1. /\ payload[e] < MaxPayload /\ payload' = [payload EXCEPT ![e] = payload[e] + 1]
      /\ UNCHANGED <<spaceVars, states, justNow, cache, req, followUps, sent, failed>>
  BY DEF PayloadChanges
<1>2. /\ OthersTyped /\ SnapshotKept /\ RequestsOK
      /\ StatesCounted /\ CacheAsOf /\ FollowUpsOK /\ SentOK
  BY ReadsFacts
<1>3. payload \in [ServiceBacked -> 1..MaxPayload] /\ MaxPayload \in Nat
  BY <1>2, ServerReadsAssumption DEF OthersTyped
<1>4. payload' \in [ServiceBacked -> 1..MaxPayload]
      /\ \A x \in ServiceBacked : payload'[x] \in Nat /\ payload[x] \in Nat /\ payload[x] <= payload'[x]
  BY <1>1, <1>3
<1>5. StatesCounted'
  <2>1. ASSUME NEW x \in ServiceBacked, NEW k \in DOMAIN states[x]
        PROVE  states[x][k].owed <= payload'[x]
    <3>1. states[x] \in Seq(State)
      BY <1>2, ServerReadsAssumption DEF OthersTyped
    <3>2. states[x][k] \in State
      BY <3>1
    <3>3. states[x][k].owed \in Nat /\ states[x][k].owed <= payload[x]
      BY <1>2, <3>2 DEF State, StatesCounted
    <3>. QED  BY <1>4, <3>3
  <2>. QED  BY <1>1, <1>2, <2>1 DEF StatesCounted
<1>6. OthersTyped' /\ SnapshotKept'
  BY <1>1, <1>2, <1>4 DEF OthersTyped, SpaceTypeOK, SnapshotKept, spaceVars, registries, Build,
                          UsedDevices, ParentOfEntity
<1>7. RequestsOK' /\ CacheAsOf' /\ FollowUpsOK' /\ SentOK'
  BY <1>1, <1>2 DEF RequestsOK, CacheAsOf, FollowUpsOK, SentOK, Settled
<1>. QED  BY <1>5, <1>6, <1>7, ReadsInvPartsNext

LEMMA TickKeeps ==
    ASSUME ReadsInv, Tick
    PROVE  ReadsInv'
<1>1. /\ Ageing /\ justNow' = {} /\ UNCHANGED <<states, payload, req, followUps, sent, failed>>
      /\ cache' = [e \in ServiceBacked |->
                     [cache[e] EXCEPT !.age = IF cache[e].age < DataTTL THEN cache[e].age + 1
                                                                       ELSE cache[e].age]]
  BY DEF Tick
<1>2. /\ SpaceInv /\ OthersTyped /\ RequestsOK
      /\ StatesCounted /\ CacheAsOf /\ FollowUpsOK /\ SentOK
  BY ReadsFacts
<1>3. SpaceInv'
  BY <1>1, <1>2, AgeingKeeps
<1>4. \A e \in ServiceBacked : /\ cache'[e] \in Record /\ cache'[e].key = cache[e].key
                               /\ cache'[e].payload = cache[e].payload
  <2>1. TAKE e \in ServiceBacked
  <2>2. cache[e] \in Record /\ DataTTL \in Nat
    BY <1>2, ServerReadsAssumption DEF OthersTyped
  <2>. DEFINE older == IF cache[e].age < DataTTL THEN cache[e].age + 1 ELSE cache[e].age
  <2>3. older \in 0..DataTTL
    BY <2>2 DEF Record
  <2>4. cache'[e] = [cache[e] EXCEPT !.age = older]
    BY <1>1
  <2>. HIDE DEF older
  <2>. QED  BY <2>2, <2>3, <2>4 DEF Record
<1>5. cache' \in [ServiceBacked -> Record]
  <2>1. cache' = [e \in ServiceBacked |-> cache'[e]]
    BY <1>1
  <2>. QED  BY <1>4, <2>1
<1>6. CacheAsOf'
  BY <1>1, <1>2, <1>4 DEF CacheAsOf
<1>7. OthersTyped' /\ SnapshotKept'
  BY <1>1, <1>2, <1>3, <1>5 DEF OthersTyped, SpaceInv
<1>8. RequestsOK' /\ StatesCounted' /\ FollowUpsOK' /\ SentOK'
  BY <1>1, <1>2 DEF RequestsOK, StatesCounted, FollowUpsOK, SentOK, Settled
<1>. QED  BY <1>6, <1>7, <1>8, ReadsInvPartsNext

LEMMA SpaceWorldKeeps ==
    ASSUME ReadsInv, SpaceWorld, UNCHANGED readVars
    PROVE  ReadsInv'
<1>1. /\ SpaceInv /\ OthersTyped /\ RequestsOK
      /\ StatesCounted /\ CacheAsOf /\ FollowUpsOK /\ SentOK
  BY ReadsFacts
<1>2. SpaceInv'
  BY <1>1, WorldKeeps
<1>3. OthersTyped' /\ SnapshotKept'
  BY <1>1, <1>2 DEF OthersTyped, SpaceInv, readVars
<1>4. /\ RequestsOK' /\ StatesCounted' /\ CacheAsOf' /\ FollowUpsOK' /\ SentOK'
  BY <1>1 DEF RequestsOK, StatesCounted, CacheAsOf, FollowUpsOK, SentOK, Settled, readVars
<1>. QED  BY <1>3, <1>4, ReadsInvPartsNext

LEMMA ReadsStutter == ReadsInv /\ UNCHANGED vars => ReadsInv'
<1>. SUFFICES ASSUME ReadsInv, UNCHANGED vars PROVE ReadsInv'
  OBVIOUS
<1>1. /\ OthersTyped /\ SnapshotKept /\ RequestsOK
      /\ StatesCounted /\ CacheAsOf /\ FollowUpsOK /\ SentOK
  BY ReadsFacts
<1>. USE DEF vars, spaceVars, registries, readVars
<1>2. OthersTyped' /\ SnapshotKept'
  BY <1>1 DEF OthersTyped, SpaceTypeOK, SnapshotKept, Build, UsedDevices, ParentOfEntity
<1>3. /\ RequestsOK' /\ StatesCounted' /\ CacheAsOf' /\ FollowUpsOK' /\ SentOK'
  BY <1>1 DEF RequestsOK, StatesCounted, CacheAsOf, FollowUpsOK, SentOK, Settled
<1>. QED  BY <1>2, <1>3, ReadsInvPartsNext

LEMMA ReadsInvInit == Init => ReadsInv
<1>. SUFFICES ASSUME Init PROVE ReadsInv
  OBVIOUS
<1> DEFINE first == [number |-> 1, time |-> 1, owed |-> 1]
           blank == [key |-> 0, payload |-> NoPayload, age |-> 0]
<1>1. SpaceTypeOK /\ SnapshotKept
  BY SpaceInvInit DEF Init, SpaceInv
<1>2. MaxVersion \in Nat \ {0} /\ MaxPayload \in Nat \ {0} /\ DataTTL \in Nat
  BY ServerReadsAssumption
<1>3. first \in State /\ first.number = 1 /\ first.owed = 1
  BY <1>2 DEF State
<1>4. /\ states = [e \in Entities |-> <<first>>] /\ payload = [e \in ServiceBacked |-> 1]
      /\ justNow = {} /\ cache = [e \in ServiceBacked |-> blank]
      /\ req = [r \in Requests |-> Unread(<<>>, None)]
      /\ followUps = {} /\ sent = {} /\ failed = {}
  BY DEF Init
<1>5. blank \in Record /\ blank.payload = NoPayload
  BY <1>2 DEF Record, Payloads
<1>. HIDE DEF first, blank
<1>6. /\ <<first>> \in Seq(State) /\ Len(<<first>>) = 1 /\ DOMAIN <<first>> = {1}
      /\ <<first>>[1] = first
  BY <1>3
<1>7. OthersTyped
  <2>1. states \in [Entities -> Seq(State)] /\ \A e \in Entities : Len(states[e]) \in 1..MaxVersion
    BY <1>2, <1>4, <1>6
  <2>2. payload \in [ServiceBacked -> 1..MaxPayload] /\ cache \in [ServiceBacked -> Record]
    BY <1>2, <1>4, <1>5
  <2>. QED  BY <1>1, <1>4, <2>1, <2>2 DEF OthersTyped
<1>8. RequestsOK
  <2> DEFINE q == Unread(<<>>, None)
  <2>1. <<>> \in Seq(AnswerItem) /\ DOMAIN <<>> = {}
    OBVIOUS
  <2>2. q.fetch = {} /\ q.results = <<>>
    BY DEF Unread
  <2>3. q \in ReadState
    <3>. HIDE DEF AnswerItem, Spaces
    <3>. QED  BY <2>1 DEF Unread, ReadState
  <2>. HIDE DEF q
  <2>4. RequestOK(states, q)
    BY <2>1, <2>2, <2>3 DEF RequestOK
  <2>5. req = [r \in Requests |-> q]
    BY <1>4 DEF q
  <2>. QED  BY <2>3, <2>4, <2>5 DEF RequestsOK
<1>9. StatesCounted
  <2>1. \A e \in Entities : states[e] = <<first>>
    BY <1>4
  <2>2. \A e \in ServiceBacked : e \in Entities /\ payload[e] = 1
    BY <1>4, ServerReadsAssumption
  <2>. QED  BY <1>3, <1>6, <2>1, <2>2 DEF StatesCounted
<1>10. CacheAsOf
  BY <1>4, <1>5 DEF CacheAsOf
<1>11. FollowUpsOK /\ SentOK
  BY <1>4 DEF FollowUpsOK, SentOK
<1>. QED  BY <1>1, <1>7, <1>8, <1>9, <1>10, <1>11, ReadsInvParts

LEMMA ReadsInvNext == ReadsInv /\ [Next]_vars => ReadsInv'
<1>. SUFFICES ASSUME ReadsInv, [Next]_vars PROVE ReadsInv'
  OBVIOUS
<1>1. ASSUME NEW r \in Requests, NEW ids \in IdLists, Read(r, ids) PROVE ReadsInv'
  BY <1>1, ReadKeeps
<1>2. ASSUME NEW r \in Requests, ReadServed(r) PROVE ReadsInv'
  BY <1>2, ReadServedKeeps
<1>3. ASSUME NEW r \in Requests, ReadOn(r) PROVE ReadsInv'
  BY <1>3, ReadOnKeeps
<1>4. ASSUME NEW t \in followUps, FollowUpHit(t) PROVE ReadsInv'
  BY <1>4, FollowUpHitKeeps
<1>5. ASSUME NEW t \in followUps, FollowUpServed(t) PROVE ReadsInv'
  BY <1>5, FollowUpServedKeeps
<1>6. ASSUME NEW t \in followUps, FollowUpOn(t) PROVE ReadsInv'
  BY <1>6, FollowUpOnKeeps
<1>7. ASSUME NEW e \in Entities, StateChanges(e) PROVE ReadsInv'
  BY <1>7, StateChangesKeeps
<1>8. ASSUME NEW e \in ServiceBacked, PayloadChanges(e) PROVE ReadsInv'
  BY <1>8, PayloadChangesKeeps
<1>9. CASE SpaceWorld /\ UNCHANGED readVars
  BY <1>9, SpaceWorldKeeps
<1>10. CASE Tick
  BY <1>10, TickKeeps
<1>11. CASE UNCHANGED vars
  BY <1>11, ReadsStutter
<1>. QED  BY <1>1, <1>2, <1>3, <1>4, <1>5, <1>6, <1>7, <1>8, <1>9, <1>10, <1>11 DEF Next

LEMMA ReadsInvAlways == Spec => []ReadsInv
BY ReadsInvInit, ReadsInvNext, PTL DEF Spec

-----------------------------------------------------------------------------
(* The theorems.                                                            *)

\* The address space, the cache, requests and follow-ups keep their types, and a
\* request fetches for the first of its items that has no answer yet.
THEOREM ReadsTyped == Spec => []TypeOK
<1>1. ReadsInv => TypeOK
  BY DEF ReadsInv
<1>. QED  BY <1>1, ReadsInvAlways, PTL

\* Whatever registries and states are combined, and whatever has changed since, the
\* edges that are served fit together: what an object names as its parent and children
\* is served, with the reverse edge, and the root is at most three steps up - but for
\* entities whose device is not registered, of which the parent's id is all there is.
THEOREM EdgesFitTogether == Spec => []EdgesFit
<1>1. ReadsInv => EdgesFit
  <2>. SUFFICES ASSUME ReadsInv PROVE EdgesFit
    OBVIOUS
  <2> DEFINE exposed == DOMAIN Served(present) \cap Entities
  <2>1. SpaceTypeOK /\ SnapshotCurrent
    BY ServedCurrent DEF ReadsInv, SpaceInv, TypeOK
  <2>2. Served(present) = Build(exposed) /\ exposed \in SUBSET Entities
    BY <2>1 DEF SnapshotCurrent
  <2>. HIDE DEF exposed
  <2>. QED  BY <2>1, <2>2, BuildFits DEF EdgesFit
<1>. QED  BY <1>1, ReadsInvAlways, PTL

\* The address space that is served was built from the registries as they are, and is
\* wrong only about entities that came or went within its maximum age.
THEOREM SnapshotIsCurrent == Spec => []SnapshotCurrent
<1>1. ReadsInv => SnapshotCurrent
  BY ServedCurrent DEF ReadsInv, SpaceInv, TypeOK
<1>. QED  BY <1>1, ReadsInvAlways, PTL

\* A value is never told with a payload older than the state it is told with.
THEOREM AnswersAreCurrent == Spec => []AnswerCurrent
<1>1. ReadsInv => AnswerCurrent
  <2>. SUFFICES ASSUME ReadsInv PROVE AnswerCurrent
    OBVIOUS
  <2>1. ASSUME NEW r \in Requests, NEW i \in DOMAIN req[r].results,
               NEW v \in req[r].results[i].value,
               req[r].results[i].id \in ServiceBacked, v.payload # NoPayload,
               Alone(req[r].results[i].id, v.number)
        PROVE  v.payload >= states[req[r].results[i].id][v.number].owed
    <3> DEFINE item == req[r].results[i]
    <3>1. req[r].results \in Seq(AnswerItem)
      BY DEF ReadsInv, TypeOK, ReadState
    <3>2. item \in AnswerItem
      BY <3>1
    <3>3. ItemOK(states, item)
      BY DEF ReadsInv, AnswersOK
    <3>. HIDE DEF item
    <3>4. Apart(states, item.id, v.number)
      BY <2>1 DEF Alone, Apart, item
    <3>5. /\ v \in item.value /\ item.id \in ServiceBacked /\ v.payload # NoPayload
      BY <2>1 DEF item
    <3>6. v.number \in DOMAIN states[item.id] /\ states[item.id][v.number].owed <= v.payload
      BY <3>3, <3>4, <3>5 DEF ItemOK
    <3>7. v \in Value
      BY <3>2, <3>5 DEF AnswerItem
    <3>8. v.payload \in Nat
      BY <3>5, <3>7 DEF Value, Payloads
    <3>9. states[item.id][v.number].owed \in Nat
      <4>1. states[item.id] \in Seq(State)
        BY <3>5, ServerReadsAssumption DEF ReadsInv, TypeOK
      <4>2. states[item.id][v.number] \in State
        BY <3>6, <4>1
      <4>. QED  BY <4>2 DEF State
    <3>. QED  BY <3>6, <3>8, <3>9 DEF item
  <2>. QED  BY <2>1 DEF AnswerCurrent
<1>. QED  BY <1>1, ReadsInvAlways, PTL

\* When the follow-up of the last state is over, subscribers have that state with a
\* payload that is not older.
THEOREM FollowUpsCatchUp == Spec => []FollowUpCatchesUp
<1>1. ReadsInv => FollowUpCatchesUp
  <2>. SUFFICES ASSUME ReadsInv PROVE FollowUpCatchesUp
    OBVIOUS
  <2> DEFINE about(e) == {x \in sent : x.element = e /\ x.value.number = Len(states[e])}
             told(e)  == {m.value.payload : m \in about(e)}
  <2>1. ASSUME NEW e \in ServiceBacked, told(e) # {}, Alone(e, Len(states[e])),
               <<e, Len(states[e])>> \notin failed,
               ~(\E t \in followUps : /\ t.fetch.element = e
                                      /\ t.fetch.state.number = Len(states[e]))
        PROVE  \E p \in told(e) \ {NoPayload} : p >= states[e][Len(states[e])].owed
    <3> DEFINE n == Len(states[e])
    <3>1. e \in Entities /\ n \in DOMAIN states[e] /\ states[e][n].owed \in Nat
      <4>1. e \in Entities
        BY ServerReadsAssumption
      <4>2. Current(e) \in State /\ n \in DOMAIN states[e]
        BY <4>1, CurrentTyped DEF ReadsInv
      <4>. QED  BY <4>1, <4>2 DEF Current, State
    <3>. HIDE DEF n
    <3>2. Apart(states, e, n)
      BY <2>1 DEF Alone, Apart, n
    <3>3. \E m \in sent : About(m, e, n)
      BY <2>1 DEF About, n
    <3>4. Settled(e, n)
      BY <3>1, <3>2, <3>3 DEF ReadsInv, SentOK
    <3>5. PICK m \in sent : /\ About(m, e, n) /\ m.value.payload # NoPayload
                            /\ states[e][n].owed <= m.value.payload
      BY <2>1, <3>4 DEF Settled, n
    <3>6. m.value.payload \in told(e) \ {NoPayload}
      BY <3>5 DEF About, n
    <3>7. m.value.payload \in Nat
      BY <3>5 DEF ReadsInv, TypeOK, Value, Payloads
    <3>8. m.value.payload >= states[e][n].owed
      BY <3>1, <3>5, <3>7
    <3>. HIDE DEF told
    <3>. QED  BY <3>6, <3>8 DEF n
  <2>. QED  BY <2>1 DEF FollowUpCatchesUp
<1>. QED  BY <1>1, ReadsInvAlways, PTL
=============================================================================
