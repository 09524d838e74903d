---------------------------- MODULE AddressSpace ----------------------------
(***************************************************************************)
(* server/model.py: the address space built from Home Assistant's states   *)
(* and its area, device and entity registries, and the snapshot of it that *)
(* I3xModel keeps.                                                         *)
(*                                                                         *)
(* The snapshot is dropped at every registry event and rebuilt by the next *)
(* caller; a state that appears or goes is no registry event, so only the  *)
(* age of the snapshot brings it in.                                       *)
(*                                                                         *)
(* Data: an object is its id (the prefixes keep areas, devices and         *)
(* entities apart); names, types and schemas are left out.  An address     *)
(* space is the function from its objects to their parents: children, the  *)
(* inverse the code stores next to it, is computed.                        *)
(***************************************************************************)
EXTENDS Integers, FiniteSets, Functions

CONSTANTS
    Areas,
    Devices,
    Entities,      \* those the include and exclude filters let through
    Registered,    \* of these, the ones that may have a registry entry
    Home,          \* the root
    None,          \* no area, no device, no parent, no snapshot
    MaxAge,        \* SNAPSHOT_MAX_AGE, in ticks
    MaxChanges     \* bound: changes of registries and states

ASSUME AddressSpaceAssumption ==
    /\ Registered \subseteq Entities
    /\ Areas \cap Devices = {} /\ (Areas \cup Devices) \cap Entities = {}
    /\ Home \notin Areas \cup Devices \cup Entities
    /\ None \notin Areas \cup Devices \cup Entities \cup {Home}
    /\ {MaxAge, MaxChanges} \subseteq Nat

VARIABLES
    areas,      \* the area registry
    devices,    \* the device registry: registered devices, with their area
    entries,    \* the entity registry: registered entities, with device and area
    present,    \* entities that have a state
    snapshot,   \* _snapshot
    age,        \* ticks since _built_at, at most MaxAge + 1
    since,      \* history: ticks since an entity's state appeared or went
    changes     \* so far

registries == <<areas, devices, entries>>
spaceVars  == <<registries, present, snapshot, age, since, changes>>

Objects == {Home} \cup Areas \cup Devices \cup Entities
Entry   == [device : Devices \cup {None}, area : Areas \cup {None}]

PartialFunctions(D, R) == UNION {[S -> R] : S \in SUBSET D}

\* An address space: the parents of its objects.
Spaces == PartialFunctions(Objects, Objects \cup {None})

SpaceTypeOK ==
    /\ areas \subseteq Areas
    /\ devices \in PartialFunctions(Devices, Areas \cup {None})
    /\ entries \in PartialFunctions(Registered, Entry)
    /\ present \subseteq Entities
    /\ snapshot \in Spaces \cup {None}
    /\ age \in 0..(MaxAge + 1)
    /\ since \in [Entities -> 0..(MaxAge + 1)]
    /\ changes \in 0..MaxChanges

-----------------------------------------------------------------------------
(* _build                                                                   *)

\* used_device_ids: devices named by the entry of an entity that has a state.
UsedDevices(states) == {entries[e].device : e \in states \cap DOMAIN entries} \ {None}

\* An entity whose device is used belongs to the device, registered or not; the
\* others belong to their own area when the area registry knows it.
ParentOfEntity(e, used) ==
    IF e \in DOMAIN entries /\ entries[e].device \in used THEN entries[e].device
    ELSE IF e \in DOMAIN entries /\ entries[e].area \in areas THEN entries[e].area
    ELSE Home

Build(states) ==
    LET used  == UsedDevices(states)
        known == used \cap DOMAIN devices
    IN  [o \in {Home} \cup areas \cup known \cup states |->
            IF o = Home THEN None
            ELSE IF o \in areas THEN Home
            ELSE IF o \in known THEN (IF devices[o] \in areas THEN devices[o] ELSE Home)
            ELSE ParentOfEntity(o, used)]

-----------------------------------------------------------------------------
(* AddressSpace: the relationship edges.                                    *)

IsComposition(o) == o \in Devices

Children(space, o) == {c \in DOMAIN space : space[c] = o}

\* The components a device folds into its value.
ComponentChildren(space, o) == IF IsComposition(o) THEN Children(space, o) ELSE {}

\* _up_edge_label
UpEdgeLabel(space, o) ==
    IF space[o] \in DOMAIN space /\ IsComposition(space[o]) THEN "ComponentOf" ELSE "HasParent"

DownEdgeLabel(o) == IF IsComposition(o) THEN "HasComponent" ELSE "HasChildren"

\* What object_response serves of an object: its parentId, which is also the edge
\* up of its metadata, and the edges down, by id and whether or not there is such an
\* object.
Edges(space, o) ==
    {[by |-> UpEdgeLabel(space, o), to |-> p] : p \in {space[o]} \ {None}} \cup
    {[by |-> DownEdgeLabel(o), to |-> c] : c \in Children(space, o)}

\* related, without a relationship filter: the edges to objects.
Related(space, o) == {edge \in Edges(space, o) : edge.to \in DOMAIN space}

Reverse(label) == CASE label = "HasParent"    -> "HasChildren"
                    [] label = "HasChildren"  -> "HasParent"
                    [] label = "HasComponent" -> "ComponentOf"
                    [] label = "ComponentOf"  -> "HasComponent"

-----------------------------------------------------------------------------
(* I3xModel                                                                 *)

SpaceInit ==
    /\ areas \in SUBSET Areas
    /\ devices \in PartialFunctions(Devices, Areas \cup {None})
    /\ entries \in PartialFunctions(Registered, Entry)
    /\ present \in SUBSET Entities
    /\ snapshot = None
    /\ age = 0
    /\ since = [e \in Entities |-> MaxAge + 1]
    /\ changes = 0

\* Faulty variants (here and below, named after the fault) show that the
\* properties can fail; nothing else uses them.
ServedAtAnyAge(states) == IF snapshot = None THEN Build(states) ELSE snapshot

\* What snapshot() returns when these entities have a state.
Served(states) == IF snapshot = None \/ age > MaxAge THEN Build(states) ELSE snapshot

\* A call of snapshot().
Use(states) ==
    /\ snapshot' = Served(states)
    /\ age' = IF snapshot = None \/ age > MaxAge THEN 0 ELSE age

\* A registry event has been fired: _async_registry_updated.
Invalidate == snapshot' = None

Change == changes < MaxChanges /\ changes' = changes + 1

AreaChanges ==
    /\ Change
    /\ \E a \in Areas : areas' = IF a \in areas THEN areas \ {a} ELSE areas \cup {a}
    /\ Invalidate
    /\ UNCHANGED <<devices, entries, present, age, since>>

DeviceChangesUnheard ==
    /\ Change
    /\ devices' \in PartialFunctions(Devices, Areas \cup {None}) \ {devices}
    /\ UNCHANGED <<areas, entries, present, snapshot, age, since>>

DeviceChanges ==
    /\ Change
    /\ devices' \in PartialFunctions(Devices, Areas \cup {None}) \ {devices}
    /\ Invalidate
    /\ UNCHANGED <<areas, entries, present, age, since>>

EntryChanges ==
    /\ Change
    /\ entries' \in PartialFunctions(Registered, Entry) \ {entries}
    /\ Invalidate
    /\ UNCHANGED <<areas, devices, present, age, since>>

\* An entity has a state from now on, or had one already: the model does not hear.
Appears(e) ==
    IF e \in present THEN UNCHANGED <<present, since, changes>>
    ELSE /\ Change
         /\ present' = present \cup {e}
         /\ since' = [since EXCEPT ![e] = 0]

\* An entity loses its state: those who listen for states leave this alone.
StateGoes(e) ==
    /\ e \in present
    /\ Change
    /\ present' = present \ {e}
    /\ since' = [since EXCEPT ![e] = 0]
    /\ UNCHANGED <<registries, snapshot, age>>

Older(t) == IF t > MaxAge THEN t ELSE t + 1

Ageing == /\ age' = Older(age)
          /\ since' = [e \in Entities |-> Older(since[e])]
          /\ UNCHANGED <<registries, present, snapshot, changes>>

SpaceWorld == AreaChanges \/ DeviceChanges \/ EntryChanges \/ \E e \in Entities : StateGoes(e)

-----------------------------------------------------------------------------
(* Properties.                                                              *)

\* The one entity whose parent the code cannot place: its entry names a device that
\* the device registry does not have.
Orphan(o) ==
    /\ o \in DOMAIN entries
    /\ entries[o].device \notin DOMAIN devices \cup {None}

Up(space, o) == IF space[o] \in DOMAIN space THEN space[o] ELSE o

\* "Synthesizes edges in both directions": in what is served, whatever registries and
\* states it was combined from and whatever has changed in them since, the parentId
\* and the metadata edges of an object are its edges in /related, each has its
\* reverse at the other end, with the label the relationship types declare, and
\* three steps up lead to the root.  Only of an orphan - by the registries of this
\* moment, not of an earlier one - is the parent named although no such object is
\* served: of those the description's "parentId always resolves" does not hold.
EdgesFit ==
    LET space == Served(present) IN
    \A o \in DOMAIN space :
        IF Orphan(o) THEN Edges(space, o) = {[by |-> "HasParent", to |-> entries[o].device]}
        ELSE /\ Up(space, Up(space, Up(space, o))) = Home
             /\ \A edge \in Edges(space, o) :
                   /\ edge \in Related(space, o)
                   /\ [by |-> Reverse(edge.by), to |-> o] \in Related(space, edge.to)

\* A snapshot never outlives the registries it was built from, and it is wrong
\* about which entities exist only for those that came or went within its
\* maximum age.
SnapshotCurrent ==
    LET exposed == DOMAIN Served(present) \cap Entities IN
    /\ Served(present) = Build(exposed)
    /\ \A e \in Entities : (e \in exposed) # (e \in present) => since[e] <= MaxAge
=============================================================================
