------------------------------ MODULE MCScene ------------------------------
(* Five parts that keep what a frame draws, and share no state here: the     *)
(* handles of a slot map; a scene of objects and its snapshots; the table of *)
(* instances of two scenes; the registry of entities; the render graph with  *)
(* every way to select cells.  A behaviour is one of them, and the others    *)
(* stay as they begin.                                                       *)
EXTENDS SlotMap, TLC

CONSTANTS Mutators, Fields, WriterChanges, PendingChanges, MaxObjects, MaxSequence, MaxEpoch,
    InitialCapacity, WholeTenths, MaxSteps, Components, MaxEntities, MaxAges,
    Cells, MaxPasses

VARIABLES part,
    slots, spare, known, mutation, epoch, sequence, pending, shown, marks, committed, torn,
    handles, values, sparse, mapping, capacity, dirty, table, queue, lost, world, steps,
    generations, positions, entities, freeList, storages, view, dead,
    transient, passes, versions, out

Object(index, age, version) ==
    [id |-> [index |-> index, generation |-> age], version |-> version]

ObjectIndices == 1..5

\* Snapshots of two scenes: indices 1 and 2 in one, 3 to 5 in the other.
Snapshots == {
    << >>,
    << Object(1, 1, 1) >>,
    << Object(1, 1, 1), Object(2, 1, 1) >>,
    << Object(2, 1, 2), Object(1, 1, 1) >>,
    << Object(2, 1, 2), Object(1, 2, 1) >>,
    << Object(3, 1, 1), Object(4, 1, 1) >>,
    << Object(4, 1, 1), Object(3, 1, 2), Object(5, 1, 1) >> }

Scene == INSTANCE RenderScene WITH Kind <- "object", MaxSlots <- MaxObjects,
             free <- spare, versions <- known
Table == INSTANCE GpuScene WITH Worlds <- Snapshots, Indices <- ObjectIndices
Registry == INSTANCE EntityRegistry WITH MaxGeneration <- MaxAges
Graph == INSTANCE RenderGraph WITH Resources <- {1, 2}, Lifetimes <- {{1}, {1, 2}},
             Exportable <- {2}, Ranges <- (SUBSET Cells) \ {{}}

ASSUME SceneAssumption == Registry!RegistryAssumption /\ Table!TableAssumption

slotting == vars
changing == <<slots, spare, known, mutation, epoch, sequence, pending, shown, marks,
              committed, torn>>
packing == <<handles, values, sparse, mapping, capacity, dirty, table, queue, lost,
             world, steps>>
registering == <<generations, positions, entities, freeList, storages, view, dead>>
graphing == <<transient, passes, versions, out>>

SceneInit == /\ part \in {"slots", "scene", "table", "registry", "graph"}
             /\ Init /\ Scene!Init /\ Table!Init /\ Registry!Init /\ Graph!Init
             /\ part # "graph" => transient = {1}

SceneNext ==
    \/ /\ part = "slots" /\ Next
       /\ UNCHANGED <<part, changing, packing, registering, graphing>>
    \/ /\ part = "scene" /\ Scene!Next
       /\ UNCHANGED <<part, slotting, packing, registering, graphing>>
    \/ /\ part = "table" /\ Table!Next
       /\ UNCHANGED <<part, slotting, changing, registering, graphing>>
    \/ /\ part = "registry" /\ Registry!Next
       /\ UNCHANGED <<part, slotting, changing, packing, graphing>>
    \/ /\ part = "graph" /\ Graph!Next
       /\ UNCHANGED <<part, slotting, changing, packing, registering>>

SceneSpec ==
    SceneInit /\ [][SceneNext]_<<part, slotting, changing, packing, registering, graphing>>

\* Mutations are alike, and so are the cells of a resource.
Alike == Permutations(Mutators) \union Permutations(Cells)

(* What was committed and drained is what a frame shows, the table holds the
   objects of the snapshot, and no change of it escapes the device. *)
ShowsWhatWasCommitted ==
    CASE part = "scene" -> Scene!TypeOK /\ Scene!SettledShowsCommitted
      [] part = "table" -> /\ Table!TypeOK /\ Table!ShowsTheSnapshot
                           /\ Table!DeviceReadsTheTable
      [] OTHER -> TRUE

(* An index is free once or in use, handles of what was removed find nothing
   again, and what a live handle finds is its own. *)
HandlesExact ==
    CASE part = "slots" -> TypeOK /\ RemovedStaysRemoved
      [] part = "scene" -> Scene!IndicesAccounted
      [] part = "table" -> Table!DenseExact
      [] part = "registry" -> /\ Registry!TypeOK /\ Registry!StaleStaysStale
                              /\ Registry!StoragesExact
      [] OTHER -> TRUE

(* A view visits each entity it owes a visit, once. *)
ViewVisitsAll == part = "registry" => Registry!ViewVisitsAll

(* A pass reads what it was declared to read, transient resources of one slot
   are used one after the other, and a graph is refused only when no order of
   its passes would do. *)
GraphSound ==
    part = "graph" => /\ Graph!TypeOK
                      /\ Graph!ReadsSeeTheirVersion
                      /\ Graph!SlotsDisjoint
                      /\ Graph!RefusedOnlyIfImpossible

(* No snapshot takes an object back to an older version. *)
VersionsAdvance == Scene!VersionsAdvance
=============================================================================
