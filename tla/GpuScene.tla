---- MODULE GpuScene ----
(***************************************************************************)
(* GpuScene (modules/gfx/src/gpu_scene.cpp): the table of instances on the *)
(* processor, kept dense by DenseHandleStorage (core), the ranges of it    *)
(* that changed (DirtyRangeSet, core), and the copy of it on the graphics  *)
(* device that the draws of a view read.  Views of several scenes share    *)
(* the one table, so each Synchronize may replace all of it.  A record is  *)
(* the identifier and the version it was packed from.  The table of lights *)
(* is rewritten whole each time and is left out.                           *)
(***************************************************************************)
EXTENDS Integers, Sequences, FiniteSets, TLC

CONSTANTS
    Worlds,           \* the snapshots views may show: sequences of [id, version]
    Indices,          \* identifier indices
    InitialCapacity,  \* records the first table has room for
    WholeTenths,      \* tenths of the table beyond which all of it is uploaded
    MaxSteps          \* bound on the calls

\* The objects of a snapshot were given out: no generation is zero.
TableAssumption ==
    /\ Worlds \subseteq Seq([id : [index : Indices, generation : Nat \ {0}], version : Nat])
    /\ InitialCapacity \in Nat

VARIABLES
    handles,    \* identifier of each record of the table, in table order
    values,     \* the records
    sparse,     \* index -> generation and position in the table, 0: not there
    mapping,    \* index -> generation mapped, 0 for none, and source version
    capacity,   \* records the tables have room for
    dirty,      \* positions changed since the last upload
    table,      \* the records of the current table on the device
    queue,      \* uploads accepted and not submitted yet
    lost,       \* device_lost_
    world,      \* the snapshot of the last Synchronize
    steps

vars == <<handles, values, sparse, mapping, capacity, dirty, table, queue, lost, world, steps>>

Free == [generation |-> 0, dense |-> 0]
Unmapped == [generation |-> 0, version |-> 0]
Garbage == [id |-> [index |-> 0, generation |-> 0], version |-> 0]

Init ==
    /\ handles = << >> /\ values = << >>
    /\ sparse = [i \in Indices |-> Free]
    /\ mapping = [i \in Indices |-> Unmapped]
    /\ capacity = 0
    /\ dirty = {}
    /\ table = << >> /\ queue = << >>
    /\ lost = FALSE
    /\ world = << >>
    /\ steps = 0

\* What Synchronize works on.
Scene == [handles |-> handles, values |-> values, sparse |-> sparse, mapping |-> mapping,
          dirty |-> dirty, capacity |-> capacity]

\* DirtyRangeSet::Mark: positions outside the table are dropped, and when
\* enough of the table is dirty all of it is.
Mark(scene, positions) ==
    LET marked == scene.dirty \union (positions \intersect 1..scene.capacity)
    IN  IF positions \intersect 1..scene.capacity # {}
           /\ 10 * Cardinality(marked) >= WholeTenths * scene.capacity
        THEN [scene EXCEPT !.dirty = 1..scene.capacity]
        ELSE [scene EXCEPT !.dirty = marked]

-----------------------------------------------------------------------------
(* DenseHandleStorage. *)

Contains(scene, id) ==
    /\ scene.sparse[id.index].dense # 0
    /\ scene.sparse[id.index].generation = id.generation
DenseIndex(scene, id) == scene.sparse[id.index].dense

Emplace(scene, entry) ==
    [scene EXCEPT
        !.handles = Append(@, entry.id),
        !.values = Append(@, entry),
        !.sparse[entry.id.index] = [generation |-> entry.id.generation,
                                    dense |-> Len(scene.handles) + 1]]

\* Variants of definitions below, each with one plausible mistake.
SwapEraseKeepsIndex(scene, id) ==
    LET dense == DenseIndex(scene, id)
        last == Len(scene.handles)
    IN  [scene EXCEPT
            !.handles = SubSeq([@ EXCEPT ![dense] = scene.handles[last]], 1, last - 1),
            !.values = SubSeq([@ EXCEPT ![dense] = scene.values[last]], 1, last - 1),
            !.sparse[id.index].dense = 0]

\* The last record takes the place of the removed one.
SwapErase(scene, id) ==
    LET dense == DenseIndex(scene, id)
        last == Len(scene.handles)
        moved == scene.handles[last].index
        cleared == [scene.sparse EXCEPT ![id.index].dense = 0]
    IN  [scene EXCEPT
            !.handles = SubSeq([@ EXCEPT ![dense] = scene.handles[last]], 1, last - 1),
            !.values = SubSeq([@ EXCEPT ![dense] = scene.values[last]], 1, last - 1),
            !.sparse = IF dense = last THEN cleared ELSE [cleared EXCEPT ![moved].dense = dense]]

-----------------------------------------------------------------------------
(* GpuScene. *)

\* Variants of definitions below, each with one plausible mistake.
RemoveUnmarked(scene, id) ==
    [SwapErase(scene, id) EXCEPT !.mapping[id.index].generation = 0]

Remove(scene, id) ==
    LET dense == DenseIndex(scene, id)
        erased == [SwapErase(scene, id) EXCEPT !.mapping[id.index].generation = 0]
    IN  IF dense # Len(scene.handles) THEN Mark(erased, {dense}) ELSE erased

Larger(a, b) == IF a >= b THEN a ELSE b
Required(count) == Larger(count, InitialCapacity)
MustGrow(count) == Required(count) > capacity
\* Variants of definitions below, each with one plausible mistake.
Doubled(count) == IF capacity = 0 THEN InitialCapacity ELSE 2 * capacity

Grown(count) == Larger(Required(count), IF capacity = 0 THEN InitialCapacity ELSE 2 * capacity)

\* A new table starts with no record of the old one: all of it is dirty.
EnsureCapacity(count) ==
    IF MustGrow(count)
    THEN Mark([Scene EXCEPT !.capacity = Grown(count), !.dirty = {}], 1..Len(handles))
    ELSE Scene

\* One object of the snapshot.
Place(scene, entry) ==
    LET id == entry.id
        old == [index |-> id.index, generation |-> scene.mapping[id.index].generation]
        vacated == IF old.generation # 0 THEN Remove(scene, old) ELSE scene
        placed == Emplace([vacated EXCEPT !.mapping[id.index] =
                      [generation |-> id.generation, version |-> entry.version]], entry)
        dense == DenseIndex(scene, id)
    IN  IF ~Contains(scene, id) THEN Mark(placed, {DenseIndex(placed, id)})
        ELSE IF scene.mapping[id.index].version # entry.version
        THEN Mark([scene EXCEPT !.mapping[id.index].version = entry.version,
                                !.values[dense] = entry], {dense})
        ELSE scene

\* All objects of the snapshot, in its order.
PlaceAll(scene, snapshot) ==
    LET placed[n \in 0..Len(snapshot)] ==
            IF n = 0 THEN scene ELSE Place(placed[n - 1], snapshot[n])
    IN  placed[Len(snapshot)]

\* The record at this position goes when the snapshot has nothing at its index.
Sweep(scene, dense, snapshot) ==
    IF scene.handles[dense].index \notin {snapshot[i].id.index : i \in DOMAIN snapshot}
    THEN Remove(scene, scene.handles[dense]) ELSE scene

\* Variants of definitions below, each with one plausible mistake.
RemoveUnseenAscending(scene, snapshot) ==
    LET swept[n \in 0..Len(scene.handles)] ==
            IF n = 0 THEN scene
            ELSE IF n <= Len(swept[n - 1].handles) THEN Sweep(swept[n - 1], n, snapshot)
            ELSE swept[n - 1]
    IN  swept[Len(scene.handles)]

\* From the last record to the first, so that a record moved into a gap is
\* one that has been looked at.
RemoveUnseen(scene, snapshot) ==
    LET size == Len(scene.handles)
        swept[n \in 0..size] ==
            IF n = 0 THEN scene ELSE Sweep(swept[n - 1], size + 1 - n, snapshot)
    IN  swept[size]

Synchronize(snapshot) ==
    /\ ~lost
    /\ LET grown == EnsureCapacity(Len(snapshot))
           next == RemoveUnseen(PlaceAll(grown, snapshot), snapshot)
       IN  /\ handles' = next.handles /\ values' = next.values
           /\ sparse' = next.sparse /\ mapping' = next.mapping
           /\ dirty' = next.dirty /\ capacity' = next.capacity
    /\ table' = IF MustGrow(Len(snapshot))
                THEN [i \in 1..Grown(Len(snapshot)) |-> Garbage] ELSE table
    \* Uploads still queued for a table that was freed write to the old range.
    /\ queue' = IF MustGrow(Len(snapshot)) THEN << >> ELSE queue
    /\ world' = snapshot
    /\ UNCHANGED lost

\* The pool has no room for larger tables: nothing has changed.
AllocationFails(snapshot) == ~lost /\ MustGrow(Len(snapshot)) /\ UNCHANGED <<
    handles, values, sparse, mapping, capacity, dirty, table, queue, lost, world>>

\* CopyBytes pads what lies beyond the records with zeros.
Copied == [i \in dirty |-> IF i \in DOMAIN values THEN values[i] ELSE Garbage]

UploadDirty ==
    /\ ~lost /\ dirty # {}
    /\ queue' = Append(queue, Copied)
    /\ dirty' = {}
    /\ UNCHANGED <<handles, values, sparse, mapping, capacity, table, lost, world>>

\* The scheduler has no room for the batch: the ranges stay dirty.
UploadRefused == ~lost /\ dirty # {} /\ UNCHANGED <<
    handles, values, sparse, mapping, capacity, dirty, table, queue, lost, world>>

\* UploadScheduler::PrepareAndSubmit takes requests in the order they came.
SubmitUpload ==
    /\ queue # << >>
    /\ table' = [i \in DOMAIN table |-> IF i \in DOMAIN Head(queue) THEN Head(queue)[i] ELSE table[i]]
    /\ queue' = Tail(queue)
    /\ UNCHANGED <<handles, values, sparse, mapping, capacity, dirty, lost, world>>

MarkDeviceLost ==
    /\ ~lost
    /\ lost' = TRUE
    /\ UNCHANGED <<handles, values, sparse, mapping, capacity, dirty, table, queue, world>>

Next ==
    /\ steps < MaxSteps
    /\ steps' = steps + 1
    /\ \/ \E snapshot \in Worlds : Synchronize(snapshot) \/ AllocationFails(snapshot)
       \/ UploadDirty \/ UploadRefused \/ SubmitUpload \/ MarkDeviceLost

Spec == Init /\ [][Next]_vars

-----------------------------------------------------------------------------
(* Properties. *)

TypeOK ==
    /\ Len(handles) = Len(values)
    /\ dirty \subseteq 1..capacity
    /\ Len(handles) <= capacity
    /\ Len(table) = capacity
    /\ lost \in BOOLEAN /\ steps \in 0..MaxSteps

\* The dense table and its index point at each other, and an identifier is
\* mapped exactly while its record is in the table: the index a draw gets from
\* Resolve is the record of that object, however records were swapped.
DenseExact ==
    /\ \A i \in DOMAIN handles :
           /\ sparse[handles[i].index] = [generation |-> handles[i].generation, dense |-> i]
           /\ values[i].id = handles[i]
    /\ \A x \in Indices :
           (mapping[x].generation # 0) <=> \E i \in DOMAIN handles : handles[i].index = x

\* Synchronize leaves the objects of the snapshot in the table and no other,
\* each packed from the version the snapshot has.
ShowsTheSnapshot ==
    {values[i] : i \in DOMAIN values} = {world[i] : i \in DOMAIN world}

\* When the dirty ranges are uploaded and submitted, the device reads what the
\* processor has: no change escapes the marks, not those made beyond the room
\* of the table while old and new objects are in it, nor those of a table that
\* grew or of uploads that were refused.
DeviceReadsTheTable ==
    ~lost /\ dirty = {} /\ queue = << >> =>
        \A i \in DOMAIN values : table[i] = values[i]
====
