---- MODULE RenderScene ----
(***************************************************************************)
(* A scene between the threads that change it and the frame that draws it: *)
(* SceneMutation (modules/gfx/src/runtime/scenes.cpp), the identifiers and *)
(* the change journal of RenderScene (render_scene.cpp), and the builder   *)
(* that coalesces a drained journal into the next snapshot                 *)
(* (render_world.cpp).  Calls on one mutation run under the mutex of the   *)
(* scene and are atomic; frames drain the journal between any two of them. *)
(*                                                                         *)
(* Kind is what the scene holds: objects, whose updates are patches of     *)
(* some fields, or lights, whose updates replace the whole value.  Views   *)
(* are journalled and applied like lights.  The value a change carries is  *)
(* its sequence number, so that no two changes carry the same one.         *)
(***************************************************************************)
EXTENDS Integers, Sequences, FiniteSets, TLC

LOCAL Seqs == INSTANCE SequencesExt

CONSTANTS
    Kind,            \* "object" or "light"
    Mutators,        \* the mutations that may be open at once
    Fields,          \* the fields of an object or a light
    WriterChanges,   \* changes a writer buffers before it flushes
    PendingChanges,  \* changes the journal holds between two frames
    MaxSlots,        \* bound on the identifiers in use at once
    MaxSequence,     \* bound on the changes pushed
    MaxEpoch         \* bound on the frames

VARIABLES
    slots,      \* IdSlot of each identifier index
    free,       \* indices free for reuse, the last one is reused first
    versions,   \* object_versions: what the scene knows, and its newest version
    mutation,   \* the state of each SceneMutation and of its journal writer
    epoch,      \* frames that drained the journal
    sequence,   \* sequence number of the next change
    pending,    \* changes merged into the journal and not drained yet
    shown,      \* the newest snapshot: what is drawn, with versions and values
    marks,      \* newest generation the builder has seen at each index
    committed,  \* what the committed mutations, one after the other, ask for
    torn        \* mutations overlapped, or one failed or was cancelled half published

vars == <<slots, free, versions, mutation, epoch, sequence, pending, shown, marks, committed, torn>>
ids == <<slots, free>>

Id == [index : 1..MaxSlots, generation : 1..MaxSequence]
Change == [kind : {"create", "update", "destroy"}, id : Id, version : 1..(MaxSequence + 1),
           sequence : 1..MaxSequence, fields : SUBSET Fields]
Nothing == << >>   \* the function with the empty domain

With(f, x, value) == [y \in DOMAIN f \union {x} |-> IF y = x THEN value ELSE f[y]]
Without(f, gone) == [x \in DOMAIN f \ gone |-> f[x]]
InOrder(changes) == Seqs!SetToSortSeq(changes, LAMBDA a, b : a.sequence < b.sequence)

Closed == [open |-> FALSE, epoch |-> 1, buffer |-> {}, log |-> {}, initial |-> Nothing,
           created |-> << >>, destroyed |-> << >>]

Init ==
    /\ slots = << >> /\ free = << >>
    /\ versions = Nothing
    /\ mutation = [m \in Mutators |-> Closed]
    /\ epoch = 1 /\ sequence = 1
    /\ pending = {}
    /\ shown = Nothing
    /\ marks = [index \in 1..MaxSlots |-> 0]
    /\ committed = Nothing
    /\ torn = FALSE

-----------------------------------------------------------------------------
(* Identifiers: RenderScene::Allocate and Release. *)

NextIndex == IF free = << >> THEN Len(slots) + 1 ELSE free[Len(free)]
Allocatable == free # << >> \/ Len(slots) < MaxSlots
NextId == [index |-> NextIndex,
           generation |-> IF free = << >> THEN 1 ELSE slots[NextIndex].generation]
Allocated ==
    IF free = << >>
    THEN [slots |-> Append(slots, [generation |-> 1, live |-> TRUE]), free |-> free]
    ELSE [slots |-> [slots EXCEPT ![NextIndex].live = TRUE], free |-> SubSeq(free, 1, Len(free) - 1)]

\* What Release looks for: the slot is in use, and by this identifier.
InUse(table, id) ==
    table.slots[id.index].live /\ table.slots[id.index].generation = id.generation

\* Variants of definitions below, each with one plausible mistake.
ReleaseUnchecked(table, id) ==
    [slots |-> [table.slots EXCEPT ![id.index] = [generation |-> @.generation + 1, live |-> FALSE]],
     free |-> Append(table.free, id.index)]

Release(table, id) ==
    IF InUse(table, id)
    THEN [slots |-> [table.slots EXCEPT ![id.index] = [generation |-> @.generation + 1, live |-> FALSE]],
          free |-> Append(table.free, id.index)]
    ELSE table
ReleaseAll(table, list) ==
    LET after[n \in 0..Len(list)] == IF n = 0 THEN table ELSE Release(after[n - 1], list[n])
    IN  after[Len(list)]

-----------------------------------------------------------------------------
(* The journal: Writer::Push, Writer::Flush and Merge. *)

\* Variants of definitions below, each with one plausible mistake.
FitsEmpty(changes) == Cardinality(changes) <= PendingChanges

FitsJournal(changes) == Cardinality(changes) <= PendingChanges - Cardinality(pending)

\* Push flushes first what was buffered before a frame, and a full buffer.
MustFlush(m) ==
    \/ mutation[m].epoch # epoch
    \/ Cardinality(mutation[m].buffer) >= WriterChanges
CanPush(m) == MustFlush(m) => FitsJournal(mutation[m].buffer)

AfterFlush(m) == IF MustFlush(m) THEN pending \union mutation[m].buffer ELSE pending

Push(m, kind, id, version, fields) ==
    LET change == [kind |-> kind, id |-> id, version |-> version, sequence |-> sequence,
                   fields |-> fields]
    IN  /\ sequence <= MaxSequence
        /\ sequence' = sequence + 1
        /\ pending' = AfterFlush(m)
        /\ mutation' = [mutation EXCEPT
               ![m].epoch = epoch,
               ![m].buffer = (IF MustFlush(m) THEN {} ELSE @) \union {change},
               ![m].log = @ \union {change},
               ![m].created = IF kind = "create" THEN Append(@, id) ELSE @,
               ![m].destroyed = IF kind = "destroy" THEN Append(@, id) ELSE @]

-----------------------------------------------------------------------------
(* SceneMutation. *)

Open(m) ==
    /\ ~mutation[m].open
    /\ mutation' = [mutation EXCEPT ![m] =
           [Closed EXCEPT !.open = TRUE, !.epoch = epoch, !.initial = versions]]
    /\ torn' = (torn \/ \E other \in Mutators : mutation[other].open)
    /\ UNCHANGED <<ids, versions, epoch, sequence, pending, shown, marks, committed>>

Create(m) ==
    /\ mutation[m].open
    /\ Allocatable
    /\ \/ /\ CanPush(m)
          /\ Push(m, "create", NextId, 1, Fields)
          /\ slots' = Allocated.slots /\ free' = Allocated.free
          /\ versions' = With(versions, NextId, 1)
       \/ /\ ~CanPush(m)
          /\ NextId.generation < MaxSequence
          /\ slots' = Release(Allocated, NextId).slots
          /\ free' = Release(Allocated, NextId).free
          /\ UNCHANGED <<versions, mutation, sequence, pending>>
    /\ UNCHANGED <<epoch, shown, marks, committed, torn>>

\* The version moves even when the change is refused.
Update(m, id, fields) ==
    /\ mutation[m].open
    /\ versions[id] <= MaxSequence
    /\ versions' = [versions EXCEPT ![id] = @ + 1]
    /\ \/ CanPush(m) /\ Push(m, "update", id, versions[id] + 1, fields)
       \/ ~CanPush(m) /\ UNCHANGED <<mutation, sequence, pending>>
    /\ UNCHANGED <<ids, epoch, shown, marks, committed, torn>>

Destroy(m, id) ==
    /\ mutation[m].open
    /\ versions[id] <= MaxSequence
    /\ \/ /\ CanPush(m)
          /\ Push(m, "destroy", id, versions[id] + 1, {})
          /\ versions' = Without(versions, {id})
       \/ /\ ~CanPush(m)
          /\ versions' = [versions EXCEPT ![id] = @ + 1]
          /\ UNCHANGED <<mutation, sequence, pending>>
    /\ UNCHANGED <<ids, epoch, shown, marks, committed, torn>>

\* The meaning of one change, without versions: what the caller asked for.
Asked(value, change) ==
    CASE change.kind = "create" -> (change.id :> [f \in Fields |-> change.sequence]) @@ value
      [] change.kind = "update" /\ change.id \in DOMAIN value ->
             [value EXCEPT ![change.id] = [f \in Fields |->
                 IF f \in change.fields THEN change.sequence ELSE @[f]]]
      [] change.kind = "destroy" -> Without(value, {change.id})
      [] OTHER -> value

\* Commit releases what the mutation destroyed, one after the other.
Freed(m, n) ==
    ReleaseAll([slots |-> slots, free |-> free], SubSeq(mutation[m].destroyed, 1, n))
Releasable(m, n) == \A k \in 1..n : InUse(Freed(m, k - 1), mutation[m].destroyed[k])

Commit(m) ==
    /\ mutation[m].open
    /\ FitsJournal(mutation[m].buffer)
    /\ Releasable(m, Len(mutation[m].destroyed))
    /\ pending' = pending \union mutation[m].buffer
    /\ LET table == ReleaseAll([slots |-> slots, free |-> free], mutation[m].destroyed)
       IN  slots' = table.slots /\ free' = table.free
    /\ committed' = Seqs!FoldLeft(Asked, committed, InOrder(mutation[m].log))
    /\ mutation' = [mutation EXCEPT ![m] = Closed]
    /\ UNCHANGED <<versions, epoch, sequence, shown, marks, torn>>

\* Another mutation has released one of them: the commit fails, published but
\* not final.  The identifiers before it are released, those after it are not,
\* and no commit of this mutation can succeed again.
CommitStale(m) ==
    /\ mutation[m].open
    /\ FitsJournal(mutation[m].buffer)
    /\ \E n \in 0..(Len(mutation[m].destroyed) - 1) :
           /\ Releasable(m, n) /\ ~Releasable(m, n + 1)
           /\ slots' = Freed(m, n).slots /\ free' = Freed(m, n).free
    /\ pending' = pending \union mutation[m].buffer
    /\ mutation' = [mutation EXCEPT
           ![m].epoch = IF mutation[m].buffer = {} THEN @ ELSE epoch,
           ![m].buffer = {}]
    /\ torn' = TRUE
    /\ UNCHANGED <<versions, epoch, sequence, shown, marks, committed>>

\* Cancel puts back the versions the mutation found when it was opened.
Restored(m) == mutation[m].initial

Cancel(m) ==
    /\ mutation[m].open
    /\ LET table == ReleaseAll([slots |-> slots, free |-> free], mutation[m].created)
       IN  slots' = table.slots /\ free' = table.free
    /\ versions' = Restored(m)
    /\ torn' = (torn \/ mutation[m].log # mutation[m].buffer)
    /\ mutation' = [mutation EXCEPT ![m] = Closed]
    /\ UNCHANGED <<epoch, sequence, pending, shown, marks, committed>>

-----------------------------------------------------------------------------
(* The frame: FreezeAndDrain, Coalesce and RenderWorldBuilder::Apply. *)

\* One step of Coalesce for lights and views: the last change stands for all.
CoalesceValue(merged, incoming) ==
    LET prior == merged[incoming.id]
    IN  IF incoming.id \notin DOMAIN merged THEN (incoming.id :> incoming) @@ merged
        ELSE IF prior.kind = "destroy" THEN merged
        ELSE IF incoming.kind = "destroy" /\ prior.kind = "create"
        THEN Without(merged, {incoming.id})
        ELSE IF incoming.version <= prior.version THEN merged
        ELSE [merged EXCEPT ![incoming.id] = incoming]

\* One step of Coalesce for objects: the patches of one object become one.
CoalesceObject(merged, incoming) ==
    LET prior == merged[incoming.id]
    IN  IF incoming.id \notin DOMAIN merged THEN (incoming.id :> incoming) @@ merged
        ELSE IF prior.kind = "destroy" THEN merged
        ELSE IF incoming.kind = "destroy" THEN
             IF prior.kind = "create" THEN Without(merged, {incoming.id})
             ELSE IF incoming.version >= prior.version
             THEN [merged EXCEPT ![incoming.id] = incoming] ELSE merged
        ELSE IF incoming.kind # "update" \/ incoming.version <= prior.version THEN merged
        ELSE [merged EXCEPT ![incoming.id] =
                 [prior EXCEPT !.version = incoming.version, !.sequence = incoming.sequence,
                               !.values = [f \in DOMAIN prior.values \union incoming.fields |->
                                   IF f \in incoming.fields THEN incoming.sequence
                                   ELSE prior.values[f]]]]

Valued(change) ==
    [kind |-> change.kind, id |-> change.id, version |-> change.version,
     sequence |-> change.sequence, fields |-> change.fields,
     values |-> [f \in change.fields |-> change.sequence]]

Coalesce(changes) ==
    LET merged == Seqs!FoldLeft(
            LAMBDA acc, change : IF Kind = "object" THEN CoalesceObject(acc, Valued(change))
                                 ELSE CoalesceValue(acc, Valued(change)),
            Nothing, InOrder(changes))
    IN  InOrder({merged[id] : id \in DOMAIN merged})

\* Variants of definitions below, each with one plausible mistake.
NewerAlways(change, version) == TRUE

\* A destroy may repeat the version it destroys, an update may not.
Newer(change, version) ==
    IF change.kind = "destroy" THEN change.version >= version ELSE change.version > version

\* An object is refused while another one is live at its index.
MayAppear(world, change) ==
    /\ change.id.generation > world.marks[change.id.index]
    /\ IF Kind = "object"
       THEN \A id \in DOMAIN world.shown : id.index # change.id.index
       ELSE change.id \notin DOMAIN world.shown

ApplyChange(world, change) ==
    LET id == change.id
        marked == [world.marks EXCEPT ![id.index] = id.generation]
    IN  CASE change.kind = "create" /\ MayAppear(world, change) ->
                 [shown |-> (id :> [version |-> change.version, values |-> change.values]) @@ world.shown,
                  marks |-> marked]
          [] change.kind = "update" /\ id \in DOMAIN world.shown
                 /\ Newer(change, world.shown[id].version) ->
                 [world EXCEPT !.shown[id] =
                     [version |-> change.version, values |-> change.values @@ @.values]]
          [] change.kind = "destroy" /\ id \in DOMAIN world.shown
                 /\ Newer(change, world.shown[id].version) ->
                 [shown |-> Without(world.shown, {id}), marks |-> marked]
          [] OTHER -> world

Frame ==
    /\ epoch < MaxEpoch
    /\ epoch' = epoch + 1
    /\ pending' = {}
    /\ LET next == Seqs!FoldLeft(ApplyChange, [shown |-> shown, marks |-> marks], Coalesce(pending))
       IN  shown' = next.shown /\ marks' = next.marks
    /\ UNCHANGED <<ids, versions, mutation, sequence, committed, torn>>

Step(m) ==
    \/ Open(m) \/ Create(m) \/ Commit(m) \/ CommitStale(m) \/ Cancel(m)
    \/ \E id \in DOMAIN versions :
           \/ Destroy(m, id)
           \/ \E f \in Fields : Update(m, id, IF Kind = "object" THEN {f} ELSE Fields)
Next == Frame \/ \E m \in Mutators : Step(m)

Spec == Init /\ [][Next]_vars

-----------------------------------------------------------------------------
(* Properties. *)

\* The journal, the buffers and the snapshot stay within their limits and types.
TypeOK ==
    /\ \A i \in DOMAIN slots : slots[i] \in [generation : 1..(MaxSequence + 1), live : BOOLEAN]
    /\ DOMAIN versions \subseteq Id
    /\ pending \subseteq Change /\ Cardinality(pending) <= PendingChanges
    /\ \A m \in Mutators : /\ mutation[m].buffer \subseteq Change
                           /\ Cardinality(mutation[m].buffer) <= WriterChanges
    /\ \A id \in DOMAIN shown : id \in Id /\ DOMAIN shown[id].values = Fields
    /\ epoch \in 1..MaxEpoch /\ sequence \in 1..(MaxSequence + 1)

\* An index is free once or in use, never both, however mutations that create
\* and destroy the same identifiers are committed, cancelled, or fail to commit
\* because another one has released what they destroyed.
IndicesAccounted ==
    /\ \A i, j \in DOMAIN free : free[i] = free[j] => i = j
    /\ \A i \in DOMAIN slots : slots[i].live <=> i \notin {free[j] : j \in DOMAIN free}

Settled == pending = {} /\ \A m \in Mutators : ~mutation[m].open
Newest == {[index |-> i, generation |-> slots[i].generation] : i \in DOMAIN slots}
Values == [id \in DOMAIN shown |-> shown[id].values]

\* When everything committed has been drained, the snapshot shows what the
\* mutations asked for, whatever was coalesced, flushed early, or refused and
\* committed again; the scene still knows it, and has no other identifier in use.
SettledShowsCommitted ==
    Settled /\ ~torn => /\ Values = committed
                        /\ DOMAIN versions = DOMAIN committed
                        /\ {id \in Newest : InUse([slots |-> slots], id)} = DOMAIN versions

\* What was created and committed is in the snapshot once it has been drained.
CreatedIsShown == Settled /\ ~torn => DOMAIN committed \subseteq DOMAIN shown

\* A snapshot never takes an object back to an older version, even when
\* mutations of one object overlap and are drained out of order.
VersionsAdvance ==
    [][\A id \in DOMAIN shown \intersect DOMAIN shown' :
           shown'[id].version >= shown[id].version]_vars
====
