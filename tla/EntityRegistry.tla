---- MODULE EntityRegistry ----
(***************************************************************************)
(* The registry of entities and their components (modules/ecs/include/woki *)
(* /ecs/registry.hpp): generations and free list, the dense array of live  *)
(* entities, one sparse set per component type, and a view whose callback  *)
(* may create, destroy and change entities while it iterates.              *)
(* Positions count from one; 0 stands for kInvalidPosition.                *)
(***************************************************************************)
EXTENDS Integers, Sequences, FiniteSets, TLC

CONSTANTS
    Components,     \* component types
    MaxEntities,    \* bound on the indices in use
    MaxGeneration   \* bound on the generations of an index, far below its wrap

RegistryAssumption == MaxEntities \in Nat /\ MaxGeneration \in Nat

VARIABLES
    generations,   \* generations_
    positions,     \* entity_positions_
    entities,      \* entities_
    freeList,      \* free_list_, the last index is reused first
    storages,      \* storages_: per type, whether it exists, sparse_ and entities_
    view,          \* a view being iterated
    dead           \* handles of entities destroyed or cleared

vars == <<generations, positions, entities, freeList, storages, view, dead>>
table == <<generations, positions, entities, freeList>>

Indices == 1..MaxEntities
Entity == [index : Indices, generation : 0..MaxGeneration]
RangeOf(list) == {list[i] : i \in DOMAIN list}

NoView == [open |-> FALSE, wanted |-> {}, list |-> << >>, at |-> 1, visited |-> << >>, due |-> {}]
Absent == [made |-> FALSE, sparse |-> [i \in Indices |-> 0], entities |-> << >>]

Init ==
    /\ generations = << >> /\ positions = << >> /\ entities = << >> /\ freeList = << >>
    /\ storages = [c \in Components |-> Absent]
    /\ view = NoView
    /\ dead = {}

Valid(e) ==
    /\ e.index <= Len(generations)
    /\ positions[e.index] # 0
    /\ generations[e.index] = e.generation

-----------------------------------------------------------------------------
(* ComponentStorage. *)

Contains(storage, e) ==
    LET position == storage.sparse[e.index]
    IN  position # 0 /\ position <= Len(storage.entities) /\ storage.entities[position] = e

Put(storage, e) ==
    [made |-> TRUE,
     sparse |-> [storage.sparse EXCEPT ![e.index] = Len(storage.entities) + 1],
     entities |-> Append(storage.entities, e)]

\* Remove: the last entity takes the place of the removed one.
Take(storage, e) ==
    LET position == storage.sparse[e.index]
        last == Len(storage.entities)
        moved == storage.entities[last]
    IN  IF ~Contains(storage, e) THEN storage
        ELSE [made |-> TRUE,
              sparse |-> [[storage.sparse EXCEPT ![moved.index] = position] EXCEPT ![e.index] = 0],
              entities |-> SubSeq([storage.entities EXCEPT ![position] = moved], 1, last - 1)]

Emptied(storage) == [Absent EXCEPT !.made = storage.made]

Has(c, e) == Valid(e) /\ storages[c].made /\ Contains(storages[c], e)
AllOf(wanted, e) == \A c \in wanted : Has(c, e)

-----------------------------------------------------------------------------
(* Registry. *)

Create ==
    /\ \/ /\ freeList # << >>
          /\ LET index == freeList[Len(freeList)]
             IN  /\ entities' = Append(entities, [index |-> index, generation |-> generations[index]])
                 /\ positions' = [positions EXCEPT ![index] = Len(entities) + 1]
          /\ freeList' = SubSeq(freeList, 1, Len(freeList) - 1)
          /\ UNCHANGED generations
       \/ /\ freeList = << >> /\ Len(generations) < MaxEntities
          /\ generations' = Append(generations, 0)
          /\ positions' = Append(positions, Len(entities) + 1)
          /\ entities' = Append(entities, [index |-> Len(generations) + 1, generation |-> 0])
          /\ UNCHANGED freeList
    /\ UNCHANGED <<storages, view, dead>>

\* Variants of definitions below, each with one plausible mistake.
PositionsOnlyCleared(e) == [positions EXCEPT ![e.index] = 0]

\* The last entity takes the place of the destroyed one.
PositionsWithout(e) ==
    [[positions EXCEPT ![entities[Len(entities)].index] = positions[e.index]] EXCEPT ![e.index] = 0]

\* Variants of definitions below, each with one plausible mistake.
StoragesUntouched(e) == storages

\* Destroy takes the entity out of every storage first.
StoragesWithout(e) == [c \in Components |-> Take(storages[c], e)]

Destroy(e) ==
    /\ Valid(e)
    /\ generations[e.index] < MaxGeneration
    /\ storages' = StoragesWithout(e)
    /\ entities' = SubSeq([entities EXCEPT ![positions[e.index]] = entities[Len(entities)]],
                         1, Len(entities) - 1)
    /\ positions' = PositionsWithout(e)
    /\ generations' = [generations EXCEPT ![e.index] = @ + 1]
    /\ freeList' = Append(freeList, e.index)
    /\ dead' = dead \union {e}
    /\ view' = [view EXCEPT !.due = @ \ {e}]

\* Variants of definitions below, each with one plausible mistake.
SameGeneration(index) == generations[index]

\* Clear moves every index on to its next generation, the free ones too.
NextGeneration(index) == generations[index] + 1

Clear ==
    /\ \A i \in DOMAIN generations : generations[i] < MaxGeneration
    /\ generations' = [i \in DOMAIN generations |-> NextGeneration(i)]
    /\ positions' = [i \in DOMAIN positions |-> 0]
    /\ entities' = << >>
    /\ freeList' = [i \in DOMAIN generations |-> i]
    /\ storages' = [c \in Components |-> Emptied(storages[c])]
    /\ dead' = dead \union RangeOf(entities)
    /\ view' = [view EXCEPT !.due = {}]

Emplace(c, e) ==
    /\ Valid(e) /\ ~Has(c, e)
    /\ storages' = [storages EXCEPT ![c] = Put(@, e)]
    /\ UNCHANGED <<table, view, dead>>

Remove(c, e) ==
    /\ Contains(storages[c], e)
    /\ storages' = [storages EXCEPT ![c] = Take(@, e)]
    /\ view' = [view EXCEPT !.due = IF c \in view.wanted THEN @ \ {e} ELSE @]
    /\ UNCHANGED <<table, dead>>

ClearComponent(c) ==
    /\ storages[c].entities # << >>
    /\ storages' = [storages EXCEPT ![c] = Emptied(@)]
    /\ view' = [view EXCEPT !.due = IF c \in view.wanted THEN {} ELSE @]
    /\ UNCHANGED <<table, dead>>

-----------------------------------------------------------------------------
(* BasicView. *)

\* SelectLeadStorage: a smallest storage, none when a wanted one is missing.
Leads(wanted) ==
    {c \in wanted : \A other \in wanted :
        Len(storages[c].entities) <= Len(storages[other].entities)}

Begin(wanted) ==
    /\ ~view.open
    /\ \E lead \in Leads(wanted) :
           view' = [open |-> TRUE, wanted |-> wanted,
                    list |-> IF \A c \in wanted : storages[c].made
                             THEN storages[lead].entities ELSE << >>,
                    at |-> 1, visited |-> << >>,
                    due |-> {e \in RangeOf(entities) : AllOf(wanted, e)}]
    /\ UNCHANGED <<table, storages, dead>>

\* Variants of definitions below, each with one plausible mistake.
IteratedLive == storages[CHOOSE c \in view.wanted : TRUE].entities

\* The view iterates over its own copy of the entities of the lead storage.
Iterated == view.list

\* Advance skips what has lost a component since; then comes the callback.
Skips(from, to) == \A i \in from..(to - 1) : ~AllOf(view.wanted, Iterated[i])
Visit ==
    /\ view.open
    /\ \E i \in view.at..Len(Iterated) :
           /\ Skips(view.at, i) /\ AllOf(view.wanted, Iterated[i])
           /\ view' = [view EXCEPT !.at = i + 1, !.visited = Append(@, Iterated[i]),
                                   !.due = @ \ {Iterated[i]}]
    /\ UNCHANGED <<table, storages, dead>>

Ended == view.open /\ Skips(view.at, Len(Iterated) + 1)
End == Ended /\ view' = NoView /\ UNCHANGED <<table, storages, dead>>

Next ==
    \/ Create \/ Clear \/ Visit \/ End
    \/ \E e \in RangeOf(entities) : Destroy(e)
    \/ \E c \in Components, e \in RangeOf(entities) : Emplace(c, e) \/ Remove(c, e)
    \/ \E c \in Components : ClearComponent(c)
    \/ \E wanted \in (SUBSET Components) \ {{}} : Begin(wanted)

Spec == Init /\ [][Next]_vars

-----------------------------------------------------------------------------
(* Properties. *)

\* The arrays of the registry describe one another: an index is free once or
\* has one live entity, at the position recorded for it.
TypeOK ==
    /\ Len(positions) = Len(generations)
    /\ RangeOf(entities) \subseteq Entity
    /\ \A i \in DOMAIN entities : Valid(entities[i]) /\ positions[entities[i].index] = i
    /\ \A i, j \in DOMAIN freeList : freeList[i] = freeList[j] => i = j
    /\ RangeOf(freeList) = {i \in DOMAIN positions : positions[i] = 0}

\* A handle that was destroyed or cleared is never valid again, for as long
\* as no generation has come round.
StaleStaysStale == \A e \in dead : ~Valid(e)

\* Every storage holds live entities only, each once, where its sparse array
\* says: what a component lookup returns belongs to the entity asked for.
StoragesExact ==
    \A c \in Components :
        /\ \A i \in DOMAIN storages[c].entities :
               Valid(storages[c].entities[i])
               /\ storages[c].sparse[storages[c].entities[i].index] = i
        /\ \A x \in Indices : storages[c].sparse[x] # 0 =>
               \E i \in DOMAIN storages[c].entities : storages[c].entities[i].index = x

\* A view that came to its end has visited every entity that had all wanted
\* components from its beginning on, and none twice, whatever its callback
\* created, destroyed or removed on the way.
ViewVisitsAll ==
    /\ Ended => view.due = {}
    /\ \A i, j \in DOMAIN view.visited : view.visited[i] = view.visited[j] => i = j
====
