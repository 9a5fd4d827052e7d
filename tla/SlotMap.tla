---- MODULE SlotMap ----
(***************************************************************************)
(* SlotMap (modules/core/include/woki/data/slot_map.hpp): values behind    *)
(* handles of an index and a generation.  An index whose generations are   *)
(* used up is retired instead of being given out again.                    *)
(***************************************************************************)
EXTENDS Integers, Sequences, FiniteSets

CONSTANTS
    MaxSlots,        \* bound on the slots
    MaxGeneration    \* the largest generation the type holds

ASSUME BoundsAssumption == MaxSlots \in Nat /\ MaxGeneration \in Nat \ {0}

VARIABLES
    count,        \* slots_.size()
    generation,   \* generation of each slot
    filled,       \* slots that hold a value
    free,         \* free_, the last index is reused first
    size,         \* size_
    removed       \* handles whose value was removed

vars == <<count, generation, filled, free, size, removed>>

Indices == 1..MaxSlots
Handle == [index : Indices, generation : 1..MaxGeneration]

Init ==
    /\ count = 0
    /\ generation = [i \in Indices |-> 1]
    /\ filled = {}
    /\ free = << >>
    /\ size = 0
    /\ removed = {}

Contains(h) == h.index <= count /\ generation[h.index] = h.generation /\ h.index \in filled

EmplaceNew ==
    /\ free = << >>
    /\ count < MaxSlots
    /\ count' = count + 1
    /\ filled' = filled \union {count + 1}
    /\ size' = size + 1
    /\ UNCHANGED <<generation, free, removed>>

\* Variants of definitions below, each with one plausible mistake.
Oldest == free[1]

Reused == free[Len(free)]

EmplaceFreed ==
    /\ free # << >>
    /\ filled' = filled \union {Reused}
    /\ free' = SubSeq(free, 1, Len(free) - 1)
    /\ size' = size + 1
    /\ UNCHANGED <<count, generation, removed>>

\* Variants of definitions below, each with one plausible mistake.
NeverRetired(i) == TRUE

Reusable(i) == generation[i] # MaxGeneration

Remove(h) ==
    /\ Contains(h)
    /\ filled' = filled \ {h.index}
    /\ size' = size - 1
    /\ IF Reusable(h.index)
       THEN /\ generation' = [generation EXCEPT ![h.index] = (@ % MaxGeneration) + 1]
            /\ free' = Append(free, h.index)
       ELSE UNCHANGED <<generation, free>>
    /\ removed' = removed \union {h}
    /\ UNCHANGED count

Next == EmplaceNew \/ EmplaceFreed \/ \E h \in Handle : Remove(h)

Spec == Init /\ [][Next]_vars

-----------------------------------------------------------------------------
(* Properties. *)

\* The counters, the slots and the free list agree: a free index is free once
\* and holds no value.
TypeOK ==
    /\ count \in 0..MaxSlots
    /\ generation \in [Indices -> 1..MaxGeneration]
    /\ filled \subseteq 1..count
    /\ free \in Seq(1..count)
    /\ \A i \in DOMAIN free : free[i] \notin filled
    /\ \A i, j \in DOMAIN free : free[i] = free[j] => i = j
    /\ size = Cardinality(filled)
    /\ removed \subseteq Handle

\* The handle of a removed value finds nothing, for as long as the map lives:
\* not even after every generation of its index was used.
RemovedStaysRemoved == \A h \in removed : ~Contains(h)
====
