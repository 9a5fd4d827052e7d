------------------------------ MODULE BufferPool ------------------------------
(***************************************************************************)
(* One GPU buffer cut into ranges: BufferRangeAllocator (best fit, aligned, *)
(* coalescing free list, slots with generations) and BufferPool over it     *)
(* (ranges given back while the GPU may still read them wait for the        *)
(* submission that used them).  modules/gfx/src/buffer_pool.cpp.            *)
(*                                                                          *)
(* The clients are the mesh, material, skinning, scene and canvas tables:   *)
(* they hold ranges, use them in submissions and give them back with the    *)
(* last ticket that used them, or without one when their kind of pool is    *)
(* told of every submission (MarkUsed).                                     *)
(***************************************************************************)
EXTENDS Integers, Sequences, FiniteSets

Seqs == INSTANCE SequencesExt

CONSTANTS
    Capacity,         \* bytes of the buffer
    Requests,         \* the [size, alignment] the clients ask for
    MaxAllocations,   \* bound: allocations made in a run
    MaxSubmissions    \* bound: submissions made in a run

ASSUME CapacityAssumption == Capacity \in Nat \ {0}
ASSUME RequestsAssumption ==
    \A r \in Requests : r.size \in Nat \ {0} /\ r.alignment \in Nat \ {0}

VARIABLES
    free,       \* free_ranges_: a set of [offset, size]
    slots,      \* slots_: generation, range and whether it is live
    freeSlots,  \* free_slots_: a stack of slot indices
    retired,    \* retired_: the ids that wait, with the ticket they wait for
    lastUsed,   \* last_used_, None when no submission was marked
    lost,       \* residency_lost_
    marks,      \* whether the clients of this pool call MarkUsed
    held,       \* the ids the clients hold, each with the last ticket that used it
    given,      \* the ids the clients have given back
    inFlight,   \* the submissions the GPU has not finished: ticket -> ranges it reads
    made,       \* allocations made so far
    submitted   \* tickets issued so far

vars == <<free, slots, freeSlots, retired, lastUsed, lost, marks,
          held, given, inFlight, made, submitted>>

None == 0
End(range) == range.offset + range.size
Bytes(range) == range.offset .. (End(range) - 1)

Init ==
    /\ free = {[offset |-> 0, size |-> Capacity]}
    /\ slots = << >>
    /\ freeSlots = << >>
    /\ retired = << >>
    /\ lastUsed = None
    /\ lost = FALSE
    /\ marks \in BOOLEAN
    /\ held = << >>
    /\ given = {}
    /\ inFlight = << >>
    /\ made = 0
    /\ submitted = 0

------------------------------------------------------------------------------
(* BufferRangeAllocator *)

AlignUp(offset, alignment) == ((offset + alignment - 1) \div alignment) * alignment

(* Variants of definitions below, each with one plausible mistake. *)
OnlyAfter(ranges, range) ==
    LET after == {r \in ranges : End(range) = r.offset}
        last == IF after = {} THEN End(range) ELSE End(CHOOSE r \in after : TRUE)
    IN  (ranges \ after) \cup {[offset |-> range.offset, size |-> last - range.offset]}
StaysLive(slot) == [slot EXCEPT !.offset = 0, !.size = 0, !.generation = @ + 1]
KeepsGeneration(slot) == [slot EXCEPT !.offset = 0, !.size = 0, !.live = FALSE]

Fits(range, request) ==
    AlignUp(range.offset, request.alignment) + request.size <= End(range)

(* The fitting range that wastes least; among equals the first one. *)
Best(request) ==
    LET fitting == {r \in free : Fits(r, request)}
        least == {r \in fitting : \A s \in fitting : r.size <= s.size}
    IN  CHOOSE r \in least : \A s \in least : r.offset <= s.offset

(* InsertFree: a freed range swallows the neighbours it touches. *)
Coalesce(ranges, range) ==
    LET before == {r \in ranges : End(r) = range.offset}
        after == {r \in ranges : End(range) = r.offset}
        first == IF before = {} THEN range.offset ELSE (CHOOSE r \in before : TRUE).offset
        last == IF after = {} THEN End(range) ELSE End(CHOOSE r \in after : TRUE)
    IN  (ranges \ (before \cup after)) \cup {[offset |-> first, size |-> last - first]}

(* What is left of the range an allocation was cut from. *)
Leftover(source, taken) ==
    {r \in {[offset |-> source.offset, size |-> taken.offset - source.offset],
            [offset |-> End(taken), size |-> End(source) - End(taken)]} : r.size > 0}

Contains(id) ==
    /\ slots[id.slot].live
    /\ slots[id.slot].generation = id.generation

RangeOf(id) == [offset |-> slots[id.slot].offset, size |-> slots[id.slot].size]

Freed(slot) == [slot EXCEPT !.offset = 0, !.size = 0, !.live = FALSE,
                            !.generation = @ + 1]

(* The allocator's Free of each of a sequence of live ids. *)
Release(ids) ==
    /\ free' = Seqs!FoldLeft(LAMBDA ranges, id : Coalesce(ranges, RangeOf(id)), free, ids)
    /\ slots' = [s \in DOMAIN slots |->
                    IF \E i \in DOMAIN ids : ids[i].slot = s
                    THEN Freed(slots[s]) ELSE slots[s]]
    /\ freeSlots' = freeSlots \o [i \in DOMAIN ids |-> ids[i].slot]

------------------------------------------------------------------------------
(* BufferPool *)

Allocate(request) ==
    /\ ~lost /\ made < MaxAllocations
    /\ \E r \in free : Fits(r, request)
    /\ LET source == Best(request)
           taken == [offset |-> AlignUp(source.offset, request.alignment),
                     size |-> request.size]
           slot == IF freeSlots = << >> THEN Len(slots) + 1 ELSE Seqs!Last(freeSlots)
           generation == IF freeSlots = << >> THEN 1 ELSE slots[slot].generation
           entry == [generation |-> generation, offset |-> taken.offset,
                     size |-> taken.size, live |-> TRUE]
           id == [slot |-> slot, generation |-> generation]
       IN  /\ free' = (free \ {source}) \cup Leftover(source, taken)
           /\ slots' = [s \in DOMAIN slots \cup {slot} |->
                            IF s = slot THEN entry ELSE slots[s]]
           /\ freeSlots' = IF freeSlots = << >> THEN freeSlots ELSE Seqs!Front(freeSlots)
           /\ held' = [i \in DOMAIN held \cup {id} |-> IF i = id THEN None ELSE held[i]]
    /\ made' = made + 1
    /\ UNCHANGED <<retired, lastUsed, lost, marks, given, inFlight, submitted>>

(* Free checks the id, then that it does not wait already. *)
Pending(id) == \E i \in DOMAIN retired : retired[i].id = id
Accepts(id) == Contains(id) /\ ~Pending(id)

(* Variants of definitions below, each with one plausible mistake. *)
NeverRipe(entry) == entry.safeAfter = None
RipeOneEarly(entry) == \A t \in DOMAIN inFlight : entry.safeAfter <= t

(* The submission a freed range waits for, if it waits for one. *)
Retirement(safeAfter) == IF safeAfter # None THEN safeAfter ELSE lastUsed

Free(id, safeAfter) ==
    /\ Accepts(id)
    /\ IF Retirement(safeAfter) = None
       THEN Release(<<id>>) /\ UNCHANGED retired
       ELSE /\ retired' = Append(retired, [id |-> id, safeAfter |-> Retirement(safeAfter)])
            /\ UNCHANGED <<free, slots, freeSlots>>
    /\ UNCHANGED <<lastUsed, lost, marks, inFlight, made, submitted>>

Refuse(id) == ~Accepts(id) /\ UNCHANGED vars

(* Submissions complete in order: SubmissionEpoch::HasReached. *)
Ripe(entry) == \A t \in DOMAIN inFlight : entry.safeAfter < t

Collect ==
    /\ \E i \in DOMAIN retired : Ripe(retired[i])
    /\ LET ripe == SelectSeq(retired, Ripe)
       IN  Release([i \in DOMAIN ripe |-> ripe[i].id])
    /\ retired' = SelectSeq(retired, LAMBDA entry : ~Ripe(entry))
    /\ UNCHANGED <<lastUsed, lost, marks, held, given, inFlight, made, submitted>>

MarkResidencyLost ==
    /\ ~lost /\ lost' = TRUE
    /\ UNCHANGED <<free, slots, freeSlots, retired, lastUsed, marks,
                   held, given, inFlight, made, submitted>>

------------------------------------------------------------------------------
(* The clients and the GPU *)

(* A submission that reads the ranges of some ids; the clients note its      *)
(* ticket and, in a pool that is told, call MarkUsed.                        *)
Use(ids) ==
    /\ submitted < MaxSubmissions
    /\ submitted' = submitted + 1
    /\ inFlight' = [t \in DOMAIN inFlight \cup {submitted'} |->
                        IF t = submitted' THEN {RangeOf(id) : id \in ids} ELSE inFlight[t]]
    /\ held' = [id \in DOMAIN held |-> IF id \in ids THEN submitted' ELSE held[id]]
    /\ lastUsed' = IF marks THEN submitted' ELSE lastUsed
    /\ UNCHANGED <<free, slots, freeSlots, retired, lost, marks, given, made>>

(* A client gives an id back; those of a pool that is told may omit the ticket. *)
GiveBack(id) ==
    /\ id \in DOMAIN held
    /\ \E safeAfter \in {held[id]} \cup (IF marks THEN {None} ELSE {}) : Free(id, safeAfter)
    /\ held' = [i \in DOMAIN held \ {id} |-> held[i]]
    /\ given' = given \cup {id}

(* A client gives back an id it has given back before. *)
GiveAgain(id) ==
    /\ id \in given
    /\ \/ Free(id, None) /\ UNCHANGED <<held, given>>
       \/ Refuse(id)

Complete ==
    /\ inFlight # << >>
    /\ LET first == CHOOSE t \in DOMAIN inFlight : \A u \in DOMAIN inFlight : t <= u
       IN  inFlight' = [t \in DOMAIN inFlight \ {first} |-> inFlight[t]]
    /\ UNCHANGED <<free, slots, freeSlots, retired, lastUsed, lost, marks,
                   held, given, made, submitted>>

Next ==
    \/ \E request \in Requests : Allocate(request)
    \/ \E ids \in SUBSET DOMAIN held : ids # {} /\ Use(ids)
    \/ \E id \in DOMAIN held : GiveBack(id)
    \/ \E id \in given : GiveAgain(id)
    \/ Complete
    \/ Collect
    \/ MarkResidencyLost

Fairness == WF_vars(Complete) /\ WF_vars(Collect)

Spec == Init /\ [][Next]_vars
FairSpec == Spec /\ Fairness

------------------------------------------------------------------------------
LiveSlots == {s \in DOMAIN slots : slots[s].live}
SlotRange(s) == [offset |-> slots[s].offset, size |-> slots[s].size]

RangeSet == [offset : 0 .. Capacity, size : 1 .. Capacity]
IdSet == [slot : 1 .. MaxAllocations, generation : 1 .. MaxAllocations]

TypeOK ==
    /\ free \in SUBSET RangeSet
    /\ Len(slots) <= MaxAllocations
    /\ \A s \in DOMAIN slots :
          /\ slots[s].generation \in 1 .. MaxAllocations + 1
          /\ slots[s].live => SlotRange(s) \in RangeSet
    /\ Seqs!ToSet(freeSlots) = DOMAIN slots \ LiveSlots
    /\ Seqs!IsInjective(freeSlots)
    /\ \A i \in DOMAIN retired : retired[i].safeAfter \in 1 .. submitted
    /\ lastUsed \in 0 .. submitted
    /\ DOMAIN held \subseteq IdSet /\ given \subseteq IdSet

(* Every byte of the buffer is in exactly one range, a free one or that of a *)
(* live allocation, and no two free ranges touch: nothing leaks when ranges  *)
(* are split for alignment or put together again.                            *)
Partitioned ==
    /\ \A b \in 0 .. Capacity - 1 :
          Cardinality({r \in free : b \in Bytes(r)})
            + Cardinality({s \in LiveSlots : b \in Bytes(SlotRange(s))}) = 1
    /\ \A r, s \in free : End(r) # s.offset

(* A range the GPU may still read is not free and not handed to another      *)
(* client: what waits for a submission waits long enough, whichever ticket   *)
(* the client gave.                                                          *)
NoReuseInFlight ==
    \A t \in DOMAIN inFlight : \A r \in inFlight[t] : \E s \in LiveSlots : SlotRange(s) = r

(* An id a client holds stays the allocator's, whatever stale ids others     *)
(* give back, and no id that was given back is accepted a second time.       *)
HeldIsLive ==
    /\ \A id \in DOMAIN held : Accepts(id)
    /\ \A id \in given : ~Accepts(id)
==============================================================================
