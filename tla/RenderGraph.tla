---- MODULE RenderGraph ----
(***************************************************************************)
(* The render graph: passes declared one after the other, each reading     *)
(* versions of resources and writing new ones (PassBuilder in modules/gfx/ *)
(* src/render_graph.cpp), and the compiler that culls, orders and places   *)
(* them (modules/gfx/src/graph).  Declarations that validation refuses are *)
(* not made.  Transient resources have equal descriptors: the case in      *)
(* which they share slots.  Versions and passes count from one; 0 is none. *)
(***************************************************************************)
EXTENDS Integers, Sequences, FiniteSets, TLC

LOCAL Seqs == INSTANCE SequencesExt

CONSTANTS
    Resources,    \* numbers of the resources, in the order of their creation
    Lifetimes,    \* the sets of them that may be transient; the others are persistent
    Cells,        \* the subresources of a resource
    Ranges,       \* the sets of cells a use may select
    Exportable,   \* bound: the resources that are exported
    MaxPasses     \* bound on the passes

VARIABLES
    transient,  \* the resources that live within the frame
    passes,     \* the passes declared
    versions,   \* the versions of all resources
    out         \* what the compiler made of them

vars == <<transient, passes, versions, out>>

Uncompiled == [done |-> FALSE]

\* CreateTexture gives each resource a first version without a producer.
Init ==
    /\ transient \in Lifetimes
    /\ passes = << >>
    /\ versions = [r \in Resources |-> [resource |-> r, producer |-> 0, previous |-> 0]]
    /\ out = Uncompiled

Current(r) ==
    CHOOSE v \in DOMAIN versions :
        /\ versions[v].resource = r
        /\ \A w \in DOMAIN versions : versions[w].resource = r => w <= v

\* AddPass with at most one Read and one Write; a write of the resource whose
\* newest version is read is a ReadWrite or an attachment that loads.
AddPass(reads, writes, after) ==
    LET pass == Len(passes) + 1
        version == Len(versions) + 1
    IN  /\ \A use \in reads : versions[use.version].resource \in transient =>
               versions[use.version].producer # 0
        /\ \A use \in reads, new \in writes :
               use.version = Current(new.resource) => use.cells = new.cells
        /\ passes' = Append(passes,
               [reads |-> reads, after |-> after, effect |-> writes = {},
                writes |-> {[version |-> version, cells |-> use.cells] : use \in writes}])
        /\ versions' = versions \o Seqs!SetToSeq(
               {[resource |-> use.resource, producer |-> pass, previous |-> Current(use.resource)] :
                    use \in writes})
        /\ UNCHANGED <<transient, out>>

-----------------------------------------------------------------------------
(* The compiler, on the passes and versions declared. *)

Passes == DOMAIN passes

\* Variants of definitions below, each with one plausible mistake.
OverlapsAlways(a, b) == TRUE

Overlaps(a, b) == a \intersect b # {}
ProducerCells(v) == UNION {use.cells : use \in {w \in passes[versions[v].producer].writes : w.version = v}}

\* A version and those before it.
Chain(v) ==
    {w \in 1..v : versions[w].resource = versions[v].resource}

\* ValidateAndBuildDependencies: a read follows every producer of what it reads.
DataEdges ==
    UNION {UNION {
        {<<versions[w].producer, p>> :
            w \in {w \in Chain(use.version) :
                      /\ versions[w].producer \notin {0, p}
                      /\ Overlaps(ProducerCells(w), use.cells)}} :
        use \in passes[p].reads} : p \in Passes}
    \union UNION {passes[p].after \X {p} : p \in Passes}

\* Cull: what a side effect, an export, or the newest persistent version, needs.
Roots(exported) ==
    {p \in Passes :
        \/ passes[p].effect
        \/ \E use \in passes[p].writes :
               \/ use.version \in exported
               \/ /\ versions[use.version].resource \notin transient
                  /\ use.version = Current(versions[use.version].resource)}
Needed(edges, kept) == kept \union {e[1] : e \in {e \in edges : e[2] \in kept}}

Retained(edges, exported) ==
    Seqs!FoldLeft(LAMBDA kept, p : Needed(edges, kept), Roots(exported), passes)

\* AddRetainedDependencies: a write follows the producer of the version before
\* it (WAW) and the readers of that version (WAR).
WriteEdges(retained) ==
    UNION {UNION {
        LET v == use.version
            before == versions[v].previous
            producer == versions[before].producer
            readers == {q \in retained \ {p} : \E r \in passes[q].reads :
                            r.version = before /\ Overlaps(r.cells, use.cells)}
        IN  {<<q, p>> : q \in readers}
            \union (IF producer \in retained \ {p} /\ Overlaps(ProducerCells(before), use.cells)
                    THEN {<<producer, p>>} ELSE {}) :
        use \in passes[p].writes} : p \in retained}

\* Variants of definitions below, each with one plausible mistake.
OnlyWritesOrdered(retained) ==
    {e \in WriteEdges(retained) : passes[e[1]].writes # {}}

OrderEdges(retained) == WriteEdges(retained)

Edges(data, retained) ==
    {e \in data \union OrderEdges(retained) : e[1] \in retained /\ e[2] \in retained}

RangeOf(list) == {list[i] : i \in DOMAIN list}
Least(S) == CHOOSE x \in S : \A y \in S : x <= y

\* BuildSchedule: of the passes that are ready the one declared first is next.

\* Variants of definitions below, each with one plausible mistake.
ReadyCulledToo(edges, retained, schedule) ==
    {p \in Passes \ RangeOf(schedule) :
        \A e \in edges : e[2] = p => e[1] \in RangeOf(schedule)}

Ready(edges, retained, schedule) ==
    {p \in retained \ RangeOf(schedule) :
        \A e \in edges : e[2] = p => e[1] \in RangeOf(schedule)}
Schedule(edges, retained) ==
    Seqs!FoldLeft(LAMBDA schedule, p :
            IF Ready(edges, retained, schedule) = {} THEN schedule
            ELSE Append(schedule, Least(Ready(edges, retained, schedule))),
        << >>, passes)

\* BuildLifetimes: the positions at which a resource is used, and its slot.
Uses(p) == passes[p].reads \union passes[p].writes
UsedAt(schedule, r) ==
    {i \in DOMAIN schedule : \E use \in Uses(schedule[i]) : versions[use.version].resource = r}
First(schedule, r) == Least(UsedAt(schedule, r))
Last(schedule, r) == CHOOSE i \in UsedAt(schedule, r) : \A j \in UsedAt(schedule, r) : j <= i

\* Variants of definitions below, each with one plausible mistake.
EndsWith(last, first) == last <= first

EndsBefore(last, first) == last < first

\* A transient resource takes the first slot whose last user has ended.
Placed(schedule) ==
    Seqs!FoldLeft(LAMBDA acc, r :
            LET fitting == {s \in DOMAIN acc.last : EndsBefore(acc.last[s], First(schedule, r))}
                slot == IF fitting = {} THEN Len(acc.last) + 1 ELSE Least(fitting)
            IN  IF r \notin transient \/ UsedAt(schedule, r) = {} THEN acc
                ELSE [slot |-> (r :> slot) @@ acc.slot,
                      last |-> IF fitting = {} THEN Append(acc.last, Last(schedule, r))
                               ELSE [acc.last EXCEPT ![slot] = Last(schedule, r)]],
        [slot |-> << >>, last |-> << >>], [r \in Resources |-> r])

\* Export names a version; at most one is exported, and one that makes a root.
Exports ==
    {{}} \union UNION {{{use.version} : use \in {use \in passes[p].writes :
        versions[use.version].resource \in Exportable}} : p \in Passes \ Roots({})}

Compile(exported) ==
    /\ ~out.done /\ passes # << >>
    /\ LET data == DataEdges
           retained == Retained(data, exported)
           edges == Edges(data, retained)
           schedule == Schedule(edges, retained)
       IN  out' = [done |-> TRUE, retained |-> retained, schedule |-> schedule,
                   accepted |-> Len(schedule) = Cardinality(retained),
                   slot |-> Placed(schedule).slot]
    /\ UNCHANGED <<transient, passes, versions>>

\* Passes are added until the graph is compiled.
Next ==
    \/ /\ ~out.done /\ Len(passes) < MaxPasses
       /\ \E reads \in {{}} \union {{[version |-> v, cells |-> c]} : v \in DOMAIN versions, c \in Ranges},
             writes \in {{}} \union {{[resource |-> r, cells |-> c]} : r \in Resources, c \in Ranges},
             after \in {{}} \union {{p} : p \in Passes} :
              reads \union writes # {} /\ AddPass(reads, writes, after)
    \/ \E exported \in Exports : Compile(exported)

Spec == Init /\ [][Next]_vars

-----------------------------------------------------------------------------
(* What a graph means: a pass that reads a version sees, in each cell, what *)
(* the newest pass up to that version wrote there.                          *)

Meant(use, cell) ==
    LET written == {w \in Chain(use.version) : versions[w].producer # 0 /\ cell \in ProducerCells(w)}
    IN  IF written = {} THEN 0
        ELSE versions[CHOOSE w \in written : \A x \in written : x <= w].producer

\* The memory behind a resource: its slot, or one of its own.
Place(slot, r) == IF r \in DOMAIN slot THEN <<"slot", slot[r]>> ELSE <<"own", r>>

\* What the pass at a position of an order finds in a cell.
Found(slot, order, position, place, cell) ==
    LET writers == {i \in 1..(position - 1) : \E use \in passes[order[i]].writes :
            Place(slot, versions[use.version].resource) = place /\ cell \in use.cells}
    IN  IF writers = {} THEN 0 ELSE order[CHOOSE i \in writers : \A j \in writers : j <= i]

Sees(slot, order, position) ==
    \A use \in passes[order[position]].reads : \A cell \in use.cells :
        \/ Meant(use, cell) = 0 /\ versions[use.version].resource \in DOMAIN slot
        \/ LET place == Place(slot, versions[use.version].resource)
           IN  Found(slot, order, position, place, cell) = Meant(use, cell)

Compiled == out.done /\ out.accepted

-----------------------------------------------------------------------------
(* Properties. *)

TypeOK ==
    /\ \A p \in Passes : \A use \in Uses(p) : use.version \in DOMAIN versions
    /\ out.done => /\ out.retained \subseteq Passes
                   /\ RangeOf(out.schedule) \subseteq out.retained
                   /\ DOMAIN out.slot \subseteq transient

\* A reader was declared late when the version it reads was no longer the newest.
Late(p) == \E use \in passes[p].reads, w \in DOMAIN versions :
    /\ versions[w].resource = versions[use.version].resource
    /\ w > use.version /\ versions[w].producer < p

\* All writers of what p reads are kept and write all of it.
KeptWhole(p) == \A use \in passes[p].reads, w \in DOMAIN versions :
    versions[w].resource = versions[use.version].resource /\ versions[w].producer # 0 =>
        versions[w].producer \in out.retained /\ ProducerCells(w) = Cells

\* Executed in the order of the schedule, in the memory the slots assign,
\* every retained pass reads what it was declared to read: if each pass reads
\* what was newest when it was declared, and otherwise if no writer of what it
\* reads was culled or writes only a part of it.
ReadsSeeTheirVersion ==
    Compiled => \A i \in DOMAIN out.schedule :
        (\A p \in out.retained : ~Late(p)) \/ KeptWhole(out.schedule[i]) => Sees(out.slot, out.schedule, i)

\* Two transient resources in one slot are never used in overlapping spans.
SlotsDisjoint ==
    Compiled => \A r, s \in DOMAIN out.slot :
        r # s /\ out.slot[r] = out.slot[s] =>
            \/ Last(out.schedule, r) < First(out.schedule, s)
            \/ Last(out.schedule, s) < First(out.schedule, r)

\* A graph is refused as a cycle only when no order of the retained passes lets
\* each see what it reads, keeps the versions of a resource in order and follows
\* the dependencies asked for.
Respects(order) ==
    /\ \A i \in DOMAIN order : Sees(<< >>, order, i)
    /\ \A i, j \in DOMAIN order :
           \/ order[i] \in passes[order[j]].after
           \/ \E v \in DOMAIN versions :
                  versions[v].producer = order[j] /\ versions[versions[v].previous].producer = order[i]
           => i < j
RefusedOnlyIfImpossible ==
    out.done /\ ~out.accepted =>
        ~ \E order \in [1..Cardinality(out.retained) -> out.retained] :
              RangeOf(order) = out.retained /\ Respects(order)
====
