-------------------------- MODULE DependencyGraph --------------------------
(* Which asset depends on which, as publications replace the dependencies of *)
(* one asset at a time: the edges, and their reverse for invalidation.       *)
(*                                                                           *)
(* The order in which the code goes through a map or a vector changes what   *)
(* its searches come to first, not what they find: they choose.              *)
EXTENDS Naturals, FiniteSets, Sequences

CONSTANT Ids

GraphAssumption == IsFiniteSet(Ids)

VARIABLES
    forward,    \* forward_
    reverse     \* reverse_

graph == <<forward, reverse>>

InitGraph == /\ forward = [i \in Ids |-> {}]
             /\ reverse = [i \in Ids |-> {}]

----------------------------------------------------------------------------
(* The depth-first search of Validate: the calls of visit that have not      *)
(* returned, innermost last, and the edges they have not come to.            *)

Begin(edges) == [ok |-> TRUE, mark |-> [i \in Ids |-> "new"], path |-> <<>>,
                 left |-> {e \in Ids \X Ids : e[2] \in edges[e[1]]}]

New(s) == {i \in Ids : s.mark[i] = "new"}
Ahead(s) == {e \in s.left : e[1] = s.path[Len(s.path)]}

(* A call of visit: it fails at an asset that is being visited. *)
Visit(s, id) ==
    CASE s.mark[id] = "new" -> [s EXCEPT !.mark[id] = "visiting", !.path = Append(@, id)]
      [] s.mark[id] = "visiting" -> [s EXCEPT !.ok = FALSE]
      [] OTHER -> s

(* Variants of definitions below, each with one plausible mistake. *)
NeverComplete(s) == [s EXCEPT !.path = SubSeq(@, 1, Len(@) - 1)]
OnlyDirect(asset) == reverse[asset]

Return(s) == [s EXCEPT !.mark[s.path[Len(s.path)]] = "complete",
                       !.path = SubSeq(@, 1, Len(@) - 1)]

AtRest(s) == ~s.ok \/ (s.path = <<>> /\ New(s) = {})
Turn(s) ==
    CASE AtRest(s) -> s
      [] ~AtRest(s) /\ s.path = <<>> -> Visit(s, CHOOSE i \in New(s) : TRUE)
      [] ~AtRest(s) /\ s.path # <<>> /\ Ahead(s) = {} -> Return(s)
      [] OTHER -> LET e == CHOOSE e \in Ahead(s) : TRUE IN
                  Visit([s EXCEPT !.left = @ \ {e}], e[2])

(* Each asset is visited and left once, and each edge followed once. *)
Turns(edges) == Cardinality(Begin(edges).left) + 2 * Cardinality(Ids)
Search(edges) ==
    LET search[n \in 0 .. Turns(edges)] ==
            IF n = 0 THEN Begin(edges) ELSE Turn(search[n - 1])
    IN  search[Turns(edges)]

Valid(edges) == Search(edges).ok

----------------------------------------------------------------------------
Reversed(edges) == [i \in Ids |-> {o \in Ids : i \in edges[o]}]

DirectDependents(i) == reverse[i]

(* The loop of TransitiveDependents.  No asset is put on the worklist twice. *)
Collect(w) ==
    IF w.pending = {} THEN w
    ELSE LET current == CHOOSE i \in w.pending : TRUE
             inserted == DirectDependents(current) \ w.result
         IN  [pending |-> (w.pending \ {current}) \cup inserted,
              result |-> w.result \cup inserted]
TransitiveDependents(asset) ==
    LET turns == Cardinality(Ids) + 1
        work[n \in 0 .. turns] ==
            IF n = 0 THEN [pending |-> {asset}, result |-> {}] ELSE Collect(work[n - 1])
    IN  work[turns].result

ReplaceDependencies(asset, dependencies) ==
    LET candidate == [forward EXCEPT ![asset] = dependencies] IN
    IF Valid(candidate)
    THEN /\ forward' = candidate
         /\ reverse' = Reversed(candidate)
    ELSE UNCHANGED graph

RemoveAsset(asset) ==
    LET candidate == [forward EXCEPT ![asset] = {}] IN
    /\ forward' = candidate
    /\ reverse' = Reversed(candidate)

NextGraph == \E i \in Ids : RemoveAsset(i) \/ \E ids \in SUBSET Ids : ReplaceDependencies(i, ids)

----------------------------------------------------------------------------

(* The search over marks finds exactly the cycles: no graph one replacement
   away is accepted with a cycle, and none is refused without. *)
Cyclic(edges) == \E ids \in (SUBSET Ids) \ {{}} : \A i \in ids : edges[i] \cap ids # {}
OnlyCyclesRefused ==
    \A i \in Ids, ids \in SUBSET Ids :
        LET candidate == [forward EXCEPT ![i] = ids] IN Valid(candidate) <=> ~Cyclic(candidate)

(* The reverse edges are those of the current graph, after any sequence of
   replacements, removals and refusals, and invalidation reaches exactly the
   assets that depend on the changed one, however far. *)
DependsOn(o, i) ==
    \A ids \in SUBSET Ids :
        (o \in ids /\ \A k \in ids : forward[k] \subseteq ids) => i \in ids
DependentsExact ==
    \A i \in Ids : TransitiveDependents(i) = {o \in Ids \ {i} : DependsOn(o, i)}
=============================================================================
