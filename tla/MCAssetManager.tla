-------------------------- MODULE MCAssetManager --------------------------
(* Two ways to use a manager, over the same variables: two threads that make *)
(* requests for one asset while every executor may refuse, and two assets of *)
(* two sizes that the owner loads, publishes in batches and releases.        *)
EXTENDS AssetManager, TLC

CONSTANTS owner, other, a1, a2, r1, r2,
    BudgetAssets, BudgetThreads, BudgetSizes, BudgetBytes, BudgetPrefetch,
    BudgetRefusing, BudgetBatches, BudgetSource

VARIABLE part

NoBatch == {}
OneByOne == {<<a1>>}
Pairs == {<<a1>>, <<a2>>, <<a1, a2>>}

Symmetry == Permutations(Requests)

Budget == INSTANCE AssetManager WITH
    Assets <- BudgetAssets, Threads <- BudgetThreads, Sizes <- BudgetSizes,
    MaxBytes <- BudgetBytes, MaxPrefetch <- BudgetPrefetch, Refusing <- BudgetRefusing,
    Batches <- BudgetBatches, MaxSource <- BudgetSource

ASSUME BudgetAssumption == Budget!ManagerAssumption

ManagerInit == \/ part = "callers" /\ Init
               \/ part = "budget" /\ Budget!Init

ManagerNext ==
    /\ \/ part = "callers" /\ Next
       \/ part = "budget" /\ Budget!Next
    /\ UNCHANGED part

ManagerSpec == ManagerInit /\ [][ManagerNext]_<<part, vars>>

\* The first way alone.
CallersSpec ==
    part = "callers" /\ Init /\ [][Next /\ UNCHANGED part]_<<part, vars>>

(* Whoever asks while what is refused, no answer is older than it may be. *)
ServesFresh == part = "callers" => NeverServesStale

(* The prefetch slots keep their bound, whoever gives them back; the resident
   bytes are exact and within the budget, whatever replaces or releases them. *)
WithinBounds == IF part = "callers" THEN PrefetchesBounded ELSE Budget!ResidentAccounted
=============================================================================
