---------------------------- MODULE TaskWhenAll ---------------------------
(* One call of WhenAll.  The caller walks over its futures and attaches a     *)
(* callback to each, while other threads set those futures: a callback runs  *)
(* on the thread that sets its future, or on the caller when the future was  *)
(* ready.  The last of them to count down claims the completion and sets the *)
(* output promise once it has released the lock.  A future without state is  *)
(* counted by the caller itself, which therefore looks again at the end.     *)
EXTENDS Integers, Sequences, FiniteSets

CONSTANTS N,        \* futures.size()
          Futures,  \* those the vector may name, some of them several times
          NoFuture, \* a Future without state
          Caller

\* An empty vector is answered at once.
WhenAllAssumption ==
    /\ N \in Nat \ {0}
    /\ NoFuture \notin Futures /\ Caller \notin Futures

Slots == 1..N
Open  == -1      \* no completion yet; 0 is one with all values, s > 0 the error of s

\* A future stands for the thread that sets it.
Actors == Futures \cup {Caller}

VARIABLES
    child,      \* the futures vector
    result,     \* of each future
    conts,      \* the callbacks attached to each future, by their index
    todo,       \* per actor, the callbacks it still has to run
    index,      \* of the caller's loop
    remaining,  \* state->remaining
    values,     \* the indices of state->values that were emplaced
    error,      \* state->error: the index it came from, 0 for none
    claimed,    \* state->completion_claimed
    holding,    \* per actor, the completion it took out of the critical section
    returned,   \* the caller is past its last look at the state
    outcome     \* state->promise
vars == <<child, result, conts, todo, index, remaining, values, error, claimed,
          holding, returned, outcome>>

stateVars == <<remaining, values, error, claimed, holding>>
childVars == <<child, result, conts>>

Init ==
    /\ child \in [Slots -> Futures \cup {NoFuture}]
    /\ result = [f \in Futures |-> "none"]
    /\ conts = [f \in Futures |-> <<>>]
    /\ todo = [a \in Actors |-> <<>>]
    /\ index = 1
    /\ remaining = N
    /\ values = {}
    /\ error = 0
    /\ claimed = FALSE
    /\ holding = [a \in Actors |-> Open]
    /\ returned = FALSE
    /\ outcome = Open

\* The caller is at the head of its loop.
AtLoop == index <= N /\ todo[Caller] = <<>> /\ holding[Caller] = Open

\* Promise::Set of a child, up to its callbacks.
SetChild(f, v) ==
    /\ result[f] = "none"
    /\ result' = [result EXCEPT ![f] = v]
    /\ todo' = [todo EXCEPT ![f] = conts[f]]
    /\ conts' = [conts EXCEPT ![f] = <<>>]
    /\ UNCHANGED <<stateVars, child, index, returned, outcome>>

-----------------------------------------------------------------------------
\* Variants of definitions below, each with one plausible mistake.
RecordsNoError(s) == error               \* an error is not kept
LooksUnclaimed    == remaining = 0 /\ error # 0   \* claimed is not looked at
LooksNever        == FALSE               \* only callbacks complete the output

\* The loop goes on; the first error is the one that is kept; the caller
\* completes the output itself when nobody else does.
NextIndex    == index + 1
KeptError(s) == IF error = 0 THEN s ELSE error
Uncompleted  == remaining = 0 /\ error # 0 /\ ~claimed

SkipInvalid ==
    /\ AtLoop /\ child[index] = NoFuture
    /\ error' = KeptError(index)
    /\ remaining' = remaining - 1
    /\ index' = NextIndex
    /\ UNCHANGED <<childVars, todo, values, claimed, holding, returned, outcome>>

\* Attach: under the future's lock, or straight away when it has a result.
AttachChild ==
    /\ AtLoop /\ child[index] # NoFuture
    /\ IF result[child[index]] = "none"
       THEN /\ conts' = [conts EXCEPT ![child[index]] = Append(@, index)]
            /\ UNCHANGED todo
       ELSE /\ todo' = [todo EXCEPT ![Caller] = <<index>>]
            /\ UNCHANGED conts
    /\ index' = index + 1
    /\ UNCHANGED <<stateVars, child, result, returned, outcome>>

\* The critical section of a callback.
Callback(a) ==
    /\ todo[a] # <<>> /\ holding[a] = Open
    /\ LET s == Head(todo[a])
           ok == result[child[s]] = "value"
           last == remaining = 1
       IN  /\ values' = IF ok THEN values \cup {s} ELSE values
           /\ error' = IF ok THEN error ELSE KeptError(s)
           /\ remaining' = remaining - 1
           /\ claimed' = (claimed \/ last)
           /\ holding' = [holding EXCEPT ![a] = IF last THEN error' ELSE Open]
    /\ todo' = [todo EXCEPT ![a] = Tail(@)]
    /\ UNCHANGED <<childVars, index, returned, outcome>>

\* Set or Fail of the output promise, without the lock.
Complete(a) ==
    /\ holding[a] # Open
    /\ outcome' = IF outcome = Open THEN holding[a] ELSE outcome
    /\ holding' = [holding EXCEPT ![a] = Open]
    /\ UNCHANGED <<childVars, todo, index, remaining, values, error, claimed, returned>>

\* The caller's last look: nobody else completes when an invalid future was
\* the last to be counted.
FinalLook ==
    /\ index > N /\ todo[Caller] = <<>> /\ holding[Caller] = Open
    /\ ~returned
    /\ returned' = TRUE
    /\ IF Uncompleted
       THEN claimed' = TRUE /\ holding' = [holding EXCEPT ![Caller] = error]
       ELSE UNCHANGED <<claimed, holding>>
    /\ UNCHANGED <<childVars, todo, index, remaining, values, error, outcome>>

-----------------------------------------------------------------------------
Run(a) == Callback(a) \/ Complete(a)

Next ==
    \/ \E f \in Futures, v \in {"value", "error"} : SetChild(f, v)
    \/ SkipInvalid \/ AttachChild \/ FinalLook
    \/ \E a \in Actors : Run(a)

Spec == Init /\ [][Next]_vars

\* The caller and the threads inside Set go on; no child has to be set.
FairSpec ==
    /\ Spec
    /\ WF_vars(SkipInvalid \/ AttachChild \/ FinalLook)
    /\ \A a \in Actors : WF_vars(Run(a))

-----------------------------------------------------------------------------
TypeOK ==
    /\ child \in [Slots -> Futures \cup {NoFuture}]
    /\ result \in [Futures -> {"none", "value", "error"}]
    /\ conts \in [Futures -> Seq(Slots)]
    /\ todo \in [Actors -> Seq(Slots)]
    /\ index \in 1..(N + 1)
    /\ remaining \in 0..N
    /\ values \in SUBSET Slots
    /\ error \in 0..N
    /\ claimed \in BOOLEAN /\ returned \in BOOLEAN
    /\ holding \in [Actors -> -1..N]
    /\ outcome \in -1..N

Failed(s) == child[s] = NoFuture \/ result[child[s]] = "error"
Settled(s) == child[s] = NoFuture \/ result[child[s]] # "none"

\* The output, or the completion that is about to become it, tells the truth:
\* it exists only when every future is settled, holds values exactly when none
\* failed, all of them present, and otherwise the error of one that failed.
Truthful(c) ==
    c # Open =>
        /\ \A s \in Slots : Settled(s)
        /\ c = 0 => values = Slots
        /\ c > 0 => Failed(c)
CompletionTruthful == Truthful(outcome) /\ \A a \in Actors : Truthful(holding[a])

\* One completion is ever claimed, by a callback or by the caller, so the error
\* that is moved out of the state is moved once and no result is thrown away.
ClaimedOnce ==
    /\ Cardinality({a \in Actors : holding[a] # Open})
           + (IF outcome # Open THEN 1 ELSE 0) = IF claimed THEN 1 ELSE 0
    /\ claimed => remaining = 0
=============================================================================
