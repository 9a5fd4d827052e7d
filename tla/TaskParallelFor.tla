-------------------------- MODULE TaskParallelFor -------------------------
(* One call of ParallelFor: the caller submits some works that claim chunks  *)
(* of the range from one atomic counter, until the range is exhausted, a     *)
(* call of the function fails or the loop is cancelled.  Each work counts    *)
(* itself out once, by finish, whether it ran, was refused or was rejected;  *)
(* the last one sets the output promise.  Indices and sizes are std::size_t: *)
(* arithmetic is modulo SizeMax + 1.  The executor is taken at its promise.  *)
EXTENDS Naturals, Sequences, FiniteSets

CONSTANTS SizeMax,   \* the largest std::size_t
          Calls,     \* arguments: first and last index, chunk size, worker limit
          Capacity   \* of the executor's queue

ASSUME LoopAssumption ==
    /\ SizeMax \in Nat \ {0}
    /\ Capacity \in Nat \ {0}
    /\ Calls \subseteq [begin : 0..SizeMax, end : 0..SizeMax,
                        chunk : 1..SizeMax, desired : 1..SizeMax]

Wrap(n) == n % (SizeMax + 1)
Smaller(a, b) == IF a < b THEN a ELSE b

\* Lines 174-177; the caller's chunk size and worker limit are already at least 1.
ChunkCount(c) == Wrap(c.end - c.begin + c.chunk - 1) \div c.chunk
WorkerCount(c) == Smaller(ChunkCount(c), c.desired)

VARIABLES
    pending, running, ran, disposed, stopped,   \* the executor
    call,       \* the arguments
    cancelled,  \* the cancellation token
    submitting, \* the caller's loop
    pc,         \* per work, where it stands
    at,         \* per work, its index and last
    next,       \* state->next
    remaining,  \* state->remaining
    failed,     \* state->failed
    error,      \* state->error has a value
    visits,     \* history: how often the function was called with each index
    blamers,    \* history: works that called finish with an error
    outcome     \* state->promise

execVars == <<pending, running, ran, disposed, stopped>>
doneVars == <<remaining, failed, error, blamers, outcome>>
workVars == <<pc, at, next, visits>>
vars == <<pending, running, ran, disposed, stopped, call, cancelled, submitting,
          pc, at, next, remaining, failed, error, visits, blamers, outcome>>

Works   == 1..WorkerCount(call)
Indices == call.begin..(call.end - 1)

Exec == INSTANCE ExecutorSpec WITH Works <- 1..SizeMax

\* Variants of definitions below, each with one plausible mistake.
CountsChunks == ChunkCount(call)   \* remaining counts the chunks, not the works
ClaimsOne    == 1                  \* the counter advances by one index
SkipsError   == "count"            \* the flag is set, the error is not stored

\* What remaining starts from, what fetch_add adds, and what finish does with an
\* error once it has set the flag.
Counted   == WorkerCount(call)
Claimed   == call.chunk
AfterFlag == "error"

Init ==
    /\ Exec!SpecInit
    /\ call \in {c \in Calls : c.begin < c.end}
    /\ cancelled = FALSE
    /\ submitting = 1
    /\ pc = [w \in Works |-> "new"]
    /\ at = [w \in Works |-> [index |-> 0, last |-> 0]]
    /\ next = call.begin
    /\ remaining = Counted
    /\ failed = FALSE /\ error = FALSE
    /\ visits = [i \in Indices |-> 0]
    /\ blamers = {}
    /\ outcome = "open"

-----------------------------------------------------------------------------
Goto(w, place) == pc' = [pc EXCEPT ![w] = place]

\* Calls finish with an error.
Blame(w) == Goto(w, "store") /\ blamers' = blamers \cup {w}

\* detailSubmit returned an error: the work is counted out by the caller.
SubmitFailed(w) == Blame(w)

\* The caller submits the works in turn and waits for none of them; one that is
\* refused has finished with the error, on the caller, before the next.
MaySubmit ==
    /\ submitting \in Works
    /\ \A w \in 1..(submitting - 1) : w \in Exec!Held \/ pc[w] = "left"

Submit ==
    /\ MaySubmit
    /\ submitting' = submitting + 1
    /\ \/ /\ Exec!SpecAccept(submitting)
          /\ UNCHANGED <<pc, blamers>>
       \/ /\ stopped \/ Len(pending) >= Capacity
          /\ SubmitFailed(submitting)
          /\ UNCHANGED execVars
    /\ UNCHANGED <<call, cancelled, at, next, visits, remaining, failed, error, outcome>>

Start ==
    /\ Exec!SpecStart
    /\ Goto(Head(pending), "failed?")
    /\ UNCHANGED <<doneVars, call, cancelled, submitting, at, next, visits>>

Stop ==
    /\ ~stopped
    /\ Exec!SpecStop
    /\ UNCHANGED <<workVars, doneVars, call, cancelled, submitting>>

\* One reject handler after the other, on the stopping thread.
Dispose ==
    /\ \A w \in disposed : pc[w] = "left"
    /\ Exec!SpecDispose
    /\ Blame(Head(pending))
    /\ UNCHANGED <<call, cancelled, submitting, at, next, visits,
                   remaining, failed, error, outcome>>

Cancel ==
    /\ ~cancelled
    /\ cancelled' = TRUE
    /\ UNCHANGED <<execVars, workVars, doneVars, call, submitting>>

-----------------------------------------------------------------------------
LookFailed(w) ==
    /\ pc[w] = "failed?"
    /\ Goto(w, IF failed THEN "count" ELSE "cancelled?")
    /\ UNCHANGED <<execVars, doneVars, call, cancelled, submitting, at, next, visits>>

LookCancelled(w) ==
    /\ pc[w] = "cancelled?"
    /\ IF cancelled THEN Blame(w) ELSE Goto(w, "claim") /\ UNCHANGED blamers
    /\ UNCHANGED <<execVars, call, cancelled, submitting, at, next, visits,
                   remaining, failed, error, outcome>>

\* next.fetch_add, and what the work makes of the value it read.
Claim(w) ==
    /\ pc[w] = "claim"
    /\ next' = Wrap(next + Claimed)
    /\ IF next >= call.end
       THEN Goto(w, "count") /\ UNCHANGED at
       ELSE /\ Goto(w, "body")
            /\ at' = [at EXCEPT ![w] =
                   [index |-> next, last |-> Smaller(call.end, Wrap(next + call.chunk))]]
    /\ UNCHANGED <<execVars, doneVars, call, cancelled, submitting, visits>>

\* The next call of the function, which succeeds, or fails or throws.
Visit(w) ==
    /\ pc[w] = "body" /\ at[w].index < at[w].last
    /\ visits' = [visits EXCEPT ![at[w].index] = @ + 1]
    /\ at' = [at EXCEPT ![w].index = @ + 1]
    /\ \/ UNCHANGED <<pc, blamers>>
       \/ Blame(w)
    /\ UNCHANGED <<execVars, call, cancelled, submitting, next,
                   remaining, failed, error, outcome>>

ChunkDone(w) ==
    /\ pc[w] = "body" /\ at[w].index >= at[w].last
    /\ Goto(w, "failed?")
    /\ UNCHANGED <<execVars, doneVars, call, cancelled, submitting, at, next, visits>>

-----------------------------------------------------------------------------
\* finish: the flag, the error, the countdown and, for the last, the promise.
StoreFailed(w) ==
    /\ pc[w] = "store"
    /\ failed' = TRUE
    /\ Goto(w, AfterFlag)
    /\ UNCHANGED <<execVars, call, cancelled, submitting, at, next, visits,
                   remaining, error, blamers, outcome>>

StoreError(w) ==
    /\ pc[w] = "error"
    /\ error' = TRUE
    /\ Goto(w, "count")
    /\ UNCHANGED <<execVars, call, cancelled, submitting, at, next, visits,
                   remaining, failed, blamers, outcome>>

CountDown(w) ==
    /\ pc[w] = "count"
    /\ remaining' = Wrap(remaining + SizeMax)
    /\ Goto(w, IF remaining = 1 THEN "complete" ELSE "left")
    /\ UNCHANGED <<execVars, call, cancelled, submitting, at, next, visits,
                   failed, error, blamers, outcome>>

Complete(w) ==
    /\ pc[w] = "complete"
    /\ outcome' = IF outcome # "open" THEN outcome
                  ELSE IF error THEN "error" ELSE "ok"
    /\ Goto(w, "left")
    /\ UNCHANGED <<execVars, call, cancelled, submitting, at, next, visits,
                   remaining, failed, error, blamers>>

\* The run returns to the executor.
Return(w) ==
    /\ pc[w] = "left"
    /\ Exec!SpecReturn(w)
    /\ UNCHANGED <<workVars, doneVars, call, cancelled, submitting>>

-----------------------------------------------------------------------------
Step(w) ==
    \/ LookFailed(w) \/ LookCancelled(w) \/ Claim(w) \/ Visit(w) \/ ChunkDone(w)
    \/ StoreFailed(w) \/ StoreError(w) \/ CountDown(w) \/ Complete(w) \/ Return(w)

Next == Submit \/ Start \/ Stop \/ Dispose \/ Cancel \/ \E w \in Works : Step(w)

Spec == Init /\ [][Next]_vars

\* The caller, the workers and the stopping thread are scheduled and the
\* function ends; nobody has to stop the executor or cancel the loop.
FairSpec ==
    /\ Spec
    /\ WF_vars(Submit) /\ WF_vars(Start) /\ WF_vars(Dispose)
    /\ \A w \in 1..SizeMax : WF_vars(w \in Works /\ Step(w))

-----------------------------------------------------------------------------
Places == {"new", "failed?", "cancelled?", "claim", "body",
           "store", "error", "count", "complete", "left"}

TypeOK ==
    /\ pending \in Seq(Works)
    /\ running \in SUBSET Works /\ ran \in SUBSET Works
    /\ disposed \in SUBSET Works /\ stopped \in BOOLEAN
    /\ call \in Calls
    /\ cancelled \in BOOLEAN
    /\ submitting \in 1..(WorkerCount(call) + 1)
    /\ pc \in [Works -> Places]
    /\ at \in [Works -> [index : 0..SizeMax, last : 0..SizeMax]]
    /\ next \in 0..SizeMax
    /\ remaining \in 0..WorkerCount(call)
    /\ failed \in BOOLEAN /\ error \in BOOLEAN
    /\ visits \in [Indices -> Nat]
    /\ blamers \in SUBSET Works
    /\ outcome \in {"open", "ok", "error"}

\* Every work left to do something, be it a queued one, or the caller's loop.
Over == submitting > WorkerCount(call) /\ \A w \in Works : pc[w] = "left"

\* The loop calls the function at most once with every index, and with all of
\* them when it ends without an error.
CoversEachIndexOnce ==
    /\ \A i \in Indices : visits[i] <= 1
    /\ Over /\ blamers = {} => \A i \in Indices : visits[i] = 1

\* The output tells whether any work finished with an error: an error that one
\* work stores is seen by whichever work completes, and a completed loop calls
\* the function no more.
ErrorReported ==
    outcome # "open" =>
        /\ outcome = "error" <=> blamers # {}
        /\ \A w \in Works : pc[w] = "left"
=============================================================================
