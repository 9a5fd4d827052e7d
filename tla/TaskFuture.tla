---------------------------- MODULE TaskFuture ----------------------------
(* Futures on one executor: Schedule makes a future whose work sets it, Then *)
(* makes one that is computed after another, Wait blocks until a future is   *)
(* set.  The executor is taken at its promise, ExecutorSpec, which both the  *)
(* thread pool and the completion queue implement.                           *)
(*                                                                           *)
(* A promise is set by the work's run, by the reject handler of a work the   *)
(* stop disposed of, or by whoever found the executor full or stopped.  Set  *)
(* publishes the result under the lock and then, without it, notifies the    *)
(* waiters and runs the continuations, each of which may in turn set another *)
(* promise on the same thread.                                               *)
EXTENDS Naturals, Sequences, FiniteSets, Functions

CONSTANTS Workers,    \* threads that run the works of the executor
          Callers,    \* threads outside it
          MaxFutures, \* bound on the futures that are made
          Capacity    \* of the executor's queue

FutureAssumption ==
    /\ Workers \cap Callers = {}
    /\ MaxFutures \in Nat
    /\ Capacity \in Nat \ {0}

Actors == Workers \cup Callers

\* Futures have no identity of their own: they are numbered as they are made.
Futures == 1..MaxFutures
NoFuture == 0

VARIABLES
    pending, running, ran, disposed, stopped,  \* the executor
    made,       \* futures that exist
    parent,     \* the future each Then was called on
    result,     \* state->result
    conts,      \* state->continuations, by the future each one computes
    frames,     \* per thread, its nested Set calls, outermost first
    inline,     \* per thread, the continuation Attach found ready to run
    job,        \* per worker, the future its work computes
    ended,      \* workers whose function has ended and called Set
    waiting,    \* per caller, the future it waits for
    asleep,     \* callers blocked on ready_cv
    stopper     \* the thread that called RequestStop

execVars == <<pending, running, ran, disposed, stopped>>
thenVars == <<made, parent>>
setVars  == <<result, conts, frames>>
workVars == <<job, ended>>
waitVars == <<waiting, asleep>>
vars == <<pending, running, ran, disposed, stopped, made, parent, result, conts,
          frames, inline, job, ended, waiting, asleep, stopper>>

Exec == INSTANCE ExecutorSpec WITH Works <- Futures

Top(t) == frames[t][Len(frames[t])]
New(f) == f = Cardinality(made) + 1
Busy(t) == frames[t] # <<>> \/ inline[t] # NoFuture
Stopping(t) == stopper = t /\ pending # <<>>

-----------------------------------------------------------------------------
Init ==
    /\ Exec!SpecInit
    /\ made = {}
    /\ parent = [f \in Futures |-> NoFuture]
    /\ result = [f \in Futures |-> "none"]
    /\ conts = [f \in Futures |-> <<>>]
    /\ frames = [t \in Actors |-> <<>>]
    /\ inline = [t \in Actors |-> NoFuture]
    /\ job = [w \in Workers |-> NoFuture]
    /\ ended = {}
    /\ waiting = [c \in Callers |-> NoFuture]
    /\ asleep = {}
    /\ stopper = NoFuture

\* Calls come from callers that are not inside another one, and from the
\* function of a work before its promise is set.
MayCall(t) ==
    /\ ~Busy(t) /\ ~Stopping(t)
    /\ t \in Callers => waiting[t] = NoFuture
    /\ t \in Workers => job[t] # NoFuture /\ t \notin ended

\* Variants of definitions below, each with one plausible mistake.
KeptAll(f)           == conts[f]                          \* copied, not swapped out
ReadyAlways(f)       == TRUE                              \* the result is not looked at
UncaughtOutcomes     == {"value", "error", "exception"}   \* stored as it comes
NotifiedOne(callers) ==                                   \* notify_one
    IF callers = {} THEN {} ELSE {CHOOSE c \in callers : TRUE}
IgnoreRefusal(t, g, stack) ==                             \* the error is not looked at
    frames' = [frames EXCEPT ![t] = stack] /\ UNCHANGED <<result, conts>>

\* The continuations that stay in the state when Set swaps them out.
Kept(f) == <<>>

\* Attach looks, under the lock, whether f has a result.
Ready(f) == result[f] # "none"

\* What the function of a work can come to: a value, or an error when it
\* returned one, threw, or found its cancellation requested.
Outcomes == {"value", "error"}

\* The callers that notify_all wakes.
Notified(callers) == callers

\* The critical section of Promise::Set, on top of the Set calls in stack; a
\* promise that has a result keeps it.
Set(t, f, v, stack) ==
    IF result[f] # "none"
    THEN /\ frames' = [frames EXCEPT ![t] = stack]
         /\ UNCHANGED <<result, conts>>
    ELSE /\ result' = [result EXCEPT ![f] = v]
         /\ frames' = [frames EXCEPT ![t] =
                Append(stack, [fut |-> f, todo |-> conts[f], told |-> FALSE])]
         /\ conts' = [conts EXCEPT ![f] = Kept(f)]

\* The executor was full or stopped: the next promise fails with its error.
Refused(t, g, stack) == Set(t, g, "error", stack)

\* The continuation Then attached: it submits the work that computes g, or
\* fails g with the error of the submission (full, or stopped).
Continue(t, g, stack) ==
    \/ /\ Exec!SpecAccept(g)
       /\ frames' = [frames EXCEPT ![t] = stack]
       /\ UNCHANGED <<result, conts>>
    \/ /\ stopped \/ Len(pending) >= Capacity
       /\ Refused(t, g, stack)
       /\ UNCHANGED execVars

\* Schedule; a refused submission returns the error and makes no future.
Schedule(t, f) ==
    /\ MayCall(t)
    /\ New(f)
    /\ Exec!SpecAccept(f)
    /\ made' = made \cup {f}
    /\ UNCHANGED <<setVars, workVars, waitVars, parent, inline, stopper>>

\* Then, up to the end of the critical section of Attach.
Then(t, f, g) ==
    /\ MayCall(t)
    /\ f \in made /\ New(g)
    /\ made' = made \cup {g}
    /\ parent' = [parent EXCEPT ![g] = f]
    /\ IF Ready(f)
       THEN inline' = [inline EXCEPT ![t] = g] /\ UNCHANGED conts
       ELSE conts' = [conts EXCEPT ![f] = Append(@, g)] /\ UNCHANGED inline
    /\ UNCHANGED <<execVars, workVars, waitVars, result, frames, stopper>>

\* Then on a future without state: the next one fails at once.
ThenInvalid(t, g) ==
    /\ MayCall(t)
    /\ New(g)
    /\ made' = made \cup {g}
    /\ Set(t, g, "error", <<>>)
    /\ UNCHANGED <<execVars, workVars, waitVars, parent, inline, stopper>>

RunInline(t) ==
    /\ inline[t] # NoFuture
    /\ Continue(t, inline[t], <<>>)
    /\ inline' = [inline EXCEPT ![t] = NoFuture]
    /\ UNCHANGED <<thenVars, workVars, waitVars, stopper>>

-----------------------------------------------------------------------------
\* state_->ready_cv.notify_all().
Notify(t) ==
    /\ frames[t] # <<>> /\ ~Top(t).told
    /\ frames' = [frames EXCEPT ![t][Len(frames[t])].told = TRUE]
    /\ asleep' = asleep \ Notified({c \in asleep : waiting[c] = Top(t).fut})
    /\ UNCHANGED <<execVars, thenVars, workVars, result, conts, inline, waiting, stopper>>

\* The next continuation of the innermost Set.
RunContinuation(t) ==
    /\ frames[t] # <<>> /\ Top(t).told /\ Top(t).todo # <<>>
    /\ Continue(t, Head(Top(t).todo),
                [frames[t] EXCEPT ![Len(frames[t])].todo = Tail(@)])
    /\ UNCHANGED <<thenVars, workVars, waitVars, inline, stopper>>

SetReturns(t) ==
    /\ frames[t] # <<>> /\ Top(t).told /\ Top(t).todo = <<>>
    /\ frames' = [frames EXCEPT ![t] = SubSeq(@, 1, Len(@) - 1)]
    /\ UNCHANGED <<execVars, thenVars, workVars, waitVars, result, conts, inline, stopper>>

-----------------------------------------------------------------------------
Take(w) ==
    /\ job[w] = NoFuture
    /\ Exec!SpecStart
    /\ job' = [job EXCEPT ![w] = Head(pending)]
    /\ UNCHANGED <<thenVars, setVars, waitVars, inline, ended, stopper>>

Finish(w) ==
    /\ MayCall(w)
    /\ \E v \in Outcomes : Set(w, job[w], v, <<>>)
    /\ ended' = ended \cup {w}
    /\ UNCHANGED <<execVars, thenVars, waitVars, inline, job, stopper>>

\* The run returns once Set has, and the worker goes back to the queue.
Return(w) ==
    /\ w \in ended /\ ~Busy(w)
    /\ Exec!SpecReturn(job[w])
    /\ job' = [job EXCEPT ![w] = NoFuture]
    /\ ended' = ended \ {w}
    /\ UNCHANGED <<thenVars, setVars, waitVars, inline, stopper>>

RequestStop(c) ==
    /\ MayCall(c)
    /\ ~stopped
    /\ Exec!SpecStop
    /\ stopper' = c
    /\ UNCHANGED <<thenVars, setVars, workVars, waitVars, inline>>

\* The stopping thread rejects the works the stop left, one after the other;
\* every reject handler fails its promise.
Dispose(c) ==
    /\ stopper = c
    /\ ~Busy(c)
    /\ Exec!SpecDispose
    /\ Set(c, Head(pending), "error", <<>>)
    /\ UNCHANGED <<thenVars, workVars, waitVars, inline, stopper>>

-----------------------------------------------------------------------------
Wait(c, f) ==
    /\ MayCall(c)
    /\ f \in made
    /\ waiting' = [waiting EXCEPT ![c] = f]
    /\ UNCHANGED <<execVars, thenVars, setVars, workVars, inline, asleep, stopper>>

\* The waiter holds the lock and evaluates the predicate of the wait.
WaitCheck(c) ==
    /\ waiting[c] # NoFuture /\ c \notin asleep
    /\ \/ /\ result[waiting[c]] = "none"
          /\ asleep' = asleep \cup {c}
          /\ UNCHANGED waiting
       \/ /\ result[waiting[c]] # "none"
          /\ waiting' = [waiting EXCEPT ![c] = NoFuture]
          /\ UNCHANGED asleep
    /\ UNCHANGED <<execVars, thenVars, setVars, workVars, inline, stopper>>

SpuriousWake(c) ==
    /\ c \in asleep
    /\ asleep' = asleep \ {c}
    /\ UNCHANGED <<execVars, thenVars, setVars, workVars, inline, waiting, stopper>>

-----------------------------------------------------------------------------
SetStep(t)    == RunInline(t) \/ Notify(t) \/ RunContinuation(t) \/ SetReturns(t)
WorkerStep(w) == Take(w) \/ Finish(w) \/ Return(w)

Next ==
    \/ \E t \in Actors : \/ \E f \in Futures : Schedule(t, f)
                         \/ \E f, g \in Futures : Then(t, f, g)
                         \/ \E g \in Futures : ThenInvalid(t, g)
                         \/ RequestStop(t)
                         \/ SetStep(t)
    \/ \E w \in Workers : WorkerStep(w)
    \/ \E c \in Callers : \/ \E f \in Futures : Wait(c, f)
                          \/ WaitCheck(c) \/ SpuriousWake(c)
    \/ \E t \in Actors : Dispose(t)

Spec == Init /\ [][Next]_vars

\* Threads are scheduled and functions end.  A function makes finitely many
\* futures, so weak fairness on its end is enough.
Fairness ==
    /\ \A t \in Actors : WF_vars(SetStep(t)) /\ WF_vars(Dispose(t))
    /\ \A w \in Workers : WF_vars(WorkerStep(w))
    /\ \A c \in Callers : WF_vars(WaitCheck(c))

FairSpec == Spec /\ Fairness

-----------------------------------------------------------------------------
TypeOK ==
    /\ pending \in Seq(Futures)
    /\ running \in SUBSET Futures /\ ran \in SUBSET Futures
    /\ disposed \in SUBSET Futures /\ stopped \in BOOLEAN
    /\ made \in SUBSET Futures
    /\ parent \in [Futures -> Futures \cup {NoFuture}]
    /\ result \in [Futures -> {"none", "value", "error"}]
    /\ conts \in [Futures -> Seq(Futures)]
    /\ frames \in [Actors -> Seq([fut : Futures, todo : Seq(Futures), told : BOOLEAN])]
    /\ inline \in [Actors -> Futures \cup {NoFuture}]
    /\ job \in [Workers -> Futures \cup {NoFuture}]
    /\ ended \in SUBSET Workers
    /\ waiting \in [Callers -> Futures \cup {NoFuture}]
    /\ asleep \in SUBSET Callers
    /\ stopper \in Actors \cup {NoFuture}

\* Where the continuation that computes g is until its work or its failure:
\* attached, taken by a Set, about to run inline, or submitted and then settled.
Spots(s, g) == {k \in DOMAIN s : s[k] = g}

Places(g) ==
    (UNION {{<<f, k>> : k \in Spots(conts[f], g)} : f \in Futures})
    \cup (UNION {UNION {{<<t, n, k>> : k \in Spots(frames[t][n].todo, g)} :
                           n \in DOMAIN frames[t]} : t \in Actors})
    \cup {<<t>> : t \in {u \in Actors : inline[u] = g}}
    \cup (IF g \in Exec!Held \/ result[g] # "none" THEN {<<"settled">>} ELSE {})

\* Each future that was made is computed from one place: no continuation is
\* lost or run twice when Then races with Set, whatever refuses its work.
ContinuationOnce == \A g \in made : Cardinality(Places(g)) = 1

\* The work of a continuation reads the parent's result without the lock: it
\* may only have been submitted when that result is set for good.
ReadsSetResult ==
    \A g \in Exec!Held : parent[g] # NoFuture => result[parent[g]] # "none"

\* A caller asleep on a future that has a result is still owed a notification.
NoLostNotify ==
    \A c \in asleep : result[waiting[c]] # "none" =>
        \E t \in Actors : \E n \in DOMAIN frames[t] :
            frames[t][n].fut = waiting[c] /\ ~frames[t][n].told

\* Neither a continuation nor a notification is lost or repeated, however Then,
\* Wait and Set interleave.
NothingLost == TypeOK /\ ContinuationOnce /\ NoLostNotify

=============================================================================
