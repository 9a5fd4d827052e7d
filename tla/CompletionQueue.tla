-------------------------- MODULE CompletionQueue -------------------------
(* The bounded queue that publishes results on the thread that calls Drain.  *)
(* A published work may itself submit, drain again or stop the queue, and    *)
(* nothing in the code keeps two threads from draining at once.              *)
EXTENDS Naturals, Sequences, FiniteSets, Functions

CONSTANTS Threads,      \* callers
          Works,        \* work items; each is accepted at most once
          Rejectable,   \* those built with a reject handler
          Capacity,     \* impl_->capacity
          Limits,       \* arguments Drain is called with
          MaxDepth,     \* bound on drains nested inside published works
          NoWork

\* Lines 246-247: the capacity is the maximum of 1 and what was asked for.
ASSUME QueueAssumption ==
    /\ Capacity \in Nat \ {0}
    /\ Limits \subseteq Nat
    /\ MaxDepth \in Nat
    /\ Rejectable \subseteq Works
    /\ NoWork \notin Works

VARIABLES
    queue,      \* impl_->queue
    stopped,    \* impl_->stopped
    abandoned,  \* the deque RequestStop swapped out, minus what it disposed of
    stopper,    \* the threads inside RequestStop, past its critical section
    drains,     \* per thread, its Drain calls: works left to the limit, work held
    accepted,   \* history: works in the order SubmitWork returned Ok
    started,    \* history: works in the order Drain took them
    ran,        \* history: works whose run returned
    disposed,   \* history: works in the order Reject passed them
    rejected    \* history: works whose reject handler ran

vars == <<queue, stopped, abandoned, stopper, drains,
          accepted, started, ran, disposed, rejected>>

stopVars == <<stopped, abandoned, stopper, disposed, rejected>>

Frame  == [left : Nat, work : Works \cup {NoWork}]
Top(t) == drains[t][Len(drains[t])]
Held   == (UNION {{drains[t][k].work : k \in DOMAIN drains[t]} : t \in Threads})
              \ {NoWork}

Draining(t) == drains[t] # <<>> /\ Top(t).work = NoWork /\ t \notin stopper
Running(t)  == drains[t] # <<>> /\ Top(t).work # NoWork

\* A thread calls the queue from outside, or from the work it is publishing.
MayCall(t) == t \notin stopper /\ (drains[t] = <<>> \/ Running(t))

-----------------------------------------------------------------------------
Init ==
    /\ queue = <<>>
    /\ stopped = FALSE
    /\ abandoned = <<>>
    /\ stopper = {}
    /\ drains = [t \in Threads |-> <<>>]
    /\ accepted = <<>> /\ started = <<>> /\ disposed = <<>>
    /\ ran = {} /\ rejected = {}

\* Variants of definitions below, each with one plausible mistake.
RefusesWhenFull   == Len(queue) >= Capacity                \* stopped is not looked at
RefusesLate       == stopped \/ Len(queue) > Capacity      \* off by one
WithinAnyLimit(t) == TRUE                                 \* only an empty queue ends it
AbandonedNothing  == <<>>                                  \* the queue is cleared
UnhandledAll(w)   == {}                                    \* no handler is called
DrainsToo == abandoned = <<>> /\ \A t \in Threads : drains[t] = <<>>

\* ExecutorStopped, or QueueFull.
Refuses == stopped \/ Len(queue) >= Capacity

\* drained < limit.
WithinLimit(t) == Top(t).left > 0

\* What RequestStop swaps out, the handlers that Reject calls for w, and the end
\* of its loop.
Abandoned  == queue
Handled(w) == {w} \cap Rejectable
AllRejected == abandoned = <<>>

\* SubmitWork that returns Ok; a refusal changes nothing.
Submit(t, w) ==
    /\ MayCall(t)
    /\ w \notin Range(accepted)
    /\ ~Refuses
    /\ queue' = Append(queue, w)
    /\ accepted' = Append(accepted, w)
    /\ UNCHANGED <<stopVars, drains, started, ran>>

Drain(t, limit) ==
    /\ MayCall(t)
    /\ Len(drains[t]) < MaxDepth
    /\ drains' = [drains EXCEPT ![t] = Append(@, [left |-> limit, work |-> NoWork])]
    /\ UNCHANGED <<stopVars, queue, accepted, started, ran>>

\* One round of the loop: the front leaves the queue under the lock and runs
\* after the lock is released.
Take(t) ==
    /\ Draining(t)
    /\ WithinLimit(t)
    /\ queue # <<>>
    /\ queue' = Tail(queue)
    /\ drains' = [drains EXCEPT ![t][Len(drains[t])].work = Head(queue)]
    /\ started' = Append(started, Head(queue))
    /\ UNCHANGED <<stopVars, accepted, ran>>

\* work.run() returned or threw: ++drained.
Return(t) ==
    /\ Running(t) /\ t \notin stopper
    /\ ran' = ran \cup {Top(t).work}
    /\ drains' = [drains EXCEPT ![t][Len(drains[t])] =
                      [left |-> @.left - 1, work |-> NoWork]]
    /\ UNCHANGED <<stopVars, queue, accepted, started>>

DrainReturns(t) ==
    /\ Draining(t)
    /\ ~WithinLimit(t) \/ queue = <<>>
    /\ drains' = [drains EXCEPT ![t] = SubSeq(@, 1, Len(@) - 1)]
    /\ UNCHANGED <<stopVars, queue, accepted, started, ran>>

\* The critical section of RequestStop; a repeated call returns unchanged.
RequestStop(t) ==
    /\ MayCall(t)
    /\ ~stopped
    /\ stopped' = TRUE
    /\ abandoned' = Abandoned
    /\ queue' = <<>>
    /\ stopper' = stopper \cup {t}
    /\ UNCHANGED <<drains, accepted, started, ran, disposed, rejected>>

Dispose(t) ==
    /\ t \in stopper
    /\ abandoned # <<>>
    /\ abandoned' = Tail(abandoned)
    /\ disposed' = Append(disposed, Head(abandoned))
    /\ rejected' = rejected \cup Handled(Head(abandoned))
    /\ UNCHANGED <<queue, stopped, stopper, drains, accepted, started, ran>>

StopReturns(t) ==
    /\ t \in stopper
    /\ AllRejected
    /\ stopper' = stopper \ {t}
    /\ UNCHANGED <<queue, stopped, abandoned, drains,
                   accepted, started, ran, disposed, rejected>>

-----------------------------------------------------------------------------
Step(t) == Take(t) \/ Return(t) \/ DrainReturns(t) \/ Dispose(t) \/ StopReturns(t)

Next ==
    \E t \in Threads :
        \/ \E w \in Works : Submit(t, w)
        \/ \E n \in Limits : Drain(t, n)
        \/ RequestStop(t)
        \/ Step(t)

Spec == Init /\ [][Next]_vars

\* The publication thread keeps calling Drain with room, as a frame loop does; a
\* call that was entered proceeds, and a work does not call the queue for ever.
\* Nobody has to submit or stop.
Fairness(pump) ==
    /\ \A t \in Threads : WF_vars(Step(t)) /\ SF_vars(Return(t))
    /\ SF_vars(drains[pump] = <<>> /\ \E n \in Limits \ {0} : Drain(pump, n))

-----------------------------------------------------------------------------
TypeOK ==
    /\ queue \in Seq(Works) /\ abandoned \in Seq(Works)
    /\ stopped \in BOOLEAN
    /\ stopper \in SUBSET Threads
    /\ drains \in [Threads -> Seq(Frame)]
    /\ accepted \in Seq(Works) /\ started \in Seq(Works) /\ disposed \in Seq(Works)
    /\ ran \in SUBSET Works /\ rejected \in SUBSET Works

\* Whatever nests and whoever drains, the accepted works are in their order
\* those taken, those disposed of, those the stop holds and those queued.
InOrder == accepted = started \o disposed \o abandoned \o queue

\* A work is published by one drain or rejected, once; none is dropped when a
\* published work drains, submits or stops the queue it is published from.
SettledOnce ==
    /\ \A j, k \in 1..Len(accepted) : accepted[j] = accepted[k] => j = k
    /\ Range(started) \cap Range(disposed) = {}
    /\ rejected = Range(disposed) \cap Rejectable
    /\ Range(started) = ran \cup Held

\* However many threads drain, and whatever the published works do, no accepted
\* work is lost, repeated, overtaken, or both run and rejected.
WorksAccounted == InOrder /\ SettledOnce

\* The queue implements the executor promise, its works being run by Drain.
Promise == INSTANCE ExecutorSpec WITH
    pending  <- abandoned \o queue,
    running  <- Held,
    disposed <- Range(disposed)
ImplementsExecutor == Promise!ExecutorSafety

=============================================================================
