--------------------------- MODULE TaskExecutor ---------------------------
(* The native ThreadPool behind Scheduler and IoExecutor: a bounded queue    *)
(* under one mutex, a condition variable, worker threads, RequestStop and    *)
(* Join.  Every action is one critical section or one step taken outside the *)
(* lock.  Clients and the jobs themselves call the pool.                     *)
EXTENDS Naturals, Sequences, FiniteSets, Functions

CONSTANTS Clients,      \* threads outside the pool
          WorkerCount,  \* size of threads_
          Works,        \* work items; each is accepted at most once
          Rejectable,   \* those built with a reject handler (Schedule, Then, ...)
          Capacity,     \* state_->capacity
          NoWork

Worker == 1..WorkerCount
Actor  == Clients \cup Worker

\* The constructor takes the maximum of 1 and both numbers (lines 31-32).
ASSUME PoolAssumption ==
    /\ WorkerCount \in Nat \ {0}
    /\ Capacity \in Nat \ {0}
    /\ Clients \cap Worker = {}
    /\ Rejectable \subseteq Works
    /\ NoWork \notin Works

VARIABLES
    queue,      \* state_->queue
    stopping,   \* state_->stopping
    abandoned,  \* the deque RequestStop swapped out, minus what it disposed of
    worker,     \* where each worker thread is
    job,        \* the work a running worker holds
    call,       \* the pool operation a thread is in the middle of
    joinAt,     \* index of the loop in Join
    handle,     \* std::thread state of threads_[i]
    accepted,   \* history: works in the order Submit returned Ok
    started,    \* history: works in the order workers took them
    ran,        \* history: works whose run returned
    disposed,   \* history: works in the order Reject passed them
    rejected    \* history: works whose reject handler ran

vars == <<queue, stopping, abandoned, worker, job, call, joinAt, handle,
          accepted, started, ran, disposed, rejected>>

queueVars == <<queue, accepted>>
stopVars  == <<stopping, abandoned, disposed, rejected>>
runVars   == <<job, started, ran>>
joinVars  == <<joinAt, handle>>

Asleep      == {i \in Worker : worker[i] = "asleep"}
Scanning    == {i \in Worker : worker[i] = "scan"}

-----------------------------------------------------------------------------
\* New threads run Worker at once: they are about to take the lock.
Init ==
    /\ queue = <<>>
    /\ stopping = FALSE
    /\ abandoned = <<>>
    /\ worker = [i \in Worker |-> "scan"]
    /\ job = [i \in Worker |-> NoWork]
    /\ call = [a \in Actor |-> "none"]
    /\ joinAt = 1
    /\ handle = [i \in Worker |-> "joinable"]
    /\ accepted = <<>> /\ started = <<>> /\ disposed = <<>>
    /\ ran = {} /\ rejected = {}

\* A client calls at any time; a worker thread only from inside a job.
MayCall(a) ==
    /\ call[a] = "none"
    /\ a \in Worker => worker[a] = "running"

\* Variants of definitions below, each with one plausible mistake: they serve to
\* see that the properties notice it.
RefusesWhenFull  == Len(queue) >= Capacity                \* stopping is not looked at
RefusesLate      == stopping \/ Len(queue) > Capacity     \* off by one
EnqueuedFront(w) == <<w>> \o queue                        \* push_front
NotifyNobody     == UNCHANGED worker                      \* no notification
AwakenedOne ==                                            \* notify_one
    IF Asleep = {} THEN worker ELSE [worker EXCEPT ![CHOOSE i \in Asleep : TRUE] = "scan"]
UnhandledAll(w)  == {}                                    \* no handler is called
DetachesNever(a) == FALSE                                 \* a thread joins itself

JoinPastEnd(a) ==                                         \* one round too many
    /\ call[a] = "join"
    /\ joinAt > WorkerCount
    /\ joinAt' = joinAt + 1
    /\ call' = [call EXCEPT ![a] = "none"]
    /\ UNCHANGED <<queueVars, stopVars, worker, runVars, handle>>

\* ExecutorStopped, or QueueFull.
Refuses == stopping \/ Len(queue) >= Capacity

Enqueued(w) == Append(queue, w)

\* available.notify_one(): some sleeper, when there is one, wakes.
NotifyOne ==
    IF Asleep = {} THEN UNCHANGED worker
    ELSE \E i \in Asleep : worker' = [worker EXCEPT ![i] = "scan"]

\* available.notify_all().
Awakened == [i \in Worker |-> IF worker[i] = "asleep" THEN "scan" ELSE worker[i]]

\* The handlers that Reject calls for w: jobs of Executor::Submit have none.
Handled(w) == {w} \cap Rejectable

\* Join called from the thread it comes to.
Detaches(a) == joinAt = a

\* ThreadPool::Submit that returns Ok; a refusal changes nothing.
Submit(a, w) ==
    /\ MayCall(a)
    /\ w \notin Range(accepted)
    /\ ~Refuses
    /\ queue' = Enqueued(w)
    /\ accepted' = Append(accepted, w)
    /\ NotifyOne
    /\ UNCHANGED <<stopVars, runVars, joinVars, call>>

\* The critical section of RequestStop; a repeated call returns unchanged.
RequestStop(a) ==
    /\ MayCall(a)
    /\ ~stopping
    /\ stopping' = TRUE
    /\ abandoned' = queue
    /\ queue' = <<>>
    /\ call' = [call EXCEPT ![a] = "notify"]
    /\ UNCHANGED <<worker, runVars, joinVars, accepted, disposed, rejected>>

\* After the lock is released.
NotifyAll(a) ==
    /\ call[a] = "notify"
    /\ worker' = Awakened
    /\ call' = [call EXCEPT ![a] = "reject"]
    /\ UNCHANGED <<queueVars, stopVars, runVars, joinVars>>

\* One round of the loop in Reject.
Dispose(a) ==
    /\ call[a] = "reject"
    /\ abandoned # <<>>
    /\ abandoned' = Tail(abandoned)
    /\ disposed' = Append(disposed, Head(abandoned))
    /\ rejected' = rejected \cup Handled(Head(abandoned))
    /\ UNCHANGED <<queueVars, stopping, worker, runVars, joinVars, call>>

StopReturns(a) ==
    /\ call[a] = "reject"
    /\ abandoned = <<>>
    /\ call' = [call EXCEPT ![a] = "none"]
    /\ UNCHANGED <<queueVars, stopVars, worker, runVars, joinVars>>

\* Join is entered by one thread at a time: threads_ has no lock, and the
\* owner that calls Join, or the destructor, is what keeps the calls apart.
Join(a) ==
    /\ MayCall(a)
    /\ \A b \in Actor : call[b] # "join"
    /\ call' = [call EXCEPT ![a] = "join"]
    /\ joinAt' = 1
    /\ UNCHANGED <<queueVars, stopVars, worker, runVars, handle>>

\* One round of the loop in Join: skip, detach the caller itself, or block
\* until the thread has ended.
JoinThread(a) ==
    /\ call[a] = "join"
    /\ joinAt \in Worker
    /\ \/ handle[joinAt] # "joinable" /\ UNCHANGED handle
       \/ /\ handle[joinAt] = "joinable"
          /\ Detaches(a)
          /\ handle' = [handle EXCEPT ![joinAt] = "detached"]
       \/ /\ handle[joinAt] = "joinable"
          /\ ~Detaches(a)
          /\ worker[joinAt] = "exited"
          /\ handle' = [handle EXCEPT ![joinAt] = "joined"]
    /\ joinAt' = joinAt + 1
    /\ UNCHANGED <<queueVars, stopVars, worker, runVars, call>>

JoinReturns(a) ==
    /\ call[a] = "join"
    /\ joinAt \notin Worker
    /\ call' = [call EXCEPT ![a] = "none"]
    /\ UNCHANGED <<queueVars, stopVars, worker, runVars, joinVars>>

-----------------------------------------------------------------------------
\* The worker holds the lock and evaluates the predicate of the wait.
Sleep(i) ==
    /\ worker[i] = "scan"
    /\ ~stopping /\ queue = <<>>
    /\ worker' = [worker EXCEPT ![i] = "asleep"]
    /\ UNCHANGED <<queueVars, stopVars, runVars, joinVars, call>>

Take(i) ==
    /\ worker[i] = "scan"
    /\ queue # <<>>
    /\ queue' = Tail(queue)
    /\ job' = [job EXCEPT ![i] = Head(queue)]
    /\ started' = Append(started, Head(queue))
    /\ worker' = [worker EXCEPT ![i] = "running"]
    /\ UNCHANGED <<stopVars, joinVars, call, accepted, ran>>

Exit(i) ==
    /\ worker[i] = "scan"
    /\ stopping /\ queue = <<>>
    /\ worker' = [worker EXCEPT ![i] = "exited"]
    /\ UNCHANGED <<queueVars, stopVars, runVars, joinVars, call>>

\* work.run() returned or threw; exceptions end here.
Return(i) ==
    /\ worker[i] = "running"
    /\ call[i] = "none"
    /\ ran' = ran \cup {job[i]}
    /\ job' = [job EXCEPT ![i] = NoWork]
    /\ worker' = [worker EXCEPT ![i] = "scan"]
    /\ UNCHANGED <<queueVars, stopVars, joinVars, call, started>>

\* A condition variable may wake without a notification.
SpuriousWake(i) ==
    /\ worker[i] = "asleep"
    /\ worker' = [worker EXCEPT ![i] = "scan"]
    /\ UNCHANGED <<queueVars, stopVars, runVars, joinVars, call>>

-----------------------------------------------------------------------------
CallerStep(a) ==
    NotifyAll(a) \/ Dispose(a) \/ StopReturns(a) \/ JoinThread(a) \/ JoinReturns(a)

WorkerStep(i) == Sleep(i) \/ Take(i) \/ Exit(i)

Next ==
    \/ \E a \in Actor : \/ \E w \in Works : Submit(a, w)
                        \/ RequestStop(a)
                        \/ Join(a)
                        \/ CallerStep(a)
    \/ \E i \in Worker : WorkerStep(i) \/ Return(i) \/ SpuriousWake(i)

Spec == Init /\ [][Next]_vars

\* Threads are scheduled, and jobs are "short, finite" (docs/task.md): a job
\* does not call the pool for ever, so its return is strongly fair.  Nobody
\* has to submit, stop or join, and no spurious wake-up is owed.
Fairness ==
    /\ \A a \in Actor : WF_vars(CallerStep(a))
    /\ \A i \in Worker : WF_vars(WorkerStep(i)) /\ SF_vars(Return(i))

FairSpec == Spec /\ Fairness

-----------------------------------------------------------------------------
CallState == {"none", "notify", "reject", "join"}

TypeOK ==
    /\ queue \in Seq(Works) /\ abandoned \in Seq(Works)
    /\ stopping \in BOOLEAN
    /\ worker \in [Worker -> {"scan", "asleep", "running", "exited"}]
    /\ job \in [Worker -> Works \cup {NoWork}]
    /\ call \in [Actor -> CallState]
    /\ joinAt \in 1..(WorkerCount + 1)
    /\ handle \in [Worker -> {"joinable", "joined", "detached"}]
    /\ accepted \in Seq(Works) /\ started \in Seq(Works) /\ disposed \in Seq(Works)
    /\ ran \in SUBSET Works /\ rejected \in SUBSET Works

\* A worker holds a work exactly while it runs one.
JobHeld == \A i \in Worker : worker[i] = "running" <=> job[i] # NoWork

\* Before the stop nothing is abandoned; after it nothing is queued.
StopPhase ==
    /\ stopping => queue = <<>>
    /\ ~stopping => abandoned = <<>> /\ disposed = <<>>

\* The accepted works are, in their order of acceptance, those a worker took,
\* those Reject disposed of, those RequestStop still holds and those queued:
\* nothing is lost, duplicated or overtaken by submits, takes and the stop.
InOrder == accepted = started \o disposed \o abandoned \o queue

\* No work is taken twice, held by two workers, or both run and rejected; the
\* handler of each disposed work that has one ran; a taken work is not dropped.
SettledOnce ==
    /\ \A j, k \in 1..Len(accepted) : accepted[j] = accepted[k] => j = k
    /\ \A i, j \in Worker : i # j /\ job[i] = job[j] => job[i] = NoWork
    /\ Range(started) \cap Range(disposed) = {}
    /\ rejected = Range(disposed) \cap Rejectable
    /\ Range(started) = ran \cup ({job[i] : i \in Worker} \ {NoWork})

\* However submits, takes and the stop interleave, no accepted work is lost,
\* repeated, overtaken, or both run and rejected.
WorksAccounted == InOrder /\ SettledOnce

\* No lost wake-up: while a worker sleeps, every queued work has a worker that
\* is awake and about to look at the queue.
NoLostWakeup == Asleep # {} => Len(queue) <= Cardinality(Scanning)

\* Once notify_all has run no worker sleeps again, so nobody misses the stop.
StopSeen ==
    stopping => Asleep = {} \/ \E a \in Actor : call[a] = "notify"

\* Nobody sleeps beside a work that nobody else will take, or through a stop.
NobodyOversleeps == NoLostWakeup /\ StopSeen

\* After the critical section of RequestStop no worker takes anything.
NothingStartsAfterStop == [][stopping => started' = started]_vars

\* Every accepted work is taken by a worker or disposed of.
EveryWorkSettles ==
    []<>(Range(accepted) \subseteq Range(started) \cup Range(disposed))

\* Once the pool is stopping, a Join that was entered returns, and every
\* thread ends, from whichever thread the stop and the join were called.
JoinEnds ==
    \A a \in Actor : []<>~(call[a] = "join" /\ stopping)
WorkersEnd == []<>(stopping => \A i \in Worker : worker[i] = "exited")

\* Whatever was accepted settles, and after a stop every Join returns and every
\* thread ends.
PoolSettles == EveryWorkSettles /\ JoinEnds /\ WorkersEnd

\* The pool implements the executor promise.
Promise == INSTANCE ExecutorSpec WITH
    pending  <- abandoned \o queue,
    running  <- {job[i] : i \in Worker} \ {NoWork},
    disposed <- Range(disposed),
    stopped  <- stopping
ImplementsExecutor == Promise!ExecutorSafety

=============================================================================
