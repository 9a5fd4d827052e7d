------------------------ MODULE TaskExecutorProofs ------------------------
(* What holds of the thread pool for any number of workers, clients and      *)
(* works and any capacity: type correctness, the order and uniqueness of     *)
(* settlement, the absence of lost wake-ups.                                 *)
EXTENDS TaskExecutor, SequenceFacts, FiniteSetTheorems

-----------------------------------------------------------------------------
\* Every variable of the pool stays in its type: queues hold works, a worker is
\* in one of the four places of the Worker loop, Join's index stays in range.
THEOREM TypeCorrect == Spec => [](TypeOK /\ JobHeld)
<1>1. Init => TypeOK /\ JobHeld
  <2> SUFFICES ASSUME Init PROVE TypeOK /\ JobHeld
    OBVIOUS
  <2>1. <<>> \in Seq(Works)
    OBVIOUS
  <2>2. joinAt \in 1..(WorkerCount + 1)
    BY PoolAssumption DEF Init
  <2>3. JobHeld
    BY DEF Init, JobHeld
  <2> QED BY <2>1, <2>2, <2>3 DEF Init, TypeOK, CallState
<1>2. TypeOK /\ JobHeld /\ [Next]_vars => (TypeOK /\ JobHeld)'
  <2> SUFFICES ASSUME TypeOK, JobHeld, [Next]_vars
               PROVE  TypeOK' /\ JobHeld'
    OBVIOUS
  <2> USE DEF TypeOK, JobHeld, queueVars, stopVars, runVars, joinVars, CallState
  <2>1. ASSUME NEW a \in Actor, NEW w \in Works, Submit(a, w)
        PROVE  TypeOK' /\ JobHeld'
    <3>1. UNCHANGED worker \/ \E i \in Worker :
              worker[i] = "asleep" /\ worker' = [worker EXCEPT ![i] = "scan"]
      BY <2>1 DEF Submit, NotifyOne, Asleep
    <3>2. queue' \in Seq(Works) /\ accepted' \in Seq(Works)
      BY <2>1 DEF Submit, Enqueued
    <3> QED BY <2>1, <3>1, <3>2 DEF Submit
  <2>2. ASSUME NEW a \in Actor, RequestStop(a)
        PROVE  TypeOK' /\ JobHeld'
    BY <2>2 DEF RequestStop
  <2>3. ASSUME NEW a \in Actor, Join(a)
        PROVE  TypeOK' /\ JobHeld'
    BY <2>3, PoolAssumption DEF Join
  <2>4. ASSUME NEW a \in Actor, NotifyAll(a)
        PROVE  TypeOK' /\ JobHeld'
    BY <2>4 DEF NotifyAll, Awakened
  <2>5. ASSUME NEW a \in Actor, Dispose(a)
        PROVE  TypeOK' /\ JobHeld'
    BY <2>5, HeadTailProperties DEF Dispose, Handled
  <2>6. ASSUME NEW a \in Actor, StopReturns(a)
        PROVE  TypeOK' /\ JobHeld'
    BY <2>6 DEF StopReturns
  <2>7. ASSUME NEW a \in Actor, JoinThread(a)
        PROVE  TypeOK' /\ JobHeld'
    BY <2>7, PoolAssumption DEF JoinThread, Worker
  <2>8. ASSUME NEW a \in Actor, JoinReturns(a)
        PROVE  TypeOK' /\ JobHeld'
    BY <2>8 DEF JoinReturns
  <2>9. ASSUME NEW i \in Worker, WorkerStep(i) \/ Return(i) \/ SpuriousWake(i)
        PROVE  TypeOK' /\ JobHeld'
    <3>1. CASE Sleep(i)
      BY <3>1 DEF Sleep
    <3>2. CASE Take(i)
      BY <3>2, HeadTailProperties, PoolAssumption DEF Take
    <3>3. CASE Exit(i)
      BY <3>3 DEF Exit
    <3>4. CASE Return(i)
      BY <3>4 DEF Return
    <3>5. CASE SpuriousWake(i)
      BY <3>5 DEF SpuriousWake
    <3> QED BY <2>9, <3>1, <3>2, <3>3, <3>4, <3>5 DEF WorkerStep
  <2>10. CASE UNCHANGED vars
    BY <2>10 DEF vars
  <2> QED
    BY <2>1, <2>2, <2>3, <2>4, <2>5, <2>6, <2>7, <2>8, <2>9, <2>10
       DEF Next, CallerStep
<1> QED BY <1>1, <1>2, PTL DEF Spec

-----------------------------------------------------------------------------
\* Works settle in the order the pool accepted them, none lost and none twice:
\* InOrder, with the fact about the stop that makes it inductive.
THEOREM AcceptanceOrder == Spec => [](StopPhase /\ InOrder)
<1>1. Init => StopPhase /\ InOrder
  BY DEF Init, StopPhase, InOrder
<1>2. TypeOK /\ StopPhase /\ InOrder /\ [Next]_vars => (StopPhase /\ InOrder)'
  <2> SUFFICES ASSUME TypeOK, StopPhase, InOrder, [Next]_vars
               PROVE  StopPhase' /\ InOrder'
    OBVIOUS
  <2>1. /\ queue \in Seq(Works) /\ abandoned \in Seq(Works)
        /\ started \in Seq(Works) /\ disposed \in Seq(Works)
        /\ started \o disposed \in Seq(Works)
        /\ started \o disposed \o abandoned \in Seq(Works)
    BY DEF TypeOK
  <2>2. ASSUME NEW a \in Actor, NEW w \in Works, Submit(a, w)
        PROVE  StopPhase' /\ InOrder'
    <3>1. StopPhase'
      BY <2>2 DEF Submit, Refuses, StopPhase, stopVars
    <3>2. accepted' = (started \o disposed \o abandoned) \o queue'
      <4> DEFINE settled == started \o disposed \o abandoned
      <4>1. settled \in Seq(Works)
        BY <2>1
      <4> HIDE DEF settled
      <4>2. settled \o Append(queue, w) = Append(settled \o queue, w)
        BY <4>1, <2>1, AppendConcat
      <4> QED BY <2>2, <4>2 DEF settled, Submit, Enqueued, InOrder
    <3> QED BY <2>2, <3>1, <3>2 DEF Submit, InOrder, stopVars, runVars
  <2>3. ASSUME NEW a \in Actor, RequestStop(a)
        PROVE  StopPhase' /\ InOrder'
    <3>1. StopPhase'
      BY <2>3 DEF RequestStop, StopPhase
    <3>2. accepted = started \o disposed \o queue
      BY <2>1, <2>3, ConcatEmptySeq DEF RequestStop, InOrder, StopPhase
    <3>3. (started \o disposed \o queue) \o <<>> = started \o disposed \o queue
      BY <2>1, ConcatEmptySeq, ConcatProperties
    <3> QED BY <2>3, <3>1, <3>2, <3>3 DEF RequestStop, InOrder, runVars
  <2>4. ASSUME NEW a \in Actor, Dispose(a)
        PROVE  StopPhase' /\ InOrder'
    <3>1. StopPhase' /\ queue = <<>> /\ Tail(abandoned) \in Seq(Works)
      BY <2>1, <2>4, HeadTailProperties DEF Dispose, StopPhase, queueVars
    <3>2. (started \o disposed) \o abandoned
          = Append(started \o disposed, Head(abandoned)) \o Tail(abandoned)
      BY <2>1, <2>4, MoveHead DEF Dispose
    <3>3. Append(started \o disposed, Head(abandoned)) = started \o disposed'
      <4>1. Head(abandoned) \in Works
        BY <2>1, <2>4, HeadTailProperties DEF Dispose
      <4>2. started \o Append(disposed, Head(abandoned))
            = Append(started \o disposed, Head(abandoned))
        BY <2>1, <4>1, AppendConcat
      <4> QED BY <2>4, <4>2 DEF Dispose
    <3> QED BY <2>4, <3>1, <3>2, <3>3 DEF Dispose, InOrder, queueVars, runVars
  <2>5. ASSUME NEW i \in Worker, Take(i)
        PROVE  StopPhase' /\ InOrder'
    <3>1. ~stopping /\ abandoned = <<>> /\ disposed = <<>>
      BY <2>5 DEF Take, StopPhase, TypeOK
    <3>2. StopPhase'
      BY <2>5, <3>1 DEF Take, StopPhase, stopVars
    <3>3. accepted = started \o queue
      BY <2>1, <3>1, ConcatEmptySeq DEF InOrder
    <3>4. started' \o queue' = started \o queue
      BY <2>1, <2>5, MoveHead DEF Take
    <3>5. started' \in Seq(Works)
      BY <2>1, <2>5, HeadTailProperties, AppendProperties DEF Take
    <3>6. started' \o disposed \o abandoned = started'
      BY <3>1, <3>5, ConcatEmptySeq
    <3> QED BY <2>5, <3>1, <3>2, <3>3, <3>4, <3>6
            DEF Take, InOrder, stopVars
  <2>6. CASE UNCHANGED <<queue, stopping, abandoned, accepted, started, disposed>>
    BY <2>6 DEF StopPhase, InOrder
  <2>7. ASSUME NEW a \in Actor,
               \/ Join(a) \/ NotifyAll(a) \/ StopReturns(a)
               \/ JoinThread(a) \/ JoinReturns(a)
        PROVE  UNCHANGED <<queue, stopping, abandoned, accepted, started, disposed>>
    BY <2>7 DEF Join, NotifyAll, StopReturns, JoinThread, JoinReturns,
                queueVars, stopVars, runVars
  <2>8. ASSUME NEW i \in Worker,
               Sleep(i) \/ Exit(i) \/ Return(i) \/ SpuriousWake(i)
        PROVE  UNCHANGED <<queue, stopping, abandoned, accepted, started, disposed>>
    BY <2>8 DEF Sleep, Exit, Return, SpuriousWake, queueVars, stopVars, runVars
  <2>9. CASE UNCHANGED vars
    BY <2>6, <2>9 DEF vars
  <2> QED
    BY <2>2, <2>3, <2>4, <2>5, <2>6, <2>7, <2>8, <2>9
       DEF Next, CallerStep, WorkerStep
<1> QED BY <1>1, <1>2, TypeCorrect, PTL DEF Spec

-----------------------------------------------------------------------------
\* The workers are finitely many, and so is every set of them.
LEMMA WorkersFinite ==
  ASSUME NEW S \in SUBSET Worker
  PROVE  IsFiniteSet(S) /\ Cardinality(S) \in Nat
<1>1. IsFiniteSet(Worker)
  BY PoolAssumption, FS_Interval DEF Worker
<1> QED BY <1>1, FS_Subset, FS_CardinalityType

\* notify_one under the lock is enough: while a worker sleeps on the condition
\* variable, the queue is no longer than the workers about to look at it.
THEOREM WakeupsNotLost == Spec => []NoLostWakeup
<1>1. Init => NoLostWakeup
  BY DEF Init, NoLostWakeup, Asleep
<1>2. TypeOK /\ JobHeld /\ NoLostWakeup /\ [Next]_vars => NoLostWakeup'
  <2> SUFFICES ASSUME TypeOK, JobHeld, NoLostWakeup, [Next]_vars
               PROVE  NoLostWakeup'
    OBVIOUS
  <2>1. /\ IsFiniteSet(Scanning) /\ Cardinality(Scanning) \in Nat
        /\ IsFiniteSet(Scanning') /\ Cardinality(Scanning') \in Nat
    BY WorkersFinite DEF Scanning
  <2>2. queue \in Seq(Works) /\ Len(queue) \in Nat
    BY LenProperties DEF TypeOK
  <2>3. ASSUME queue' = <<>> \/ Asleep' = {}
        PROVE  NoLostWakeup'
    BY <2>1, <2>3, EmptySeq DEF NoLostWakeup
  <2>4. ASSUME NEW i \in Worker, worker[i] # "scan",
               worker' = [worker EXCEPT ![i] = "scan"]
        PROVE  /\ Cardinality(Scanning') = Cardinality(Scanning) + 1
               /\ Asleep' \subseteq Asleep
    <3>1. Scanning' = Scanning \cup {i} /\ i \notin Scanning
      BY <2>4 DEF Scanning, TypeOK
    <3>2. Asleep' \subseteq Asleep
      BY <2>4 DEF Asleep, TypeOK
    <3> QED BY <2>1, <3>1, <3>2, FS_AddElement
  <2>5. ASSUME NEW a \in Actor, NEW w \in Works, Submit(a, w)
        PROVE  NoLostWakeup'
    <3>1. Len(queue') = Len(queue) + 1
      BY <2>2, <2>5, AppendProperties DEF Submit, Enqueued
    <3>2. CASE Asleep = {}
      BY <2>3, <2>5, <3>2 DEF Submit, NotifyOne, Asleep
    <3>3. CASE Asleep # {}
      <4>1. PICK i \in Asleep : worker' = [worker EXCEPT ![i] = "scan"]
        BY <2>5, <3>3 DEF Submit, NotifyOne
      <4>2. i \in Worker /\ worker[i] # "scan"
        BY <4>1 DEF Asleep
      <4>3. Cardinality(Scanning') = Cardinality(Scanning) + 1
        BY <2>4, <4>1, <4>2
      <4>4. Len(queue) <= Cardinality(Scanning)
        BY <3>3 DEF NoLostWakeup
      <4>5. Len(queue') <= Cardinality(Scanning')
        BY <2>1, <2>2, <3>1, <4>3, <4>4
      <4> QED BY <4>5 DEF NoLostWakeup
    <3> QED BY <3>2, <3>3
  <2>6. ASSUME NEW i \in Worker, Take(i)
        PROVE  NoLostWakeup'
    <3>1. Len(queue') = Len(queue) - 1
      BY <2>2, <2>6, HeadTailProperties DEF Take
    <3>2. Scanning' = Scanning \ {i} /\ i \in Scanning
      BY <2>6 DEF Take, Scanning, TypeOK
    <3>3. Cardinality(Scanning') = Cardinality(Scanning) - 1
      BY <2>1, <3>2, FS_RemoveElement
    <3>4. Asleep' = Asleep
      BY <2>6 DEF Take, Asleep, TypeOK
    <3> QED BY <2>1, <2>2, <3>1, <3>3, <3>4 DEF NoLostWakeup
  <2>7. ASSUME NEW i \in Worker, Return(i) \/ SpuriousWake(i)
        PROVE  NoLostWakeup'
    <3>1. worker[i] # "scan" /\ worker' = [worker EXCEPT ![i] = "scan"]
      BY <2>7 DEF Return, SpuriousWake
    <3>2. queue' = queue
      BY <2>7 DEF Return, SpuriousWake, queueVars
    <3>3. /\ Cardinality(Scanning') = Cardinality(Scanning) + 1
          /\ Asleep' \subseteq Asleep
      BY <2>4, <3>1
    <3>4. Asleep' # {} => Len(queue) <= Cardinality(Scanning)
      BY <3>3 DEF NoLostWakeup
    <3>5. Asleep' # {} => Len(queue') <= Cardinality(Scanning')
      BY <2>1, <2>2, <3>2, <3>3, <3>4
    <3> QED BY <3>5 DEF NoLostWakeup
  <2>8. ASSUME NEW i \in Worker, Sleep(i) \/ Exit(i)
        PROVE  NoLostWakeup'
    BY <2>3, <2>8 DEF Sleep, Exit, queueVars
  <2>9. ASSUME NEW a \in Actor, NotifyAll(a)
        PROVE  NoLostWakeup'
    BY <2>3, <2>9 DEF NotifyAll, Awakened, Asleep
  <2>10. ASSUME NEW a \in Actor, RequestStop(a)
         PROVE  NoLostWakeup'
    BY <2>3, <2>10 DEF RequestStop
  <2>11. CASE UNCHANGED <<queue, worker>>
    BY <2>11 DEF NoLostWakeup, Asleep, Scanning
  <2>12. ASSUME NEW a \in Actor,
                \/ Join(a) \/ Dispose(a) \/ StopReturns(a)
                \/ JoinThread(a) \/ JoinReturns(a)
         PROVE  UNCHANGED <<queue, worker>>
    BY <2>12 DEF Join, Dispose, StopReturns, JoinThread, JoinReturns, queueVars
  <2>13. CASE UNCHANGED vars
    BY <2>11, <2>13 DEF vars
  <2> QED
    BY <2>5, <2>6, <2>7, <2>8, <2>9, <2>10, <2>11, <2>12, <2>13
       DEF Next, CallerStep, WorkerStep
<1> QED BY <1>1, <1>2, TypeCorrect, PTL DEF Spec

\* No worker sleeps through a stop: until notify_all has run the stopping
\* thread still owes it, and afterwards nobody goes back to sleep.
THEOREM StopIsSeen == Spec => []StopSeen
<1>1. Init => StopSeen
  BY DEF Init, StopSeen
<1>2. TypeOK /\ StopSeen /\ [Next]_vars => StopSeen'
  <2> SUFFICES ASSUME TypeOK, StopSeen, [Next]_vars
               PROVE  StopSeen'
    OBVIOUS
  <2> USE DEF TypeOK
  <2>1. ASSUME stopping' = stopping, Asleep' \subseteq Asleep,
               \A a \in Actor : call[a] = "notify" => call'[a] = "notify"
        PROVE  StopSeen'
    BY <2>1 DEF StopSeen
  <2>2. ASSUME NEW a \in Actor, NEW w \in Works, Submit(a, w)
        PROVE  StopSeen'
    BY <2>2 DEF Submit, Refuses, StopSeen, stopVars
  <2>3. ASSUME NEW a \in Actor, RequestStop(a)
        PROVE  StopSeen'
    <3>1. call'[a] = "notify"
      BY <2>3 DEF RequestStop
    <3> QED BY <3>1 DEF StopSeen
  <2>4. ASSUME NEW a \in Actor, NotifyAll(a)
        PROVE  StopSeen'
    <3>1. Asleep' = {}
      BY <2>4 DEF NotifyAll, Awakened, Asleep
    <3> QED BY <3>1 DEF StopSeen
  <2>5. ASSUME NEW a \in Actor,
               \/ Join(a) \/ Dispose(a) \/ StopReturns(a)
               \/ JoinThread(a) \/ JoinReturns(a)
        PROVE  StopSeen'
    <3>1. /\ stopping' = stopping
          /\ worker' = worker
          /\ \/ call' = call
             \/ /\ call[a] # "notify"
                /\ \E v \in CallState : call' = [call EXCEPT ![a] = v]
      BY <2>5 DEF Join, Dispose, StopReturns, JoinThread, JoinReturns,
                  MayCall, stopVars, CallState
    <3> QED BY <2>1, <3>1 DEF Asleep
  <2>6. ASSUME NEW i \in Worker, Sleep(i)
        PROVE  StopSeen'
    BY <2>6 DEF Sleep, StopSeen, stopVars
  <2>7. ASSUME NEW i \in Worker,
               Take(i) \/ Exit(i) \/ Return(i) \/ SpuriousWake(i)
        PROVE  StopSeen'
    <3>1. stopping' = stopping /\ call' = call
      BY <2>7 DEF Take, Exit, Return, SpuriousWake, stopVars
    <3>2. Asleep' \subseteq Asleep
      BY <2>7 DEF Take, Exit, Return, SpuriousWake, Asleep
    <3> QED BY <2>1, <3>1, <3>2
  <2>8. CASE UNCHANGED vars
    BY <2>8 DEF vars, StopSeen, Asleep
  <2> QED
    BY <2>2, <2>3, <2>4, <2>5, <2>6, <2>7, <2>8
       DEF Next, CallerStep, WorkerStep
<1> QED BY <1>1, <1>2, TypeCorrect, PTL DEF Spec

-----------------------------------------------------------------------------
\* What the parts of the pool hold, put together: the works that were accepted;
\* as none is accepted twice, those that are queued were not taken, and those
\* that were taken are not disposed of.
LEMMA WhereWorksAre ==
  ASSUME TypeOK, InOrder
  PROVE  /\ Range(accepted) = Range(started) \cup Range(disposed)
                                 \cup Range(abandoned) \cup Range(queue)
         /\ Distinct(accepted) =>
               /\ Range(started) \cap Range(disposed) = {}
               /\ (Range(started) \cup Range(disposed) \cup Range(abandoned))
                     \cap Range(queue) = {}
<1>1. /\ started \in Seq(Works) /\ disposed \in Seq(Works)
      /\ abandoned \in Seq(Works) /\ queue \in Seq(Works)
      /\ accepted = started \o disposed \o abandoned \o queue
  BY DEF TypeOK, InOrder
<1> QED BY <1>1, FourParts

\* Each accepted work is settled once: taken by one worker, or disposed of with
\* its reject handler called, never both and never twice.
THEOREM EachSettledOnce == Spec => []SettledOnce
<1> DEFINE Held == {job[i] : i \in Worker} \ {NoWork}
<1>1. Init => SettledOnce
  <2> SUFFICES ASSUME Init PROVE SettledOnce
    OBVIOUS
  <2>1. Range(<<>>) = {} /\ Held = {}
    BY EmptySeq DEF Init, Range
  <2> QED BY <2>1, EmptySeq DEF Init, SettledOnce
<1>2. TypeOK /\ JobHeld /\ StopPhase /\ InOrder /\ InOrder' /\ TypeOK'
      /\ SettledOnce /\ [Next]_vars => SettledOnce'
  <2> SUFFICES ASSUME TypeOK, JobHeld, StopPhase, InOrder, InOrder', TypeOK',
                      SettledOnce, [Next]_vars
               PROVE  SettledOnce'
    OBVIOUS
  <2>1. /\ accepted \in Seq(Works) /\ started \in Seq(Works)
        /\ disposed \in Seq(Works) /\ queue \in Seq(Works)
        /\ abandoned \in Seq(Works)
    BY DEF TypeOK
  <2>2. ASSUME Distinct(accepted')
        PROVE  (Range(started) \cap Range(disposed))' = {}
    <3>1. /\ started' \in Seq(Works) /\ disposed' \in Seq(Works)
          /\ abandoned' \in Seq(Works) /\ queue' \in Seq(Works)
          /\ accepted' = started' \o disposed' \o abandoned' \o queue'
      BY DEF TypeOK, InOrder
    <3> QED BY <2>2, <3>1, FourParts
  <2>3. ASSUME accepted' = accepted,
               \A i, j \in Worker : i # j /\ job'[i] = job'[j] => job'[i] = NoWork,
               rejected' = Range(disposed') \cap Rejectable,
               Range(started') = ran' \cup Held'
        PROVE  SettledOnce'
    <3>1. Distinct(accepted')
      BY <2>3 DEF SettledOnce, Distinct
    <3> QED BY <2>2, <2>3, <3>1 DEF SettledOnce, Distinct
  <2>4. ASSUME NEW a \in Actor, NEW w \in Works, Submit(a, w)
        PROVE  SettledOnce'
    <3>1. \A j, k \in 1..Len(accepted') : accepted'[j] = accepted'[k] => j = k
      <4>1. /\ Len(accepted') = Len(accepted) + 1 /\ Len(accepted) \in Nat
            /\ accepted'[Len(accepted) + 1] = w
            /\ \A k \in 1..Len(accepted) : accepted'[k] = accepted[k]
        BY <2>1, <2>4, AppendProperties, LenProperties DEF Submit
      <4>2. \A k \in 1..Len(accepted) : accepted[k] # w
        BY <2>4 DEF Submit, Range
      <4> QED BY <4>1, <4>2 DEF SettledOnce
    <3>2. UNCHANGED <<job, started, ran, disposed, rejected>>
      BY <2>4 DEF Submit, stopVars, runVars
    <3> QED BY <3>1, <3>2 DEF SettledOnce
  <2>5. ASSUME NEW a \in Actor, Dispose(a)
        PROVE  SettledOnce'
    <3>1. Head(abandoned) \in Works
      BY <2>1, <2>5, HeadTailProperties DEF Dispose
    <3>2. Range(disposed') = Range(disposed) \cup {Head(abandoned)}
      BY <2>1, <2>5, <3>1, RangeAppend DEF Dispose
    <3>3. rejected' = Range(disposed') \cap Rejectable
      BY <2>5, <3>2 DEF Dispose, Handled, SettledOnce
    <3> QED BY <2>3, <2>5, <3>3 DEF Dispose, SettledOnce, queueVars, runVars
  <2>6. ASSUME NEW i \in Worker, Take(i)
        PROVE  SettledOnce'
    <3>1. /\ Head(queue) \in Works /\ Head(queue) # NoWork
          /\ Head(queue) \in Range(queue)
      BY <2>1, <2>6, HeadTailProperties, PoolAssumption, EmptySeq DEF Take, Range
    <3>2. Head(queue) \notin Range(started)
      BY <3>1, WhereWorksAre DEF SettledOnce, Distinct
    <3>3. \A j \in Worker : job[j] # Head(queue)
      BY <3>1, <3>2 DEF SettledOnce
    <3>4. job' = [job EXCEPT ![i] = Head(queue)] /\ job[i] = NoWork
      BY <2>6 DEF Take, JobHeld
    <3>5. \A j, k \in Worker : j # k /\ job'[j] = job'[k] => job'[j] = NoWork
      BY <3>3, <3>4 DEF SettledOnce, TypeOK
    <3>6. Held' = Held \cup {Head(queue)}
      BY <3>1, <3>4 DEF TypeOK
    <3>7. Range(started') = Range(started) \cup {Head(queue)}
      BY <2>1, <2>6, <3>1, RangeAppend DEF Take
    <3>8. Range(started') = ran' \cup Held'
      BY <2>6, <3>6, <3>7 DEF Take, SettledOnce
    <3> QED BY <2>3, <2>6, <3>5, <3>8 DEF Take, SettledOnce, stopVars
  <2>7. ASSUME NEW i \in Worker, Return(i)
        PROVE  SettledOnce'
    <3>1. job' = [job EXCEPT ![i] = NoWork] /\ job[i] # NoWork
      BY <2>7 DEF Return, JobHeld
    <3>2. \A j, k \in Worker : j # k /\ job'[j] = job'[k] => job'[j] = NoWork
      BY <3>1 DEF SettledOnce, TypeOK
    <3>3. ran' \cup Held' = ran \cup Held
      BY <2>7, <3>1 DEF Return, TypeOK
    <3> QED BY <2>3, <2>7, <3>2, <3>3
            DEF Return, SettledOnce, queueVars, stopVars
  <2>8. CASE UNCHANGED <<accepted, started, ran, job, disposed, rejected>>
    BY <2>8 DEF SettledOnce
  <2>9. ASSUME NEW a \in Actor,
               \/ RequestStop(a) \/ Join(a) \/ NotifyAll(a) \/ StopReturns(a)
               \/ JoinThread(a) \/ JoinReturns(a)
        PROVE  UNCHANGED <<accepted, started, ran, job, disposed, rejected>>
    BY <2>9 DEF RequestStop, Join, NotifyAll, StopReturns, JoinThread, JoinReturns,
                queueVars, stopVars, runVars
  <2>10. ASSUME NEW i \in Worker, Sleep(i) \/ Exit(i) \/ SpuriousWake(i)
         PROVE  UNCHANGED <<accepted, started, ran, job, disposed, rejected>>
    BY <2>10 DEF Sleep, Exit, SpuriousWake, queueVars, stopVars, runVars
  <2>11. CASE UNCHANGED vars
    BY <2>8, <2>11 DEF vars
  <2> QED
    BY <2>4, <2>5, <2>6, <2>7, <2>8, <2>9, <2>10, <2>11
       DEF Next, CallerStep, WorkerStep
<1> QED BY <1>1, <1>2, TypeCorrect, AcceptanceOrder, PTL DEF Spec

-----------------------------------------------------------------------------
\* Submits, takes and the stop neither lose, repeat nor reorder a work, nor run
\* one that was rejected.
THEOREM WorksAreAccounted == Spec => []WorksAccounted
<1>1. InOrder /\ SettledOnce => WorksAccounted
  BY DEF WorksAccounted
<1> QED BY <1>1, AcceptanceOrder, EachSettledOnce, PTL

\* No worker sleeps beside a work nobody will take, nor through a stop.
THEOREM NobodyIsForgotten == Spec => []NobodyOversleeps
<1>1. NoLostWakeup /\ StopSeen => NobodyOversleeps
  BY DEF NobodyOversleeps
<1> QED BY <1>1, WakeupsNotLost, StopIsSeen, PTL

-----------------------------------------------------------------------------
\* After the critical section of RequestStop no worker takes a work.
THEOREM StopIsFinal == Spec => NothingStartsAfterStop
<1>1. TypeOK /\ StopPhase /\ [Next]_vars => [stopping => started' = started]_vars
  <2> SUFFICES ASSUME TypeOK, StopPhase, [Next]_vars, stopping
               PROVE  started' = started
    OBVIOUS
  <2>1. ASSUME NEW a \in Actor,
               \/ \E w \in Works : Submit(a, w)
               \/ RequestStop(a) \/ Join(a) \/ CallerStep(a)
        PROVE  started' = started
    BY <2>1 DEF Submit, RequestStop, Join, CallerStep, NotifyAll, Dispose,
                StopReturns, JoinThread, JoinReturns, runVars
  <2>2. ASSUME NEW i \in Worker, Take(i)
        PROVE  FALSE
    BY <2>2 DEF Take, StopPhase
  <2>3. ASSUME NEW i \in Worker,
               Sleep(i) \/ Exit(i) \/ Return(i) \/ SpuriousWake(i)
        PROVE  started' = started
    BY <2>3 DEF Sleep, Exit, Return, SpuriousWake, runVars
  <2>4. CASE UNCHANGED vars
    BY <2>4 DEF vars
  <2> QED BY <2>1, <2>2, <2>3, <2>4 DEF Next, WorkerStep
<1> QED BY <1>1, TypeCorrect, AcceptanceOrder, PTL DEF Spec, NothingStartsAfterStop

\* Each step of the pool is a step of ExecutorSpec or changes nothing there: the
\* pool gives every client the bounded, ordered, stoppable queue it promises.
THEOREM PoolImplementsExecutor == Spec => ImplementsExecutor
<1> DEFINE Jobs == {job[i] : i \in Worker} \ {NoWork}
           Kept == abandoned \o queue
<1> USE DEF Promise!specVars
<1>1. Init => Promise!SpecInit
  <2> SUFFICES ASSUME Init PROVE Promise!SpecInit
    OBVIOUS
  <2>1. Range(<<>>) = {} /\ <<>> \o <<>> = <<>>
    BY EmptySeq, ConcatEmptySeq DEF Range
  <2> QED BY <2>1 DEF Init, Promise!SpecInit
<1>2. TypeOK /\ JobHeld /\ StopPhase /\ InOrder /\ SettledOnce /\ [Next]_vars
      => [Promise!SpecNext]_(Promise!specVars)
  <2> SUFFICES ASSUME TypeOK, JobHeld, StopPhase, InOrder, SettledOnce, [Next]_vars
               PROVE  [Promise!SpecNext]_(Promise!specVars)
    OBVIOUS
  <2>1. /\ started \in Seq(Works) /\ disposed \in Seq(Works)
        /\ queue \in Seq(Works) /\ abandoned \in Seq(Works)
        /\ Kept \in Seq(Works)
    BY DEF TypeOK
  <2>2. /\ ~stopping => Kept = queue
        /\ stopping => Kept = abandoned
    BY <2>1, ConcatEmptySeq DEF StopPhase
  <2>3. ASSUME NEW a \in Actor, NEW w \in Works, Submit(a, w)
        PROVE  Promise!SpecAccept(w)
    <3>1. Kept = queue /\ Kept' = Append(queue, w)
      <4>1. abandoned' = <<>> /\ queue' \in Seq(Works) /\ queue' = Append(queue, w)
        BY <2>1, <2>3 DEF Submit, Refuses, Enqueued, StopPhase, stopVars
      <4>2. <<>> \o queue' = queue'
        BY <4>1, ConcatEmptySeq
      <4> QED BY <2>2, <2>3, <4>1, <4>2 DEF Submit, Refuses
    <3>2. w \notin Range(accepted)
      BY <2>3 DEF Submit
    <3>3. w \notin Range(queue) \cup Jobs \cup ran \cup Range(disposed)
      BY <3>2, WhereWorksAre DEF SettledOnce
    <3>4. w \notin Promise!Held
      BY <3>1, <3>3 DEF Promise!Held, Range
    <3>5. ~stopping /\ Len(Kept) < Capacity
      BY <2>1, <2>3, <3>1, PoolAssumption, LenProperties DEF Submit, Refuses
    <3> QED BY <2>3, <3>1, <3>4, <3>5 DEF Promise!SpecAccept, Submit, stopVars, runVars
  <2>4. ASSUME NEW a \in Actor, RequestStop(a)
        PROVE  Promise!SpecStop
    <3>1. Kept' = Kept
      <4>1. queue \o <<>> = queue /\ <<>> \o queue = queue
        BY <2>1, ConcatEmptySeq
      <4> QED BY <2>4, <4>1 DEF RequestStop, StopPhase
    <3> QED BY <2>4, <3>1 DEF Promise!SpecStop, RequestStop, runVars
  <2>5. ASSUME NEW a \in Actor, Dispose(a)
        PROVE  Promise!SpecDispose
    <3>1. stopping /\ Kept = abandoned /\ queue = <<>>
      BY <2>2, <2>5 DEF Dispose, StopPhase, TypeOK
    <3>2. Head(abandoned) \in Works /\ Tail(abandoned) \in Seq(Works)
      BY <2>1, <2>5, HeadTailProperties DEF Dispose
    <3>3. Kept' = Tail(abandoned)
      <4>1. Tail(abandoned) \o <<>> = Tail(abandoned)
        BY <3>2, ConcatEmptySeq
      <4> QED BY <2>5, <3>1, <4>1 DEF Dispose, queueVars
    <3>4. Range(disposed') = Range(disposed) \cup {Head(abandoned)}
      BY <2>1, <2>5, <3>2, RangeAppend DEF Dispose
    <3> QED BY <2>5, <3>1, <3>3, <3>4 DEF Promise!SpecDispose, Dispose, runVars
  <2>6. ASSUME NEW i \in Worker, Take(i)
        PROVE  Promise!SpecStart
    <3>1. ~stopping /\ Kept = queue /\ abandoned = <<>>
      BY <2>2, <2>6 DEF Take, StopPhase, TypeOK
    <3>2. Head(queue) \in Works /\ Tail(queue) \in Seq(Works) /\ Head(queue) # NoWork
      BY <2>1, <2>6, HeadTailProperties, PoolAssumption DEF Take
    <3>3. Kept' = Tail(queue)
      <4>1. <<>> \o Tail(queue) = Tail(queue)
        BY <3>2, ConcatEmptySeq
      <4> QED BY <2>6, <3>1, <4>1 DEF Take, stopVars
    <3>4. job' = [job EXCEPT ![i] = Head(queue)] /\ job[i] = NoWork
      BY <2>6 DEF Take, JobHeld
    <3>5. Jobs' = Jobs \cup {Head(queue)}
      BY <3>2, <3>4 DEF TypeOK
    <3> QED BY <2>6, <3>1, <3>3, <3>5 DEF Promise!SpecStart, Take, stopVars
  <2>7. ASSUME NEW i \in Worker, Return(i)
        PROVE  \E w \in Works : Promise!SpecReturn(w)
    <3>1. job' = [job EXCEPT ![i] = NoWork] /\ job[i] # NoWork /\ job[i] \in Works
      BY <2>7 DEF Return, JobHeld, TypeOK
    <3>2. \A j \in Worker : j # i => job[j] # job[i]
      BY <3>1 DEF SettledOnce
    <3>3. PICK w \in Works : w = job[i]
      BY <3>1
    <3>4. Jobs' = Jobs \ {w} /\ w \in Jobs
      BY <3>1, <3>2, <3>3 DEF TypeOK
    <3>5. Promise!SpecReturn(w)
      BY <2>7, <3>3, <3>4 DEF Promise!SpecReturn, Return, queueVars, stopVars
    <3> QED BY <3>5
  <2>8. ASSUME UNCHANGED <<queue, abandoned, job, ran, disposed, stopping>>
        PROVE  UNCHANGED Promise!specVars
    BY <2>8
  <2>9. ASSUME NEW a \in Actor,
               \/ Join(a) \/ NotifyAll(a) \/ StopReturns(a)
               \/ JoinThread(a) \/ JoinReturns(a)
        PROVE  UNCHANGED <<queue, abandoned, job, ran, disposed, stopping>>
    BY <2>9 DEF Join, NotifyAll, StopReturns, JoinThread, JoinReturns,
                queueVars, stopVars, runVars
  <2>10. ASSUME NEW i \in Worker, Sleep(i) \/ Exit(i) \/ SpuriousWake(i)
         PROVE  UNCHANGED <<queue, abandoned, job, ran, disposed, stopping>>
    BY <2>10 DEF Sleep, Exit, SpuriousWake, queueVars, stopVars, runVars
  <2>11. CASE UNCHANGED vars
    BY <2>8, <2>11 DEF vars
  <2>12. ASSUME NEW a \in Actor,
                \/ \E w \in Works : Submit(a, w)
                \/ RequestStop(a) \/ Dispose(a)
         PROVE  Promise!SpecNext
    BY <2>3, <2>4, <2>5, <2>12 DEF Promise!SpecNext
  <2>13. ASSUME NEW i \in Worker, Take(i) \/ Return(i)
         PROVE  Promise!SpecNext
    BY <2>6, <2>7, <2>13 DEF Promise!SpecNext
  <2> HIDE DEF Promise!specVars
  <2>14. CASE Next
    BY <2>8, <2>9, <2>10, <2>12, <2>13, <2>14 DEF Next, CallerStep, WorkerStep
  <2> QED BY <2>11, <2>14
<1> QED
  BY <1>1, <1>2, TypeCorrect, AcceptanceOrder, EachSettledOnce, PTL
     DEF Spec, ImplementsExecutor, Promise!ExecutorSafety

=============================================================================
