---------------------- MODULE CompletionQueueProofs -----------------------
(* What holds of the completion queue for any number of threads, works and   *)
(* nested drains, and any capacity: the order and uniqueness of settlement,  *)
(* and that it is an executor.  Then what holds of the futures on such an    *)
(* executor, for any number of threads and futures: no continuation and no   *)
(* notification is lost or repeated.                                         *)
EXTENDS MCCompletionQueue, SequenceFacts, FiniteSetTheorems

\* A drain that publishes a work still counts it against its limit.
Counted ==
    \A t \in Threads : \A k \in DOMAIN drains[t] :
        drains[t][k].work # NoWork => drains[t][k].left > 0

\* Before the stop nothing is abandoned; after it nothing is queued.
StopPhase ==
    /\ stopped => queue = <<>>
    /\ ~stopped => abandoned = <<>> /\ disposed = <<>>

\* No two drains, nested or not, publish the same work.
HeldOnce ==
    \A t, u \in Threads : \A j \in DOMAIN drains[t], k \in DOMAIN drains[u] :
        drains[t][j].work = drains[u][k].work /\ drains[t][j].work # NoWork
            => t = u /\ j = k

-----------------------------------------------------------------------------
\* The works held in the stacks of drains d, by thread and all of them.
WorksOf(d, t)  == {d[t][k].work : k \in DOMAIN d[t]}
AllIn(d)       == UNION {WorksOf(d, t) : t \in Threads}
HeldIn(d)      == AllIn(d) \ {NoWork}
Holds(d, t, w) == \E k \in DOMAIN d[t] : d[t][k].work = w

\* A work is held when some frame of some thread holds it.
LEMMA HeldBy ==
  ASSUME NEW d, NEW w
  PROVE  w \in HeldIn(d) <=> w # NoWork /\ \E t \in Threads : Holds(d, t, w)
<1>1. \A t : w \in WorksOf(d, t) <=> Holds(d, t, w)
  BY DEF WorksOf, Holds
<1>2. w \in AllIn(d) <=> \E t \in Threads : w \in WorksOf(d, t)
  BY Zenon DEF AllIn
<1> QED BY <1>1, <1>2 DEF HeldIn

\* Replacing the innermost frame of a thread leaves its other frames alone.
LEMMA TopReplaced ==
  ASSUME TypeOK, NEW t \in Threads, drains[t] # <<>>, NEW f \in Frame,
         drains' = [drains EXCEPT ![t] = [drains[t] EXCEPT ![Len(drains[t])] = f]]
  PROVE  /\ drains' \in [Threads -> Seq(Frame)]
         /\ \A u \in Threads : DOMAIN drains'[u] = DOMAIN drains[u]
         /\ \A u \in Threads : \A k \in DOMAIN drains[u] :
                drains'[u][k] = IF u = t /\ k = Len(drains[t]) THEN f ELSE drains[u][k]
         /\ Len(drains[t]) \in DOMAIN drains[t]
<1>1. drains[t] \in Seq(Frame) /\ Len(drains[t]) \in DOMAIN drains[t]
  BY EmptySeq DEF TypeOK
<1> DEFINE new == [drains[t] EXCEPT ![Len(drains[t])] = f]
<1>2. /\ new \in Seq(Frame) /\ DOMAIN new = DOMAIN drains[t]
      /\ \A k \in DOMAIN drains[t] :
             new[k] = IF k = Len(drains[t]) THEN f ELSE drains[t][k]
  BY <1>1
<1> HIDE DEF new
<1>3. drains' = [drains EXCEPT ![t] = new]
  BY DEF new
<1>4. drains \in [Threads -> Seq(Frame)]
  BY DEF TypeOK
<1> QED BY <1>1, <1>2, <1>3, <1>4

\* A new innermost frame leaves the others alone.
LEMMA FrameAdded ==
  ASSUME TypeOK, NEW t \in Threads, NEW f \in Frame,
         drains' = [drains EXCEPT ![t] = Append(@, f)]
  PROVE  /\ drains' \in [Threads -> Seq(Frame)]
         /\ \A u \in Threads : DOMAIN drains[u] \subseteq DOMAIN drains'[u]
         /\ \A u \in Threads : \A k \in DOMAIN drains[u] : drains'[u][k] = drains[u][k]
         /\ \A u \in Threads : \A k \in DOMAIN drains'[u] \ DOMAIN drains[u] :
                drains'[u][k] = f
<1>1. drains \in [Threads -> Seq(Frame)] /\ drains[t] \in Seq(Frame)
  BY DEF TypeOK
<1> DEFINE new == Append(drains[t], f)
<1>2. /\ new \in Seq(Frame) /\ DOMAIN drains[t] \subseteq DOMAIN new
      /\ \A k \in DOMAIN drains[t] : new[k] = drains[t][k]
      /\ \A k \in DOMAIN new \ DOMAIN drains[t] : new[k] = f
  BY <1>1
<1> HIDE DEF new
<1>3. drains' = [drains EXCEPT ![t] = new]
  BY DEF new
<1> QED BY <1>1, <1>2, <1>3

\* The end of an innermost frame that holds nothing.
LEMMA FrameRemoved ==
  ASSUME TypeOK, NEW t \in Threads, drains[t] # <<>>, Top(t).work = NoWork,
         drains' = [drains EXCEPT ![t] = SubSeq(@, 1, Len(@) - 1)]
  PROVE  /\ drains' \in [Threads -> Seq(Frame)]
         /\ \A u \in Threads : DOMAIN drains'[u] \subseteq DOMAIN drains[u]
         /\ \A u \in Threads : \A k \in DOMAIN drains'[u] : drains'[u][k] = drains[u][k]
         /\ \A u \in Threads : \A k \in DOMAIN drains[u] \ DOMAIN drains'[u] :
                drains[u][k].work = NoWork
<1>1. drains \in [Threads -> Seq(Frame)] /\ drains[t] \in Seq(Frame)
  BY DEF TypeOK
<1>2. Len(drains[t]) \in Nat /\ Len(drains[t]) > 0
  BY <1>1, EmptySeq, LenProperties
<1> DEFINE n == Len(drains[t]) - 1
           new == SubSeq(drains[t], 1, n)
<1>3. n \in Nat /\ 1 \in 1..(n + 1) /\ n \in (1 - 1)..Len(drains[t])
  BY <1>2
<1>4. /\ new \in Seq(Frame) /\ Len(new) = n
      /\ \A k \in 1..n : new[k] = drains[t][k]
  <2>1. /\ new \in Seq(Frame)
        /\ Len(new) = IF 1 <= n THEN n - 1 + 1 ELSE 0
        /\ \A k \in 1..(n - 1 + 1) : new[k] = drains[t][1 + k - 1]
    BY <1>1, <1>2, <1>3, SubSeqProperties
  <2> QED BY <1>3, <2>1
<1>5. DOMAIN new = 1..n /\ DOMAIN drains[t] = 1..(n + 1)
  BY <1>1, <1>2, <1>4, LenProperties
<1>6. \A k \in DOMAIN drains[t] \ DOMAIN new : drains[t][k].work = NoWork
  <2>1. \A k \in DOMAIN drains[t] \ DOMAIN new : k = Len(drains[t])
    BY <1>2, <1>3, <1>5
  <2> QED BY <2>1 DEF Top
<1>7. DOMAIN new \subseteq DOMAIN drains[t]
  BY <1>3, <1>5
<1> HIDE DEF new
<1>8. drains' = [drains EXCEPT ![t] = new]
  BY DEF new
<1> QED BY <1>1, <1>4, <1>5, <1>6, <1>7, <1>8

\* A Drain that takes a work puts it into its innermost frame, whose limit is
\* not used up.
LEMMA TakeFrame ==
  ASSUME TypeOK, NEW t \in Threads, Take(t)
  PROVE  /\ drains[t] # <<>> /\ Top(t) \in Frame /\ Top(t).work = NoWork /\ Top(t).left > 0
         /\ Head(queue) \in Works /\ Tail(queue) \in Seq(Works)
         /\ LET f == [left |-> Top(t).left, work |-> Head(queue)]
            IN  f \in Frame /\ drains' = [drains EXCEPT ![t] =
                                  [drains[t] EXCEPT ![Len(drains[t])] = f]]
<1>1. drains[t] \in Seq(Frame) /\ drains[t] # <<>> /\ Len(drains[t]) \in DOMAIN drains[t]
  BY EmptySeq DEF TypeOK, Take, Draining
<1>2. Top(t) \in Frame
  BY <1>1 DEF Top
<1>3. Head(queue) \in Works /\ Tail(queue) \in Seq(Works)
  BY HeadTailProperties DEF TypeOK, Take
<1>4. [drains[t][Len(drains[t])] EXCEPT !.work = Head(queue)]
      = [left |-> Top(t).left, work |-> Head(queue)]
  BY <1>2 DEF Top, Frame
<1>5. drains' = [drains EXCEPT ![t] = [drains[t] EXCEPT ![Len(drains[t])] =
                    [left |-> Top(t).left, work |-> Head(queue)]]]
  BY <1>4 DEF Take
<1>6. Top(t).work = NoWork /\ Top(t).left > 0
  BY DEF Take, Draining, WithinLimit
<1> QED BY <1>1, <1>2, <1>3, <1>5, <1>6 DEF Frame

\* The return of a work empties the innermost frame and counts it, and the count
\* stays a natural number.
LEMMA ReturnFrame ==
  ASSUME TypeOK, Counted, NEW t \in Threads, Return(t)
  PROVE  /\ drains[t] # <<>> /\ Top(t) \in Frame /\ Top(t).work # NoWork
         /\ LET f == [left |-> Top(t).left - 1, work |-> NoWork]
            IN  f \in Frame /\ drains' = [drains EXCEPT ![t] =
                                  [drains[t] EXCEPT ![Len(drains[t])] = f]]
<1>1. drains[t] \in Seq(Frame) /\ drains[t] # <<>> /\ Len(drains[t]) \in DOMAIN drains[t]
  BY EmptySeq DEF TypeOK, Return, Running
<1>2. Top(t) \in Frame /\ Top(t).work # NoWork /\ Top(t).left > 0
  BY <1>1 DEF Top, Return, Running, Counted
<1>3. drains' = [drains EXCEPT ![t] = [drains[t] EXCEPT ![Len(drains[t])] =
                    [left |-> Top(t).left - 1, work |-> NoWork]]]
  BY DEF Return, Top
<1>4. [left |-> Top(t).left - 1, work |-> NoWork] \in Frame
  BY <1>2 DEF Frame
<1> QED BY <1>1, <1>2, <1>3, <1>4

-----------------------------------------------------------------------------
\* Every variable of the queue keeps its type, and the limit of a drain is not
\* used up while it publishes a work.
THEOREM TypeCorrect == Spec => [](TypeOK /\ Counted)
<1>1. Init => TypeOK /\ Counted
  <2> SUFFICES ASSUME Init PROVE TypeOK /\ Counted
    OBVIOUS
  <2>1. <<>> \in Seq(Works) /\ <<>> \in Seq(Frame) /\ DOMAIN <<>> = {}
    BY EmptySeq
  <2> QED BY <2>1 DEF Init, TypeOK, Counted
<1>2. TypeOK /\ Counted /\ [Next]_vars => (TypeOK /\ Counted)'
  <2> SUFFICES ASSUME TypeOK, Counted, [Next]_vars
               PROVE  TypeOK' /\ Counted'
    OBVIOUS
  <2>1. ASSUME drains' = drains
        PROVE  Counted'
    BY <2>1 DEF Counted
  <2>2. ASSUME NEW t \in Threads, NEW w \in Works, Submit(t, w)
        PROVE  TypeOK' /\ Counted'
    BY <2>1, <2>2 DEF Submit, TypeOK, stopVars
  <2>3. ASSUME NEW t \in Threads, NEW n \in Limits, Drain(t, n)
        PROVE  TypeOK' /\ Counted'
    <3> DEFINE f == [left |-> n, work |-> NoWork]
    <3>1. f \in Frame
      BY QueueAssumption DEF Frame
    <3>2. drains' = [drains EXCEPT ![t] = Append(@, f)]
      BY <2>3 DEF Drain
    <3>3. f.work = NoWork
      OBVIOUS
    <3> HIDE DEF f
    <3>4. /\ drains' \in [Threads -> Seq(Frame)]
          /\ \A u \in Threads : \A k \in DOMAIN drains'[u] :
                 \/ k \in DOMAIN drains[u] /\ drains'[u][k] = drains[u][k]
                 \/ drains'[u][k] = f
      <4>1. /\ drains' \in [Threads -> Seq(Frame)]
            /\ \A u \in Threads : \A k \in DOMAIN drains[u] : drains'[u][k] = drains[u][k]
            /\ \A u \in Threads : \A k \in DOMAIN drains'[u] \ DOMAIN drains[u] :
                   drains'[u][k] = f
        BY <3>1, <3>2, FrameAdded
      <4> QED BY <4>1
    <3>5. Counted'
      BY <3>3, <3>4 DEF Counted
    <3> QED BY <2>3, <3>4, <3>5 DEF Drain, TypeOK, stopVars
  <2>4. ASSUME NEW t \in Threads, Take(t)
        PROVE  TypeOK' /\ Counted'
    <3> DEFINE f == [left |-> Top(t).left, work |-> Head(queue)]
    <3>1. f \in Frame /\ f.left > 0 /\ drains[t] # <<>>
          /\ drains' = [drains EXCEPT ![t] = [drains[t] EXCEPT ![Len(drains[t])] = f]]
      BY <2>4, TakeFrame
    <3> HIDE DEF f
    <3>2. drains' \in [Threads -> Seq(Frame)] /\ Counted'
      BY <3>1, TopReplaced DEF Counted
    <3>3. Head(queue) \in Works /\ Tail(queue) \in Seq(Works)
      BY <2>4, TakeFrame
    <3> QED BY <2>4, <3>2, <3>3 DEF Take, TypeOK, stopVars
  <2>5. ASSUME NEW t \in Threads, Return(t)
        PROVE  TypeOK' /\ Counted'
    <3> DEFINE f == [left |-> Top(t).left - 1, work |-> NoWork]
    <3>1. f \in Frame /\ f.work = NoWork /\ drains[t] # <<>>
          /\ drains' = [drains EXCEPT ![t] = [drains[t] EXCEPT ![Len(drains[t])] = f]]
      BY <2>5, ReturnFrame
    <3> HIDE DEF f
    <3>2. drains' \in [Threads -> Seq(Frame)] /\ Counted'
      BY <3>1, TopReplaced DEF Counted
    <3>3. Top(t).work \in Works
      BY <2>5, ReturnFrame DEF Frame
    <3> QED BY <2>5, <3>2, <3>3 DEF Return, TypeOK, stopVars
  <2>6. ASSUME NEW t \in Threads, DrainReturns(t)
        PROVE  TypeOK' /\ Counted'
    <3>1. /\ drains' \in [Threads -> Seq(Frame)]
          /\ \A u \in Threads : \A k \in DOMAIN drains'[u] :
                 k \in DOMAIN drains[u] /\ drains'[u][k] = drains[u][k]
      BY <2>6, FrameRemoved DEF DrainReturns, Draining
    <3>2. Counted'
      BY <3>1 DEF Counted
    <3> QED BY <2>6, <3>1, <3>2 DEF DrainReturns, TypeOK, stopVars
  <2>7. ASSUME NEW t \in Threads, RequestStop(t)
        PROVE  TypeOK' /\ Counted'
    BY <2>1, <2>7 DEF RequestStop, Abandoned, TypeOK
  <2>8. ASSUME NEW t \in Threads, Dispose(t)
        PROVE  TypeOK' /\ Counted'
    <3>1. Head(abandoned) \in Works /\ Tail(abandoned) \in Seq(Works)
      BY <2>8, HeadTailProperties DEF Dispose, TypeOK
    <3> QED BY <2>1, <2>8, <3>1 DEF Dispose, Handled, TypeOK
  <2>9. ASSUME NEW t \in Threads, StopReturns(t)
        PROVE  TypeOK' /\ Counted'
    BY <2>1, <2>9 DEF StopReturns, TypeOK
  <2>10. CASE UNCHANGED vars
    BY <2>1, <2>10 DEF vars, TypeOK
  <2> QED BY <2>2, <2>3, <2>4, <2>5, <2>6, <2>7, <2>8, <2>9, <2>10 DEF Next, Step
<1> QED BY <1>1, <1>2, PTL DEF Spec

-----------------------------------------------------------------------------
\* Works settle in the order the queue accepted them, whatever nests and whoever
\* drains, none lost and none twice: InOrder, with the phases of the stop.
THEOREM AcceptanceOrder == Spec => [](StopPhase /\ InOrder)
<1>1. Init => StopPhase /\ InOrder
  BY DEF Init, StopPhase, InOrder
<1>2. TypeOK /\ StopPhase /\ InOrder /\ [Next]_vars => (StopPhase /\ InOrder)'
  <2> SUFFICES ASSUME TypeOK, StopPhase, InOrder, [Next]_vars
               PROVE  StopPhase' /\ InOrder'
    OBVIOUS
  <2> DEFINE out == started \o disposed
             settled == out \o abandoned
  <2>1. /\ queue \in Seq(Works) /\ abandoned \in Seq(Works)
        /\ started \in Seq(Works) /\ disposed \in Seq(Works)
        /\ out \in Seq(Works) /\ settled \in Seq(Works)
    BY DEF TypeOK
  <2>2. ASSUME NEW t \in Threads, NEW w \in Works, Submit(t, w)
        PROVE  StopPhase' /\ InOrder'
    <3>1. accepted' = settled \o queue'
      <4> HIDE DEF settled
      <4>1. settled \o Append(queue, w) = Append(settled \o queue, w)
        BY <2>1, AppendConcat
      <4> QED BY <2>2, <4>1 DEF Submit, InOrder, settled
    <3> QED BY <2>2, <3>1 DEF Submit, Refuses, StopPhase, InOrder, stopVars
  <2>3. ASSUME NEW t \in Threads, Take(t)
        PROVE  StopPhase' /\ InOrder'
    <3>1. ~stopped /\ abandoned = <<>> /\ disposed = <<>>
      BY <2>3 DEF Take, StopPhase, TypeOK
    <3>2. accepted = started \o queue
      BY <2>1, <3>1, ConcatEmptySeq DEF InOrder
    <3>3. started' \o queue' = started \o queue /\ started' \in Seq(Works)
      BY <2>1, <2>3, MoveHead, HeadTailProperties, AppendProperties DEF Take
    <3>4. started' \o disposed \o abandoned = started'
      BY <3>1, <3>3, ConcatEmptySeq
    <3> QED BY <2>3, <3>1, <3>2, <3>3, <3>4 DEF Take, StopPhase, InOrder, stopVars
  <2>4. ASSUME NEW t \in Threads, RequestStop(t)
        PROVE  StopPhase' /\ InOrder'
    <3>1. accepted = out \o queue
      BY <2>1, <2>4, ConcatEmptySeq DEF RequestStop, InOrder, StopPhase
    <3>2. (out \o queue) \o <<>> = out \o queue
      BY <2>1, ConcatEmptySeq, ConcatProperties
    <3> QED BY <2>4, <3>1, <3>2 DEF RequestStop, Abandoned, StopPhase, InOrder
  <2>5. ASSUME NEW t \in Threads, Dispose(t)
        PROVE  StopPhase' /\ InOrder'
    <3>1. Head(abandoned) \in Works
      BY <2>1, <2>5, HeadTailProperties DEF Dispose
    <3>2. out \o abandoned = Append(out, Head(abandoned)) \o Tail(abandoned)
      BY <2>1, <2>5, MoveHead DEF Dispose
    <3>3. started \o Append(disposed, Head(abandoned)) = Append(out, Head(abandoned))
      BY <2>1, <3>1, AppendConcat
    <3>4. stopped /\ queue = <<>>
      BY <2>5 DEF Dispose, StopPhase, TypeOK
    <3> QED BY <2>5, <3>2, <3>3, <3>4 DEF Dispose, StopPhase, InOrder
  <2>6. CASE UNCHANGED <<queue, stopped, abandoned, accepted, started, disposed>>
    BY <2>6 DEF StopPhase, InOrder
  <2>7. ASSUME NEW t \in Threads,
               \/ \E n \in Limits : Drain(t, n)
               \/ Return(t) \/ DrainReturns(t) \/ StopReturns(t)
        PROVE  UNCHANGED <<queue, stopped, abandoned, accepted, started, disposed>>
    BY <2>7 DEF Drain, Return, DrainReturns, StopReturns, stopVars
  <2>8. CASE UNCHANGED vars
    BY <2>6, <2>8 DEF vars
  <2> QED BY <2>2, <2>3, <2>4, <2>5, <2>6, <2>7, <2>8 DEF Next, Step
<1> QED BY <1>1, <1>2, TypeCorrect, PTL DEF Spec

-----------------------------------------------------------------------------
\* Entering and leaving a Drain changes nothing in the works that are held.
LEMMA HeldKept ==
  ASSUME TypeOK, HeldOnce, NEW t \in Threads,
         DrainReturns(t) \/ \E n \in Limits : Drain(t, n)
  PROVE  Held' = Held /\ HeldOnce'
<1>1. \A u \in Threads :
        /\ \A k \in DOMAIN drains[u] : drains[u][k].work # NoWork =>
               k \in DOMAIN drains'[u] /\ drains'[u][k].work = drains[u][k].work
        /\ \A k \in DOMAIN drains'[u] : drains'[u][k].work # NoWork =>
               k \in DOMAIN drains[u] /\ drains[u][k].work = drains'[u][k].work
  <2>1. CASE DrainReturns(t)
    BY <2>1, FrameRemoved DEF DrainReturns, Draining
  <2>2. CASE \E n \in Limits : Drain(t, n)
    <3>1. PICK n \in Limits : Drain(t, n)
      BY <2>2
    <3> DEFINE f == [left |-> n, work |-> NoWork]
    <3>2. f \in Frame /\ f.work = NoWork /\ drains' = [drains EXCEPT ![t] = Append(@, f)]
      BY <3>1, QueueAssumption DEF Frame, Drain
    <3> HIDE DEF f
    <3>3. /\ \A u \in Threads : DOMAIN drains[u] \subseteq DOMAIN drains'[u]
          /\ \A u \in Threads : \A k \in DOMAIN drains[u] : drains'[u][k] = drains[u][k]
          /\ \A u \in Threads : \A k \in DOMAIN drains'[u] \ DOMAIN drains[u] :
                 drains'[u][k] = f
      BY <3>2, FrameAdded
    <3> QED BY <3>2, <3>3
  <2> QED BY <2>1, <2>2
<1>2. \A w : w # NoWork =>
          \A u \in Threads : Holds(drains', u, w) <=> Holds(drains, u, w)
  BY <1>1 DEF Holds
<1>3. Held = HeldIn(drains) /\ Held' = HeldIn(drains')
  BY DEF Held, HeldIn, AllIn, WorksOf
<1>4. \A w : w \in Held' <=> w \in Held
  BY <1>2, <1>3, HeldBy
<1>5. HeldOnce'
  BY <1>1 DEF HeldOnce
<1> QED BY <1>4, <1>5

\* A Drain that takes a work adds it to those that are held.
LEMMA HeldTaken ==
  ASSUME TypeOK, HeldOnce, NEW t \in Threads, Take(t), Head(queue) \notin Held
  PROVE  Held' = Held \cup {Head(queue)} /\ HeldOnce'
<1> DEFINE f == [left |-> Top(t).left, work |-> Head(queue)]
           n == Len(drains[t])
<1>1. /\ f \in Frame /\ f.work = Head(queue) /\ drains[t] # <<>>
      /\ drains' = [drains EXCEPT ![t] = [drains[t] EXCEPT ![n] = f]]
      /\ drains[t][n].work = NoWork
      /\ Head(queue) # NoWork
  BY TakeFrame, QueueAssumption DEF Top
<1> HIDE DEF f
<1>2. /\ \A u \in Threads : DOMAIN drains'[u] = DOMAIN drains[u]
      /\ \A u \in Threads : \A k \in DOMAIN drains[u] :
             drains'[u][k] = IF u = t /\ k = n THEN f ELSE drains[u][k]
      /\ n \in DOMAIN drains[t]
  BY <1>1, TopReplaced
<1> HIDE DEF n
<1>3. \A u \in Threads : \A w : w # NoWork =>
          (Holds(drains', u, w) <=> Holds(drains, u, w) \/ (u = t /\ w = Head(queue)))
  BY <1>1, <1>2 DEF Holds
<1>4. Held = HeldIn(drains) /\ Held' = HeldIn(drains')
  BY DEF Held, HeldIn, AllIn, WorksOf
<1>5. \A w : w \in Held' <=> w \in Held \/ w = Head(queue)
  BY <1>1, <1>3, <1>4, HeldBy
<1>6. \A u \in Threads : \A k \in DOMAIN drains[u] : drains[u][k].work # Head(queue)
  <2>1. \A u \in Threads : ~Holds(drains, u, Head(queue))
    BY <1>1, <1>4, HeldBy
  <2> QED BY <2>1 DEF Holds
<1>7. HeldOnce'
  BY <1>1, <1>2, <1>6 DEF HeldOnce
<1> QED BY <1>5, <1>7

\* The return of a work takes it away from those that are held, for good.
LEMMA HeldReturned ==
  ASSUME TypeOK, Counted, HeldOnce, NEW t \in Threads, Return(t)
  PROVE  Top(t).work \in Held /\ Held' = Held \ {Top(t).work} /\ HeldOnce'
<1> DEFINE f == [left |-> Top(t).left - 1, work |-> NoWork]
           n == Len(drains[t])
<1>1. /\ f \in Frame /\ f.work = NoWork /\ drains[t] # <<>>
      /\ drains' = [drains EXCEPT ![t] = [drains[t] EXCEPT ![n] = f]]
      /\ Top(t) = drains[t][n] /\ Top(t).work # NoWork
  BY ReturnFrame DEF Top
<1> HIDE DEF f
<1>2. /\ \A u \in Threads : DOMAIN drains'[u] = DOMAIN drains[u]
      /\ \A u \in Threads : \A k \in DOMAIN drains[u] :
             drains'[u][k] = IF u = t /\ k = n THEN f ELSE drains[u][k]
      /\ n \in DOMAIN drains[t]
  BY <1>1, TopReplaced
<1> HIDE DEF n
<1>3. \A u \in Threads : \A k \in DOMAIN drains[u] :
          drains[u][k].work = Top(t).work => u = t /\ k = n
  BY <1>1, <1>2 DEF HeldOnce
<1>4. \A u \in Threads : \A w : w # NoWork =>
          (Holds(drains', u, w) <=> Holds(drains, u, w) /\ w # Top(t).work)
  BY <1>1, <1>2, <1>3 DEF Holds
<1>5. Held = HeldIn(drains) /\ Held' = HeldIn(drains')
  BY DEF Held, HeldIn, AllIn, WorksOf
<1>6. \A w : w \in Held' <=> w \in Held /\ w # Top(t).work
  BY <1>1, <1>4, <1>5, HeldBy
<1>7. Holds(drains, t, Top(t).work)
  BY <1>1, <1>2 DEF Holds
<1>8. Top(t).work \in Held
  BY <1>1, <1>5, <1>7, HeldBy
<1>9. HeldOnce'
  BY <1>1, <1>2 DEF HeldOnce
<1> QED BY <1>6, <1>8, <1>9

\* What the parts of the queue hold, put together: as no work is accepted twice,
\* those that wait were not taken, and those that were taken are not disposed of.
LEMMA WhereWorksAre ==
  ASSUME TypeOK, InOrder
  PROVE  /\ Range(accepted) = Range(started) \cup Range(disposed)
                                 \cup Range(abandoned) \cup Range(queue)
         /\ Distinct(accepted) =>
               /\ Range(started) \cap Range(disposed) = {}
               /\ (Range(started) \cup Range(disposed) \cup Range(abandoned))
                     \cap Range(queue) = {}
<1>1. /\ started \in Seq(Works) /\ disposed \in Seq(Works)
      /\ abandoned \in Seq(Works) /\ queue \in Seq(Works)
      /\ accepted = started \o disposed \o abandoned \o queue
  BY DEF TypeOK, InOrder
<1> QED BY <1>1, FourParts

\* The work that Take publishes is not being published already.
LEMMA TakesNewWork ==
  ASSUME TypeOK, InOrder, SettledOnce, NEW t \in Threads, Take(t)
  PROVE  Head(queue) \notin Held
<1>1. Head(queue) \in Range(queue)
  BY HeadTailProperties, EmptySeq DEF TypeOK, Take, Range
<1>2. Head(queue) \notin Range(started)
  BY <1>1, WhereWorksAre DEF SettledOnce, Distinct
<1> QED BY <1>2 DEF SettledOnce

\* Each accepted work is published by one drain or rejected with its handler
\* called, once, although published works drain, submit and stop in turn.
THEOREM EachSettledOnce == Spec => [](SettledOnce /\ HeldOnce)
<1>1. Init => SettledOnce /\ HeldOnce
  <2> SUFFICES ASSUME Init PROVE SettledOnce /\ HeldOnce
    OBVIOUS
  <2>1. Range(<<>>) = {} /\ DOMAIN <<>> = {}
    BY EmptySeq DEF Range
  <2>2. \A t \in Threads : \A w : ~Holds(drains, t, w)
    BY <2>1 DEF Init, Holds
  <2>3. Held = HeldIn(drains)
    BY DEF Held, HeldIn, AllIn, WorksOf
  <2>4. Held = {}
    BY <2>2, <2>3, HeldBy
  <2>5. HeldOnce
    BY <2>1 DEF Init, HeldOnce
  <2> QED BY <2>1, <2>4, <2>5, EmptySeq DEF Init, SettledOnce
<1>2. /\ TypeOK /\ Counted /\ InOrder /\ TypeOK' /\ InOrder'
      /\ SettledOnce /\ HeldOnce /\ [Next]_vars
      => (SettledOnce /\ HeldOnce)'
  <2> SUFFICES ASSUME TypeOK, Counted, InOrder, TypeOK', InOrder',
                      SettledOnce, HeldOnce, [Next]_vars
               PROVE  SettledOnce' /\ HeldOnce'
    OBVIOUS
  <2>1. /\ accepted \in Seq(Works) /\ started \in Seq(Works)
        /\ disposed \in Seq(Works) /\ queue \in Seq(Works)
        /\ abandoned \in Seq(Works)
    BY DEF TypeOK
  <2>2. ASSUME Distinct(accepted')
        PROVE  (Range(started) \cap Range(disposed))' = {}
    <3>1. /\ started' \in Seq(Works) /\ disposed' \in Seq(Works)
          /\ abandoned' \in Seq(Works) /\ queue' \in Seq(Works)
          /\ accepted' = started' \o disposed' \o abandoned' \o queue'
      BY DEF TypeOK, InOrder
    <3> QED BY <2>2, <3>1, FourParts
  <2>3. ASSUME accepted' = accepted,
               rejected' = Range(disposed') \cap Rejectable,
               Range(started') = ran' \cup Held'
        PROVE  SettledOnce'
    <3>1. Distinct(accepted')
      BY <2>3 DEF SettledOnce, Distinct
    <3> QED BY <2>2, <2>3, <3>1 DEF SettledOnce, Distinct
  <2>4. ASSUME drains' = drains
        PROVE  Held' = Held /\ HeldOnce'
    BY <2>4 DEF Held, HeldOnce
  <2>5. ASSUME NEW t \in Threads, NEW w \in Works, Submit(t, w)
        PROVE  SettledOnce' /\ HeldOnce'
    <3>1. \A j, k \in 1..Len(accepted') : accepted'[j] = accepted'[k] => j = k
      <4>1. /\ Len(accepted') = Len(accepted) + 1 /\ Len(accepted) \in Nat
            /\ accepted'[Len(accepted) + 1] = w
            /\ \A k \in 1..Len(accepted) : accepted'[k] = accepted[k]
        BY <2>1, <2>5, AppendProperties, LenProperties DEF Submit
      <4>2. \A k \in 1..Len(accepted) : accepted[k] # w
        BY <2>5 DEF Submit, Range
      <4> QED BY <4>1, <4>2 DEF SettledOnce
    <3>2. UNCHANGED <<drains, started, ran, disposed, rejected>>
      BY <2>5 DEF Submit, stopVars
    <3> QED BY <2>4, <3>1, <3>2 DEF SettledOnce
  <2>6. ASSUME NEW t \in Threads, Take(t)
        PROVE  SettledOnce' /\ HeldOnce'
    <3>1. Held' = Held \cup {Head(queue)} /\ HeldOnce'
      BY <2>6, TakesNewWork, HeldTaken
    <3>2. Range(started') = Range(started) \cup {Head(queue)}
      BY <2>1, <2>6, TakeFrame, RangeAppend DEF Take
    <3>3. Range(started') = ran' \cup Held'
      BY <2>6, <3>1, <3>2 DEF Take, SettledOnce
    <3> QED BY <2>3, <2>6, <3>1, <3>3 DEF Take, SettledOnce, stopVars
  <2>7. ASSUME NEW t \in Threads, Return(t)
        PROVE  SettledOnce' /\ HeldOnce'
    <3>1. Top(t).work \in Held /\ Held' = Held \ {Top(t).work} /\ HeldOnce'
      BY <2>7, HeldReturned
    <3>2. ran' \cup Held' = ran \cup Held
      BY <2>7, <3>1 DEF Return
    <3> QED BY <2>3, <2>7, <3>1, <3>2 DEF Return, SettledOnce, stopVars
  <2>8. ASSUME NEW t \in Threads, DrainReturns(t) \/ \E n \in Limits : Drain(t, n)
        PROVE  SettledOnce' /\ HeldOnce'
    <3>1. Held' = Held /\ HeldOnce'
      BY <2>8, HeldKept
    <3>2. UNCHANGED <<accepted, started, ran, disposed, rejected>>
      BY <2>8 DEF DrainReturns, Drain, stopVars
    <3> QED BY <3>1, <3>2 DEF SettledOnce
  <2>9. ASSUME NEW t \in Threads, Dispose(t)
        PROVE  SettledOnce' /\ HeldOnce'
    <3>1. Head(abandoned) \in Works
      BY <2>1, <2>9, HeadTailProperties DEF Dispose
    <3>2. Range(disposed') = Range(disposed) \cup {Head(abandoned)}
      BY <2>1, <2>9, <3>1, RangeAppend DEF Dispose
    <3>3. rejected' = Range(disposed') \cap Rejectable
      BY <2>9, <3>2 DEF Dispose, Handled, SettledOnce
    <3> QED BY <2>3, <2>4, <2>9, <3>3 DEF Dispose, SettledOnce
  <2>10. CASE UNCHANGED <<accepted, started, ran, drains, disposed, rejected>>
    BY <2>4, <2>10 DEF SettledOnce
  <2>11. ASSUME NEW t \in Threads, RequestStop(t) \/ StopReturns(t)
         PROVE  UNCHANGED <<accepted, started, ran, drains, disposed, rejected>>
    BY <2>11 DEF RequestStop, StopReturns
  <2>12. CASE UNCHANGED vars
    BY <2>10, <2>12 DEF vars
  <2> QED
    BY <2>5, <2>6, <2>7, <2>8, <2>9, <2>10, <2>11, <2>12 DEF Next, Step
<1> QED BY <1>1, <1>2, TypeCorrect, AcceptanceOrder, PTL DEF Spec

-----------------------------------------------------------------------------
\* Nested and concurrent drains and the stop neither lose, repeat nor reorder a
\* work, nor publish one that was rejected.
THEOREM WorksAreAccounted == Spec => []WorksAccounted
<1>1. InOrder /\ SettledOnce => WorksAccounted
  BY DEF WorksAccounted
<1> QED BY <1>1, AcceptanceOrder, EachSettledOnce, PTL

-----------------------------------------------------------------------------
\* Each step of the queue is a step of ExecutorSpec or changes nothing there, so
\* what is scheduled on it may rely on the promise that the pool gives as well.
THEOREM QueueImplementsExecutor == Spec => ImplementsExecutor
<1> DEFINE Kept == abandoned \o queue
<1> USE DEF Promise!specVars
<1>1. Init => Promise!SpecInit
  <2> SUFFICES ASSUME Init PROVE Promise!SpecInit
    OBVIOUS
  <2>1. Range(<<>>) = {} /\ <<>> \o <<>> = <<>> /\ DOMAIN <<>> = {}
    BY EmptySeq, ConcatEmptySeq DEF Range
  <2>2. \A t \in Threads : \A w : ~Holds(drains, t, w)
    BY <2>1 DEF Init, Holds
  <2>3. Held = HeldIn(drains)
    BY DEF Held, HeldIn, AllIn, WorksOf
  <2>4. Held = {}
    BY <2>2, <2>3, HeldBy
  <2> QED BY <2>1, <2>4 DEF Init, Promise!SpecInit
<1>2. TypeOK /\ Counted /\ StopPhase /\ InOrder /\ SettledOnce /\ HeldOnce /\ [Next]_vars
      => [Promise!SpecNext]_(Promise!specVars)
  <2> SUFFICES ASSUME TypeOK, Counted, StopPhase, InOrder, SettledOnce, HeldOnce,
                      [Next]_vars
               PROVE  [Promise!SpecNext]_(Promise!specVars)
    OBVIOUS
  <2>1. /\ started \in Seq(Works) /\ disposed \in Seq(Works)
        /\ queue \in Seq(Works) /\ abandoned \in Seq(Works)
        /\ Kept \in Seq(Works)
    BY DEF TypeOK
  <2>2. /\ ~stopped => Kept = queue
        /\ stopped => Kept = abandoned
    BY <2>1, ConcatEmptySeq DEF StopPhase
  <2>3. ASSUME drains' = drains
        PROVE  Held' = Held
    BY <2>3 DEF Held
  <2>4. ASSUME NEW t \in Threads, NEW w \in Works, Submit(t, w)
        PROVE  Promise!SpecAccept(w)
    <3>1. Kept = queue /\ Kept' = Append(queue, w)
      <4>1. abandoned' = <<>> /\ queue' \in Seq(Works) /\ queue' = Append(queue, w)
        BY <2>1, <2>4 DEF Submit, Refuses, StopPhase, stopVars
      <4>2. <<>> \o queue' = queue'
        BY <4>1, ConcatEmptySeq
      <4> QED BY <2>2, <2>4, <4>1, <4>2 DEF Submit, Refuses
    <3>2. w \notin Range(queue) \cup Held \cup ran \cup Range(disposed)
      BY <2>4, WhereWorksAre DEF Submit, SettledOnce
    <3>3. w \notin Promise!Held
      BY <3>1, <3>2 DEF Promise!Held, Range
    <3>4. ~stopped /\ Len(Kept) < Capacity
      BY <2>1, <2>4, <3>1, QueueAssumption, LenProperties DEF Submit, Refuses
    <3> QED BY <2>3, <2>4, <3>1, <3>3, <3>4 DEF Promise!SpecAccept, Submit, stopVars
  <2>5. ASSUME NEW t \in Threads, RequestStop(t)
        PROVE  Promise!SpecStop
    <3>1. Kept' = Kept
      <4>1. queue \o <<>> = queue /\ <<>> \o queue = queue
        BY <2>1, ConcatEmptySeq
      <4> QED BY <2>5, <4>1 DEF RequestStop, Abandoned, StopPhase
    <3> QED BY <2>3, <2>5, <3>1 DEF Promise!SpecStop, RequestStop
  <2>6. ASSUME NEW t \in Threads, Dispose(t)
        PROVE  Promise!SpecDispose
    <3>1. stopped /\ Kept = abandoned /\ queue = <<>>
      BY <2>2, <2>6 DEF Dispose, StopPhase, TypeOK
    <3>2. Head(abandoned) \in Works /\ Tail(abandoned) \in Seq(Works)
      BY <2>1, <2>6, HeadTailProperties DEF Dispose
    <3>3. Kept' = Tail(abandoned)
      BY <2>6, <3>1, <3>2, ConcatEmptySeq DEF Dispose
    <3>4. Range(disposed') = Range(disposed) \cup {Head(abandoned)}
      BY <2>1, <2>6, <3>2, RangeAppend DEF Dispose
    <3> QED BY <2>3, <2>6, <3>1, <3>3, <3>4 DEF Promise!SpecDispose, Dispose
  <2>7. ASSUME NEW t \in Threads, Take(t)
        PROVE  Promise!SpecStart
    <3>1. ~stopped /\ Kept = queue /\ abandoned = <<>>
      BY <2>2, <2>7 DEF Take, StopPhase, TypeOK
    <3>2. Kept' = Tail(queue)
      <4>1. <<>> \o Tail(queue) = Tail(queue)
        BY <2>7, TakeFrame, ConcatEmptySeq
      <4> QED BY <2>7, <3>1, <4>1 DEF Take, stopVars
    <3>3. Held' = Held \cup {Head(queue)}
      BY <2>7, TakesNewWork, HeldTaken
    <3> QED BY <2>7, <3>1, <3>2, <3>3 DEF Promise!SpecStart, Take, stopVars
  <2>8. ASSUME NEW t \in Threads, Return(t)
        PROVE  \E w \in Works : Promise!SpecReturn(w)
    <3>1. Top(t).work \in Held /\ Held' = Held \ {Top(t).work}
      BY <2>8, HeldReturned
    <3>2. PICK w \in Works : w = Top(t).work
      BY <2>8, ReturnFrame DEF Frame
    <3>3. Promise!SpecReturn(w)
      BY <2>8, <3>1, <3>2 DEF Promise!SpecReturn, Return, stopVars
    <3> QED BY <3>3
  <2>9. ASSUME UNCHANGED <<queue, abandoned, ran, disposed, stopped>>, Held' = Held
        PROVE  UNCHANGED Promise!specVars
    BY <2>9
  <2>10. ASSUME NEW t \in Threads,
                \/ DrainReturns(t) \/ StopReturns(t) \/ \E n \in Limits : Drain(t, n)
         PROVE  UNCHANGED Promise!specVars
    <3>1. UNCHANGED <<queue, abandoned, ran, disposed, stopped>>
      BY <2>10 DEF DrainReturns, StopReturns, Drain, stopVars
    <3>2. StopReturns(t) => drains' = drains
      BY DEF StopReturns
    <3>3. Held' = Held
      BY <2>3, <2>10, <3>2, HeldKept
    <3> QED BY <2>9, <3>1, <3>3
  <2>11. CASE UNCHANGED vars
    BY <2>3, <2>9, <2>11 DEF vars
  <2>12. ASSUME NEW t \in Threads,
                \/ \E w \in Works : Submit(t, w)
                \/ RequestStop(t) \/ Dispose(t) \/ Take(t) \/ Return(t)
         PROVE  Promise!SpecNext
    BY <2>4, <2>5, <2>6, <2>7, <2>8, <2>12 DEF Promise!SpecNext
  <2> HIDE DEF Promise!specVars
  <2>13. CASE Next
    BY <2>10, <2>12, <2>13 DEF Next, Step
  <2> QED BY <2>11, <2>13
<1> QED
  BY <1>1, <1>2, TypeCorrect, AcceptanceOrder, EachSettledOnce, PTL
     DEF Spec, ImplementsExecutor, Promise!ExecutorSafety

-----------------------------------------------------------------------------
(* The futures.  A future that was made and is not settled is computed from  *)
(* one place: a continuation is moved, never copied and never dropped.       *)

\* The instance has the operators of FiniteSets under names of its own.
LEMMA FutureCardinality == ASSUME NEW S PROVE Future!Cardinality(S) = Cardinality(S)
BY DEF Future!Cardinality, Cardinality

\* A Set that has not returned.
SetCall == [fut : Future!Futures, todo : Seq(Future!Futures), told : BOOLEAN]

\* A future that was submitted, or that has its result.
FutureSettled == {g \in Future!Futures : g \in Future!Exec!Held \/ result[g] # "none"}

\* The k-th of the continuations attached to future a, of those the n-th Set of
\* thread a took, or the one thread a runs inline, computes g.
Computes(c, fr, il, g, kind, a, n, k) ==
    \/ kind = "attached" /\ a \in Future!Futures /\ n = 0
       /\ k \in DOMAIN c[a] /\ c[a][k] = g
    \/ kind = "taken" /\ a \in Future!Actors /\ n \in DOMAIN fr[a]
       /\ k \in DOMAIN fr[a][n].todo /\ fr[a][n].todo[k] = g
    \/ kind = "inline" /\ a \in Future!Actors /\ n = 0 /\ k = 0 /\ il[a] = g

\* The futures of M that have not settled, those outside S, have one place each.
Once(c, fr, il, S, M) ==
    /\ S \subseteq M /\ M \subseteq Future!Futures
    /\ \A g \in Future!Futures : \A kind, a, n, k :
           Computes(c, fr, il, g, kind, a, n, k) => g \in M \ S
    /\ \A g \in M \ S : \E kind, a, n, k : Computes(c, fr, il, g, kind, a, n, k)
    /\ \A g \in Future!Futures : \A kind, a, n, k, kind2, a2, n2, k2 :
           /\ Computes(c, fr, il, g, kind, a, n, k)
           /\ Computes(c, fr, il, g, kind2, a2, n2, k2)
           => kind = kind2 /\ a = a2 /\ n = n2 /\ k = k2

\* The types of what holds continuations.
Shaped(c, fr, il) ==
    /\ c \in [Future!Futures -> Seq(Future!Futures)]
    /\ fr \in [Future!Actors -> Seq(SetCall)]
    /\ il \in [Future!Actors -> Future!Futures \cup {Future!NoFuture}]

\* The stacks that differ from fr in the frames' notifications only.
LEMMA OnceSame ==
  ASSUME NEW c, NEW fr, NEW il, NEW S, NEW M, NEW fr1,
         Once(c, fr, il, S, M),
         \A t \in Future!Actors : DOMAIN fr1[t] = DOMAIN fr[t],
         \A t \in Future!Actors : \A n \in DOMAIN fr[t] : fr1[t][n].todo = fr[t][n].todo
  PROVE  Once(c, fr1, il, S, M)
<1>1. \A g, kind, a, n, k : Computes(c, fr1, il, g, kind, a, n, k)
                        <=> Computes(c, fr, il, g, kind, a, n, k)
  BY DEF Computes
<1> QED BY <1>1 DEF Once

\* The head of what the innermost Set took settles.
LEMMA OncePopped ==
  ASSUME NEW c, NEW fr, NEW il, NEW S, NEW M, NEW t \in Future!Actors, NEW rest,
         Shaped(c, fr, il), Once(c, fr, il, S, M),
         fr[t] # <<>>, fr[t][Len(fr[t])].todo # <<>>,
         rest \in Seq(SetCall), Len(rest) = Len(fr[t]),
         \A n \in DOMAIN rest : rest[n].todo =
             IF n = Len(rest) THEN Tail(fr[t][n].todo) ELSE fr[t][n].todo
  PROVE  /\ Head(fr[t][Len(fr[t])].todo) \in M \ S
         /\ Once(c, [fr EXCEPT ![t] = rest], il, S \cup {Head(fr[t][Len(fr[t])].todo)}, M)
<1>1. PICK q : q = fr[t][Len(fr[t])].todo
  OBVIOUS
<1>2. PICK m : m = Len(fr[t])
  OBVIOUS
<1>3. PICK fr1 : fr1 = [fr EXCEPT ![t] = rest]
  OBVIOUS
<1>4. /\ fr[t] \in Seq(SetCall) /\ m \in Nat \ {0} /\ m \in DOMAIN fr[t]
      /\ DOMAIN fr[t] = 1..m /\ DOMAIN rest = 1..m
      /\ fr[t][m] \in SetCall
  BY <1>2, EmptySeq DEF Shaped
<1>5. q \in Seq(Future!Futures) /\ q # <<>>
  BY <1>1, <1>2, <1>4 DEF SetCall
<1>6. /\ Tail(q) \in Seq(Future!Futures) /\ DOMAIN q = 1..Len(q)
      /\ DOMAIN Tail(q) = 1..(Len(q) - 1) /\ Len(q) \in Nat \ {0}
      /\ \A k \in DOMAIN Tail(q) : Tail(q)[k] = q[k + 1]
      /\ Head(q) \in Future!Futures /\ Head(q) = q[1]
  BY <1>5, HeadTailProperties, EmptySeq
<1>7. /\ fr1[t] = rest
      /\ \A u \in Future!Actors : u # t => fr1[u] = fr[u]
  BY <1>3 DEF Shaped
<1>8. /\ \A n \in 1..m : n # m => fr1[t][n].todo = fr[t][n].todo
      /\ fr1[t][m].todo = Tail(q) /\ fr[t][m].todo = q
  BY <1>1, <1>2, <1>4, <1>7
<1>9. Computes(c, fr, il, Head(q), "taken", t, m, 1)
  BY <1>4, <1>6, <1>8 DEF Computes
<1>10. Head(q) \in M \ S
  BY <1>6, <1>9 DEF Once
<1> DEFINE At(a, n, k) == IF a = t /\ n = m THEN k + 1 ELSE k
<1>11. ASSUME NEW g, NEW kind, NEW a, NEW n, NEW k, Computes(c, fr1, il, g, kind, a, n, k)
       PROVE  /\ kind = "taken" => Computes(c, fr, il, g, kind, a, n, At(a, n, k))
              /\ kind # "taken" => Computes(c, fr, il, g, kind, a, n, k)
              /\ kind = "taken" => n \in Nat /\ k \in Nat \ {0}
  <2>1. CASE kind # "taken"
    BY <1>11, <2>1 DEF Computes
  <2>2. CASE kind = "taken" /\ a = t /\ n = m
    <3>1. k \in DOMAIN Tail(q) /\ Tail(q)[k] = g
      BY <1>11, <1>8, <2>2 DEF Computes
    <3>2. k \in Nat \ {0} /\ k + 1 \in DOMAIN q /\ q[k + 1] = g
      BY <1>6, <3>1
    <3> QED BY <3>2, <1>4, <1>8, <2>2 DEF Computes
  <2>3. CASE kind = "taken" /\ ~(a = t /\ n = m)
    <3>1. Computes(c, fr, il, g, kind, a, n, k)
      BY <1>11, <2>3, <1>4, <1>7, <1>8 DEF Computes
    <3>2. /\ fr[a] \in Seq(SetCall) /\ n \in DOMAIN fr[a]
      BY <3>1, <2>3 DEF Computes, Shaped
    <3>3. fr[a][n] \in SetCall /\ n \in Nat
      BY <3>2
    <3>4. k \in DOMAIN fr[a][n].todo /\ fr[a][n].todo \in Seq(Future!Futures)
      BY <3>1, <3>3, <2>3 DEF Computes, SetCall
    <3>5. k \in Nat \ {0}
      BY <3>4
    <3> QED BY <2>3, <3>1, <3>3, <3>5
  <2> QED BY <2>1, <2>2, <2>3
<1>12. ASSUME NEW g \in Future!Futures, NEW kind, NEW a, NEW n, NEW k,
              Computes(c, fr, il, g, kind, a, n, k), g # Head(q)
       PROVE  \E k2 : Computes(c, fr1, il, g, kind, a, n, k2)
  <2>1. CASE kind # "taken"
    BY <1>12, <2>1 DEF Computes
  <2>2. CASE kind = "taken" /\ a = t /\ n = m
    <3>1. k \in DOMAIN q /\ q[k] = g
      BY <1>12, <1>8, <2>2 DEF Computes
    <3>2. k # 1 /\ k \in Nat
      BY <1>6, <1>12, <3>1
    <3>3. k - 1 \in DOMAIN Tail(q) /\ Tail(q)[k - 1] = g
      BY <1>6, <3>1, <3>2
    <3>4. Computes(c, fr1, il, g, kind, a, n, k - 1)
      BY <3>3, <1>4, <1>7, <1>8, <2>2 DEF Computes
    <3> QED BY <3>4
  <2>3. CASE kind = "taken" /\ ~(a = t /\ n = m)
    BY <1>12, <2>3, <1>4, <1>7, <1>8 DEF Computes
  <2> QED BY <2>1, <2>2, <2>3
<1>13. ASSUME NEW kind, NEW a, NEW n, NEW k, Computes(c, fr1, il, Head(q), kind, a, n, k)
       PROVE  FALSE
  <2>1. CASE kind = "taken"
    <3>1. Computes(c, fr, il, Head(q), kind, a, n, At(a, n, k)) /\ k \in Nat \ {0}
      BY <1>11, <1>13, <2>1
    <3>2. a = t /\ n = m /\ At(a, n, k) = 1
      BY <3>1, <1>9, <1>6 DEF Once
    <3> QED BY <3>1, <3>2
  <2>2. CASE kind # "taken"
    <3>1. Computes(c, fr, il, Head(q), kind, a, n, k)
      BY <1>11, <1>13, <2>2
    <3> QED BY <3>1, <2>2, <1>9, <1>6 DEF Once
  <2> QED BY <2>1, <2>2
<1>14. \A g \in Future!Futures : \A kind, a, n, k :
           Computes(c, fr1, il, g, kind, a, n, k) => g \in M \ (S \cup {Head(q)})
  BY <1>11, <1>13 DEF Once
<1>15. \A g \in M \ (S \cup {Head(q)}) : g \in Future!Futures =>
           \E kind, a, n, k : Computes(c, fr1, il, g, kind, a, n, k)
  BY <1>12 DEF Once
<1>16. \A g \in M \ S : g \in Future!Futures
  BY DEF Once
<1>17. ASSUME NEW g \in Future!Futures, NEW kind, NEW a, NEW n, NEW k,
              NEW kind2, NEW a2, NEW n2, NEW k2,
              Computes(c, fr1, il, g, kind, a, n, k),
              Computes(c, fr1, il, g, kind2, a2, n2, k2)
       PROVE  kind = kind2 /\ a = a2 /\ n = n2 /\ k = k2
  <2>1. PICK j : j = (IF kind = "taken" THEN At(a, n, k) ELSE k)
    OBVIOUS
  <2>2. PICK j2 : j2 = (IF kind2 = "taken" THEN At(a2, n2, k2) ELSE k2)
    OBVIOUS
  <2>3. Computes(c, fr, il, g, kind, a, n, j) /\ Computes(c, fr, il, g, kind2, a2, n2, j2)
    BY <1>11, <1>17, <2>1, <2>2
  <2>4. kind = kind2 /\ a = a2 /\ n = n2 /\ j = j2
    BY <2>3 DEF Once
  <2>5. CASE kind = "taken"
    <3>1. k \in Nat /\ k2 \in Nat
      BY <1>11, <1>17, <2>4, <2>5
    <3> QED BY <2>1, <2>2, <2>4, <2>5, <3>1
  <2>6. CASE kind # "taken"
    BY <2>1, <2>2, <2>4, <2>6
  <2> QED BY <2>5, <2>6
<1>18. Once(c, fr1, il, S \cup {Head(q)}, M)
  BY <1>10, <1>14, <1>15, <1>16, <1>17 DEF Once
<1> QED BY <1>1, <1>2, <1>3, <1>10, <1>18

\* A thread that was to run a continuation inline has: it settles.
LEMMA OnceInline ==
  ASSUME NEW c, NEW fr, NEW il, NEW S, NEW M, NEW t \in Future!Actors,
         Shaped(c, fr, il), Once(c, fr, il, S, M), il[t] # Future!NoFuture
  PROVE  /\ il[t] \in M \ S
         /\ Once(c, fr, [il EXCEPT ![t] = Future!NoFuture], S \cup {il[t]}, M)
<1>1. PICK g : g = il[t]
  OBVIOUS
<1>2. PICK il1 : il1 = [il EXCEPT ![t] = Future!NoFuture]
  OBVIOUS
<1>3. g \in Future!Futures /\ Future!NoFuture \notin Future!Futures
  BY <1>1 DEF Shaped, Future!Futures, Future!NoFuture
<1>4. Computes(c, fr, il, g, "inline", t, 0, 0)
  BY <1>1 DEF Computes
<1>5. g \in M \ S
  BY <1>3, <1>4 DEF Once
<1>6. il1[t] = Future!NoFuture /\ \A u \in Future!Actors : u # t => il1[u] = il[u]
  BY <1>2 DEF Shaped
<1>7. \A e \in Future!Futures : \A kind, a, n, k :
          Computes(c, fr, il1, e, kind, a, n, k)
          => Computes(c, fr, il, e, kind, a, n, k) /\ ~(kind = "inline" /\ a = t)
  BY <1>3, <1>6 DEF Computes
<1>8. \A e \in Future!Futures : \A kind, a, n, k :
          Computes(c, fr, il, e, kind, a, n, k) /\ e # g
          => Computes(c, fr, il1, e, kind, a, n, k)
  BY <1>1, <1>6 DEF Computes
<1>9. \A kind, a, n, k : ~Computes(c, fr, il1, g, kind, a, n, k)
  BY <1>3, <1>4, <1>7 DEF Once
<1>10. Once(c, fr, il1, S \cup {g}, M)
  BY <1>5, <1>7, <1>8, <1>9 DEF Once
<1> QED BY <1>1, <1>2, <1>5, <1>10

\* Set takes the continuations of its future, all of them.
LEMMA OnceTaken ==
  ASSUME NEW c, NEW fr, NEW il, NEW S, NEW M, NEW t \in Future!Actors, NEW f \in Future!Futures,
         NEW call \in SetCall, call.todo = c[f],
         Shaped(c, fr, il), Once(c, fr, il, S, M)
  PROVE  Once([c EXCEPT ![f] = <<>>], [fr EXCEPT ![t] = Append(fr[t], call)], il, S, M)
<1>1. PICK c1 : c1 = [c EXCEPT ![f] = <<>>]
  OBVIOUS
<1>2. PICK fr1 : fr1 = [fr EXCEPT ![t] = Append(fr[t], call)]
  OBVIOUS
<1>3. PICK m : m = Len(fr[t]) + 1
  OBVIOUS
<1>4. /\ fr[t] \in Seq(SetCall) /\ DOMAIN fr[t] = 1..(m - 1) /\ m \in Nat \ {0}
      /\ DOMAIN Append(fr[t], call) = 1..m
      /\ Append(fr[t], call)[m] = call
      /\ \A n \in 1..(m - 1) : Append(fr[t], call)[n] = fr[t][n]
  BY <1>3, AppendProperties, LenProperties DEF Shaped
<1>5. /\ DOMAIN fr1[t] = 1..m /\ fr1[t][m] = call
      /\ \A n \in 1..(m - 1) : fr1[t][n] = fr[t][n]
      /\ \A u \in Future!Actors : u # t => fr1[u] = fr[u]
  BY <1>2, <1>4 DEF Shaped
<1>6. /\ c1[f] = <<>> /\ DOMAIN c1[f] = {}
      /\ \A e \in Future!Futures : e # f => c1[e] = c[e]
  BY <1>1, EmptySeq DEF Shaped
<1>7. m \notin 1..(m - 1) /\ m \in 1..m /\ 1..m = 1..(m - 1) \cup {m}
  BY <1>4
<1>8. ASSUME NEW g, NEW kind, NEW a, NEW n, NEW k, Computes(c1, fr1, il, g, kind, a, n, k)
      PROVE  /\ ~(kind = "attached" /\ a = f)
             /\ kind = "taken" /\ a = t /\ n = m
                => Computes(c, fr, il, g, "attached", f, 0, k)
             /\ ~(kind = "taken" /\ a = t /\ n = m)
                => Computes(c, fr, il, g, kind, a, n, k)
  <2>1. CASE kind = "attached"
    BY <1>6, <1>8, <2>1 DEF Computes
  <2>2. CASE kind = "taken"
    BY <1>4, <1>5, <1>7, <1>8, <2>2 DEF Computes
  <2>3. CASE kind = "inline"
    BY <1>8, <2>3 DEF Computes
  <2> QED BY <1>8, <2>1, <2>2, <2>3 DEF Computes
<1>9. ASSUME NEW g, NEW kind, NEW a, NEW n, NEW k, Computes(c, fr, il, g, kind, a, n, k)
      PROVE  /\ ~(kind = "taken" /\ a = t /\ n = m)
             /\ \E kind2, a2, n2, k2 : Computes(c1, fr1, il, g, kind2, a2, n2, k2)
  <2>1. CASE kind = "attached" /\ a = f
    <3>1. Computes(c1, fr1, il, g, "taken", t, m, k)
      BY <1>5, <1>7, <1>9, <2>1 DEF Computes
    <3> QED BY <2>1, <3>1
  <2>2. CASE kind = "attached" /\ a # f
    <3>1. Computes(c1, fr1, il, g, kind, a, n, k)
      BY <1>6, <1>9, <2>2 DEF Computes
    <3> QED BY <2>2, <3>1
  <2>3. CASE kind = "taken"
    <3>1. Computes(c1, fr1, il, g, kind, a, n, k) /\ ~(a = t /\ n = m)
      BY <1>4, <1>5, <1>7, <1>9, <2>3 DEF Computes
    <3> QED BY <3>1
  <2>4. CASE kind = "inline"
    <3>1. Computes(c1, fr1, il, g, kind, a, n, k)
      BY <1>9, <2>4 DEF Computes
    <3> QED BY <2>4, <3>1
  <2> QED BY <1>9, <2>1, <2>2, <2>3, <2>4 DEF Computes
<1>10. /\ S \subseteq M /\ M \subseteq Future!Futures
       /\ \A g \in Future!Futures : \A kind, a, n, k :
              Computes(c1, fr1, il, g, kind, a, n, k) => g \in M \ S
       /\ \A g \in M \ S : \E kind, a, n, k : Computes(c1, fr1, il, g, kind, a, n, k)
  BY <1>8, <1>9 DEF Once
<1>11. ASSUME NEW g \in Future!Futures, NEW kind, NEW a, NEW n, NEW k,
              NEW kind2, NEW a2, NEW n2, NEW k2,
              Computes(c1, fr1, il, g, kind, a, n, k),
              Computes(c1, fr1, il, g, kind2, a2, n2, k2)
       PROVE  kind = kind2 /\ a = a2 /\ n = n2 /\ k = k2
  <2> DEFINE Fresh(x, y, z) == x = "taken" /\ y = t /\ z = m
  <2>1. CASE Fresh(kind, a, n) /\ Fresh(kind2, a2, n2)
    <3>1. /\ Computes(c, fr, il, g, "attached", f, 0, k)
          /\ Computes(c, fr, il, g, "attached", f, 0, k2)
      BY <1>8, <1>11, <2>1
    <3>2. k = k2
      BY <3>1 DEF Once
    <3> QED BY <2>1, <3>2
  <2>2. CASE ~Fresh(kind, a, n) /\ ~Fresh(kind2, a2, n2)
    <3>1. /\ Computes(c, fr, il, g, kind, a, n, k)
          /\ Computes(c, fr, il, g, kind2, a2, n2, k2)
      BY <1>8, <1>11, <2>2
    <3> QED BY <3>1 DEF Once
  <2>3. CASE Fresh(kind, a, n) /\ ~Fresh(kind2, a2, n2)
    <3>1. /\ Computes(c, fr, il, g, "attached", f, 0, k)
          /\ Computes(c, fr, il, g, kind2, a2, n2, k2)
          /\ ~(kind2 = "attached" /\ a2 = f)
      BY <1>8, <1>11, <2>3
    <3> QED BY <3>1 DEF Once
  <2>4. CASE ~Fresh(kind, a, n) /\ Fresh(kind2, a2, n2)
    <3>1. /\ Computes(c, fr, il, g, "attached", f, 0, k2)
          /\ Computes(c, fr, il, g, kind, a, n, k)
          /\ ~(kind = "attached" /\ a = f)
      BY <1>8, <1>11, <2>4
    <3> QED BY <3>1 DEF Once
  <2> QED BY <2>1, <2>2, <2>3, <2>4
<1>12. Once(c1, fr1, il, S, M)
  BY <1>10, <1>11 DEF Once
<1> QED BY <1>1, <1>2, <1>12

\* A new future that is settled when it is made.
LEMMA OnceNew ==
  ASSUME NEW c, NEW fr, NEW il, NEW S, NEW M, NEW g \in Future!Futures \ M,
         Once(c, fr, il, S, M)
  PROVE  Once(c, fr, il, S \cup {g}, M \cup {g})
BY DEF Once

\* A new future that is attached to f.
LEMMA OnceAttached ==
  ASSUME NEW c, NEW fr, NEW il, NEW S, NEW M, NEW f \in Future!Futures, NEW g \in Future!Futures \ M,
         Shaped(c, fr, il), Once(c, fr, il, S, M)
  PROVE  Once([c EXCEPT ![f] = Append(@, g)], fr, il, S, M \cup {g})
<1>1. PICK c1 : c1 = [c EXCEPT ![f] = Append(@, g)]
  OBVIOUS
<1>2. PICK m : m = Len(c[f]) + 1
  OBVIOUS
<1>3. /\ DOMAIN c1[f] = 1..m /\ DOMAIN c[f] = 1..(m - 1) /\ m \in Nat \ {0}
      /\ c1[f][m] = g /\ \A k \in 1..(m - 1) : c1[f][k] = c[f][k]
      /\ \A e \in Future!Futures : e # f => c1[e] = c[e]
  BY <1>1, <1>2, AppendProperties, LenProperties DEF Shaped
<1>4. m \notin 1..(m - 1) /\ m \in 1..m /\ 1..m = 1..(m - 1) \cup {m}
  BY <1>3
<1>5. \A e, kind, a, n, k :
          Computes(c1, fr, il, e, kind, a, n, k)
          <=> \/ Computes(c, fr, il, e, kind, a, n, k)
              \/ e = g /\ kind = "attached" /\ a = f /\ n = 0 /\ k = m
  BY <1>3, <1>4 DEF Computes
<1>6. \A kind, a, n, k : ~Computes(c, fr, il, g, kind, a, n, k)
  BY DEF Once
<1>7. g \in (M \cup {g}) \ S
  BY DEF Once
<1>8. Once(c1, fr, il, S, M \cup {g})
  BY <1>5, <1>6, <1>7 DEF Once
<1> QED BY <1>1, <1>8

\* A new future that thread t is to compute inline.
LEMMA OnceReady ==
  ASSUME NEW c, NEW fr, NEW il, NEW S, NEW M, NEW t \in Future!Actors, NEW g \in Future!Futures \ M,
         Shaped(c, fr, il), Once(c, fr, il, S, M), il[t] = Future!NoFuture
  PROVE  Once(c, fr, [il EXCEPT ![t] = g], S, M \cup {g})
<1>1. PICK il1 : il1 = [il EXCEPT ![t] = g]
  OBVIOUS
<1>2. Future!NoFuture \notin Future!Futures
  BY DEF Future!Futures, Future!NoFuture
<1>3. \A e \in Future!Futures : \A kind, a, n, k :
          Computes(c, fr, il1, e, kind, a, n, k)
          <=> \/ Computes(c, fr, il, e, kind, a, n, k)
              \/ e = g /\ kind = "inline" /\ a = t /\ n = 0 /\ k = 0
  BY <1>1, <1>2 DEF Computes, Shaped
<1>4. \A kind, a, n, k : ~Computes(c, fr, il, g, kind, a, n, k)
  BY DEF Once
<1>5. g \in (M \cup {g}) \ S
  BY DEF Once
<1>6. Once(c, fr, il1, S, M \cup {g})
  BY <1>3, <1>4, <1>5 DEF Once
<1> QED BY <1>1, <1>6


\* The innermost Set returns when it has nothing left to run.
LEMMA OnceDropped ==
  ASSUME NEW c, NEW fr, NEW il, NEW S, NEW M, NEW t \in Future!Actors,
         Shaped(c, fr, il), Once(c, fr, il, S, M),
         fr[t] # <<>>, fr[t][Len(fr[t])].todo = <<>>
  PROVE  Once(c, [fr EXCEPT ![t] = SubSeq(@, 1, Len(@) - 1)], il, S, M)
<1>1. PICK fr1 : fr1 = [fr EXCEPT ![t] = SubSeq(@, 1, Len(@) - 1)]
  OBVIOUS
<1>2. PICK m : m = Len(fr[t])
  OBVIOUS
<1>3. fr[t] \in Seq(SetCall) /\ m \in Nat \ {0} /\ DOMAIN fr[t] = 1..m
  BY <1>2, EmptySeq DEF Shaped
<1>4. /\ DOMAIN SubSeq(fr[t], 1, m - 1) = 1..(m - 1)
      /\ \A n \in 1..(m - 1) : SubSeq(fr[t], 1, m - 1)[n] = fr[t][n]
  BY <1>2, <1>3
<1>5. /\ DOMAIN fr1[t] = 1..(m - 1)
      /\ \A n \in 1..(m - 1) : fr1[t][n] = fr[t][n]
      /\ \A u \in Future!Actors : u # t => fr1[u] = fr[u]
  BY <1>1, <1>2, <1>4 DEF Shaped
<1>6. 1..m = 1..(m - 1) \cup {m} /\ DOMAIN fr[t][m].todo = {}
  BY <1>2, <1>3, EmptySeq
<1>7. ASSUME NEW g, NEW kind, NEW a, NEW n, NEW k
      PROVE  Computes(c, fr1, il, g, kind, a, n, k) <=> Computes(c, fr, il, g, kind, a, n, k)
  <2>1. CASE a = t
    BY <1>3, <1>5, <1>6, <2>1 DEF Computes
  <2>2. CASE a # t
    BY <1>5, <2>2 DEF Computes
  <2> QED BY <2>1, <2>2
<1>8. Once(c, fr1, il, S, M)
  BY <1>7 DEF Once
<1> QED BY <1>1, <1>8

-----------------------------------------------------------------------------
\* What a Set, or a continuation whose work the executor accepted or refused,
\* does to the results and to the stack of its thread.
Delivers(t, f, stack) ==
    \/ /\ frames' = [frames EXCEPT ![t] = stack]
       /\ UNCHANGED <<result, conts>>
    \/ /\ result[f] = "none"
       /\ \E v \in Future!Outcomes : result' = [result EXCEPT ![f] = v]
       /\ frames' = [frames EXCEPT ![t] =
              Append(stack, [fut |-> f, todo |-> conts[f], told |-> FALSE])]
       /\ conts' = [conts EXCEPT ![f] = <<>>]

\* The types of what a delivery changes.
Typed ==
    /\ result \in [Future!Futures -> {"none", "value", "error"}]
    /\ conts \in [Future!Futures -> Seq(Future!Futures)]
    /\ frames \in [Future!Actors -> Seq(SetCall)]

\* An accepted work is held; nothing else the executor does adds or drops one.
LEMMA HeldAccepted ==
  ASSUME NEW g, pending \in Seq(Future!Futures), g \in Future!Futures, Future!Exec!SpecAccept(g)
  PROVE  Future!Exec!Held' = Future!Exec!Held \cup {g}
<1>1. /\ Len(Append(pending, g)) = Len(pending) + 1 /\ Len(pending) \in Nat
      /\ Append(pending, g)[Len(pending) + 1] = g
      /\ \A k \in 1..Len(pending) : Append(pending, g)[k] = pending[k]
  BY AppendProperties, LenProperties
<1>2. 1..(Len(pending) + 1) = 1..Len(pending) \cup {Len(pending) + 1}
  BY <1>1
<1>3. {pending'[k] : k \in 1..Len(pending')} = {pending[k] : k \in 1..Len(pending)} \cup {g}
  BY <1>1, <1>2 DEF Future!Exec!SpecAccept
<1> QED BY <1>3 DEF Future!Exec!SpecAccept, Future!Exec!Held

\* The oldest pending work is held, and is the only one Tail gives up.
LEMMA HeadHeld ==
  ASSUME pending \in Seq(Future!Futures), pending # <<>>
  PROVE  /\ Head(pending) \in Future!Futures /\ Head(pending) \in Future!Exec!Held
         /\ {pending[k] : k \in 1..Len(pending)} =
               {Head(pending)} \cup {Tail(pending)[k] : k \in 1..Len(Tail(pending))}
<1>1. /\ Head(pending) \in Future!Futures /\ Head(pending) = pending[1]
      /\ Len(pending) \in Nat \ {0} /\ Len(Tail(pending)) = Len(pending) - 1
      /\ \A k \in 1..Len(Tail(pending)) : Tail(pending)[k] = pending[k + 1]
  BY HeadTailProperties, EmptySeq
<1>2. Head(pending) \in {pending[k] : k \in 1..Len(pending)}
  BY <1>1
<1>3. ASSUME NEW k \in 1..Len(pending)
      PROVE  pending[k] \in {Head(pending)} \cup {Tail(pending)[j] : j \in 1..Len(Tail(pending))}
  <2>1. CASE k = 1
    BY <1>1, <2>1
  <2>2. CASE k # 1
    <3>1. k - 1 \in 1..Len(Tail(pending)) /\ Tail(pending)[k - 1] = pending[k]
      BY <1>1, <2>2
    <3> QED BY <3>1
  <2> QED BY <2>1, <2>2
<1>4. ASSUME NEW j \in 1..Len(Tail(pending))
      PROVE  Tail(pending)[j] \in {pending[k] : k \in 1..Len(pending)}
  <2>1. j + 1 \in 1..Len(pending) /\ Tail(pending)[j] = pending[j + 1]
    BY <1>1
  <2> QED BY <2>1
<1> QED BY <1>1, <1>2, <1>3, <1>4 DEF Future!Exec!Held

LEMMA HeldElsewhere ==
  ASSUME pending \in Seq(Future!Futures),
         Future!Exec!SpecStart \/ Future!Exec!SpecStop \/ Future!Exec!SpecDispose \/ \E g \in Future!Futures : Future!Exec!SpecReturn(g)
         \/ UNCHANGED Future!execVars
  PROVE  Future!Exec!Held' = Future!Exec!Held
<1>1. CASE Future!Exec!SpecStart
  BY <1>1, HeadHeld DEF Future!Exec!SpecStart, Future!Exec!Held
<1>2. CASE Future!Exec!SpecStop
  BY <1>2 DEF Future!Exec!SpecStop, Future!Exec!Held
<1>3. CASE Future!Exec!SpecDispose
  BY <1>3, HeadHeld DEF Future!Exec!SpecDispose, Future!Exec!Held
<1>4. CASE \E g \in Future!Futures : Future!Exec!SpecReturn(g)
  BY <1>4 DEF Future!Exec!SpecReturn, Future!Exec!Held
<1>5. CASE UNCHANGED Future!execVars
  BY <1>5 DEF Future!execVars, Future!Exec!Held
<1> QED BY <1>1, <1>2, <1>3, <1>4, <1>5

\* A result that is set stays.
LEMMA SetDelivers ==
  ASSUME NEW t, NEW f \in Future!Futures, NEW v \in Future!Outcomes, NEW stack, Future!Set(t, f, v, stack), Typed
  PROVE  Delivers(t, f, stack) /\ result'[f] # "none"
BY DEF Future!Set, Delivers, Future!Kept, Future!Outcomes, Typed

\* So does a continuation: it submits its work, or fails its future.
LEMMA ContinueDelivers ==
  ASSUME NEW t, NEW g \in Future!Futures, NEW stack, Future!Continue(t, g, stack), Typed,
         pending \in Seq(Future!Futures)
  PROVE  /\ Delivers(t, g, stack)
         /\ \/ Future!Exec!Held' = Future!Exec!Held \cup {g} /\ Future!Exec!SpecAccept(g) /\ result' = result
            \/ Future!Exec!Held' = Future!Exec!Held /\ UNCHANGED Future!execVars /\ result'[g] # "none"
<1>1. CASE Future!Exec!SpecAccept(g)
  BY <1>1, HeldAccepted DEF Future!Continue, Delivers, Future!execVars, Future!Exec!SpecAccept
<1>2. CASE Future!Refused(t, g, stack) /\ UNCHANGED Future!execVars
  BY <1>2, SetDelivers, HeldElsewhere DEF Future!Refused, Future!Outcomes
<1> QED BY <1>1, <1>2 DEF Future!Continue

\* What a delivery leaves of the types, and of the results set before.
LEMMA DeliversTyped ==
  ASSUME NEW t \in Future!Actors, NEW f \in Future!Futures, NEW stack \in Seq(SetCall),
         Delivers(t, f, stack), Typed
  PROVE  /\ Typed'
         /\ \A g \in Future!Futures : /\ result[g] # "none" => result'[g] # "none"
                                      /\ g # f => result'[g] = result[g]
<1>1. CASE frames' = [frames EXCEPT ![t] = stack] /\ UNCHANGED <<result, conts>>
  BY <1>1 DEF Typed
<1>2. CASE /\ result[f] = "none"
           /\ \E v \in Future!Outcomes : result' = [result EXCEPT ![f] = v]
           /\ frames' = [frames EXCEPT ![t] =
                  Append(stack, [fut |-> f, todo |-> conts[f], told |-> FALSE])]
           /\ conts' = [conts EXCEPT ![f] = <<>>]
  <2>1. [fut |-> f, todo |-> conts[f], told |-> FALSE] \in SetCall
    BY DEF Typed, SetCall
  <2>2. Append(stack, [fut |-> f, todo |-> conts[f], told |-> FALSE]) \in Seq(SetCall)
    BY <2>1
  <2>3. frames' \in [Future!Actors -> Seq(SetCall)]
    BY <1>2, <2>2 DEF Typed
  <2>4. conts' \in [Future!Futures -> Seq(Future!Futures)]
    BY <1>2, EmptySeq DEF Typed
  <2>5. /\ result' \in [Future!Futures -> {"none", "value", "error"}]
        /\ \A g \in Future!Futures : g # f => result'[g] = result[g]
    BY <1>2 DEF Typed, Future!Outcomes
  <2> QED BY <1>2, <2>3, <2>4, <2>5 DEF Typed
<1> QED BY <1>1, <1>2 DEF Delivers

\* Set takes what is attached: a continuation is not lost and is not left behind.
LEMMA DeliversOnce ==
  ASSUME NEW t \in Future!Actors, NEW f \in Future!Futures, NEW stack \in Seq(SetCall),
         NEW il, NEW S, NEW M,
         Delivers(t, f, stack), Typed, il \in [Future!Actors -> Future!Futures \cup {Future!NoFuture}],
         Once(conts, [frames EXCEPT ![t] = stack], il, S, M)
  PROVE  Once(conts', frames', il, S, M)
<1>1. CASE frames' = [frames EXCEPT ![t] = stack] /\ UNCHANGED <<result, conts>>
  BY <1>1
<1>2. CASE /\ frames' = [frames EXCEPT ![t] =
                  Append(stack, [fut |-> f, todo |-> conts[f], told |-> FALSE])]
           /\ conts' = [conts EXCEPT ![f] = <<>>]
  <2>1. PICK call : call = [fut |-> f, todo |-> conts[f], told |-> FALSE]
    OBVIOUS
  <2>2. call \in SetCall /\ call.todo = conts[f]
    BY <2>1 DEF Typed, SetCall
  <2>3. PICK fr : fr = [frames EXCEPT ![t] = stack]
    OBVIOUS
  <2>4. Shaped(conts, fr, il) /\ fr[t] = stack
    BY <2>3 DEF Typed, Shaped
  <2>5. frames' = [fr EXCEPT ![t] = Append(fr[t], call)]
    BY <1>2, <2>1, <2>3, <2>4 DEF Typed
  <2>6. Once([conts EXCEPT ![f] = <<>>], [fr EXCEPT ![t] = Append(fr[t], call)], il, S, M)
    BY <2>2, <2>3, <2>4, OnceTaken
  <2> QED BY <1>2, <2>5, <2>6
<1> QED BY <1>1, <1>2 DEF Delivers


-----------------------------------------------------------------------------
\* The parent of a continuation about to run has its result.
Owed(g) == parent[g] # Future!NoFuture => result[parent[g]] # "none"

\* Continuations are attached to the future they follow, and are taken, run or
\* submitted only when that one has its result.
AttachedToParent ==
    \A f \in Future!Futures : \A k \in DOMAIN conts[f] : parent[conts[f][k]] = f
TakenOwed ==
    \A t \in Future!Actors : \A n \in DOMAIN frames[t] : \A k \in DOMAIN frames[t][n].todo :
        Owed(frames[t][n].todo[k])
StackOwed(stack) ==
    \A n \in DOMAIN stack : \A k \in DOMAIN stack[n].todo : Owed(stack[n].todo[k])
\* Stacks of the same calls, with other continuations left.
Alike(stack, like) ==
    /\ DOMAIN stack = DOMAIN like
    /\ \A n \in DOMAIN like : stack[n].fut = like[n].fut /\ stack[n].told = like[n].told

\* What holds of the stacks holds of the new one: its frames are those of the
\* stack given, and one on top that took the continuations of f.
LEMMA DeliversFrames ==
  ASSUME NEW t \in Future!Actors, NEW f \in Future!Futures, NEW stack \in Seq(SetCall),
         Delivers(t, f, stack), Typed
  PROVE  /\ \A u \in Future!Actors : u # t => frames'[u] = frames[u]
         /\ DOMAIN stack \subseteq DOMAIN frames'[t]
         /\ \A n \in DOMAIN stack : frames'[t][n] = stack[n]
         /\ \A n \in DOMAIN frames'[t] \ DOMAIN stack :
               /\ frames'[t][n].todo = conts[f]
               /\ result'[f] # "none"
         /\ \A e \in Future!Futures : conts'[e] = conts[e] \/ conts'[e] = <<>>
         /\ result[f] = "none" /\ result'[f] # "none" =>
               \E n \in DOMAIN frames'[t] : frames'[t][n].fut = f /\ ~frames'[t][n].told
<1>1. CASE frames' = [frames EXCEPT ![t] = stack] /\ UNCHANGED <<result, conts>>
  BY <1>1 DEF Typed
<1>2. CASE /\ result[f] = "none"
           /\ \E v \in Future!Outcomes : result' = [result EXCEPT ![f] = v]
           /\ frames' = [frames EXCEPT ![t] =
                  Append(stack, [fut |-> f, todo |-> conts[f], told |-> FALSE])]
           /\ conts' = [conts EXCEPT ![f] = <<>>]
  <2>1. PICK call : call = [fut |-> f, todo |-> conts[f], told |-> FALSE]
    OBVIOUS
  <2>2. call \in SetCall
    BY <2>1 DEF Typed, SetCall
  <2>3. /\ frames'[t] = Append(stack, call)
        /\ \A u \in Future!Actors : u # t => frames'[u] = frames[u]
    BY <1>2, <2>1 DEF Typed
  <2>4. /\ DOMAIN stack = 1..Len(stack) /\ Len(stack) \in Nat
        /\ DOMAIN Append(stack, call) = 1..(Len(stack) + 1)
        /\ Append(stack, call)[Len(stack) + 1] = call
        /\ \A n \in 1..Len(stack) : Append(stack, call)[n] = stack[n]
    BY <2>2, AppendProperties, LenProperties
  <2>5. /\ DOMAIN stack \subseteq DOMAIN frames'[t]
        /\ \A n \in DOMAIN stack : frames'[t][n] = stack[n]
        /\ \A n \in DOMAIN frames'[t] \ DOMAIN stack : frames'[t][n] = call
        /\ Len(stack) + 1 \in DOMAIN frames'[t] /\ frames'[t][Len(stack) + 1] = call
    BY <2>3, <2>4
  <2>6. \A e \in Future!Futures : conts'[e] = conts[e] \/ conts'[e] = <<>>
    BY <1>2 DEF Typed
  <2>7. result'[f] # "none"
    BY <1>2 DEF Typed, Future!Outcomes
  <2> QED BY <2>1, <2>3, <2>5, <2>6, <2>7
<1> QED BY <1>1, <1>2 DEF Delivers

\* Continuations follow their parents through a delivery.
LEMMA DeliversFollows ==
  ASSUME NEW t \in Future!Actors, NEW f \in Future!Futures, NEW stack \in Seq(SetCall),
         Delivers(t, f, stack), Typed,
         parent \in [Future!Futures -> Future!Futures \cup {Future!NoFuture}], parent' = parent,
         AttachedToParent, TakenOwed, StackOwed(stack)
  PROVE  AttachedToParent' /\ TakenOwed' /\ \A g \in Future!Futures : Owed(g) => Owed(g)'
<1>1. Typed' /\ \A g \in Future!Futures : result[g] # "none" => result'[g] # "none"
  BY DeliversTyped
<1>2. \A g \in Future!Futures : Owed(g) => Owed(g)'
  BY <1>1 DEF Owed
<1>3. AttachedToParent'
  BY DeliversFrames, EmptySeq DEF AttachedToParent
<1>4. ASSUME NEW u \in Future!Actors, NEW n \in DOMAIN frames'[u], NEW k \in DOMAIN frames'[u][n].todo
      PROVE  Owed(frames[u][n].todo[k])'
  <2>1. frames'[u] \in Seq(SetCall) /\ frames'[u][n] \in SetCall
    BY <1>1 DEF Typed
  <2>2. PICK g \in Future!Futures : g = frames'[u][n].todo[k]
    BY <2>1 DEF SetCall
  <2>3. CASE u # t
    <3>1. Owed(g)
      BY <2>2, <2>3, DeliversFrames DEF TakenOwed
    <3> QED BY <3>1, <2>2, <1>2 DEF Owed
  <2>4. CASE u = t /\ n \in DOMAIN stack
    <3>1. Owed(g)
      BY <2>2, <2>4, DeliversFrames DEF StackOwed
    <3> QED BY <3>1, <2>2, <1>2 DEF Owed
  <2>5. CASE u = t /\ n \notin DOMAIN stack
    <3>1. frames'[u][n].todo = conts[f] /\ result'[f] # "none"
      BY <2>5, DeliversFrames
    <3>2. parent[g] = f
      BY <2>2, <3>1 DEF AttachedToParent
    <3> QED BY <2>2, <3>1, <3>2 DEF Owed
  <2> QED BY <2>3, <2>4, <2>5
<1>5. TakenOwed'
  BY <1>4 DEF TakenOwed
<1> QED BY <1>2, <1>3, <1>5

\* A delivery owes a notification to all who sleep on its future.
LEMMA DeliversNotifies ==
  ASSUME NEW t \in Future!Actors, NEW f \in Future!Futures, NEW stack \in Seq(SetCall),
         Delivers(t, f, stack), Typed, Future!NoLostNotify,
         Alike(stack, frames[t]), asleep' = asleep, waiting' = waiting,
         \A c \in asleep : waiting[c] \in Future!Futures
  PROVE  Future!NoLostNotify'
<1>f. /\ \A u \in Future!Actors : u # t => frames'[u] = frames[u]
      /\ DOMAIN stack \subseteq DOMAIN frames'[t]
      /\ \A n \in DOMAIN stack : frames'[t][n] = stack[n]
  BY DeliversFrames
<1>g. result[f] = "none" /\ result'[f] # "none" =>
          \E n \in DOMAIN frames'[t] : frames'[t][n].fut = f /\ ~frames'[t][n].told
  BY DeliversFrames
<1>h. \A g \in Future!Futures : g # f => result'[g] = result[g]
  BY DeliversTyped
<1> SUFFICES ASSUME NEW c \in asleep, result'[waiting[c]] # "none"
             PROVE  \E u \in Future!Actors : \E n \in DOMAIN frames'[u] :
                        frames'[u][n].fut = waiting[c] /\ ~frames'[u][n].told
  BY DEF Future!NoLostNotify
<1>1. CASE result[waiting[c]] # "none"
  <2>1. PICK u \in Future!Actors : \E n \in DOMAIN frames[u] :
            frames[u][n].fut = waiting[c] /\ ~frames[u][n].told
    BY <1>1 DEF Future!NoLostNotify
  <2>2. PICK n \in DOMAIN frames[u] : frames[u][n].fut = waiting[c] /\ ~frames[u][n].told
    BY <2>1
  <2>3. CASE u # t
    BY <2>2, <2>3, <1>f
  <2>4. CASE u = t
    <3>1. n \in DOMAIN stack /\ stack[n].fut = waiting[c] /\ ~stack[n].told
      BY <2>2, <2>4 DEF Alike
    <3>2. n \in DOMAIN frames'[t] /\ frames'[t][n] = stack[n]
      BY <3>1, <1>f
    <3> QED BY <2>4, <3>1, <3>2
  <2> QED BY <2>3, <2>4
<1>2. CASE result[waiting[c]] = "none"
  <2>1. waiting[c] = f
    BY <1>2, <1>h
  <2>2. \E n \in DOMAIN frames'[t] : frames'[t][n].fut = f /\ ~frames'[t][n].told
    BY <1>2, <2>1, <1>g
  <2> QED BY <2>1, <2>2
<1> QED BY <1>1, <1>2

-----------------------------------------------------------------------------
\* Futures are numbered in the order they are made.
Numbered == \E n \in Nat : made = 1..n

\* A thread in a Set runs nothing inline, a worker's work is held, and only
\* who waits sleeps.
Apart ==
    /\ \A t \in Future!Actors : inline[t] # Future!NoFuture => frames[t] = <<>>
    /\ \A w \in FutureWorkers : job[w] # Future!NoFuture => job[w] \in Future!Exec!Held
    /\ \A c \in asleep : waiting[c] # Future!NoFuture

\* Every continuation follows its parent.
Follows ==
    /\ AttachedToParent /\ TakenOwed
    /\ \A t \in Future!Actors : inline[t] # Future!NoFuture => Owed(inline[t])
    /\ \A g \in Future!Exec!Held : Owed(g)
    /\ \A g \in Future!Futures \ made : parent[g] = Future!NoFuture

\* The inductive invariant of the futures.
FutureInv ==
    /\ Future!TypeOK /\ Numbered /\ Apart /\ Follows /\ Future!NoLostNotify
    /\ Once(conts, frames, inline, FutureSettled, made)

\* The next number is that of a future which does not exist yet.
LEMMA NewFuture ==
  ASSUME NEW g, Numbered, Future!New(g)
  PROVE  g \notin made /\ (made' = made \cup {g} => Numbered')
<1>1. PICK n \in Nat : made = 1..n
  BY DEF Numbered
<1>2. Cardinality(made) = n
  BY <1>1, FS_Interval
<1>3. g = n + 1
  BY <1>2, FutureCardinality DEF Future!New
<1>4. 1..n \cup {n + 1} = 1..(n + 1) /\ n + 1 \notin 1..n
  OBVIOUS
<1>5. g \notin made /\ (made' = made \cup {g} => made' = 1..(n + 1))
  BY <1>1, <1>3, <1>4
<1> QED BY <1>5 DEF Numbered

\* The type invariant, with the types of what a delivery changes named.
LEMMA FutureTyped ==
  Future!TypeOK <=> /\ Typed
                    /\ pending \in Seq(Future!Futures)
                    /\ running \in SUBSET Future!Futures /\ returned \in SUBSET Future!Futures
                    /\ dropped \in SUBSET Future!Futures /\ halted \in BOOLEAN
                    /\ made \in SUBSET Future!Futures
                    /\ parent \in [Future!Futures -> Future!Futures \cup {Future!NoFuture}]
                    /\ inline \in [Future!Actors -> Future!Futures \cup {Future!NoFuture}]
                    /\ job \in [FutureWorkers -> Future!Futures \cup {Future!NoFuture}]
                    /\ ended \in SUBSET FutureWorkers
                    /\ waiting \in [Threads -> Future!Futures \cup {Future!NoFuture}]
                    /\ asleep \in SUBSET Threads
                    /\ halter \in Future!Actors \cup {Future!NoFuture}
BY DEF Future!TypeOK, Typed, SetCall


\* What the executor starts, returns, disposes of or stops at settles nothing.
LEMMA ExecTyped ==
  ASSUME Future!TypeOK,
         \/ Future!Exec!SpecStart \/ Future!Exec!SpecStop \/ Future!Exec!SpecDispose
         \/ \E g \in Future!Futures : Future!Exec!SpecReturn(g) \/ Future!Exec!SpecAccept(g)
         \/ UNCHANGED Future!execVars
  PROVE  /\ pending' \in Seq(Future!Futures)
         /\ running' \in SUBSET Future!Futures /\ returned' \in SUBSET Future!Futures
         /\ dropped' \in SUBSET Future!Futures /\ halted' \in BOOLEAN
<1>1. CASE Future!Exec!SpecStart
  BY <1>1, HeadTailProperties DEF Future!Exec!SpecStart, Future!TypeOK
<1>2. CASE Future!Exec!SpecStop
  BY <1>2 DEF Future!Exec!SpecStop, Future!TypeOK
<1>3. CASE Future!Exec!SpecDispose
  BY <1>3, HeadTailProperties DEF Future!Exec!SpecDispose, Future!TypeOK
<1>4. CASE \E g \in Future!Futures : Future!Exec!SpecReturn(g)
  BY <1>4 DEF Future!Exec!SpecReturn, Future!TypeOK
<1>5. CASE \E g \in Future!Futures : Future!Exec!SpecAccept(g)
  BY <1>5 DEF Future!Exec!SpecAccept, Future!TypeOK
<1>6. CASE UNCHANGED Future!execVars
  BY <1>6 DEF Future!execVars, Future!TypeOK
<1> QED BY <1>1, <1>2, <1>3, <1>4, <1>5, <1>6

\* A scheduled future is new, and held by the executor at once.
LEMMA ScheduleStep ==
  ASSUME FutureInv, NEW t \in Future!Actors, NEW f \in Future!Futures, Future!Schedule(t, f)
  PROVE  FutureInv'
<1>1. Future!TypeOK /\ Typed /\ Future!Exec!SpecAccept(f) /\ Future!New(f) /\ made' = made \cup {f}
      /\ UNCHANGED <<Future!setVars, Future!workVars, Future!waitVars, parent, inline, halter>>
  BY FutureTyped DEF Future!Schedule, FutureInv
<1>2. /\ UNCHANGED <<result, conts, frames, job, ended, waiting, asleep, parent, inline, halter>>
  BY <1>1 DEF Future!setVars, Future!workVars, Future!waitVars
<1>3. Future!Exec!Held' = Future!Exec!Held \cup {f}
  BY <1>1, HeldAccepted DEF Future!TypeOK
<1>4. f \notin made /\ Numbered'
  BY <1>1, NewFuture DEF FutureInv
<1>5. Future!TypeOK'
  BY <1>1, <1>2, ExecTyped DEF Future!TypeOK
<1>6. FutureSettled' = FutureSettled \cup {f}
  BY <1>2, <1>3 DEF FutureSettled
<1>7. Once(conts, frames, inline, FutureSettled \cup {f}, made \cup {f})
  BY <1>4, OnceNew DEF FutureInv
<1>8. Once(conts, frames, inline, FutureSettled, made)'
  BY <1>1, <1>2, <1>6, <1>7
<1>9. Apart' /\ Future!NoLostNotify'
  BY <1>2, <1>3 DEF FutureInv, Apart, Future!NoLostNotify
<1>10. Follows'
  BY <1>1, <1>2, <1>3, <1>4 DEF FutureInv, Follows, AttachedToParent, TakenOwed, Owed
<1> QED BY <1>4, <1>5, <1>8, <1>9, <1>10 DEF FutureInv

\* A continuation is new: attached to its parent, or with the thread that
\* found the parent set.
LEMMA ThenStep ==
  ASSUME FutureInv, NEW t \in Future!Actors, NEW f \in Future!Futures, NEW g \in Future!Futures, Future!Then(t, f, g)
  PROVE  FutureInv'
<1>1. /\ Future!TypeOK /\ Typed /\ Future!MayCall(t) /\ f \in made /\ Future!New(g)
      /\ made' = made \cup {g} /\ parent' = [parent EXCEPT ![g] = f]
      /\ UNCHANGED <<pending, running, returned, dropped, halted, job, ended, waiting, asleep,
                     result, frames, halter>>
  BY FutureTyped DEF Future!Then, FutureInv, Future!execVars, Future!workVars, Future!waitVars
<1>2. Future!Exec!Held' = Future!Exec!Held /\ FutureSettled' = FutureSettled
  BY <1>1 DEF Future!Exec!Held, FutureSettled
<1>3. g \notin made /\ Numbered'
  BY <1>1, NewFuture DEF FutureInv
<1>4. /\ Future!Exec!Held \cap Future!Futures \subseteq made
      /\ \A e \in Future!Futures : \A k \in DOMAIN conts[e] : conts[e][k] \in Future!Futures /\ conts[e][k] \in made
      /\ \A u \in Future!Actors : \A n \in DOMAIN frames[u] : \A k \in DOMAIN frames[u][n].todo :
             frames[u][n].todo[k] \in Future!Futures /\ frames[u][n].todo[k] \in made
      /\ \A u \in Future!Actors : inline[u] # Future!NoFuture => inline[u] \in Future!Futures /\ inline[u] \in made
  <2>1. FutureSettled \subseteq made
    BY DEF FutureInv, Once
  <2>2. \A e \in Future!Futures : \A k \in DOMAIN conts[e] : conts[e][k] \in Future!Futures /\ conts[e][k] \in made
    <3> SUFFICES ASSUME NEW e \in Future!Futures, NEW k \in DOMAIN conts[e]
                 PROVE  conts[e][k] \in Future!Futures /\ conts[e][k] \in made
      OBVIOUS
    <3>1. conts[e][k] \in Future!Futures
      BY <1>1 DEF Typed
    <3>2. Computes(conts, frames, inline, conts[e][k], "attached", e, 0, k)
      BY DEF Computes
    <3> QED BY <3>1, <3>2 DEF FutureInv, Once
  <2>3. \A u \in Future!Actors : \A n \in DOMAIN frames[u] : \A k \in DOMAIN frames[u][n].todo :
             frames[u][n].todo[k] \in Future!Futures /\ frames[u][n].todo[k] \in made
    <3> SUFFICES ASSUME NEW u \in Future!Actors, NEW n \in DOMAIN frames[u],
                        NEW k \in DOMAIN frames[u][n].todo
                 PROVE  frames[u][n].todo[k] \in Future!Futures /\ frames[u][n].todo[k] \in made
      OBVIOUS
    <3>1. frames[u] \in Seq(SetCall) /\ frames[u][n] \in SetCall
      BY <1>1 DEF Typed
    <3>2. frames[u][n].todo[k] \in Future!Futures
      BY <3>1 DEF SetCall
    <3>3. Computes(conts, frames, inline, frames[u][n].todo[k], "taken", u, n, k)
      BY DEF Computes
    <3> QED BY <3>2, <3>3 DEF FutureInv, Once
  <2>4. \A u \in Future!Actors : inline[u] # Future!NoFuture => inline[u] \in Future!Futures /\ inline[u] \in made
    <3> SUFFICES ASSUME NEW u \in Future!Actors, inline[u] # Future!NoFuture
                 PROVE  inline[u] \in Future!Futures /\ inline[u] \in made
      OBVIOUS
    <3>1. inline[u] \in Future!Futures
      BY <1>1 DEF Future!TypeOK
    <3>2. Computes(conts, frames, inline, inline[u], "inline", u, 0, 0)
      BY DEF Computes
    <3> QED BY <3>1, <3>2 DEF FutureInv, Once
  <2> QED BY <2>1, <2>2, <2>3, <2>4 DEF FutureSettled
<1>5. /\ parent' \in [Future!Futures -> Future!Futures \cup {Future!NoFuture}] /\ parent'[g] = f
      /\ \A e \in Future!Futures : e # g => parent'[e] = parent[e]
  BY <1>1 DEF Future!TypeOK
<1>6. \A e \in Future!Futures : e # g => (Owed(e) => Owed(e)')
  BY <1>1, <1>5 DEF Owed
<1>7. TakenOwed' /\ (\A e \in Future!Exec!Held : Owed(e))'
      /\ (\A e \in Future!Futures \ made : parent[e] = Future!NoFuture)'
  <2>1. Future!Exec!Held \subseteq Future!Futures
    BY <1>1 DEF Future!TypeOK, Future!Exec!Held
  <2>2. (\A e \in Future!Exec!Held : Owed(e))'
    BY <2>1, <1>2, <1>3, <1>4, <1>6 DEF FutureInv, Follows
  <2>3. TakenOwed'
    BY <1>1, <1>3, <1>4, <1>5 DEF FutureInv, Follows, TakenOwed, Owed
  <2> QED BY <1>1, <1>5, <2>2, <2>3 DEF FutureInv, Follows
<1>8. Future!NoLostNotify' /\ f \in Future!Futures /\ inline[t] = Future!NoFuture /\ frames[t] = <<>>
  BY <1>1 DEF FutureInv, Future!NoLostNotify, Future!MayCall, Future!Busy
<1>9. CASE result[f] # "none"
  <2>1. inline' = [inline EXCEPT ![t] = g] /\ conts' = conts
    BY <1>9 DEF Future!Then, Future!Ready
  <2>2. Future!TypeOK'
    BY <1>1, <1>5, <2>1 DEF Future!TypeOK
  <2>3. Once(conts, frames, [inline EXCEPT ![t] = g], FutureSettled, made \cup {g})
    <3>1. Shaped(conts, frames, inline)
      BY <1>1 DEF Shaped, Typed, Future!TypeOK
    <3> QED BY <1>3, <1>8, <3>1, OnceReady DEF FutureInv
  <2>4. Once(conts, frames, inline, FutureSettled, made)'
    BY <1>1, <1>2, <2>1, <2>3
  <2>5. inline'[t] = g /\ \A u \in Future!Actors : u # t => inline'[u] = inline[u]
    BY <1>1, <2>1 DEF Future!TypeOK
  <2>6. Apart'
    BY <1>1, <1>2, <1>8, <2>5 DEF FutureInv, Apart
  <2>7. AttachedToParent'
    BY <1>3, <1>4, <1>5, <2>1 DEF FutureInv, Follows, AttachedToParent
  <2>8. (\A u \in Future!Actors : inline[u] # Future!NoFuture => Owed(inline[u]))'
    BY <1>1, <1>3, <1>4, <1>5, <1>9, <2>5 DEF FutureInv, Follows, Owed
  <2> QED BY <1>3, <1>7, <1>8, <2>2, <2>4, <2>6, <2>7, <2>8 DEF FutureInv, Follows
<1>10. CASE result[f] = "none"
  <2>1. conts' = [conts EXCEPT ![f] = Append(@, g)] /\ inline' = inline
    BY <1>10 DEF Future!Then, Future!Ready
  <2>2. conts[f] \in Seq(Future!Futures) /\ Append(conts[f], g) \in Seq(Future!Futures)
    BY <1>1 DEF Typed
  <2>3. Future!TypeOK'
    BY <1>1, <1>5, <2>1, <2>2 DEF Future!TypeOK
  <2>4. Once([conts EXCEPT ![f] = Append(@, g)], frames, inline, FutureSettled, made \cup {g})
    <3>1. Shaped(conts, frames, inline)
      BY <1>1 DEF Shaped, Typed, Future!TypeOK
    <3> QED BY <1>3, <1>8, <3>1, OnceAttached DEF FutureInv
  <2>5. Once(conts, frames, inline, FutureSettled, made)'
    BY <1>1, <1>2, <2>1, <2>4
  <2>6. Apart'
    BY <1>1, <1>2, <2>1 DEF FutureInv, Apart
  <2>7. AttachedToParent'
    <3> SUFFICES ASSUME NEW e \in Future!Futures, NEW k \in DOMAIN conts'[e]
                 PROVE  parent'[conts'[e][k]] = e
      BY DEF AttachedToParent
    <3>1. CASE e # f
      <4>1. conts'[e] = conts[e]
        BY <2>1, <3>1 DEF Typed
      <4> QED BY <4>1, <1>3, <1>4, <1>5 DEF FutureInv, Follows, AttachedToParent
    <3>2. CASE e = f
      <4>1. conts'[f] = Append(conts[f], g)
        BY <1>1, <2>1 DEF Typed
      <4>2. /\ DOMAIN conts'[f] = 1..(Len(conts[f]) + 1) /\ Len(conts[f]) \in Nat
            /\ conts'[f][Len(conts[f]) + 1] = g /\ DOMAIN conts[f] = 1..Len(conts[f])
            /\ \A j \in 1..Len(conts[f]) : conts'[f][j] = conts[f][j]
        BY <4>1, <2>2, AppendProperties, LenProperties
      <4>3. CASE k = Len(conts[f]) + 1
        BY <3>2, <4>2, <4>3, <1>5
      <4>4. CASE k # Len(conts[f]) + 1
        <5>1. k \in DOMAIN conts[f] /\ conts'[f][k] = conts[f][k]
          BY <3>2, <4>2, <4>4
        <5> QED BY <3>2, <5>1, <1>3, <1>4, <1>5 DEF FutureInv, Follows, AttachedToParent
      <4> QED BY <4>3, <4>4
    <3> QED BY <3>1, <3>2
  <2>8. (\A u \in Future!Actors : inline[u] # Future!NoFuture => Owed(inline[u]))'
    BY <1>1, <1>3, <1>4, <1>5, <2>1 DEF FutureInv, Follows, Owed
  <2> QED BY <1>3, <1>7, <1>8, <2>3, <2>5, <2>6, <2>7, <2>8 DEF FutureInv, Follows
<1> QED BY <1>9, <1>10


\* A thread that is in no Set: to give it the empty stack changes nothing.
LEMMA EmptyStack ==
  ASSUME Typed, NEW t \in Future!Actors, frames[t] = <<>>
  PROVE  /\ [frames EXCEPT ![t] = <<>>] = frames
         /\ <<>> \in Seq(SetCall) /\ Alike(<<>>, frames[t]) /\ StackOwed(<<>>)
         /\ DOMAIN <<>> = {}
<1>1. DOMAIN <<>> = {} /\ <<>> \in Seq(SetCall)
  BY EmptySeq
<1> QED BY <1>1 DEF Typed, Alike, StackOwed

\* A Set on a thread in no other one, of a future that was made or is.
LEMMA OuterSet ==
  ASSUME FutureInv, NEW t \in Future!Actors, NEW f \in Future!Futures, Delivers(t, f, <<>>),
         frames[t] = <<>>, inline[t] = Future!NoFuture,
         NEW S, NEW M, Once(conts, frames, inline, S, M),
         UNCHANGED <<parent, inline, asleep, waiting>>
  PROVE  /\ Typed' /\ AttachedToParent' /\ TakenOwed' /\ Future!NoLostNotify'
         /\ \A g \in Future!Futures : Owed(g) => Owed(g)'
         /\ \A g \in Future!Futures : /\ result[g] # "none" => result'[g] # "none"
                                      /\ g # f => result'[g] = result[g]
         /\ Once(conts', frames', inline', S, M)
         /\ (\A u \in Future!Actors : inline[u] # Future!NoFuture => frames[u] = <<>>)'
         /\ (\A u \in Future!Actors : inline[u] # Future!NoFuture => Owed(inline[u]))'
<1>1. /\ Typed /\ parent \in [Future!Futures -> Future!Futures \cup {Future!NoFuture}] /\ AttachedToParent
      /\ TakenOwed /\ inline \in [Future!Actors -> Future!Futures \cup {Future!NoFuture}]
      /\ waiting \in [Threads -> Future!Futures \cup {Future!NoFuture}] /\ asleep \subseteq Threads
      /\ Future!NoLostNotify
  BY FutureTyped DEF FutureInv, Follows, Future!TypeOK
<1>2. /\ [frames EXCEPT ![t] = <<>>] = frames
      /\ <<>> \in Seq(SetCall) /\ Alike(<<>>, frames[t]) /\ StackOwed(<<>>)
      /\ DOMAIN <<>> = {}
  BY <1>1, EmptyStack
<1>3. /\ Typed'
      /\ \A g \in Future!Futures : /\ result[g] # "none" => result'[g] # "none"
                                   /\ g # f => result'[g] = result[g]
  BY <1>1, <1>2, DeliversTyped
<1>4. AttachedToParent' /\ TakenOwed' /\ \A g \in Future!Futures : Owed(g) => Owed(g)'
  BY <1>1, <1>2, DeliversFollows
<1>5. \A c \in asleep : waiting[c] \in Future!Futures
  BY <1>1 DEF FutureInv, Apart
<1>6. Future!NoLostNotify'
  BY <1>1, <1>2, <1>5, DeliversNotifies
<1>7. Once(conts', frames', inline', S, M)
  BY <1>1, <1>2, DeliversOnce
<1>8. \A u \in Future!Actors : u # t => frames'[u] = frames[u]
  BY <1>1, <1>2, DeliversFrames
<1>9. (\A u \in Future!Actors : inline[u] # Future!NoFuture => frames[u] = <<>>)'
  BY <1>8 DEF FutureInv, Apart
<1>10. (\A u \in Future!Actors : inline[u] # Future!NoFuture => Owed(inline[u]))'
  <2> SUFFICES ASSUME NEW u \in Future!Actors, inline[u] # Future!NoFuture
               PROVE  Owed(inline[u])'
    OBVIOUS
  <2>1. inline[u] \in Future!Futures /\ Owed(inline[u])
    BY <1>1 DEF FutureInv, Follows
  <2> QED BY <2>1, <1>4 DEF Owed
<1> QED BY <1>3, <1>4, <1>6, <1>7, <1>9, <1>10

\* The continuation of a future without state is new, and fails at once.
LEMMA ThenInvalidStep ==
  ASSUME FutureInv, NEW t \in Future!Actors, NEW g \in Future!Futures, Future!ThenInvalid(t, g)
  PROVE  FutureInv'
<1>1. /\ Future!TypeOK /\ Typed /\ Future!MayCall(t) /\ Future!New(g) /\ Future!Set(t, g, "error", <<>>)
      /\ made' = made \cup {g}
      /\ UNCHANGED <<pending, running, returned, dropped, halted, job, ended, waiting, asleep,
                     parent, inline, halter>>
  BY FutureTyped DEF Future!ThenInvalid, FutureInv, Future!execVars, Future!workVars, Future!waitVars
<1>2. frames[t] = <<>> /\ inline[t] = Future!NoFuture
  BY <1>1 DEF Future!MayCall, Future!Busy
<1>3. Delivers(t, g, <<>>) /\ result'[g] # "none"
  BY <1>1, SetDelivers DEF Future!Outcomes
<1>4. g \notin made /\ Numbered'
  BY <1>1, NewFuture DEF FutureInv
<1>5. Once(conts, frames, inline, FutureSettled \cup {g}, made \cup {g})
  BY <1>4, OnceNew DEF FutureInv
<1>6. /\ Typed' /\ AttachedToParent' /\ TakenOwed' /\ Future!NoLostNotify'
      /\ \A e \in Future!Futures : Owed(e) => Owed(e)'
      /\ \A e \in Future!Futures : /\ result[e] # "none" => result'[e] # "none"
                                   /\ e # g => result'[e] = result[e]
      /\ Once(conts', frames', inline', FutureSettled \cup {g}, made \cup {g})
      /\ (\A u \in Future!Actors : inline[u] # Future!NoFuture => frames[u] = <<>>)'
      /\ (\A u \in Future!Actors : inline[u] # Future!NoFuture => Owed(inline[u]))'
  BY <1>1, <1>2, <1>3, <1>5, OuterSet
<1>7. Future!Exec!Held' = Future!Exec!Held /\ Future!Exec!Held \subseteq Future!Futures
  BY <1>1 DEF Future!Exec!Held, Future!TypeOK
<1>8. FutureSettled' = FutureSettled \cup {g}
  BY <1>3, <1>6, <1>7 DEF FutureSettled
<1>9. Once(conts, frames, inline, FutureSettled, made)'
  BY <1>1, <1>6, <1>8
<1>10. Future!TypeOK'
  BY <1>1, <1>6, FutureTyped DEF Future!TypeOK, Typed, SetCall
<1>11. Apart'
  BY <1>1, <1>6, <1>7 DEF FutureInv, Apart
<1>12. Follows'
  BY <1>1, <1>6, <1>7 DEF FutureInv, Follows
<1> QED BY <1>4, <1>6, <1>9, <1>10, <1>11, <1>12 DEF FutureInv

\* A Set of a future that has settled: a work that ended or was disposed of.
LEMMA SettledSet ==
  ASSUME FutureInv, NEW t \in Future!Actors, NEW f \in Future!Futures, NEW v \in Future!Outcomes,
         Future!Set(t, f, v, <<>>), frames[t] = <<>>, inline[t] = Future!NoFuture,
         f \in Future!Exec!Held, Future!Exec!Held' = Future!Exec!Held,
         UNCHANGED <<made, parent, inline, job, asleep, waiting>>
  PROVE  /\ Typed' /\ Numbered' /\ Apart' /\ Follows' /\ Future!NoLostNotify'
         /\ Once(conts, frames, inline, FutureSettled, made)'
<1>1. /\ Typed /\ Future!Exec!Held \subseteq Future!Futures
  <2>1. Typed
    BY FutureTyped DEF FutureInv
  <2>2. Future!Exec!Held \subseteq Future!Futures
    BY DEF FutureInv, Future!TypeOK, Future!Exec!Held
  <2> QED BY <2>1, <2>2
<1>2. Delivers(t, f, <<>>) /\ result'[f] # "none"
  BY <1>1, SetDelivers
<1>3. Once(conts, frames, inline, FutureSettled, made)
  BY DEF FutureInv
<1>4. /\ Typed' /\ AttachedToParent' /\ TakenOwed' /\ Future!NoLostNotify'
      /\ \A e \in Future!Futures : Owed(e) => Owed(e)'
      /\ \A e \in Future!Futures : /\ result[e] # "none" => result'[e] # "none"
                                   /\ e # f => result'[e] = result[e]
      /\ Once(conts', frames', inline', FutureSettled, made)
      /\ (\A u \in Future!Actors : inline[u] # Future!NoFuture => frames[u] = <<>>)'
      /\ (\A u \in Future!Actors : inline[u] # Future!NoFuture => Owed(inline[u]))'
  BY <1>2, <1>3, OuterSet
<1>5. FutureSettled' = FutureSettled
  BY <1>2, <1>4 DEF FutureSettled
<1>6. Once(conts, frames, inline, FutureSettled, made)'
  BY <1>4, <1>5
<1>7. Numbered' /\ Apart'
  BY <1>4 DEF FutureInv, Apart, Numbered
<1>8. Follows'
  BY <1>1, <1>4 DEF FutureInv, Follows
<1> QED BY <1>4, <1>6, <1>7, <1>8

\* The function of a work ended: its future, which is held, is set.
LEMMA FinishStep ==
  ASSUME FutureInv, NEW w \in FutureWorkers, Future!Finish(w)
  PROVE  FutureInv'
<1>1. /\ Future!TypeOK /\ Future!MayCall(w) /\ w \in Future!Actors
      /\ ended' = ended \cup {w}
      /\ UNCHANGED <<pending, running, returned, dropped, halted, job, waiting, asleep,
                     made, parent, inline, halter>>
  BY DEF Future!Finish, FutureInv, Future!execVars, Future!thenVars, Future!waitVars, Future!Actors
<1>2. PICK v \in Future!Outcomes : Future!Set(w, job[w], v, <<>>)
  BY DEF Future!Finish
<1>3. frames[w] = <<>> /\ inline[w] = Future!NoFuture /\ job[w] # Future!NoFuture
  BY <1>1 DEF Future!MayCall, Future!Busy
<1>4. job[w] \in Future!Futures /\ job[w] \in Future!Exec!Held /\ Future!Exec!Held' = Future!Exec!Held
  <2>1. Future!Exec!Held' = Future!Exec!Held
    BY <1>1 DEF Future!Exec!Held
  <2>2. job[w] \in Future!Futures
    BY <1>1, <1>3 DEF Future!TypeOK
  <2> QED BY <1>3, <2>1, <2>2 DEF FutureInv, Apart
<1>5. /\ Typed' /\ Numbered' /\ Apart' /\ Follows' /\ Future!NoLostNotify'
      /\ Once(conts, frames, inline, FutureSettled, made)'
  BY <1>1, <1>2, <1>3, <1>4, SettledSet
<1>6. Future!TypeOK'
  BY <1>1, <1>5 DEF Future!TypeOK, Typed, SetCall
<1> QED BY <1>5, <1>6 DEF FutureInv

\* The handler of a work that the stop left fails its future.
LEMMA DisposeStep ==
  ASSUME FutureInv, NEW c \in Future!Actors, Future!Dispose(c)
  PROVE  FutureInv'
<1>1. /\ Future!TypeOK /\ Future!Exec!SpecDispose /\ Future!Set(c, Head(pending), "error", <<>>)
      /\ frames[c] = <<>> /\ inline[c] = Future!NoFuture
      /\ UNCHANGED <<made, parent, job, ended, waiting, asleep, inline, halter>>
  BY DEF Future!Dispose, FutureInv, Future!thenVars, Future!workVars, Future!waitVars, Future!Busy
<1>2. Head(pending) \in Future!Futures /\ Head(pending) \in Future!Exec!Held
  BY <1>1, HeadHeld DEF Future!Exec!SpecDispose, Future!TypeOK
<1>3. Future!Exec!Held' = Future!Exec!Held
  BY <1>1, HeldElsewhere DEF Future!TypeOK
<1>4. "error" \in Future!Outcomes
  BY DEF Future!Outcomes
<1>5. /\ Typed' /\ Numbered' /\ Apart' /\ Follows' /\ Future!NoLostNotify'
      /\ Once(conts, frames, inline, FutureSettled, made)'
  BY <1>1, <1>2, <1>3, <1>4, SettledSet
<1>6. Future!TypeOK'
  BY <1>1, <1>5, ExecTyped DEF Future!TypeOK, Typed, SetCall
<1> QED BY <1>5, <1>6 DEF FutureInv


\* A continuation that Attach found ready submits its work or fails its future.
LEMMA RunInlineStep ==
  ASSUME FutureInv, NEW t \in Future!Actors, Future!RunInline(t)
  PROVE  FutureInv'
<1>1. PICK g : g = inline[t]
  OBVIOUS
<1>2. /\ Future!TypeOK /\ Typed /\ g \in Future!Futures /\ frames[t] = <<>>
      /\ Future!Continue(t, g, <<>>) /\ inline' = [inline EXCEPT ![t] = Future!NoFuture]
      /\ UNCHANGED <<made, parent, job, ended, waiting, asleep, halter>>
      /\ pending \in Seq(Future!Futures) /\ Owed(g) /\ g # Future!NoFuture
  BY <1>1, FutureTyped DEF FutureInv, Future!RunInline, Future!thenVars, Future!workVars, Future!waitVars, Apart, Future!TypeOK, Follows
<1>3. /\ Delivers(t, g, <<>>)
      /\ \/ Future!Exec!Held' = Future!Exec!Held \cup {g} /\ Future!Exec!SpecAccept(g) /\ result' = result
         \/ Future!Exec!Held' = Future!Exec!Held /\ UNCHANGED Future!execVars /\ result'[g] # "none"
  BY <1>2, ContinueDelivers
<1>4. PICK il : il = [inline EXCEPT ![t] = Future!NoFuture]
  OBVIOUS
<1>5. /\ il \in [Future!Actors -> Future!Futures \cup {Future!NoFuture}] /\ il[t] = Future!NoFuture
      /\ \A u \in Future!Actors : u # t => il[u] = inline[u]
  BY <1>4 DEF FutureInv, Future!TypeOK
<1>6. Once(conts, frames, il, FutureSettled \cup {g}, made)
  <2>1. Shaped(conts, frames, inline)
    BY <1>2 DEF Shaped, Typed, Future!TypeOK
  <2> QED BY <1>1, <1>2, <1>4, <2>1, OnceInline DEF FutureInv
<1>7. /\ [frames EXCEPT ![t] = <<>>] = frames
      /\ <<>> \in Seq(SetCall) /\ Alike(<<>>, frames[t]) /\ StackOwed(<<>>)
  BY <1>2, EmptyStack
<1>8. /\ Typed'
      /\ \A e \in Future!Futures : /\ result[e] # "none" => result'[e] # "none"
                                   /\ e # g => result'[e] = result[e]
  BY <1>2, <1>3, <1>7, DeliversTyped
<1>9. /\ parent \in [Future!Futures -> Future!Futures \cup {Future!NoFuture}] /\ AttachedToParent /\ TakenOwed
      /\ Future!NoLostNotify /\ \A c \in asleep : waiting[c] \in Future!Futures
  BY <1>2 DEF FutureInv, Follows, Future!TypeOK, Apart
<1>10. AttachedToParent' /\ TakenOwed' /\ \A e \in Future!Futures : Owed(e) => Owed(e)'
  BY <1>2, <1>3, <1>7, <1>9, DeliversFollows
<1>11. Future!NoLostNotify'
  BY <1>2, <1>3, <1>7, <1>9, DeliversNotifies
<1>12. Once(conts', frames', il, FutureSettled \cup {g}, made)
  BY <1>2, <1>3, <1>5, <1>6, <1>7, DeliversOnce
<1>13. FutureSettled' = FutureSettled \cup {g}
  BY <1>2, <1>3, <1>8 DEF FutureSettled
<1>14. Once(conts, frames, inline, FutureSettled, made)'
  BY <1>2, <1>4, <1>12, <1>13
<1>15. Future!TypeOK'
  <2>1. /\ pending' \in Seq(Future!Futures)
        /\ running' \in SUBSET Future!Futures /\ returned' \in SUBSET Future!Futures
        /\ dropped' \in SUBSET Future!Futures /\ halted' \in BOOLEAN
    BY <1>2, <1>3, ExecTyped
  <2> QED BY <1>2, <1>4, <1>5, <1>8, <2>1 DEF Future!TypeOK, Typed, SetCall
<1>16. \A u \in Future!Actors : u # t => frames'[u] = frames[u]
  BY <1>2, <1>3, <1>7, DeliversFrames
<1>17. Apart'
  BY <1>2, <1>3, <1>4, <1>5, <1>16 DEF FutureInv, Apart
<1>18. (\A u \in Future!Actors : inline[u] # Future!NoFuture => Owed(inline[u]))'
  <2> SUFFICES ASSUME NEW u \in Future!Actors, il[u] # Future!NoFuture
               PROVE  Owed(il[u])'
    BY <1>2, <1>4 DEF Owed
  <2>1. il[u] = inline[u] /\ inline[u] \in Future!Futures /\ Owed(inline[u])
    BY <1>2, <1>5 DEF FutureInv, Follows, Future!TypeOK
  <2>2. PICK e \in Future!Futures : e = il[u]
    BY <2>1
  <2> QED BY <2>1, <2>2, <1>10 DEF Owed
<1>19. Follows'
  <2>1. Future!Exec!Held \subseteq Future!Futures
    BY <1>2 DEF Future!TypeOK, Future!Exec!Held
  <2>2. (\A e \in Future!Exec!Held : Owed(e))'
    BY <1>2, <1>3, <1>10, <2>1 DEF FutureInv, Follows
  <2> QED BY <1>2, <1>10, <1>18, <2>2 DEF FutureInv, Follows
<1>20. Numbered'
  BY <1>2 DEF FutureInv, Numbered
<1> QED BY <1>11, <1>14, <1>15, <1>17, <1>19, <1>20 DEF FutureInv

\* The next continuation of the innermost Set does the same.
LEMMA RunContinuationStep ==
  ASSUME FutureInv, NEW t \in Future!Actors, Future!RunContinuation(t)
  PROVE  FutureInv'
<1>1. PICK m : m = Len(frames[t])
  OBVIOUS
<1>2. PICK g : g = Head(frames[t][m].todo)
  OBVIOUS
<1>3. PICK stack : stack = [frames[t] EXCEPT ![m].todo = Tail(@)]
  OBVIOUS
<1>4. /\ Future!TypeOK /\ Typed /\ frames[t] # <<>> /\ frames[t][m].todo # <<>>
      /\ Future!Continue(t, g, stack)
      /\ UNCHANGED <<made, parent, job, ended, waiting, asleep, inline, halter>>
      /\ pending \in Seq(Future!Futures)
  BY <1>1, <1>2, <1>3, FutureTyped
     DEF FutureInv, Future!RunContinuation, Future!thenVars, Future!workVars, Future!waitVars, Future!Top, Future!TypeOK
<1>5. /\ frames[t] \in Seq(SetCall) /\ m \in Nat \ {0} /\ m \in DOMAIN frames[t]
      /\ DOMAIN frames[t] = 1..m /\ frames[t][m] \in SetCall
      /\ frames[t][m].todo \in Seq(Future!Futures)
  <2>1. frames[t] \in Seq(SetCall) /\ frames[t] # <<>>
    BY <1>4 DEF Typed
  <2>2. m \in Nat \ {0} /\ DOMAIN frames[t] = 1..m
    BY <1>1, <2>1, EmptySeq
  <2>3. frames[t][m] \in SetCall
    BY <2>1, <2>2
  <2> QED BY <2>1, <2>2, <2>3 DEF SetCall
<1>6. /\ Tail(frames[t][m].todo) \in Seq(Future!Futures) /\ g \in Future!Futures
      /\ DOMAIN frames[t][m].todo = 1..Len(frames[t][m].todo)
      /\ Len(frames[t][m].todo) \in Nat \ {0} /\ g = frames[t][m].todo[1]
      /\ DOMAIN Tail(frames[t][m].todo) = 1..(Len(frames[t][m].todo) - 1)
      /\ \A k \in 1..(Len(frames[t][m].todo) - 1) :
             Tail(frames[t][m].todo)[k] = frames[t][m].todo[k + 1]
  BY <1>2, <1>4, <1>5, HeadTailProperties, EmptySeq
<1>7. /\ stack \in Seq(SetCall) /\ DOMAIN stack = 1..m /\ Len(stack) = m
      /\ \A n \in 1..m : stack[n].fut = frames[t][n].fut /\ stack[n].told = frames[t][n].told
      /\ \A n \in 1..m : n # m => stack[n].todo = frames[t][n].todo
      /\ stack[m].todo = Tail(frames[t][m].todo)
  <2>1. PICK call : call = [frames[t][m] EXCEPT !.todo = Tail(@)]
    OBVIOUS
  <2>2. /\ call \in SetCall /\ call.fut = frames[t][m].fut /\ call.told = frames[t][m].told
        /\ call.todo = Tail(frames[t][m].todo)
    BY <1>5, <1>6, <2>1 DEF SetCall
  <2>3. stack = [frames[t] EXCEPT ![m] = call]
    BY <1>3, <2>1
  <2>4. stack \in Seq(SetCall) /\ DOMAIN stack = 1..m /\ Len(stack) = m
        /\ stack[m] = call /\ \A n \in 1..m : n # m => stack[n] = frames[t][n]
    BY <1>1, <1>5, <2>2, <2>3
  <2> QED BY <2>2, <2>4
<1>8. Alike(stack, frames[t])
  BY <1>5, <1>7 DEF Alike
<1>9. StackOwed(stack) /\ Owed(g)
  <2>1. \A n \in 1..m : \A k \in DOMAIN frames[t][n].todo : Owed(frames[t][n].todo[k])
    BY <1>5 DEF FutureInv, Follows, TakenOwed
  <2>2. ASSUME NEW n \in DOMAIN stack, NEW k \in DOMAIN stack[n].todo
        PROVE  Owed(stack[n].todo[k])
    <3>1. CASE n = m
      <4>1. k \in DOMAIN Tail(frames[t][m].todo)
        BY <1>7, <3>1
      <4>2. k \in 1..(Len(frames[t][m].todo) - 1) /\ k + 1 \in DOMAIN frames[t][m].todo
        BY <1>6, <4>1
      <4> QED BY <1>5, <1>6, <1>7, <2>1, <3>1, <4>2
    <3>2. CASE n # m
      BY <1>7, <2>1, <3>2
    <3> QED BY <3>1, <3>2
  <2>3. 1 \in DOMAIN frames[t][m].todo /\ m \in 1..m
    BY <1>5, <1>6
  <2> QED BY <1>6, <2>1, <2>2, <2>3 DEF StackOwed
<1>10. /\ Delivers(t, g, stack)
       /\ \/ Future!Exec!Held' = Future!Exec!Held \cup {g} /\ Future!Exec!SpecAccept(g) /\ result' = result
          \/ Future!Exec!Held' = Future!Exec!Held /\ UNCHANGED Future!execVars /\ result'[g] # "none"
  BY <1>4, <1>6, ContinueDelivers
<1>11. /\ Typed'
       /\ \A e \in Future!Futures : /\ result[e] # "none" => result'[e] # "none"
                                    /\ e # g => result'[e] = result[e]
  BY <1>4, <1>6, <1>7, <1>10, DeliversTyped
<1>12. /\ parent \in [Future!Futures -> Future!Futures \cup {Future!NoFuture}] /\ AttachedToParent /\ TakenOwed
       /\ Future!NoLostNotify /\ (\A c \in asleep : waiting[c] \in Future!Futures)
       /\ inline \in [Future!Actors -> Future!Futures \cup {Future!NoFuture}]
  BY <1>4 DEF FutureInv, Follows, Future!TypeOK, Apart
<1>13. AttachedToParent' /\ TakenOwed' /\ \A e \in Future!Futures : Owed(e) => Owed(e)'
  BY <1>4, <1>6, <1>7, <1>9, <1>10, <1>12, DeliversFollows
<1>14. Future!NoLostNotify'
  BY <1>4, <1>6, <1>7, <1>8, <1>10, <1>12, DeliversNotifies
<1>15. Once(conts, [frames EXCEPT ![t] = stack], inline, FutureSettled \cup {g}, made)
  <2>1. Shaped(conts, frames, inline)
    BY <1>4 DEF Shaped, Typed, Future!TypeOK
  <2>2. \A n \in DOMAIN stack : stack[n].todo =
             IF n = Len(stack) THEN Tail(frames[t][n].todo) ELSE frames[t][n].todo
    BY <1>7
  <2>3. Once(conts, frames, inline, FutureSettled, made)
    BY DEF FutureInv
  <2>4. /\ frames[t][Len(frames[t])].todo # <<>> /\ Len(stack) = Len(frames[t])
        /\ Head(frames[t][Len(frames[t])].todo) = g
    BY <1>1, <1>2, <1>4, <1>7
  <2>5. Once(conts, [frames EXCEPT ![t] = stack], inline,
             FutureSettled \cup {Head(frames[t][Len(frames[t])].todo)}, made)
    BY <1>4, <1>7, <2>1, <2>2, <2>3, <2>4, OncePopped
  <2> QED BY <2>4, <2>5
<1>16. Once(conts', frames', inline, FutureSettled \cup {g}, made)
  BY <1>4, <1>6, <1>7, <1>10, <1>12, <1>15, DeliversOnce
<1>17. FutureSettled' = FutureSettled \cup {g}
  BY <1>6, <1>10, <1>11 DEF FutureSettled
<1>18. Once(conts, frames, inline, FutureSettled, made)'
  BY <1>4, <1>16, <1>17
<1>19. Future!TypeOK'
  <2>1. /\ pending' \in Seq(Future!Futures)
        /\ running' \in SUBSET Future!Futures /\ returned' \in SUBSET Future!Futures
        /\ dropped' \in SUBSET Future!Futures /\ halted' \in BOOLEAN
    BY <1>4, <1>6, <1>10, ExecTyped
  <2> QED BY <1>4, <1>11, <2>1 DEF Future!TypeOK, Typed, SetCall
<1>20. \A u \in Future!Actors : u # t => frames'[u] = frames[u]
  BY <1>4, <1>6, <1>7, <1>10, DeliversFrames
<1>21. Apart'
  BY <1>4, <1>10, <1>20 DEF FutureInv, Apart
<1>22. (\A u \in Future!Actors : inline[u] # Future!NoFuture => Owed(inline[u]))'
  <2> SUFFICES ASSUME NEW u \in Future!Actors, inline[u] # Future!NoFuture
               PROVE  Owed(inline[u])'
    BY <1>4
  <2>1. inline[u] \in Future!Futures /\ Owed(inline[u])
    BY <1>12 DEF FutureInv, Follows
  <2>2. PICK e \in Future!Futures : e = inline[u]
    BY <2>1
  <2> QED BY <2>1, <2>2, <1>4, <1>13 DEF Owed
<1>23. Follows'
  <2>1. Future!Exec!Held \subseteq Future!Futures
    BY <1>4 DEF Future!TypeOK, Future!Exec!Held
  <2>2. (\A e \in Future!Exec!Held : Owed(e))'
    BY <1>6, <1>9, <1>10, <1>13, <2>1 DEF FutureInv, Follows
  <2> QED BY <1>4, <1>13, <1>22, <2>2 DEF FutureInv, Follows
<1>24. Numbered'
  BY <1>4 DEF FutureInv, Numbered
<1> QED BY <1>14, <1>18, <1>19, <1>21, <1>23, <1>24 DEF FutureInv

\* Steps that deliver nothing: those of the executor alone, and the waiters'.
LEMMA QuietStep ==
  ASSUME FutureInv, Future!TypeOK', Future!Exec!Held' = Future!Exec!Held,
         UNCHANGED <<result, conts, frames, inline, made, parent>>,
         (\A w \in FutureWorkers : job[w] # Future!NoFuture => job[w] \in Future!Exec!Held)',
         (\A c \in asleep : waiting[c] # Future!NoFuture)', Future!NoLostNotify'
  PROVE  FutureInv'
<1>1. FutureSettled' = FutureSettled
  BY DEF FutureSettled
<1>2. Once(conts, frames, inline, FutureSettled, made)'
  BY <1>1 DEF FutureInv
<1>3. Numbered' /\ Apart'
  BY DEF FutureInv, Numbered, Apart
<1>4. AttachedToParent' /\ TakenOwed'
  BY DEF FutureInv, Follows, AttachedToParent, TakenOwed, Owed
<1>5. /\ (\A t \in Future!Actors : inline[t] # Future!NoFuture => Owed(inline[t]))'
      /\ (\A g \in Future!Exec!Held : Owed(g))'
      /\ (\A g \in Future!Futures \ made : parent[g] = Future!NoFuture)'
  BY DEF FutureInv, Follows, Owed
<1> QED BY <1>2, <1>3, <1>4, <1>5 DEF FutureInv, Follows

\* A worker takes the oldest work.
LEMMA TakeStep ==
  ASSUME FutureInv, NEW w \in FutureWorkers, Future!Take(w)
  PROVE  FutureInv'
<1>1. /\ Future!TypeOK /\ Future!Exec!SpecStart /\ job' = [job EXCEPT ![w] = Head(pending)]
      /\ UNCHANGED <<result, conts, frames, inline, made, parent, waiting, asleep, ended, halter>>
  BY DEF Future!Take, FutureInv, Future!thenVars, Future!setVars, Future!waitVars
<1>2. Future!Exec!Held' = Future!Exec!Held
  BY <1>1, HeldElsewhere DEF Future!TypeOK
<1>3. Head(pending) \in Future!Futures /\ Head(pending) \in Future!Exec!Held
  BY <1>1, HeadHeld DEF Future!Exec!SpecStart, Future!TypeOK
<1>4. Future!TypeOK'
  BY <1>1, <1>3, ExecTyped DEF Future!TypeOK
<1>5. (\A u \in FutureWorkers : job[u] # Future!NoFuture => job[u] \in Future!Exec!Held)'
  BY <1>1, <1>2, <1>3 DEF FutureInv, Apart, Future!TypeOK
<1>6. (\A c \in asleep : waiting[c] # Future!NoFuture)' /\ Future!NoLostNotify'
  BY <1>1 DEF FutureInv, Apart, Future!NoLostNotify
<1> QED BY <1>1, <1>2, <1>4, <1>5, <1>6, QuietStep

\* A worker is done with its work, which stays settled.
LEMMA ReturnStep ==
  ASSUME FutureInv, NEW w \in FutureWorkers, Future!Return(w)
  PROVE  FutureInv'
<1>1. /\ Future!TypeOK /\ Future!Exec!SpecReturn(job[w]) /\ job' = [job EXCEPT ![w] = Future!NoFuture]
      /\ ended' = ended \ {w}
      /\ UNCHANGED <<result, conts, frames, inline, made, parent, waiting, asleep, halter>>
  BY DEF Future!Return, FutureInv, Future!thenVars, Future!setVars, Future!waitVars
<1>2. job[w] \in Future!Futures
  BY <1>1 DEF Future!Exec!SpecReturn, Future!TypeOK
<1>3. Future!Exec!Held' = Future!Exec!Held
  BY <1>1, <1>2, HeldElsewhere DEF Future!TypeOK
<1>4. Future!TypeOK'
  BY <1>1, <1>2, ExecTyped DEF Future!TypeOK
<1>5. (\A u \in FutureWorkers : job[u] # Future!NoFuture => job[u] \in Future!Exec!Held)'
  BY <1>1, <1>3 DEF FutureInv, Apart, Future!TypeOK
<1>6. (\A c \in asleep : waiting[c] # Future!NoFuture)' /\ Future!NoLostNotify'
  BY <1>1 DEF FutureInv, Apart, Future!NoLostNotify
<1> QED BY <1>1, <1>3, <1>4, <1>5, <1>6, QuietStep

\* The stop of the executor touches no future.
LEMMA StopStep ==
  ASSUME FutureInv, NEW t \in Future!Actors, Future!RequestStop(t)
  PROVE  FutureInv'
<1>1. /\ Future!TypeOK /\ Future!Exec!SpecStop /\ halter' = t
      /\ UNCHANGED <<result, conts, frames, inline, made, parent, job, waiting, asleep, ended>>
  BY DEF Future!RequestStop, FutureInv, Future!thenVars, Future!setVars, Future!waitVars, Future!workVars
<1>2. Future!Exec!Held' = Future!Exec!Held
  BY <1>1, HeldElsewhere DEF Future!TypeOK
<1>3. Future!TypeOK'
  BY <1>1, ExecTyped DEF Future!TypeOK
<1>4. (\A u \in FutureWorkers : job[u] # Future!NoFuture => job[u] \in Future!Exec!Held)'
  BY <1>1, <1>2 DEF FutureInv, Apart
<1>5. (\A c \in asleep : waiting[c] # Future!NoFuture)' /\ Future!NoLostNotify'
  BY <1>1 DEF FutureInv, Apart, Future!NoLostNotify
<1> QED BY <1>1, <1>2, <1>3, <1>4, <1>5, QuietStep

\* A caller sleeps only while its future has no result, and sleeps on the same
\* future until it is woken.
LEMMA WaitStep ==
  ASSUME FutureInv, NEW c \in Threads,
         (\E f \in Future!Futures : Future!Wait(c, f)) \/ Future!WaitCheck(c) \/ Future!SpuriousWake(c)
  PROVE  FutureInv'
<1>1. /\ Future!TypeOK
      /\ UNCHANGED <<pending, running, returned, dropped, halted, result, conts, frames, inline,
                     made, parent, job, ended, halter>>
  BY DEF Future!Wait, Future!WaitCheck, Future!SpuriousWake, FutureInv, Future!execVars, Future!thenVars, Future!setVars, Future!workVars
<1>2. Future!Exec!Held' = Future!Exec!Held
  BY <1>1 DEF Future!Exec!Held
<1>3. (\A u \in FutureWorkers : job[u] # Future!NoFuture => job[u] \in Future!Exec!Held)'
  BY <1>1, <1>2 DEF FutureInv, Apart
<1>4. /\ waiting' \in [Threads -> Future!Futures \cup {Future!NoFuture}] /\ asleep' \in SUBSET Threads
      /\ \A u \in asleep' : waiting'[u] = waiting[u] /\ waiting[u] # Future!NoFuture
      /\ \A u \in asleep' : u \in asleep \/ result[waiting[u]] = "none"
  <2>1. /\ waiting \in [Threads -> Future!Futures \cup {Future!NoFuture}] /\ asleep \in SUBSET Threads
        /\ \A u \in asleep : waiting[u] # Future!NoFuture
    BY <1>1 DEF Future!TypeOK, FutureInv, Apart
  <2>2. CASE \E f \in Future!Futures : Future!Wait(c, f)
    <3>1. c \notin asleep
      BY <2>1, <2>2 DEF Future!Wait, Future!MayCall
    <3> QED BY <2>1, <2>2, <3>1 DEF Future!Wait
  <2>3. CASE Future!WaitCheck(c)
    BY <2>1, <2>3 DEF Future!WaitCheck
  <2>4. CASE Future!SpuriousWake(c)
    BY <2>1, <2>4 DEF Future!SpuriousWake
  <2> QED BY <2>2, <2>3, <2>4
<1>5. Future!TypeOK'
  BY <1>1, <1>4 DEF Future!TypeOK
<1>6. (\A u \in asleep : waiting[u] # Future!NoFuture)'
  BY <1>4
<1>7. Future!NoLostNotify'
  BY <1>1, <1>4 DEF FutureInv, Future!NoLostNotify
<1> QED BY <1>1, <1>2, <1>3, <1>5, <1>6, <1>7, QuietStep

-----------------------------------------------------------------------------
\* notify_all wakes every caller that its frame owed a notification.
LEMMA NotifyStep ==
  ASSUME FutureInv, NEW t \in Future!Actors, Future!Notify(t)
  PROVE  FutureInv'
<1>1. PICK m : m = Len(frames[t])
  OBVIOUS
<1>2. PICK f : f = frames[t][m].fut
  OBVIOUS
<1>3. /\ Future!TypeOK /\ Typed /\ frames[t] # <<>>
      /\ frames' = [frames EXCEPT ![t][m].told = TRUE]
      /\ asleep' = asleep \ {c \in asleep : waiting[c] = f}
      /\ UNCHANGED <<pending, running, returned, dropped, halted, made, parent, job, ended,
                     result, conts, inline, waiting, halter>>
  BY <1>1, <1>2, FutureTyped
     DEF Future!Notify, FutureInv, Future!Top, Future!Notified, Future!execVars, Future!thenVars, Future!workVars
<1>4. /\ frames[t] \in Seq(SetCall) /\ m \in Nat \ {0} /\ m \in DOMAIN frames[t]
      /\ frames[t][m] \in SetCall
  BY <1>1, <1>3, EmptySeq DEF Typed
<1>5. PICK call : call = [frames[t][m] EXCEPT !.told = TRUE]
  OBVIOUS
<1>6. /\ call \in SetCall /\ call.fut = f /\ call.todo = frames[t][m].todo
  BY <1>2, <1>4, <1>5 DEF SetCall
<1>7. PICK stack : stack = [frames[t] EXCEPT ![m] = call]
  OBVIOUS
<1>8. /\ stack \in Seq(SetCall) /\ DOMAIN stack = DOMAIN frames[t]
      /\ stack[m] = call /\ \A n \in DOMAIN frames[t] : n # m => stack[n] = frames[t][n]
  BY <1>4, <1>6, <1>7
<1>9. frames' = [frames EXCEPT ![t] = stack]
  BY <1>3, <1>5, <1>7
<1>10. /\ frames' \in [Future!Actors -> Seq(SetCall)] /\ frames'[t] = stack
       /\ \A u \in Future!Actors : u # t => frames'[u] = frames[u]
  BY <1>3, <1>8, <1>9 DEF Typed
<1>11. /\ \A u \in Future!Actors : DOMAIN frames'[u] = DOMAIN frames[u]
       /\ \A u \in Future!Actors : \A n \in DOMAIN frames[u] :
              /\ frames'[u][n].todo = frames[u][n].todo
              /\ ~(u = t /\ n = m) => frames'[u][n] = frames[u][n]
  BY <1>6, <1>8, <1>10
<1>12. Future!Exec!Held' = Future!Exec!Held /\ FutureSettled' = FutureSettled
  BY <1>3 DEF Future!Exec!Held, FutureSettled
<1>13. Once(conts, frames', inline, FutureSettled, made)
  BY <1>11, OnceSame DEF FutureInv
<1>14. Once(conts, frames, inline, FutureSettled, made)'
  BY <1>3, <1>12, <1>13
<1>15. Future!TypeOK'
  BY <1>3, <1>10 DEF Future!TypeOK, SetCall
<1>16. Numbered' /\ Apart'
  <2>1. \A u \in Future!Actors : inline[u] # Future!NoFuture => frames'[u] = <<>>
    BY <1>3, <1>10 DEF FutureInv, Apart
  <2> QED BY <2>1, <1>3, <1>12 DEF FutureInv, Numbered, Apart
<1>17. Follows'
  <2>1. AttachedToParent'
    BY <1>3 DEF FutureInv, Follows, AttachedToParent
  <2>2. TakenOwed'
    BY <1>3, <1>11 DEF FutureInv, Follows, TakenOwed, Owed
  <2>3. /\ (\A u \in Future!Actors : inline[u] # Future!NoFuture => Owed(inline[u]))'
        /\ (\A g \in Future!Exec!Held : Owed(g))'
        /\ (\A g \in Future!Futures \ made : parent[g] = Future!NoFuture)'
    BY <1>3, <1>12 DEF FutureInv, Follows, Owed
  <2> QED BY <2>1, <2>2, <2>3 DEF Follows
<1>18. Future!NoLostNotify'
  <2> SUFFICES ASSUME NEW c \in asleep', result'[waiting'[c]] # "none"
               PROVE  \E u \in Future!Actors : \E n \in DOMAIN frames'[u] :
                          frames'[u][n].fut = waiting'[c] /\ ~frames'[u][n].told
    BY DEF Future!NoLostNotify
  <2>1. c \in asleep /\ waiting[c] # f /\ result[waiting[c]] # "none" /\ waiting' = waiting
    BY <1>3
  <2>2. PICK u \in Future!Actors : \E n \in DOMAIN frames[u] :
            frames[u][n].fut = waiting[c] /\ ~frames[u][n].told
    BY <2>1 DEF FutureInv, Future!NoLostNotify
  <2>3. PICK n \in DOMAIN frames[u] : frames[u][n].fut = waiting[c] /\ ~frames[u][n].told
    BY <2>2
  <2>4. ~(u = t /\ n = m)
    BY <1>2, <2>1, <2>3
  <2>5. n \in DOMAIN frames'[u] /\ frames'[u][n] = frames[u][n]
    BY <1>11, <2>4
  <2> QED BY <2>1, <2>3, <2>5
<1> QED BY <1>14, <1>15, <1>16, <1>17, <1>18 DEF FutureInv

\* A Set that returns has told everyone and has nothing left to run.
LEMMA SetReturnsStep ==
  ASSUME FutureInv, NEW t \in Future!Actors, Future!SetReturns(t)
  PROVE  FutureInv'
<1>1. PICK m : m = Len(frames[t])
  OBVIOUS
<1>2. /\ Future!TypeOK /\ Typed /\ frames[t] # <<>> /\ frames[t][m].told /\ frames[t][m].todo = <<>>
      /\ frames' = [frames EXCEPT ![t] = SubSeq(@, 1, Len(@) - 1)]
      /\ UNCHANGED <<pending, running, returned, dropped, halted, made, parent, job, ended,
                     result, conts, inline, waiting, asleep, halter>>
  BY <1>1, FutureTyped
     DEF Future!SetReturns, FutureInv, Future!Top, Future!execVars, Future!thenVars, Future!workVars, Future!waitVars
<1>3. frames[t] \in Seq(SetCall) /\ m \in Nat \ {0} /\ DOMAIN frames[t] = 1..m
  BY <1>1, <1>2, EmptySeq DEF Typed
<1>4. PICK stack : stack = SubSeq(frames[t], 1, m - 1)
  OBVIOUS
<1>5. /\ stack \in Seq(SetCall) /\ DOMAIN stack = 1..(m - 1)
      /\ \A n \in 1..(m - 1) : stack[n] = frames[t][n]
  BY <1>1, <1>3, <1>4
<1>6. /\ frames' \in [Future!Actors -> Seq(SetCall)] /\ frames'[t] = stack
      /\ \A u \in Future!Actors : u # t => frames'[u] = frames[u]
  BY <1>1, <1>2, <1>4, <1>5 DEF Typed
<1>7. 1..m = 1..(m - 1) \cup {m}
  BY <1>3
<1>8. /\ \A u \in Future!Actors : DOMAIN frames'[u] \subseteq DOMAIN frames[u]
      /\ \A u \in Future!Actors : \A n \in DOMAIN frames'[u] : frames'[u][n] = frames[u][n]
      /\ \A u \in Future!Actors : \A n \in DOMAIN frames[u] :
             ~(u = t /\ n = m) => n \in DOMAIN frames'[u]
  BY <1>3, <1>5, <1>6, <1>7
<1>9. Future!Exec!Held' = Future!Exec!Held /\ FutureSettled' = FutureSettled
  BY <1>2 DEF Future!Exec!Held, FutureSettled
<1>10. Once(conts, frames', inline, FutureSettled, made)
  <2>1. Shaped(conts, frames, inline)
    BY <1>2 DEF Shaped, Typed, Future!TypeOK
  <2>2. frames[t][Len(frames[t])].todo = <<>>
    BY <1>1, <1>2
  <2> QED BY <1>2, <2>1, <2>2, OnceDropped DEF FutureInv
<1>11. Once(conts, frames, inline, FutureSettled, made)'
  BY <1>2, <1>9, <1>10
<1>12. Future!TypeOK'
  BY <1>2, <1>6 DEF Future!TypeOK, SetCall
<1>13. Numbered' /\ Apart'
  <2>1. \A u \in Future!Actors : inline[u] # Future!NoFuture => frames'[u] = <<>>
    BY <1>2, <1>6 DEF FutureInv, Apart
  <2> QED BY <2>1, <1>2, <1>9 DEF FutureInv, Numbered, Apart
<1>14. Follows'
  <2>1. AttachedToParent'
    BY <1>2 DEF FutureInv, Follows, AttachedToParent
  <2>2. TakenOwed'
    BY <1>2, <1>8 DEF FutureInv, Follows, TakenOwed, Owed
  <2>3. /\ (\A u \in Future!Actors : inline[u] # Future!NoFuture => Owed(inline[u]))'
        /\ (\A g \in Future!Exec!Held : Owed(g))'
        /\ (\A g \in Future!Futures \ made : parent[g] = Future!NoFuture)'
    BY <1>2, <1>9 DEF FutureInv, Follows, Owed
  <2> QED BY <2>1, <2>2, <2>3 DEF Follows
<1>15. Future!NoLostNotify'
  <2> SUFFICES ASSUME NEW c \in asleep', result'[waiting'[c]] # "none"
               PROVE  \E u \in Future!Actors : \E n \in DOMAIN frames'[u] :
                          frames'[u][n].fut = waiting'[c] /\ ~frames'[u][n].told
    BY DEF Future!NoLostNotify
  <2>1. c \in asleep /\ result[waiting[c]] # "none" /\ waiting' = waiting
    BY <1>2
  <2>2. PICK u \in Future!Actors : \E n \in DOMAIN frames[u] :
            frames[u][n].fut = waiting[c] /\ ~frames[u][n].told
    BY <2>1 DEF FutureInv, Future!NoLostNotify
  <2>3. PICK n \in DOMAIN frames[u] : frames[u][n].fut = waiting[c] /\ ~frames[u][n].told
    BY <2>2
  <2>4. ~(u = t /\ n = m)
    BY <1>2, <2>3
  <2>5. n \in DOMAIN frames'[u] /\ frames'[u][n] = frames[u][n]
    BY <1>8, <2>4
  <2> QED BY <2>1, <2>3, <2>5
<1> QED BY <1>11, <1>12, <1>13, <1>14, <1>15 DEF FutureInv

-----------------------------------------------------------------------------
\* The invariant holds of the initial states.
LEMMA FutureInit ==
  ASSUME Future!Init
  PROVE  FutureInv
<1>1. /\ <<>> \in Seq(Future!Futures) /\ <<>> \in Seq(SetCall) /\ DOMAIN <<>> = {} /\ Len(<<>>) = 0
  BY EmptySeq
<1>2. /\ pending = <<>> /\ running = {} /\ returned = {} /\ dropped = {} /\ halted = FALSE
      /\ made = {} /\ ended = {} /\ asleep = {}
      /\ parent = [f \in Future!Futures |-> Future!NoFuture] /\ result = [f \in Future!Futures |-> "none"]
      /\ conts = [f \in Future!Futures |-> <<>>] /\ frames = [t \in Future!Actors |-> <<>>]
      /\ inline = [t \in Future!Actors |-> Future!NoFuture] /\ job = [w \in FutureWorkers |-> Future!NoFuture]
      /\ waiting = [c \in Threads |-> Future!NoFuture] /\ halter = Future!NoFuture
  BY DEF Future!Init, Future!Exec!SpecInit
<1>3. Future!TypeOK
  BY <1>1, <1>2 DEF Future!TypeOK, SetCall
<1>4. Future!Exec!Held = {} /\ FutureSettled = {}
  BY <1>1, <1>2 DEF Future!Exec!Held, FutureSettled
<1>5. Numbered
  <2>1. 1..0 = {}
    OBVIOUS
  <2> QED BY <1>2, <2>1 DEF Numbered
<1>6. Apart
  BY <1>2 DEF Apart
<1>7. Follows
  BY <1>1, <1>2, <1>4 DEF Follows, AttachedToParent, TakenOwed
<1>8. Future!NoLostNotify
  BY <1>2 DEF Future!NoLostNotify
<1>9. \A g \in Future!Futures : \A kind, a, n, k : ~Computes(conts, frames, inline, g, kind, a, n, k)
  <2>1. Future!NoFuture \notin Future!Futures
    BY DEF Future!Futures, Future!NoFuture
  <2> QED BY <1>1, <1>2, <2>1 DEF Computes
<1>10. Once(conts, frames, inline, FutureSettled, made)
  BY <1>2, <1>4, <1>9 DEF Once
<1> QED BY <1>3, <1>5, <1>6, <1>7, <1>8, <1>10 DEF FutureInv

\* Every step keeps it.
LEMMA FutureNext ==
  ASSUME FutureInv, [Future!Next]_(Future!vars)
  PROVE  FutureInv'
<1>1. FutureWorkers \subseteq Future!Actors /\ Threads \subseteq Future!Actors
  BY DEF Future!Actors
<1>2. ASSUME NEW t \in Future!Actors, Future!SetStep(t)
      PROVE  FutureInv'
  BY <1>2, RunInlineStep, NotifyStep, RunContinuationStep, SetReturnsStep DEF Future!SetStep
<1>3. ASSUME NEW w \in FutureWorkers, Future!WorkerStep(w)
      PROVE  FutureInv'
  BY <1>3, TakeStep, FinishStep, ReturnStep DEF Future!WorkerStep
<1>4. CASE UNCHANGED Future!vars
  <2>1. UNCHANGED <<pending, running, returned, dropped, halted, made, parent, result, conts,
                    frames, inline, job, ended, waiting, asleep, halter>>
    BY <1>4 DEF Future!vars
  <2>2. Future!TypeOK' /\ Future!Exec!Held' = Future!Exec!Held
    BY <2>1 DEF FutureInv, Future!TypeOK, Future!Exec!Held
  <2>3. /\ (\A w \in FutureWorkers : job[w] # Future!NoFuture => job[w] \in Future!Exec!Held)'
        /\ (\A c \in asleep : waiting[c] # Future!NoFuture)' /\ Future!NoLostNotify'
    BY <2>1, <2>2 DEF FutureInv, Apart, Future!NoLostNotify
  <2> QED BY <2>1, <2>2, <2>3, QuietStep
<1>5. CASE Future!Next
  BY <1>2, <1>3, <1>5, ScheduleStep, ThenStep, ThenInvalidStep, StopStep, WaitStep, DisposeStep
     DEF Future!Next
<1> QED BY <1>4, <1>5

-----------------------------------------------------------------------------
\* The places of g, one by one.
LEMMA PlaceOf ==
  ASSUME NEW g, NEW p
  PROVE  p \in Future!Places(g) <=>
            \/ \E f \in Future!Futures : \E k \in DOMAIN conts[f] : conts[f][k] = g /\ p = <<f, k>>
            \/ \E t \in Future!Actors : \E n \in DOMAIN frames[t] : \E k \in DOMAIN frames[t][n].todo :
                   frames[t][n].todo[k] = g /\ p = <<t, n, k>>
            \/ \E t \in Future!Actors : inline[t] = g /\ p = <<t>>
            \/ (g \in Future!Exec!Held \/ result[g] # "none") /\ p = <<"settled">>
<1> DEFINE A(f) == {<<f, k>> : k \in Future!Spots(conts[f], g)}
           B(t, n) == {<<t, n, k>> : k \in Future!Spots(frames[t][n].todo, g)}
           C == {<<t>> : t \in {u \in Future!Actors : inline[u] = g}}
           D == IF g \in Future!Exec!Held \/ result[g] # "none" THEN {<<"settled">>} ELSE {}
           BB(t) == UNION {B(t, n) : n \in DOMAIN frames[t]}
           AA == UNION {A(f) : f \in Future!Futures}
           BBB == UNION {BB(t) : t \in Future!Actors}
<1>1. Future!Places(g) = AA \cup BBB \cup C \cup D
  BY DEF Future!Places
<1>2. \A f : p \in A(f) <=> \E k \in DOMAIN conts[f] : conts[f][k] = g /\ p = <<f, k>>
  BY DEF Future!Spots
<1>3. \A t, n : p \in B(t, n) <=>
          \E k \in DOMAIN frames[t][n].todo : frames[t][n].todo[k] = g /\ p = <<t, n, k>>
  BY DEF Future!Spots
<1>4. p \in C <=> \E t \in Future!Actors : inline[t] = g /\ p = <<t>>
  OBVIOUS
<1>5. p \in D <=> (g \in Future!Exec!Held \/ result[g] # "none") /\ p = <<"settled">>
  OBVIOUS
<1> HIDE DEF A, B, C, D
<1>6. p \in AA <=> \E f \in Future!Futures : p \in A(f)
  BY Zenon
<1>7. \A t : p \in BB(t) <=> \E n \in DOMAIN frames[t] : p \in B(t, n)
  BY Zenon
<1> HIDE DEF AA, BB
<1>8. p \in BBB <=> \E t \in Future!Actors : p \in BB(t)
  BY Zenon
<1> HIDE DEF BBB
<1>9. p \in BBB <=> \E t \in Future!Actors : \E n \in DOMAIN frames[t] : p \in B(t, n)
  BY <1>7, <1>8, Zenon
<1>10. p \in Future!Places(g) <=> p \in AA \/ p \in BBB \/ p \in C \/ p \in D
  BY <1>1
<1>11. p \in AA <=> \E f \in Future!Futures : \E k \in DOMAIN conts[f] : conts[f][k] = g /\ p = <<f, k>>
  BY <1>2, <1>6, Zenon
<1>12. p \in BBB <=>
           \E t \in Future!Actors : \E n \in DOMAIN frames[t] : \E k \in DOMAIN frames[t][n].todo :
               frames[t][n].todo[k] = g /\ p = <<t, n, k>>
  BY <1>3, <1>9, Zenon
<1> QED BY <1>4, <1>5, <1>10, <1>11, <1>12, Zenon

\* One place in the sense of Once is one of Places.
LEMMA OnePlace ==
  ASSUME FutureInv, NEW g \in made
  PROVE  Cardinality(Future!Places(g)) = 1
<1>1. /\ g \in Future!Futures /\ Once(conts, frames, inline, FutureSettled, made)
  BY DEF FutureInv, Future!TypeOK
<1>2. ASSUME NEW p \in Future!Places(g), \A q \in Future!Places(g) : q = p
      PROVE  Cardinality(Future!Places(g)) = 1
  <2>1. Future!Places(g) = {p}
    BY <1>2
  <2> QED BY <2>1, FS_Singleton
<1>3. /\ \A f \in Future!Futures : \A k \in DOMAIN conts[f] :
             conts[f][k] = g => Computes(conts, frames, inline, g, "attached", f, 0, k)
      /\ \A t \in Future!Actors : \A n \in DOMAIN frames[t] : \A k \in DOMAIN frames[t][n].todo :
             frames[t][n].todo[k] = g => Computes(conts, frames, inline, g, "taken", t, n, k)
      /\ \A t \in Future!Actors : inline[t] = g => Computes(conts, frames, inline, g, "inline", t, 0, 0)
  BY DEF Computes
<1>4. CASE g \in FutureSettled
  <2>1. \A kind, a, n, k : ~Computes(conts, frames, inline, g, kind, a, n, k)
    BY <1>1, <1>4 DEF Once
  <2>2. g \in Future!Exec!Held \/ result[g] # "none"
    BY <1>4 DEF FutureSettled
  <2>3. <<"settled">> \in Future!Places(g)
    BY <2>2, PlaceOf
  <2>4. ASSUME NEW q \in Future!Places(g)
        PROVE  q = <<"settled">>
    <3>1. \/ \E f \in Future!Futures : \E k \in DOMAIN conts[f] : conts[f][k] = g /\ q = <<f, k>>
          \/ \E t \in Future!Actors : \E n \in DOMAIN frames[t] : \E k \in DOMAIN frames[t][n].todo :
                 frames[t][n].todo[k] = g /\ q = <<t, n, k>>
          \/ \E t \in Future!Actors : inline[t] = g /\ q = <<t>>
          \/ (g \in Future!Exec!Held \/ result[g] # "none") /\ q = <<"settled">>
      BY PlaceOf
    <3> QED BY <2>1, <3>1, <1>3
  <2> QED BY <2>3, <2>4, <1>2
<1>5. CASE g \notin FutureSettled
  <2>1. g \notin Future!Exec!Held /\ result[g] = "none"
    BY <1>1, <1>5 DEF FutureSettled
  <2>2. PICK kind, a, n, k : Computes(conts, frames, inline, g, kind, a, n, k)
    BY <1>1, <1>5 DEF Once
  <2>3. \A kind2, a2, n2, k2 : Computes(conts, frames, inline, g, kind2, a2, n2, k2)
            => kind2 = kind /\ a2 = a /\ n2 = n /\ k2 = k
    BY <1>1, <2>2 DEF Once
  <2>4. ASSUME NEW q \in Future!Places(g)
        PROVE  \/ kind = "attached" /\ q = <<a, k>>
               \/ kind = "taken" /\ q = <<a, n, k>>
               \/ kind = "inline" /\ q = <<a>>
    <3>1. \/ \E f \in Future!Futures : \E j \in DOMAIN conts[f] : conts[f][j] = g /\ q = <<f, j>>
          \/ \E t \in Future!Actors : \E m \in DOMAIN frames[t] : \E j \in DOMAIN frames[t][m].todo :
                 frames[t][m].todo[j] = g /\ q = <<t, m, j>>
          \/ \E t \in Future!Actors : inline[t] = g /\ q = <<t>>
          \/ (g \in Future!Exec!Held \/ result[g] # "none") /\ q = <<"settled">>
      BY PlaceOf
    <3>2. ASSUME NEW f \in Future!Futures, NEW j \in DOMAIN conts[f], conts[f][j] = g, q = <<f, j>>
          PROVE  kind = "attached" /\ q = <<a, k>>
      BY <3>2, <1>3, <2>3
    <3>3. ASSUME NEW t \in Future!Actors, NEW m \in DOMAIN frames[t], NEW j \in DOMAIN frames[t][m].todo,
                 frames[t][m].todo[j] = g, q = <<t, m, j>>
          PROVE  kind = "taken" /\ q = <<a, n, k>>
      BY <3>3, <1>3, <2>3
    <3>4. ASSUME NEW t \in Future!Actors, inline[t] = g, q = <<t>>
          PROVE  kind = "inline" /\ q = <<a>>
      BY <3>4, <1>3, <2>3
    <3> QED BY <2>1, <3>1, <3>2, <3>3, <3>4
  <2>5. CASE kind = "attached"
    <3>1. <<a, k>> \in Future!Places(g)
      BY <2>2, <2>5, PlaceOf DEF Computes
    <3> QED BY <2>4, <2>5, <3>1, <1>2
  <2>6. CASE kind = "taken"
    <3>1. <<a, n, k>> \in Future!Places(g)
      BY <2>2, <2>6, PlaceOf DEF Computes
    <3> QED BY <2>4, <2>6, <3>1, <1>2
  <2>7. CASE kind = "inline"
    <3>1. <<a>> \in Future!Places(g)
      BY <2>2, <2>7, PlaceOf DEF Computes
    <3> QED BY <2>4, <2>7, <3>1, <1>2
  <2> QED BY <2>2, <2>5, <2>6, <2>7 DEF Computes
<1> QED BY <1>4, <1>5

-----------------------------------------------------------------------------
\* The composition is a queue, which does nothing when the futures do.
LEMMA QueueIsSpec == QueueSpec => Spec
<1>1. QueueInit => Init
  BY DEF QueueInit
<1>2. [QueueNext]_<<part, vars, chaining>> => [Next]_vars
  BY DEF QueueNext
<1> QED BY <1>1, <1>2, PTL DEF QueueSpec, Spec

\* A step of the composition is a step of the futures or leaves them alone.
LEMMA FuturesStep ==
  ASSUME [QueueNext]_<<part, vars, chaining>>
  PROVE  [Future!Next]_(Future!vars) /\ part' = part
<1>1. UNCHANGED chaining => UNCHANGED Future!vars
  BY DEF chaining, Future!vars
<1> QED BY <1>1 DEF QueueNext

\* Neither a continuation nor a notification is lost or repeated, and the work of
\* a continuation only ever reads a result that is set, for any number of
\* threads, futures and works the executor can hold.
THEOREM FuturesAreFaithful == QueueSpec => []FuturesFaithful
<1>1. QueueInit => FutureInv
  BY FutureInit DEF QueueInit
<1>2. FutureInv /\ [QueueNext]_<<part, vars, chaining>> => FutureInv'
  BY FuturesStep, FutureNext
<1>3. FutureInv => FuturesFaithful
  BY OnePlace, FutureCardinality
     DEF FuturesFaithful, FutureInv, Future!NothingLost, Future!ContinuationOnce,
         Future!ReadsSetResult, Follows, Owed
<1> QED BY <1>1, <1>2, <1>3, PTL DEF QueueSpec

=============================================================================
