------------------------- MODULE ApplicationProofs -------------------------
(* Five parts of an application, for all extensions, packages, versions,      *)
(* processes, limits, surfaces, encoders and submissions: its queue knows     *)
(* what the GPU finished, the extension host accounts for every event and for *)
(* what runs, the package store loses nothing that a command left installed,  *)
(* surfaces give their images back, and commands run once and in order.       *)
EXTENDS MCApplication, SequenceFacts, FiniteSetTheorems

-----------------------------------------------------------------------------
(* The watermark of the queue.                                                *)
(* What a callback has read of the watermark is no later than the watermark,  *)
(* and a callback that runs is about a submission that is finished.           *)
ReadsArePast ==
    \A e \in Epochs : /\ loaded[e] <= completed
                      /\ callback[e] = "read" => e <= finished

(* As long as tracking is healthy each submission has a callback, and one that *)
(* is done has seen to it that the watermark reached its epoch.                *)
HealthyIsExact ==
    status = "Healthy" =>
        \A e \in Epochs : e < next => /\ callback[e] # "none"
                                      /\ callback[e] = "done" => e <= completed

(* The inductive invariant. *)
TrackingInv ==
    /\ TypeOK
    /\ completed <= finished /\ finished < next
    /\ ReadsArePast
    /\ HealthyIsExact

LEMMA TrackingBegins == Init => TrackingInv
BY EpochsAssumption DEF Init, TrackingInv, TypeOK, ReadsArePast, HealthyIsExact, Callbacks,
    Statuses, Epochs

(* Each step keeps the invariant; the interesting ones are the exchange, which *)
(* may find the watermark moved on, and a callback that finds nothing to raise. *)
LEMMA TrackingSteps == TrackingInv /\ [Next]_vars => TrackingInv'
<1> SUFFICES ASSUME TrackingInv, [Next]_vars PROVE TrackingInv'
  OBVIOUS
<1> USE EpochsAssumption DEF TrackingInv, TypeOK, Callbacks, Statuses, Epochs
<1>1. ASSUME NEW registers \in BOOLEAN, Submit(registers) PROVE TrackingInv'
  <2>1. TypeOK'
    BY <1>1 DEF Submit
  <2>2. (completed <= finished /\ finished < next)'
    BY <1>1 DEF Submit
  <2>3. ReadsArePast'
    BY <1>1 DEF Submit, ReadsArePast
  <2>4. HealthyIsExact'
    BY <1>1 DEF Submit, HealthyIsExact
  <2> QED BY <2>1, <2>2, <2>3, <2>4
<1>2. CASE Finish
  BY <1>2 DEF Finish, ReadsArePast, HealthyIsExact
<1>3. ASSUME NEW e \in Epochs, CallbackFails(e) PROVE TrackingInv'
  BY <1>3 DEF CallbackFails, ReadsArePast, HealthyIsExact
<1>4. ASSUME NEW e \in Epochs, Loads(e) PROVE TrackingInv'
  BY <1>4 DEF Loads, ReadsArePast, HealthyIsExact
<1>5. ASSUME NEW e \in Epochs, Exchanges(e) PROVE TrackingInv'
  <2>1. CASE completed = loaded[e]
    <3>1. completed < e /\ e <= finished /\ completed' = e
      BY <1>5, <2>1 DEF Exchanges, ReadsArePast
    <3>2. TypeOK' /\ (completed <= finished /\ finished < next)'
      BY <1>5, <2>1, <3>1 DEF Exchanges
    <3>3. ReadsArePast'
      BY <1>5, <2>1, <3>1 DEF Exchanges, ReadsArePast
    <3>4. HealthyIsExact'
      BY <1>5, <2>1, <3>1 DEF Exchanges, HealthyIsExact
    <3> QED BY <3>2, <3>3, <3>4
  <2>2. CASE completed # loaded[e]
    <3>1. /\ loaded' = [loaded EXCEPT ![e] = completed]
          /\ UNCHANGED <<next, completed, status, finished, callback>>
      BY <1>5, <2>2 DEF Exchanges
    <3>2. TypeOK'
      BY <3>1
    <3>3. ReadsArePast'
      BY <3>1 DEF ReadsArePast
    <3>4. HealthyIsExact'
      BY <3>1 DEF HealthyIsExact
    <3> QED BY <3>1, <3>2, <3>3, <3>4
  <2> QED BY <2>1, <2>2
<1>6. ASSUME NEW e \in Epochs, NothingToRaise(e) PROVE TrackingInv'
  <2>1. e <= completed
    BY <1>6 DEF NothingToRaise, ReadsArePast
  <2> QED BY <1>6, <2>1 DEF NothingToRaise, ReadsArePast, HealthyIsExact
<1>7. CASE UNCHANGED vars
  BY <1>7 DEF vars, ReadsArePast, HealthyIsExact
<1> QED BY <1>1, <1>2, <1>3, <1>4, <1>5, <1>6, <1>7 DEF Next, CallbackRuns

LEMMA TrackingIsTruthful == TrackingInv => WatermarkTruthful
<1> SUFFICES ASSUME TrackingInv,
                    \A e \in 1 .. next - 1 : callback[e] = "done",
                    status = "Healthy"
             PROVE  completed = next - 1
  BY DEF TrackingInv, WatermarkTruthful
<1>1. CASE next = 1
  BY <1>1 DEF TrackingInv, TypeOK
<1>2. CASE next > 1
  <2>1. next - 1 \in Epochs /\ next - 1 \in 1 .. next - 1
    BY <1>2, EpochsAssumption DEF TrackingInv, TypeOK, Epochs
  <2>2. next - 1 <= completed
    BY <2>1 DEF TrackingInv, TypeOK, HealthyIsExact, Epochs
  <2> QED BY <2>2 DEF TrackingInv, TypeOK
<1> QED BY <1>1, <1>2 DEF TrackingInv, TypeOK

LEMMA TrackingAdvances == TrackingInv /\ [Next]_vars => completed' >= completed
<1> SUFFICES ASSUME TrackingInv, [Next]_vars PROVE completed' >= completed
  OBVIOUS
<1> QED BY DEF TrackingInv, TypeOK, Next, CallbackRuns, Submit, Finish, CallbackFails, Loads,
           Exchanges, NothingToRaise, vars, Epochs

-----------------------------------------------------------------------------
(* The extension host.  Events are queued once, the first before the second. *)
HostRunning == {i \in Ids : Host!IsActive(i)}
HostOrdered ==
    /\ \A j, k \in 1..Len(queue) : queue[j] = queue[k] /\ queue[j] \in Host!Watched => j = k
    /\ \A j, k \in 1..Len(queue) : queue[j] = "second" /\ queue[k] = "first" => k < j
    /\ "second" \in seen.emitted => "first" \in seen.emitted
    /\ Host!PublishedInOrder

HostGuestTypes ==
    /\ sessions \in [Ids -> Host!Grants \cup {None}]
    /\ states \in [Ids -> {"active", "failed", None}]
    /\ queue \in Seq(Host!Events) /\ Len(queue) <= MaxQueued
    /\ seen \in [emitted : SUBSET Host!Watched, published : SUBSET Host!Watched, withdrawn : SUBSET Host!Watched]

HostGuestsInv == HostGuestTypes /\ Host!EventsAccounted /\ HostOrdered /\ Host!ActiveIsRunning

(* Operations that load go over packages of the registry; those that unload   *)
(* are the only ones to replace it, once nothing runs any more.               *)
HostUnloading == {"unload", "unloadall", "scan", "setroots"}
HostProgress ==
    /\ call.op \notin HostUnloading =>
          /\ call.todo \subseteq registry
          /\ call.at \notin {"unload", "commit"} /\ call.next \notin {"unload", "commit"}
          /\ call.op = "idle" => call.at = "end"
    /\ call.op \in HostUnloading =>
          /\ call.at \notin {"loop", "deliver"} /\ call.next \notin {"loop", "deliver", "unload"}
          /\ call.op # "unload" /\ call.at = "unload" => HostRunning \subseteq call.todo
    /\ call.at = "commit" \/ (call.at = "drain" /\ call.next = "commit") => HostRunning = {}
    /\ call.at = "deliver" \/ (call.at = "drain" /\ call.next = "deliver") => call.cur \in Ids

HostInv ==
    /\ registry \subseteq Ids /\ call \in Host!Calls /\ (nested = None \/ nested \subseteq Ids)
    /\ HostGuestsInv /\ HostRunning \subseteq registry /\ HostProgress

-----------------------------------------------------------------------------
\* What a guest emits is at most one event, that may be queued now.
LEMMA HostOutputsAre ==
  ASSUME NEW g, NEW out \in Host!Outputs(g)
  PROVE  \/ out = <<>>
         \/ Len(queue) < MaxQueued /\ \E e \in Host!Fresh : out = <<e>>
BY DEF Host!Outputs, Host!HasRoom

\* One event at the end of the queue.
LEMMA HostQueueOne ==
  ASSUME NEW q \in Seq(Host!Events), NEW e \in Host!Events
  PROVE  /\ q \o <<e>> \in Seq(Host!Events) /\ Len(q \o <<e>>) = Len(q) + 1
         /\ \A k \in 1..Len(q) : (q \o <<e>>)[k] = q[k]
         /\ (q \o <<e>>)[Len(q) + 1] = e
         /\ Len(q) \in Nat
         /\ SubSeq(q \o <<e>>, 1, Len(q)) = q
<1>1. /\ <<e>> \in Seq(Host!Events) /\ Len(<<e>>) = 1 /\ <<e>>[1] = e /\ Len(q) \in Nat
  OBVIOUS
<1>2. /\ q \o <<e>> \in Seq(Host!Events) /\ Len(q \o <<e>>) = Len(q) + 1
      /\ \A k \in 1..Len(q) : (q \o <<e>>)[k] = q[k]
      /\ (q \o <<e>>)[Len(q) + 1] = e
  BY <1>1, ConcatProperties
<1>3. SubSeq(q \o <<e>>, 1, Len(q)) = q
  <2>1. /\ SubSeq(q \o <<e>>, 1, Len(q)) \in Seq(Host!Events)
        /\ Len(SubSeq(q \o <<e>>, 1, Len(q))) = Len(q)
        /\ \A k \in 1..Len(q) : SubSeq(q \o <<e>>, 1, Len(q))[k] = (q \o <<e>>)[k]
    BY <1>1, <1>2
  <2> QED BY <1>2, <2>1, SeqEqual
<1> QED BY <1>1, <1>2, <1>3

\* Nothing at the end of the queue.
LEMMA HostQueueNone ==
  ASSUME NEW q \in Seq(Host!Events)
  PROVE  q \o <<>> = q /\ SubSeq(q, 1, Len(q)) = q
<1>1. q \o <<>> = q
  BY ConcatEmptySeq
<1>2. SubSeq(q, 1, Len(q)) \in Seq(Host!Events) /\ Len(SubSeq(q, 1, Len(q))) = Len(q)
      /\ \A k \in 1..Len(q) : SubSeq(q, 1, Len(q))[k] = q[k]
  OBVIOUS
<1> QED BY <1>1, <1>2, SeqEqual

\* What a guest emits keeps its place among the events.
LEMMA HostEmits ==
  ASSUME HostGuestsInv, NEW g, NEW out \in Host!Outputs(g), Host!Emit(out),
         sessions' \in [Ids -> Host!Grants \cup {None}],
         states' \in [Ids -> {"active", "failed", None}],
         Host!ActiveIsRunning'
  PROVE  HostGuestsInv'
<1> USE DEF HostGuestsInv
<1>1. queue \in Seq(Host!Events) /\ Len(queue) \in Nat /\ DOMAIN queue = 1..Len(queue)
  BY DEF HostGuestTypes
<1>2. queue' = queue \o out /\ seen' = [seen EXCEPT !.emitted = @ \cup Host!Watch(out)]
  BY DEF Host!Emit
<1>3. seen \in [emitted : SUBSET Host!Watched, published : SUBSET Host!Watched, withdrawn : SUBSET Host!Watched]
  BY DEF HostGuestTypes
<1>4. CASE out = <<>>
  <2>1. queue' = queue
    BY <1>1, <1>2, <1>4, HostQueueNone
  <2>2. Host!Watch(out) = {}
    BY <1>4 DEF Host!Watch
  <2>3. seen' = seen
    BY <1>2, <1>3, <2>2
  <2> QED BY <2>1, <2>3 DEF HostGuestTypes, Host!EventsAccounted, Host!Queued, HostOrdered, Host!PublishedInOrder
<1>5. ASSUME NEW e \in Host!Fresh, out = <<e>>, Len(queue) < MaxQueued
      PROVE  HostGuestsInv'
  <2>1. e \in Host!Events /\ (e \in Host!Watched => e \notin seen.emitted)
        /\ (e = "second" => "first" \in seen.emitted)
    BY DEF Host!Fresh, Host!Events, Host!Watched
  <2>2. /\ queue' \in Seq(Host!Events) /\ Len(queue') = Len(queue) + 1
        /\ \A k \in 1..Len(queue) : queue'[k] = queue[k]
        /\ queue'[Len(queue) + 1] = e
        /\ DOMAIN queue' = 1..Len(queue')
    BY <1>1, <1>2, <1>5, <2>1, HostQueueOne
  <2>3. Host!Watch(out) = {e} \cap Host!Watched
    BY <1>5 DEF Host!Watch
  <2>4. /\ seen'.emitted = seen.emitted \cup ({e} \cap Host!Watched)
        /\ seen'.published = seen.published /\ seen'.withdrawn = seen.withdrawn
        /\ seen' \in [emitted : SUBSET Host!Watched, published : SUBSET Host!Watched, withdrawn : SUBSET Host!Watched]
    BY <1>2, <1>3, <2>3
  <2>5. Host!Queued' = Host!Queued \cup ({e} \cap Host!Watched)
    <3>1. \A k \in 1..Len(queue') : k \in 1..Len(queue) \/ k = Len(queue) + 1
      BY <1>1, <2>2
    <3>2. {queue'[k] : k \in DOMAIN queue'} = {queue[k] : k \in DOMAIN queue} \cup {e}
      BY <1>1, <2>2, <3>1
    <3>3. Host!Queued' = {queue'[k] : k \in DOMAIN queue'} \cap Host!Watched
      BY DEF Host!Queued, Host!Watched
    <3> QED BY <3>2, <3>3 DEF Host!Queued
  <2>6. /\ Host!Queued \subseteq seen.emitted /\ seen.published \subseteq seen.emitted
        /\ seen.withdrawn \subseteq seen.emitted
    BY DEF Host!EventsAccounted
  <2>7. Host!EventsAccounted'
    BY <2>1, <2>4, <2>5, <2>6 DEF Host!EventsAccounted
  <2>8. HostOrdered'
    <3>1. \A k \in 1..Len(queue) : queue[k] \in Host!Watched => queue[k] \in seen.emitted
      BY <1>1, <2>6 DEF Host!Queued
    <3>2. \A k \in 1..Len(queue') : k \in 1..Len(queue) \/ k = Len(queue) + 1
      BY <1>1, <2>2
    <3>3. ASSUME NEW j \in 1..Len(queue'), NEW k \in 1..Len(queue'),
                 queue'[j] = queue'[k], queue'[j] \in Host!Watched
          PROVE  j = k
      <4>1. CASE j \in 1..Len(queue) /\ k \in 1..Len(queue)
        BY <2>2, <3>3, <4>1 DEF HostOrdered
      <4>2. CASE j = Len(queue) + 1 \/ k = Len(queue) + 1
        BY <2>1, <2>2, <3>1, <3>2, <3>3, <4>2
      <4> QED BY <3>2, <4>1, <4>2
    <3>4. ASSUME NEW j \in 1..Len(queue'), NEW k \in 1..Len(queue'),
                 queue'[j] = "second", queue'[k] = "first"
          PROVE  k < j
      <4>1. CASE j \in 1..Len(queue) /\ k \in 1..Len(queue)
        BY <2>2, <3>4, <4>1 DEF HostOrdered
      <4>2. CASE j = Len(queue) + 1
        <5>1. k # Len(queue) + 1
          BY <2>2, <3>4, <4>2
        <5> QED BY <1>1, <3>2, <4>2, <5>1
      <4>3. CASE k = Len(queue) + 1 /\ j \in 1..Len(queue)
        <5>1. "second" \in seen.emitted /\ "first" \notin seen.emitted
          BY <2>1, <2>2, <3>1, <3>4, <4>3 DEF Host!Watched
        <5> QED BY <5>1 DEF HostOrdered
      <4> QED BY <3>2, <4>1, <4>2, <4>3
    <3>5. "second" \in seen'.emitted => "first" \in seen'.emitted
      BY <2>1, <2>4 DEF HostOrdered
    <3>6. Host!PublishedInOrder'
      BY <2>4 DEF HostOrdered, Host!PublishedInOrder
    <3> QED BY <3>3, <3>4, <3>5, <3>6 DEF HostOrdered, Host!Watched
  <2>9. Len(queue') <= MaxQueued
    BY <1>1, <1>5, <2>2, ApplicationAssumption DEF Host!HostAssumption
  <2> QED BY <2>2, <2>4, <2>7, <2>8, <2>9 DEF HostGuestTypes
<1> QED BY <1>4, <1>5, HostOutputsAre

\* A failed activation takes what it emitted back.
LEMMA HostWithdraws ==
  ASSUME HostGuestsInv, NEW i \in Ids, ~Host!IsActive(i), Host!NotActivated(i)
  PROVE  HostGuestsInv' /\ UNCHANGED sessions
<1> USE DEF HostGuestsInv
<1>1. queue \in Seq(Host!Events)
      /\ seen \in [emitted : SUBSET Host!Watched, published : SUBSET Host!Watched, withdrawn : SUBSET Host!Watched]
  BY DEF HostGuestTypes
<1> PICK g \in Host!Grant(i) : \E out \in Host!Outputs(g) :
          /\ queue' = SubSeq(queue \o out, 1, Len(queue))
          /\ seen' = [seen EXCEPT !.emitted = @ \cup Host!Watch(out), !.withdrawn = @ \cup Host!Watch(out)]
          /\ states' = [states EXCEPT ![i] = "failed"]
          /\ UNCHANGED sessions
  BY DEF Host!NotActivated, Host!DiscardAfter
<1>2. PICK out \in Host!Outputs(g) :
          /\ queue' = SubSeq(queue \o out, 1, Len(queue))
          /\ seen' = [seen EXCEPT !.emitted = @ \cup Host!Watch(out), !.withdrawn = @ \cup Host!Watch(out)]
          /\ states' = [states EXCEPT ![i] = "failed"]
          /\ UNCHANGED sessions
  OBVIOUS
<1>3. states' \in [Ids -> {"active", "failed", None}] /\ Host!ActiveIsRunning'
  BY <1>2 DEF HostGuestTypes, Host!ActiveIsRunning, Host!IsActive
<1>4. queue' = queue
  <2>1. CASE out = <<>>
    BY <1>1, <1>2, <2>1, HostQueueNone
  <2>2. CASE \E e \in Host!Fresh : out = <<e>>
    <3>1. PICK e \in Host!Fresh : out = <<e>>
      BY <2>2
    <3>2. e \in Host!Events
      BY DEF Host!Fresh, Host!Events
    <3> QED BY <1>1, <1>2, <3>1, <3>2, HostQueueOne
  <2> QED BY <2>1, <2>2, HostOutputsAre
<1>5. Host!Watch(out) \subseteq Host!Watched /\ Host!Watch(out) \cap seen.emitted = {}
      /\ ("second" \in Host!Watch(out) => "first" \in seen.emitted)
  <2>1. CASE out = <<>>
    BY <2>1 DEF Host!Watch
  <2>2. CASE \E e \in Host!Fresh : out = <<e>>
    <3>1. PICK e \in Host!Fresh : out = <<e>>
      BY <2>2
    <3>2. Host!Watch(out) = {e} \cap Host!Watched
      BY <3>1 DEF Host!Watch
    <3> QED BY <3>2 DEF Host!Fresh, Host!Watched
  <2> QED BY <2>1, <2>2, HostOutputsAre
<1>6. /\ seen'.emitted = seen.emitted \cup Host!Watch(out)
      /\ seen'.withdrawn = seen.withdrawn \cup Host!Watch(out)
      /\ seen'.published = seen.published
      /\ seen' \in [emitted : SUBSET Host!Watched, published : SUBSET Host!Watched, withdrawn : SUBSET Host!Watched]
  <2> PICK w \in SUBSET Host!Watched : w = Host!Watch(out)
    BY <1>5
  <2> QED BY <1>1, <1>2
<1>7. Host!Queued' = Host!Queued
  BY <1>4 DEF Host!Queued
<1>8. Host!EventsAccounted'
  BY <1>5, <1>6, <1>7 DEF Host!EventsAccounted
<1>9. HostOrdered'
  BY <1>4, <1>5, <1>6 DEF HostOrdered, Host!PublishedInOrder
<1> QED BY <1>2, <1>3, <1>4, <1>6, <1>8, <1>9 DEF HostGuestTypes

\* The oldest event is published: none of the others is the same, and the first
\* is not among them if it is the second.
LEMMA HostPublishes ==
  ASSUME HostGuestsInv, queue # <<>>,
         seen' = [seen EXCEPT !.published = @ \cup ({Head(queue)} \cap Host!Watched)],
         queue' = Tail(queue), UNCHANGED <<sessions, states>>
  PROVE  HostGuestsInv'
<1> USE DEF HostGuestsInv
<1> PICK e : e = Head(queue)
  OBVIOUS
<1>1. queue \in Seq(Host!Events)
      /\ seen \in [emitted : SUBSET Host!Watched, published : SUBSET Host!Watched, withdrawn : SUBSET Host!Watched]
  BY DEF HostGuestTypes
<1>2. /\ queue' \in Seq(Host!Events) /\ Len(queue) \in Nat /\ Len(queue) >= 1
      /\ Len(queue') = Len(queue) - 1 /\ e = queue[1] /\ e \in Host!Events
      /\ \A k \in 1..Len(queue') : queue'[k] = queue[k + 1]
      /\ DOMAIN queue = 1..Len(queue) /\ DOMAIN queue' = 1..Len(queue')
  BY <1>1, HeadTailProperties, LenProperties, EmptySeq
<1>3. \A k \in 1..Len(queue') : k + 1 \in 1..Len(queue) /\ k + 1 # 1
  BY <1>2
<1>4. 1 \in 1..Len(queue) /\ \A k \in 1..Len(queue) : k = 1 \/ (k - 1 \in 1..Len(queue') /\ (k - 1) + 1 = k)
  BY <1>2
<1>5. Host!Queued' = Host!Queued \ {e} /\ (e \in Host!Watched => e \in Host!Queued)
  <2>1. Host!Queued = {queue[k] : k \in 1..Len(queue)} \cap Host!Watched
        /\ Host!Queued' = {queue'[k] : k \in 1..Len(queue')} \cap Host!Watched
    BY <1>2 DEF Host!Queued, Host!Watched
  <2>2. ASSUME NEW x \in Host!Queued'
        PROVE  x \in Host!Queued /\ x # e
    <3>1. PICK k \in 1..Len(queue') : x = queue'[k]
      BY <2>1
    <3>2. x = queue[k + 1] /\ x \in Host!Watched
      BY <1>2, <2>1, <3>1
    <3> QED BY <1>2, <1>3, <1>4, <2>1, <3>2 DEF HostOrdered
  <2>3. ASSUME NEW x \in Host!Queued, x # e
        PROVE  x \in Host!Queued'
    <3>1. PICK k \in 1..Len(queue) : x = queue[k]
      BY <2>1
    <3>2. k - 1 \in 1..Len(queue') /\ (k - 1) + 1 = k
      BY <1>2, <1>4, <2>3, <3>1
    <3> QED BY <1>2, <2>1, <3>1, <3>2
  <2> QED BY <1>2, <1>4, <2>1, <2>2, <2>3
<1>6. /\ seen'.emitted = seen.emitted /\ seen'.withdrawn = seen.withdrawn
      /\ seen'.published = seen.published \cup ({e} \cap Host!Watched)
      /\ seen' \in [emitted : SUBSET Host!Watched, published : SUBSET Host!Watched, withdrawn : SUBSET Host!Watched]
  <2> PICK w \in SUBSET Host!Watched : w = {e} \cap Host!Watched
    OBVIOUS
  <2> QED BY <1>1
<1>7. Host!EventsAccounted'
  BY <1>5, <1>6 DEF Host!EventsAccounted
<1>8. Host!PublishedInOrder'
  <2>1. ASSUME e = "second"
        PROVE  "first" \in seen.published \cup seen.withdrawn
    <3>1. "second" \in Host!Queued
      BY <1>5, <2>1 DEF Host!Watched
    <3>2. "first" \in seen.emitted
      BY <3>1 DEF Host!EventsAccounted, HostOrdered
    <3>3. "first" \notin Host!Queued
      <4>1. ASSUME NEW k \in 1..Len(queue), queue[k] = "first"
            PROVE  FALSE
        <5>1. k < 1
          BY <1>2, <1>4, <2>1, <4>1 DEF HostOrdered
        <5> QED BY <5>1
      <4> QED BY <1>2, <4>1 DEF Host!Queued
    <3> QED BY <3>2, <3>3 DEF Host!EventsAccounted
  <2>2. "second" \in seen.published => "first" \in seen.published \cup seen.withdrawn
    BY DEF HostOrdered, Host!PublishedInOrder
  <2> QED BY <1>6, <2>1, <2>2 DEF Host!PublishedInOrder
<1>9. HostOrdered'
  <2>1. ASSUME NEW j \in 1..Len(queue'), NEW k \in 1..Len(queue'),
               queue'[j] = queue'[k], queue'[j] \in Host!Watched
        PROVE  j = k
    <3>1. j + 1 = k + 1
      BY <1>2, <1>3, <2>1 DEF HostOrdered
    <3> QED BY <3>1
  <2>2. ASSUME NEW j \in 1..Len(queue'), NEW k \in 1..Len(queue'),
               queue'[j] = "second", queue'[k] = "first"
        PROVE  k < j
    <3>1. k + 1 < j + 1
      BY <1>2, <1>3, <2>2 DEF HostOrdered
    <3> QED BY <3>1
  <2>3. "second" \in seen'.emitted => "first" \in seen'.emitted
    BY <1>6 DEF HostOrdered
  <2> QED BY <1>8, <2>1, <2>2, <2>3 DEF HostOrdered, Host!Watched
<1>10. Len(queue') <= MaxQueued /\ Host!ActiveIsRunning'
  BY <1>2, ApplicationAssumption DEF Host!HostAssumption, HostGuestTypes, Host!ActiveIsRunning, Host!IsActive
<1> QED BY <1>1, <1>2, <1>6, <1>7, <1>9, <1>10 DEF HostGuestTypes

\* An activation adds a running instance; a callback may end one.
LEMMA HostGuestCalls ==
  ASSUME HostGuestsInv, NEW i \in Ids
  PROVE  /\ Host!Activated(i) => HostGuestsInv' /\ HostRunning' = HostRunning \cup {i}
         /\ ~Host!IsActive(i) /\ Host!NotActivated(i) => HostGuestsInv' /\ HostRunning' = HostRunning
         /\ Host!Rejected(i) => HostGuestsInv' /\ HostRunning' = HostRunning
         /\ Host!Callback(i) => HostGuestsInv' /\ HostRunning' \subseteq HostRunning
<1> USE DEF HostGuestsInv
<1>1. /\ sessions \in [Ids -> Host!Grants \cup {None}]
      /\ states \in [Ids -> {"active", "failed", None}]
  BY DEF HostGuestTypes
<1>2. ASSUME Host!Activated(i) PROVE HostGuestsInv' /\ HostRunning' = HostRunning \cup {i}
  <2> PICK g \in Host!Grant(i) : \E out \in Host!Outputs(g) :
            /\ Host!Emit(out) /\ sessions' = [sessions EXCEPT ![i] = g]
            /\ states' = [states EXCEPT ![i] = "active"]
    BY <1>2 DEF Host!Activated
  <2>1. PICK out \in Host!Outputs(g) :
            /\ Host!Emit(out) /\ sessions' = [sessions EXCEPT ![i] = g]
            /\ states' = [states EXCEPT ![i] = "active"]
    OBVIOUS
  <2>2. g \in Host!Grants /\ g # None
    BY ApplicationAssumption DEF Host!HostAssumption, Host!Grant, Host!Grants
  <2>3. /\ sessions' \in [Ids -> Host!Grants \cup {None}]
        /\ states' \in [Ids -> {"active", "failed", None}]
        /\ sessions'[i] # None /\ \A j \in Ids : j # i => sessions'[j] = sessions[j] /\ states'[j] = states[j]
    BY <1>1, <2>1, <2>2
  <2>4. Host!ActiveIsRunning'
    BY <2>3 DEF Host!ActiveIsRunning, Host!IsActive
  <2>5. HostRunning' = HostRunning \cup {i}
    BY <2>3 DEF HostRunning, Host!IsActive
  <2> QED BY <2>1, <2>3, <2>4, <2>5, HostEmits
<1>3. ASSUME ~Host!IsActive(i), Host!NotActivated(i) PROVE HostGuestsInv' /\ HostRunning' = HostRunning
  BY <1>3, HostWithdraws DEF HostRunning, Host!IsActive
<1>4. ASSUME Host!Rejected(i) PROVE HostGuestsInv' /\ HostRunning' = HostRunning
  <2>1. UNCHANGED <<sessions, queue, seen>> /\ states' \in [Ids -> {"active", "failed", None}]
        /\ \A j \in Ids : states'[j] = "active" => states[j] = "active"
    BY <1>1, <1>4 DEF Host!Rejected
  <2> QED BY <2>1 DEF HostGuestTypes, Host!EventsAccounted, Host!Queued, HostOrdered, Host!PublishedInOrder,
                      Host!ActiveIsRunning, Host!IsActive, HostRunning
<1>5. ASSUME Host!Callback(i) PROVE HostGuestsInv' /\ HostRunning' \subseteq HostRunning
  <2>1. PICK out \in Host!Outputs(sessions[i]) :
            /\ Host!Emit(out)
            /\ \/ UNCHANGED <<sessions, states>>
               \/ sessions' = Host!WithoutSession(i) /\ states' = Host!WithFailure(i)
    BY <1>5 DEF Host!Callback
  <2>2. /\ sessions' \in [Ids -> Host!Grants \cup {None}]
        /\ states' \in [Ids -> {"active", "failed", None}]
        /\ \A j \in Ids : /\ sessions'[j] # None => sessions[j] # None
                          /\ states'[j] = "active" => states[j] = "active" /\ sessions'[j] = sessions[j]
    BY <1>1, <2>1 DEF Host!WithoutSession, Host!WithFailure
  <2>3. Host!ActiveIsRunning'
    BY <2>2 DEF Host!ActiveIsRunning, Host!IsActive
  <2>4. HostRunning' \subseteq HostRunning
    BY <2>2 DEF HostRunning, Host!IsActive
  <2> QED BY <2>1, <2>2, <2>3, <2>4, HostEmits
<1> QED BY <1>2, <1>3, <1>4, <1>5

LEMMA HostGuestsStay ==
  ASSUME HostGuestsInv, UNCHANGED Host!guests
  PROVE  HostGuestsInv' /\ HostRunning' = HostRunning
BY DEF HostGuestsInv, Host!guests, HostGuestTypes, Host!EventsAccounted, Host!Queued, HostOrdered, Host!PublishedInOrder,
       Host!ActiveIsRunning, Host!IsActive, HostRunning

-----------------------------------------------------------------------------
\* An operation that drains and goes on is one.
LEMMA HostDrains ==
  ASSUME NEW c \in Host!Calls, NEW onward \in Host!Places
  PROVE  /\ Host!Drained(c, onward) \in Host!Calls
         /\ Host!Drained(c, onward).op = c.op /\ Host!Drained(c, onward).todo = c.todo
         /\ Host!Drained(c, onward).cur = c.cur
         /\ Host!Drained(c, onward).at = "drain" /\ Host!Drained(c, onward).next = onward
<1>1. MaxPerDrain \in 0..MaxPerDrain
  BY ApplicationAssumption DEF Host!HostAssumption
<1>2. "drain" \in Host!Places
  BY DEF Host!Places
<1> QED BY <1>1, <1>2 DEF Host!Drained, Host!Calls

\* A package less to visit.
LEMMA HostVisitsOne ==
  ASSUME call \in Host!Calls, NEW i
  PROVE  /\ [call EXCEPT !.todo = @ \ {i}] \in Host!Calls
         /\ [call EXCEPT !.todo = @ \ {i}].op = call.op
         /\ [call EXCEPT !.todo = @ \ {i}].todo = call.todo \ {i}
         /\ [call EXCEPT !.todo = @ \ {i}].at = call.at
         /\ [call EXCEPT !.todo = @ \ {i}].next = call.next
         /\ [call EXCEPT !.todo = @ \ {i}].cur = call.cur
BY DEF Host!Calls

\* A package that was activated is delivered to after the drain.
LEMMA HostDrainsFirst ==
  ASSUME NEW c \in Host!Calls, NEW i \in Ids
  PROVE  /\ Host!Drained([c EXCEPT !.cur = i], "deliver") \in Host!Calls
         /\ Host!Drained([c EXCEPT !.cur = i], "deliver").op = c.op
         /\ Host!Drained([c EXCEPT !.cur = i], "deliver").todo = c.todo
         /\ Host!Drained([c EXCEPT !.cur = i], "deliver").cur = i
         /\ Host!Drained([c EXCEPT !.cur = i], "deliver").at = "drain"
         /\ Host!Drained([c EXCEPT !.cur = i], "deliver").next = "deliver"
<1>1. MaxPerDrain \in 0..MaxPerDrain
  BY ApplicationAssumption DEF Host!HostAssumption
<1>2. "drain" \in Host!Places /\ "deliver" \in Host!Places
  BY DEF Host!Places
<1>3. Host!Drained([c EXCEPT !.cur = i], "deliver") =
         [c EXCEPT !.cur = i, !.at = "drain", !.next = "deliver", !.left = MaxPerDrain]
  BY DEF Host!Drained, Host!Calls
<1> QED BY <1>1, <1>2, <1>3 DEF Host!Calls

\* A package of the loop is delivered to onward, or the loop is over with it.
LEMMA HostDelivers ==
  ASSUME NEW c \in Host!Calls, NEW i \in Ids
  PROVE  /\ [c EXCEPT !.cur = i, !.at = "deliver"] \in Host!Calls
         /\ [c EXCEPT !.cur = i, !.at = "deliver"].op = c.op
         /\ [c EXCEPT !.cur = i, !.at = "deliver"].todo = c.todo
         /\ [c EXCEPT !.cur = i, !.at = "deliver"].cur = i
         /\ [c EXCEPT !.cur = i, !.at = "deliver"].at = "deliver"
         /\ [c EXCEPT !.cur = i, !.at = "deliver"].next = c.next
BY DEF Host!Calls, Host!Places

LEMMA HostEndsLoop ==
  ASSUME NEW c \in Host!Calls
  PROVE  /\ [c EXCEPT !.at = "end"] \in Host!Calls
         /\ [c EXCEPT !.at = "end"].op = c.op /\ [c EXCEPT !.at = "end"].todo = c.todo
         /\ [c EXCEPT !.at = "end"].at = "end" /\ [c EXCEPT !.at = "end"].next = c.next
         /\ [c EXCEPT !.at = "end"].cur = c.cur
BY DEF Host!Calls, Host!Places


-----------------------------------------------------------------------------
\* A step that leaves an operation where its packages are visited, and the guests.
LEMMA HostLoopKeeps ==
  ASSUME HostInv, Host!Loop
  PROVE  HostInv'
<1> USE DEF HostInv
<1>1. PICK i \in call.todo :
          LET c == [call EXCEPT !.todo = @ \ {i}] IN
          CASE call.op = "load" ->
                 \/ Host!LoadOne(i)
                 \/ Host!IsActive(i) /\ call' = Host!Drained(c, "loop") /\ UNCHANGED Host!guests
            [] call.op \in {"loadall", "startup"} ->
                 IF Host!IsActive(i) THEN call' = c /\ UNCHANGED Host!guests ELSE Host!LoadOne(i)
            [] call.op \in {"event", "command"} ->
                 IF Host!IsActive(i)
                 THEN call' = [c EXCEPT !.cur = i, !.at = "deliver"] /\ UNCHANGED Host!guests
                 ELSE Host!LoadOne(i)
            [] call.op \in {"tick", "named"} ->
                 /\ call' = c
                 /\ IF Host!IsActive(i) /\ (call.op = "tick" \/ sessions[i] = "events")
                    THEN Host!Callback(i) ELSE UNCHANGED Host!guests
  BY DEF Host!Loop
<1> PICK c : c = [call EXCEPT !.todo = @ \ {i}]
  OBVIOUS
<1>2. call.at = "loop" /\ UNCHANGED <<registry, nested>> /\ call.op \in Host!Ops
      /\ call.todo \subseteq Ids
  BY DEF Host!Loop, Host!Calls
<1>3. call.op \in {"load", "loadall", "startup", "tick", "event", "named", "command"}
      /\ call.op \notin HostUnloading
  BY <1>2 DEF HostProgress, Host!Ops, HostUnloading
<1>4. i \in registry /\ i \in Ids
  BY <1>2, <1>3 DEF HostProgress
<1>5. /\ c \in Host!Calls /\ c.op = call.op /\ c.todo = call.todo \ {i} /\ c.at = call.at
      /\ c.next = call.next /\ c.cur = call.cur
  BY HostVisitsOne
<1>6. /\ c.todo \subseteq registry /\ c.next \notin {"unload", "commit"} /\ c.op # "idle"
      /\ c.op \notin HostUnloading
  BY <1>3, <1>5 DEF HostProgress
\* What the call becomes, and what becomes of the guests.
<1> DEFINE Proceeds(d) ==
              \/ d = c
              \/ \E onward \in {"loop", "end"} : d = Host!Drained(c, onward)
              \/ d = Host!Drained([c EXCEPT !.cur = i], "deliver")
              \/ d = [c EXCEPT !.cur = i, !.at = "deliver"]
              \/ d = [c EXCEPT !.at = "end"]
<1>7. ASSUME Host!LoadOne(i) PROVE Proceeds(call') /\ HostGuestsInv' /\ HostRunning' \subseteq HostRunning \cup {i}
  <2>1. CASE Host!Activated(i) /\ ~Host!IsActive(i) /\ Proceeds(call')
    BY <1>4, <2>1, HostGuestCalls
  <2>2. CASE Host!NotActivated(i) /\ ~Host!IsActive(i) /\ Proceeds(call')
    BY <1>4, <2>2, HostGuestCalls
  <2>3. CASE Host!Rejected(i) /\ Proceeds(call')
    BY <1>4, <2>3, HostGuestCalls
  <2>4. Proceeds(call')
    BY <1>5, <1>7 DEF Host!LoadOne
  <2> QED BY <1>7, <2>1, <2>2, <2>3, <2>4 DEF Host!LoadOne
<1>8. Proceeds(call') /\ HostGuestsInv' /\ HostRunning' \subseteq HostRunning \cup {i}
  <2>1. CASE call.op = "load"
    <3>1. Host!LoadOne(i) \/ (Host!IsActive(i) /\ call' = Host!Drained(c, "loop") /\ UNCHANGED Host!guests)
      BY <1>1, <2>1
    <3> QED BY <1>7, <3>1, HostGuestsStay
  <2>2. CASE call.op \in {"loadall", "startup"}
    <3>1. Host!LoadOne(i) \/ (call' = c /\ UNCHANGED Host!guests)
      BY <1>1, <2>2
    <3> QED BY <1>7, <3>1, HostGuestsStay
  <2>3. CASE call.op \in {"event", "command"}
    <3>1. Host!LoadOne(i) \/ (call' = [c EXCEPT !.cur = i, !.at = "deliver"] /\ UNCHANGED Host!guests)
      BY <1>1, <2>3
    <3> QED BY <1>7, <3>1, HostGuestsStay
  <2>4. CASE call.op \in {"tick", "named"}
    <3>1. call' = c /\ (Host!Callback(i) \/ UNCHANGED Host!guests)
      BY <1>1, <2>4
    <3> QED BY <1>4, <3>1, HostGuestCalls, HostGuestsStay
  <2> QED BY <1>3, <2>1, <2>2, <2>3, <2>4
<1> DEFINE Sound(d) ==
              /\ d \in Host!Calls /\ d.op \notin HostUnloading /\ d.op # "idle"
              /\ d.todo \subseteq registry
              /\ d.at \notin {"unload", "commit"} /\ d.next \notin {"unload", "commit"}
              /\ d.at = "deliver" \/ (d.at = "drain" /\ d.next = "deliver") => d.cur \in Ids
<1>9. Sound(call')
  <2>1. CASE call' = c
    BY <1>2, <1>5, <1>6, <2>1
  <2>2. ASSUME NEW onward \in {"loop", "end"}, call' = Host!Drained(c, onward)
        PROVE  Sound(call')
    <3>1. onward \in Host!Places
      BY DEF Host!Places
    <3>2. /\ call' \in Host!Calls /\ call'.op = c.op /\ call'.todo = c.todo
          /\ call'.at = "drain" /\ call'.next = onward
      BY <1>5, <2>2, <3>1, HostDrains
    <3> QED BY <1>6, <3>2
  <2>3. CASE call' = Host!Drained([c EXCEPT !.cur = i], "deliver")
    <3>3. /\ call' \in Host!Calls /\ call'.op = c.op /\ call'.todo = c.todo /\ call'.cur = i
          /\ call'.at = "drain" /\ call'.next = "deliver"
      BY <1>4, <1>5, <2>3, HostDrainsFirst
    <3> QED BY <1>4, <1>6, <3>3
  <2>4. CASE call' = [c EXCEPT !.cur = i, !.at = "deliver"]
    <3>1. /\ call' \in Host!Calls /\ call'.op = c.op /\ call'.todo = c.todo /\ call'.cur = i
          /\ call'.at = "deliver" /\ call'.next = c.next
      BY <1>4, <1>5, <2>4, HostDelivers
    <3> QED BY <1>4, <1>6, <3>1
  <2>5. CASE call' = [c EXCEPT !.at = "end"]
    BY <1>4, <1>5, <1>6, <2>5, HostEndsLoop
  <2> QED BY <1>8, <2>1, <2>2, <2>3, <2>4, <2>5
<1>10. HostProgress'
  BY <1>2, <1>9 DEF HostProgress, HostUnloading
<1>11. HostRunning' \subseteq registry'
  BY <1>2, <1>4, <1>8
<1> QED BY <1>2, <1>8, <1>9, <1>10, <1>11

\* A package is called with the event or the command it was activated for.
LEMMA HostDeliverKeeps ==
  ASSUME HostInv, Host!Deliver
  PROVE  HostInv'
<1> USE DEF HostInv
<1>1. /\ call.at = "deliver" /\ call.cur \in Ids /\ UNCHANGED <<registry, nested>>
      /\ call' = [call EXCEPT !.cur = None, !.at = "loop"]
      /\ Host!Callback(call.cur) \/ UNCHANGED Host!guests
  BY DEF Host!Deliver, HostProgress
<1>2. HostGuestsInv' /\ HostRunning' \subseteq HostRunning
  BY <1>1, HostGuestCalls, HostGuestsStay
<1>3. /\ call' \in Host!Calls /\ call'.op = call.op /\ call'.todo = call.todo
      /\ call'.at = "loop" /\ call'.next = call.next
  BY <1>1 DEF Host!Calls, Host!Places
<1>4. call.op \notin HostUnloading /\ call.op # "idle"
  BY <1>1 DEF HostProgress
<1>5. HostProgress'
  BY <1>1, <1>3, <1>4 DEF HostProgress, HostUnloading
<1> QED BY <1>1, <1>2, <1>3, <1>5

\* No package is left to visit.
LEMMA HostLoopEndsKeeps ==
  ASSUME HostInv, Host!LoopEnds
  PROVE  HostInv'
<1> USE DEF HostInv
<1>1. /\ call.at = "loop" /\ UNCHANGED <<registry, nested>> /\ UNCHANGED Host!guests
      /\ call' = [call EXCEPT !.at = "end"] \/ call' = Host!Drained(call, "end")
  BY DEF Host!LoopEnds
<1>2. HostGuestsInv' /\ HostRunning' = HostRunning
  BY <1>1, HostGuestsStay
<1>3. call.op \notin HostUnloading /\ call.op # "idle"
  BY <1>1 DEF HostProgress
<1>4. /\ call' \in Host!Calls /\ call'.op = call.op /\ call'.todo = call.todo
      /\ call'.at \in {"end", "drain"} /\ call'.next \in {call.next, "end"}
      /\ call'.at = "drain" => call'.next = "end"
  <2>1. "end" \in Host!Places
    BY DEF Host!Places
  <2>2. CASE call' = Host!Drained(call, "end")
    BY <2>1, <2>2, HostDrains
  <2>3. CASE call' = [call EXCEPT !.at = "end"]
    BY <2>1, <2>3 DEF Host!Calls
  <2> QED BY <1>1, <2>2, <2>3
<1>5. HostProgress'
  BY <1>1, <1>3, <1>4 DEF HostProgress, HostUnloading
<1> QED BY <1>1, <1>2, <1>4, <1>5

\* A package less runs, and a package less is to be unloaded.
LEMMA HostUnloadOneKeeps ==
  ASSUME HostInv, Host!UnloadOne
  PROVE  HostInv'
<1> USE DEF HostInv
<1>1. PICK i \in call.todo :
          /\ call' = [call EXCEPT !.todo = @ \ {i}]
          /\ sessions' = [sessions EXCEPT ![i] = None]
          /\ states' = [states EXCEPT ![i] = None]
          /\ IF Host!IsActive(i) THEN \E out \in Host!Outputs(sessions[i]) : Host!Emit(out) ELSE UNCHANGED <<queue, seen>>
  BY DEF Host!UnloadOne
<1>2. call.at = "unload" /\ UNCHANGED <<registry, nested>> /\ i \in Ids
  BY DEF Host!UnloadOne, Host!Calls
<1>3. /\ call' \in Host!Calls /\ call'.op = call.op /\ call'.todo = call.todo \ {i}
      /\ call'.at = "unload" /\ call'.next = call.next
  BY <1>1, <1>2, HostVisitsOne
<1>4. /\ sessions \in [Ids -> Host!Grants \cup {None}]
      /\ states \in [Ids -> {"active", "failed", None}]
  BY DEF HostGuestsInv, HostGuestTypes
<1>5. /\ sessions' \in [Ids -> Host!Grants \cup {None}]
      /\ states' \in [Ids -> {"active", "failed", None}]
      /\ sessions'[i] = None /\ states'[i] = None
      /\ \A j \in Ids : j # i => sessions'[j] = sessions[j] /\ states'[j] = states[j]
  BY <1>1, <1>2, <1>4
<1>6. Host!ActiveIsRunning'
  <2>1. None # "active"
    BY ApplicationAssumption DEF Host!HostAssumption
  <2> QED BY <1>5, <2>1 DEF HostGuestsInv, Host!ActiveIsRunning, Host!IsActive
<1>7. HostRunning' = HostRunning \ {i}
  BY <1>2, <1>5 DEF HostRunning, Host!IsActive
<1>8. HostGuestsInv'
  <2>1. CASE Host!IsActive(i)
    <3>1. PICK out \in Host!Outputs(sessions[i]) : Host!Emit(out)
      BY <1>1, <2>1
    <3> QED BY <1>5, <1>6, <3>1, HostEmits
  <2>2. CASE UNCHANGED <<queue, seen>>
    BY <1>5, <1>6, <2>2 DEF HostGuestsInv, HostGuestTypes, Host!EventsAccounted, Host!Queued, HostOrdered, Host!PublishedInOrder
  <2> QED BY <1>1, <2>1, <2>2
<1>9. HostProgress'
  BY <1>2, <1>3, <1>7 DEF HostProgress, HostUnloading
<1> QED BY <1>2, <1>3, <1>7, <1>8, <1>9

\* Nothing is left to unload: when everything was, nothing runs.
LEMMA HostUnloadEndsKeeps ==
  ASSUME HostInv, Host!UnloadEnds
  PROVE  HostInv'
<1> USE DEF HostInv
<1> PICK onward : onward = IF call.op \in {"scan", "setroots"} THEN "commit" ELSE "end"
  OBVIOUS
<1>1. /\ call.at = "unload" /\ call.todo = {} /\ UNCHANGED <<registry, nested>> /\ UNCHANGED Host!guests
      /\ call' = Host!Drained(call, onward) /\ onward \in Host!Places
  BY DEF Host!UnloadEnds, Host!Places
<1>2. HostGuestsInv' /\ HostRunning' = HostRunning
  BY <1>1, HostGuestsStay
<1>3. /\ call' \in Host!Calls /\ call'.op = call.op /\ call'.todo = call.todo
      /\ call'.at = "drain" /\ call'.next = onward
  BY <1>1, HostDrains
<1>4. call.op \in HostUnloading /\ (onward = "commit" => HostRunning = {})
  BY <1>1 DEF HostProgress
<1>5. HostProgress'
  BY <1>1, <1>2, <1>3, <1>4 DEF HostProgress, HostUnloading
<1> QED BY <1>1, <1>2, <1>3, <1>5

\* The registry is replaced while nothing runs.
LEMMA HostCommitKeeps ==
  ASSUME HostInv, Host!Commit
  PROVE  HostInv'
<1> USE DEF HostInv
<1>1. /\ call.at = "commit" /\ registry' \subseteq Ids /\ UNCHANGED nested /\ UNCHANGED Host!guests
      /\ call' = [call EXCEPT !.at = "end"]
  BY DEF Host!Commit
<1>2. HostGuestsInv' /\ HostRunning' = HostRunning
  BY <1>1, HostGuestsStay
<1>3. /\ call' \in Host!Calls /\ call'.op = call.op /\ call'.todo = call.todo
      /\ call'.at = "end" /\ call'.next = call.next
  BY <1>1 DEF Host!Calls, Host!Places
<1>4. call.op \in HostUnloading /\ HostRunning = {}
  BY <1>1 DEF HostProgress
<1>5. HostProgress'
  BY <1>3, <1>4 DEF HostProgress, HostUnloading
<1> QED BY <1>1, <1>2, <1>3, <1>4, <1>5

\* The guests may have been called; the operation stays where it is.
LEMMA HostProgressStays ==
  ASSUME HostInv, call' = call, registry' = registry, HostRunning' \subseteq HostRunning
  PROVE  HostProgress'
BY DEF HostInv, HostProgress

LEMMA HostPublishKeeps ==
  ASSUME HostInv, Host!Publish
  PROVE  HostInv'
<1> USE DEF HostInv
<1>1. /\ call.at = "drain" /\ queue # <<>> /\ call.left > 0
      /\ seen' = [seen EXCEPT !.published = @ \cup ({Head(queue)} \cap Host!Watched)]
      /\ queue' = Tail(queue)
      /\ UNCHANGED <<registry, sessions, states>> /\ nested' = registry
  BY DEF Host!Publish, Host!Taken, Host!MayPublish
<1>2. HostGuestsInv' /\ HostRunning' = HostRunning
  BY <1>1, HostPublishes DEF HostRunning, Host!IsActive
<1>3. call' = [call EXCEPT !.left = call.left - 1]
  BY <1>1 DEF Host!Publish
<1>4. call.left - 1 \in 0..MaxPerDrain
  BY <1>1, ApplicationAssumption DEF Host!HostAssumption, Host!Calls
<1>5. /\ call' \in Host!Calls /\ call'.op = call.op /\ call'.todo = call.todo
      /\ call'.at = call.at /\ call'.next = call.next /\ call'.cur = call.cur
  BY <1>3, <1>4 DEF Host!Calls
<1>6. HostProgress'
  BY <1>1, <1>2, <1>5 DEF HostProgress
<1> QED BY <1>1, <1>2, <1>5, <1>6

\* The operation goes on where it drained.
LEMMA HostDrainEndsKeeps ==
  ASSUME HostInv, Host!DrainEnds
  PROVE  HostInv'
<1> USE DEF HostInv
<1>1. /\ call.at = "drain" /\ UNCHANGED <<registry, nested>> /\ UNCHANGED Host!guests
      /\ call' = [call EXCEPT !.at = call.next, !.next = "end", !.left = 0]
  BY DEF Host!DrainEnds
<1>2. HostGuestsInv' /\ HostRunning' = HostRunning
  BY <1>1, HostGuestsStay
<1>3. 0 \in 0..MaxPerDrain /\ "end" \in Host!Places
  BY ApplicationAssumption DEF Host!HostAssumption, Host!Places
<1>4. /\ call' \in Host!Calls /\ call'.op = call.op /\ call'.todo = call.todo
      /\ call'.at = call.next /\ call'.next = "end" /\ call'.cur = call.cur
  BY <1>1, <1>3 DEF Host!Calls
<1>5. HostProgress'
  BY <1>1, <1>2, <1>4 DEF HostProgress, HostUnloading
<1> QED BY <1>1, <1>2, <1>4, <1>5

\* A nested dispatch calls packages that run already; it loads none.
LEMMA HostNestedKeeps ==
  ASSUME HostInv, Host!NestedStep \/ Host!NestedEnds
  PROVE  HostInv'
<1> USE DEF HostInv
<1>1. UNCHANGED <<registry, call>>
  BY DEF Host!NestedStep, Host!NestedEnds
<1>2. (nested' = None \/ nested' \subseteq Ids) /\ HostGuestsInv' /\ HostRunning' \subseteq HostRunning
  <2>1. CASE Host!NestedEnds
    BY <2>1, HostGuestsStay DEF Host!NestedEnds
  <2>2. CASE Host!NestedStep
    <3>1. nested # None /\ nested \subseteq Ids
      BY <2>2 DEF Host!NestedStep
    <3>2. PICK i \in nested :
             /\ nested' = nested \ {i}
             /\ IF ~Host!Receives(i) THEN UNCHANGED Host!guests
                ELSE IF ~Host!IsActive(i) THEN Host!Activated(i)
                ELSE IF sessions[i] = "events" THEN Host!Callback(i)
                ELSE UNCHANGED Host!guests
      BY <2>2 DEF Host!NestedStep
    <3>3. UNCHANGED Host!guests \/ Host!Callback(i)
      BY <3>2 DEF Host!Receives
    <3> QED BY <3>1, <3>2, <3>3, HostGuestCalls, HostGuestsStay
  <2> QED BY <2>1, <2>2
<1>3. HostProgress'
  BY <1>1, <1>2, HostProgressStays
<1> QED BY <1>1, <1>2, <1>3

\* An operation goes over registered packages, or over whatever runs.
LEMMA HostBeginKeeps ==
  ASSUME HostInv, Host!Begin \/ Host!Tick
  PROVE  HostInv'
<1> USE DEF HostInv
<1>1. UNCHANGED <<registry, nested>> /\ UNCHANGED Host!guests
  BY DEF Host!Begin, Host!Tick
<1>2. HostGuestsInv' /\ HostRunning' = HostRunning
  BY <1>1, HostGuestsStay
<1>3. PICK op \in Host!Ops \ {"idle"}, todo \in SUBSET Ids, where \in Host!Places :
          /\ Host!Enter(op, todo, where)
          /\ op \notin HostUnloading => where = "loop" /\ todo \subseteq registry
          /\ op \in HostUnloading => where = "unload" /\ (op # "unload" => todo = Ids)
  <2>1. CASE Host!Begin
    <3>1. /\ \A i \in registry : {i} \subseteq registry /\ {i} \subseteq Ids
          /\ registry \cap Startup \subseteq registry /\ registry \cap Listening \subseteq registry
          /\ registry \cap Startup \subseteq Ids /\ registry \cap Listening \subseteq Ids
          /\ \A i \in Ids : {i} \subseteq Ids
      OBVIOUS
    <3>2. {"load", "command", "loadall", "startup", "event", "named", "tick"} \subseteq (Host!Ops \ {"idle"}) \ HostUnloading
          /\ {"unload", "unloadall", "scan", "setroots"} \subseteq Host!Ops \ {"idle"}
          /\ {"loop", "unload"} \subseteq Host!Places
          /\ {"unload", "unloadall", "scan", "setroots"} = HostUnloading
      BY DEF Host!Ops, HostUnloading, Host!Places
    <3>3. CASE \E i \in registry : Host!Enter("load", {i}, "loop") \/ Host!Enter("command", {i}, "loop")
      BY <3>1, <3>2, <3>3
    <3>4. CASE Host!Enter("loadall", registry, "loop")
      BY <3>2, <3>4
    <3>5. CASE Host!Enter("startup", registry \cap Startup, "loop")
      BY <3>1, <3>2, <3>5
    <3>6. CASE Host!Enter("event", registry \cap Listening, "loop")
      BY <3>1, <3>2, <3>6
    <3>7. CASE Host!Enter("named", registry, "loop")
      BY <3>2, <3>7
    <3>8. CASE \E i \in Ids : Host!Enter("unload", {i}, "unload")
      BY <3>1, <3>2, <3>8
    <3>9. CASE \E op \in {"unloadall", "scan", "setroots"} : Host!Enter(op, Ids, "unload")
      BY <3>2, <3>9
    <3> QED BY <2>1, <3>3, <3>4, <3>5, <3>6, <3>7, <3>8, <3>9 DEF Host!Begin
  <2>2. CASE Host!Tick
    <3>1. "tick" \in Host!Ops \ {"idle"} /\ "tick" \notin HostUnloading /\ "loop" \in Host!Places
      BY DEF Host!Ops, HostUnloading, Host!Places
    <3> QED BY <2>2, <3>1 DEF Host!Tick
  <2> QED BY <2>1, <2>2
<1>4. 0 \in 0..MaxPerDrain /\ "end" \in Host!Places
  BY ApplicationAssumption DEF Host!HostAssumption, Host!Places
<1>5. /\ call' \in Host!Calls /\ call'.op = op /\ call'.todo = todo
      /\ call'.at = where /\ call'.next = "end"
  BY <1>3, <1>4 DEF Host!Enter, Host!Idle, Host!Calls
<1>6. HostProgress'
  <2>1. HostRunning \subseteq Ids
    BY DEF HostRunning
  <2>2. CASE op \in HostUnloading
    BY <1>1, <1>2, <1>3, <1>5, <2>1, <2>2 DEF HostProgress, HostUnloading
  <2>3. CASE op \notin HostUnloading
    BY <1>1, <1>2, <1>3, <1>5, <2>3 DEF HostProgress
  <2> QED BY <2>2, <2>3
<1> QED BY <1>1, <1>2, <1>5, <1>6

LEMMA HostReturnKeeps ==
  ASSUME HostInv, Host!Return
  PROVE  HostInv'
<1> USE DEF HostInv
<1>1. /\ call' = Host!Idle /\ UNCHANGED <<registry, nested>> /\ UNCHANGED Host!guests
  BY DEF Host!Return
<1>2. 0 \in 0..MaxPerDrain
  BY ApplicationAssumption DEF Host!HostAssumption
<1>3. call' \in Host!Calls /\ call'.op = "idle" /\ call'.todo = {} /\ call'.at = "end" /\ call'.next = "end"
  BY <1>1, <1>2 DEF Host!Idle, Host!Calls, Host!Ops, Host!Places
<1>4. HostProgress'
  BY <1>3 DEF HostProgress, HostUnloading
<1> QED BY <1>1, <1>3, <1>4, HostGuestsStay

-----------------------------------------------------------------------------
LEMMA HostBegins == Host!Init => HostInv
<1> SUFFICES ASSUME Host!Init PROVE HostInv
  OBVIOUS
<1>1. 0 \in 0..MaxPerDrain /\ MaxQueued \in Nat /\ None # "active"
  BY ApplicationAssumption DEF Host!HostAssumption
<1>2. call \in Host!Calls /\ call.op = "idle" /\ call.todo = {} /\ call.at = "end" /\ call.next = "end"
  BY <1>1 DEF Host!Init, Host!Idle, Host!Calls, Host!Ops, Host!Places
<1>3. HostProgress
  BY <1>2 DEF HostProgress, HostUnloading
<1>4. Len(queue) = 0 /\ queue \in Seq(Host!Events) /\ DOMAIN queue = {}
  BY DEF Host!Init
<1>5. HostGuestTypes
  BY <1>1, <1>4 DEF Host!Init, HostGuestTypes
<1>6. Host!Queued = {} /\ seen.emitted = {} /\ seen.published = {} /\ seen.withdrawn = {}
  BY <1>4 DEF Host!Init, Host!Queued
<1>7. Host!EventsAccounted
  BY <1>6 DEF Host!EventsAccounted
<1>8. HostOrdered
  BY <1>4, <1>6 DEF HostOrdered, Host!PublishedInOrder
<1>9. Host!ActiveIsRunning /\ HostRunning = {}
  BY <1>1 DEF Host!Init, Host!ActiveIsRunning, HostRunning, Host!IsActive
<1> QED BY <1>2, <1>3, <1>5, <1>7, <1>8, <1>9 DEF HostInv, HostGuestsInv, Host!Init

LEMMA HostSteps == HostInv /\ [Host!Next]_(Host!vars) => HostInv'
<1> SUFFICES ASSUME HostInv, [Host!Next]_(Host!vars) PROVE HostInv'
  OBVIOUS
<1>1. CASE Host!Begin \/ Host!Tick
  BY <1>1, HostBeginKeeps
<1>2. CASE Host!Loop
  BY <1>2, HostLoopKeeps
<1>3. CASE Host!Deliver
  BY <1>3, HostDeliverKeeps
<1>4. CASE Host!LoopEnds
  BY <1>4, HostLoopEndsKeeps
<1>5. CASE Host!UnloadOne
  BY <1>5, HostUnloadOneKeeps
<1>6. CASE Host!UnloadEnds
  BY <1>6, HostUnloadEndsKeeps
<1>7. CASE Host!Commit
  BY <1>7, HostCommitKeeps
<1>8. CASE Host!Publish
  BY <1>8, HostPublishKeeps
<1>9. CASE Host!DrainEnds
  BY <1>9, HostDrainEndsKeeps
<1>10. CASE Host!NestedStep \/ Host!NestedEnds
  BY <1>10, HostNestedKeeps
<1>11. CASE Host!Return
  BY <1>11, HostReturnKeeps
<1>12. CASE UNCHANGED Host!vars
  <2>1. UNCHANGED <<registry, call, nested>> /\ UNCHANGED Host!guests
    BY <1>12 DEF Host!vars, Host!guests
  <2> QED BY <2>1, HostGuestsStay, HostProgressStays DEF HostInv
<1> QED BY <1>1, <1>2, <1>3, <1>4, <1>5, <1>6, <1>7, <1>8, <1>9, <1>10, <1>11, <1>12
        DEF Host!Next, Host!Step

LEMMA HostSafe == HostInv => Host!TypeOK /\ Host!EventsAccounted /\ Host!PublishedInOrder /\ Host!ActiveIsRunning /\ Host!RunningIsRegistered
BY DEF HostInv, HostGuestsInv, HostGuestTypes, Host!TypeOK, HostOrdered, Host!RunningIsRegistered, HostRunning

-----------------------------------------------------------------------------
(* The package store.                                                         *)
StoreKept(i) == [id |-> i, version |-> promised[i], whole |-> TRUE]
StoreBackups(n) == {b \in backups : b.name = n}

\* What was promised of the name, if it is an extension, is in place.
StoreInPlace(n) == n \in PackageIds /\ promised[n] # None => installed[n] = StoreKept(n)

(* What is true of a command on its way, by its step: it holds the lock; what  *)
(* was promised is in place before backups are purged, and no backup is left   *)
(* when the installed package is moved away.                                   *)
StoreOnItsWay(c, m) ==
    /\ m.name \in {m.id, Store!StagedAs(m)}
    /\ m.step # "lock" => lock = c
    /\ m.step \in {"stage", "copy"} => m.name = Store!StagedAs(m)
    /\ m.step = "commit" => m.name = m.id
    /\ m.step = "purge" => StoreInPlace(m.name)
    /\ m.step \in {"stage", "copy", "commit"} => StoreBackups(m.name) = {}
    /\ m.step = "swap" => installed[m.id] = None
    /\ m.step = "drop" => StoreInPlace(m.id)

StoreAllOnTheirWay == \A c \in Clients : cmd[c] # Store!Idle => StoreOnItsWay(c, cmd[c])

\* Recoverable where names are unrelated.
StoreNothingLost ==
    \A i \in PackageIds : promised[i] # None =>
        \/ installed[i] = StoreKept(i)
        \/ /\ installed[i] = None
           /\ StoreBackups(i) = {[name |-> i, package |-> StoreKept(i)]}

(* The inductive invariant.                                                    *)
StoreInv == Store!TypeOK /\ StoreAllOnTheirWay /\ StoreNothingLost

-----------------------------------------------------------------------------
(* What it means that a command goes on to another step.                       *)
LEMMA StoreGoesOn ==
  ASSUME Store!TypeOK, NEW c \in Clients, cmd[c] # Store!Idle, NEW s \in Store!Steps, Store!Goto(c, s)
  PROVE  /\ cmd' \in [Clients -> Store!Commands]
         /\ cmd'[c] \in Store!Commands /\ cmd'[c] # Store!Idle /\ cmd'[c] = [cmd[c] EXCEPT !.step = s]
         /\ cmd'[c].step = s /\ cmd'[c].id = cmd[c].id /\ cmd'[c].name = cmd[c].name
         /\ cmd'[c].kind = cmd[c].kind /\ cmd'[c].version = cmd[c].version
         /\ \A d \in Clients : d # c => cmd'[d] = cmd[d]
<1> DEFINE R == [kind : Store!Kinds, id : PackageIds, version : Versions, replace : BOOLEAN,
                 name : Store!Names, step : Store!Steps]
           m == cmd[c]
           n == [m EXCEPT !.step = s]
<1>1. m \in R
  BY DEF Store!TypeOK, Store!Commands
<1>2. n \in R /\ n.step = s /\ n.id = m.id /\ n.name = m.name /\ n.kind = m.kind
      /\ n.version = m.version
  BY <1>1
<1>3. n # Store!Idle
  <2>1. n.kind \in Store!Kinds
    BY <1>2
  <2> QED BY <2>1 DEF Store!Kinds, Store!Idle
<1>4. cmd' = [cmd EXCEPT ![c] = n]
  BY DEF Store!Goto
<1> HIDE DEF n
<1>5. cmd' \in [Clients -> Store!Commands] /\ cmd'[c] = n
  BY <1>2, <1>4 DEF Store!TypeOK, Store!Commands
<1>6. \A d \in Clients : d # c => cmd'[d] = cmd[d]
  BY <1>4 DEF Store!TypeOK
<1> QED BY <1>2, <1>3, <1>5, <1>6 DEF Store!Commands, n

\* Steps that a command may be in whatever is on disk.
StoreFree == {"sweep", "restore", "discard", "remove", "unlock"}

StoreDiskOK ==
    /\ installed \in [Store!Names -> Store!Packages \cup {None}]
    /\ staging \subseteq Store!Artifacts /\ backups \subseteq Store!Artifacts
    /\ promised \in [PackageIds -> Versions \cup {None}]

(* While a command holds the lock the others wait for it.                      *)
LEMMA StoreOthersWait ==
  ASSUME StoreAllOnTheirWay, NEW c \in Clients, lock = c,
         \A d \in Clients : d # c => cmd'[d] = cmd[d],
         cmd'[c] # Store!Idle => StoreOnItsWay(c, cmd[c])'
  PROVE  StoreAllOnTheirWay'
<1> SUFFICES ASSUME NEW d \in Clients, d # c, cmd'[d] # Store!Idle PROVE StoreOnItsWay(d, cmd[d])'
  BY DEF StoreAllOnTheirWay
<1>1. cmd'[d] = cmd[d] /\ StoreOnItsWay(d, cmd[d]) /\ cmd[d].step = "lock"
  BY DEF StoreAllOnTheirWay, StoreOnItsWay
<1> QED BY <1>1 DEF StoreOnItsWay, Store!StagedAs

(* A command that holds the lock goes on to a step that fits the disk.         *)
LEMMA StoreHolderGoesOn ==
  ASSUME StoreInv, NEW c \in Clients, cmd[c] # Store!Idle, cmd[c].step # "lock", UNCHANGED lock,
         NEW s \in Store!Steps \ {"lock"}, Store!Goto(c, s), StoreDiskOK', StoreNothingLost',
         NEW n, n = cmd[c].name, NEW i, i = cmd[c].id,
         s \in {"stage", "copy"} => n = Store!StagedAs(cmd[c]),
         s = "commit" => n = i,
         s = "purge" => StoreInPlace(n)',
         s \in {"stage", "copy", "commit"} => StoreBackups(n)' = {},
         s = "swap" => installed'[i] = None,
         s = "drop" => StoreInPlace(i)'
  PROVE  StoreInv'
<1>1. Store!TypeOK /\ StoreAllOnTheirWay /\ StoreOnItsWay(c, cmd[c]) /\ lock = c
  BY DEF StoreInv, StoreAllOnTheirWay, StoreOnItsWay
<1>2. /\ cmd' \in [Clients -> Store!Commands]
      /\ cmd'[c].step = s /\ cmd'[c].id = cmd[c].id /\ cmd'[c].name = cmd[c].name
      /\ cmd'[c].kind = cmd[c].kind
      /\ \A d \in Clients : d # c => cmd'[d] = cmd[d]
  BY <1>1, StoreGoesOn
<1>3. Store!StagedAs(cmd'[c]) = Store!StagedAs(cmd[c])
  BY <1>2 DEF Store!StagedAs
<1>4. StoreOnItsWay(c, cmd[c])'
  BY <1>1, <1>2, <1>3 DEF StoreOnItsWay, Store!StagedAs
<1>5. StoreAllOnTheirWay'
  BY <1>1, <1>2, <1>4, StoreOthersWait
<1> QED BY <1>1, <1>2, <1>5 DEF StoreInv, Store!TypeOK, StoreDiskOK

LEMMA StoreHolderIsFree ==
  ASSUME StoreInv, NEW c \in Clients, cmd[c] # Store!Idle, cmd[c].step # "lock", UNCHANGED lock,
         NEW s \in StoreFree, Store!Goto(c, s), StoreDiskOK', StoreNothingLost'
  PROVE  StoreInv'
BY StoreHolderGoesOn DEF StoreFree, Store!Steps

\* A command that fails is free.
LEMMA StoreFailIsFree ==
  ASSUME NEW c, Store!Fail(c)
  PROVE  \E s \in StoreFree : Store!Goto(c, s)
BY DEF Store!Fail, StoreFree

(* What is known of a command that holds the lock.                             *)
LEMMA StoreHolder ==
  ASSUME Store!StoreAssumption, Store!NamesUnrelated, StoreInv, NEW c \in Clients, cmd[c] # Store!Idle,
         cmd[c].step # "lock"
  PROVE  /\ StoreDiskOK /\ StoreNothingLost /\ StoreOnItsWay(c, cmd[c]) /\ lock = c
         /\ cmd[c] \in [kind : Store!Kinds, id : PackageIds, version : Versions, replace : BOOLEAN,
                        name : Store!Names, step : Store!Steps]
         /\ cmd[c].name \in {cmd[c].id, Store!Archive}
         /\ cmd[c].id \in PackageIds /\ cmd[c].id \in Store!Names /\ cmd[c].name \in Store!Names
         /\ \A S \in SUBSET Store!Artifacts : \A n \in Store!Names : Store!Matching(S, n) = {b \in S : b.name = n}
<1>1. /\ StoreDiskOK /\ StoreNothingLost /\ StoreOnItsWay(c, cmd[c]) /\ lock = c
      /\ cmd[c] \in Store!Commands
  BY DEF StoreInv, Store!TypeOK, StoreDiskOK, StoreAllOnTheirWay, StoreOnItsWay
<1>2. cmd[c] \in [kind : Store!Kinds, id : PackageIds, version : Versions, replace : BOOLEAN,
                  name : Store!Names, step : Store!Steps]
  BY <1>1 DEF Store!Commands
<1>3. cmd[c].name \in {cmd[c].id, Store!Archive}
  BY <1>1, <1>2 DEF StoreOnItsWay, Store!StagedAs
<1>4. cmd[c].id \in PackageIds /\ cmd[c].id \in Store!Names /\ cmd[c].name \in Store!Names
  BY <1>2 DEF Store!Names
<1>5. ASSUME NEW S \in SUBSET Store!Artifacts, NEW n \in Store!Names
      PROVE  Store!Matching(S, n) = {b \in S : b.name = n}
  <2>1. \A b \in S : b.name \in Store!Names
    BY DEF Store!Artifacts
  <2> QED BY <2>1 DEF Store!Matching, Store!NamesUnrelated
<1> QED BY <1>1, <1>2, <1>3, <1>4, <1>5

LEMMA StoreParts ==
  /\ \A a \in Store!Artifacts : Store!Part(a) \in Store!Artifacts /\ Store!Part(a).name = a.name
  /\ \A m \in Store!Commands \ {Store!Idle} :
        /\ Store!Staged(m) \in Store!Artifacts
        /\ Store!Staged(m).package = [id |-> m.id, version |-> m.version, whole |-> TRUE]
        /\ Store!Staged(m).package \in Store!Packages
<1>1. ASSUME NEW a \in Store!Artifacts PROVE Store!Part(a) \in Store!Artifacts /\ Store!Part(a).name = a.name
  <2>1. a \in [name : Store!Names, package : Store!Packages] /\ a.package \in Store!Packages
    BY DEF Store!Artifacts
  <2>2. [a.package EXCEPT !.whole = FALSE] \in Store!Packages
    BY <2>1 DEF Store!Packages
  <2>3. Store!Part(a) = [a EXCEPT !.package = [a.package EXCEPT !.whole = FALSE]]
    BY DEF Store!Part
  <2> QED BY <2>1, <2>2, <2>3 DEF Store!Artifacts
<1>2. ASSUME NEW m \in Store!Commands, m # Store!Idle
      PROVE  /\ Store!Staged(m) \in Store!Artifacts
             /\ Store!Staged(m).package = [id |-> m.id, version |-> m.version, whole |-> TRUE]
             /\ Store!Staged(m).package \in Store!Packages
  <2>1. m.id \in PackageIds /\ m.version \in Versions
    BY <1>2 DEF Store!Commands
  <2>2. Store!StagedAs(m) \in Store!Names
    BY <2>1 DEF Store!StagedAs, Store!Names
  <2> QED BY <2>1, <2>2 DEF Store!Staged, Store!Artifacts, Store!Packages
<1> QED BY <1>1, <1>2

(* NothingLost depends on what is installed, kept as a backup, and promised.   *)
LEMMA StoreStagingIsApart ==
  ASSUME StoreInv, UNCHANGED <<installed, backups, promised>>
  PROVE  StoreNothingLost'
BY DEF StoreInv, StoreNothingLost, StoreKept, StoreBackups

(* Nothing is lost of an extension that a step leaves alone.                   *)
LEMMA StoreLosesNothing ==
  ASSUME StoreNothingLost, NEW n,
         \A i \in PackageIds : i # n => /\ installed'[i] = installed[i] /\ promised'[i] = promised[i]
                                        /\ StoreBackups(i)' = StoreBackups(i),
         n \in PackageIds /\ promised'[n] # None =>
            \/ installed'[n] = StoreKept(n)'
            \/ installed'[n] = None /\ StoreBackups(n)' = {[name |-> n, package |-> StoreKept(n)']}
  PROVE  StoreNothingLost'
<1> SUFFICES ASSUME NEW i \in PackageIds, promised'[i] # None
             PROVE  \/ installed'[i] = StoreKept(i)'
                    \/ installed'[i] = None /\ StoreBackups(i)' = {[name |-> i, package |-> StoreKept(i)']}
  BY DEF StoreNothingLost
<1>1. CASE i = n
  BY <1>1
<1>2. CASE i # n
  BY <1>2 DEF StoreNothingLost, StoreKept
<1> QED BY <1>1, <1>2

-----------------------------------------------------------------------------
LEMMA StoreBeginKeeps ==
  ASSUME StoreInv, NEW c \in Clients, Store!Begin(c)
  PROVE  StoreInv'
<1>1. PICK m \in Store!Commands : cmd' = [cmd EXCEPT ![c] = m] /\ m.name \in {m.id, Store!StagedAs(m)}
                            /\ m.step = "lock"
  <2>1. PICK kind \in Store!Kinds, i \in PackageIds, v \in Versions, r \in BOOLEAN :
          cmd' = [cmd EXCEPT ![c] =
                 [kind |-> kind, id |-> i, version |-> v, replace |-> r,
                  name |-> IF kind = "archive" THEN Store!Archive ELSE i, step |-> "lock"]]
    BY DEF Store!Begin
  <2> DEFINE m == [kind |-> kind, id |-> i, version |-> v, replace |-> r,
                   name |-> IF kind = "archive" THEN Store!Archive ELSE i, step |-> "lock"]
  <2>2. m \in Store!Commands /\ m.step = "lock" /\ m.name \in {m.id, Store!StagedAs(m)}
    BY DEF Store!Commands, Store!Names, Store!Steps, Store!StagedAs
  <2> QED BY <2>1, <2>2
<1>2. UNCHANGED <<lock, Store!disk>>
  BY DEF Store!Begin
<1>3. cmd' \in [Clients -> Store!Commands] /\ \A d \in Clients : cmd'[d] = IF d = c THEN m ELSE cmd[d]
  BY <1>1 DEF StoreInv, Store!TypeOK
<1>4. StoreAllOnTheirWay'
  <2> SUFFICES ASSUME NEW d \in Clients, cmd'[d] # Store!Idle PROVE StoreOnItsWay(d, cmd[d])'
    BY DEF StoreAllOnTheirWay
  <2>1. CASE d = c
    BY <1>1, <1>3, <2>1 DEF StoreOnItsWay, Store!StagedAs
  <2>2. CASE d # c
    BY <1>2, <1>3, <2>2 DEF StoreInv, StoreAllOnTheirWay, StoreOnItsWay, StoreInPlace, StoreKept, StoreBackups, Store!StagedAs, Store!disk
  <2> QED BY <2>1, <2>2
<1> QED BY <1>2, <1>3, <1>4, StoreStagingIsApart DEF StoreInv, Store!TypeOK, Store!disk

(* Nobody holds the lock, so whoever is on the way waits for it.               *)
LEMMA StoreAcquireKeeps ==
  ASSUME Store!StoreAssumption, StoreInv, NEW c \in Clients, cmd[c] # Store!Idle, Store!Acquire(c)
  PROVE  StoreInv'
<1>1. /\ cmd[c].step = "lock" /\ lock = None /\ lock' = c /\ UNCHANGED Store!disk
      /\ \E s \in {"remove", "sweep"} : Store!Goto(c, s)
  BY DEF Store!Acquire
<1>2. PICK s \in {"remove", "sweep"} : Store!Goto(c, s)
  BY <1>1
<1>3. /\ cmd' \in [Clients -> Store!Commands]
      /\ cmd'[c].step = s /\ cmd'[c].id = cmd[c].id /\ cmd'[c].name = cmd[c].name
      /\ cmd'[c].kind = cmd[c].kind
      /\ \A d \in Clients : d # c => cmd'[d] = cmd[d]
  BY <1>2, StoreGoesOn DEF StoreInv, Store!Steps
<1>4. \A d \in Clients : cmd[d] # Store!Idle => cmd[d].step = "lock" /\ StoreOnItsWay(d, cmd[d])
  BY <1>1 DEF Store!StoreAssumption, StoreInv, StoreAllOnTheirWay, StoreOnItsWay
<1>5. ASSUME NEW d \in Clients, cmd'[d] # Store!Idle PROVE StoreOnItsWay(d, cmd[d])'
  <2>1. CASE d = c
    BY <1>1, <1>3, <1>4, <2>1 DEF StoreOnItsWay, Store!StagedAs
  <2>2. CASE d # c
    BY <1>3, <1>4, <1>5, <2>2 DEF StoreOnItsWay, Store!StagedAs
  <2> QED BY <2>1, <2>2
<1>6. StoreAllOnTheirWay'
  BY <1>5 DEF StoreAllOnTheirWay
<1> QED BY <1>1, <1>3, <1>6, StoreStagingIsApart DEF StoreInv, Store!TypeOK, Store!disk

(* Cleaning up after what was interrupted.                                     *)
LEMMA StoreSweepKeeps ==
  ASSUME Store!StoreAssumption, Store!NamesUnrelated, StoreInv, NEW c \in Clients, cmd[c] # Store!Idle, Store!Sweep(c)
  PROVE  StoreInv'
<1>1. /\ cmd[c].step = "sweep" /\ cmd[c].step # "lock"
      /\ UNCHANGED <<lock, installed, backups, promised>>
  BY DEF Store!Sweep
<1>2. StoreDiskOK /\ StoreNothingLost'
  BY <1>1, StoreHolder, StoreStagingIsApart
<1>3. \A a \in Store!Matching(staging, cmd[c].name) : Store!Part(a) \in Store!Artifacts
  BY <1>2, StoreParts DEF Store!Matching, StoreDiskOK
<1>4. StoreDiskOK'
  BY <1>1, <1>2, <1>3 DEF Store!Sweep, StoreDiskOK
<1>5. CASE \E s \in StoreFree : Store!Goto(c, s)
  BY <1>1, <1>2, <1>4, <1>5, StoreHolderIsFree
<1>6. CASE UNCHANGED cmd
  BY <1>1, <1>2, <1>4, <1>6 DEF StoreInv, Store!TypeOK, StoreDiskOK, StoreAllOnTheirWay, StoreOnItsWay, StoreInPlace, StoreKept,
                                StoreBackups, Store!StagedAs
<1> QED BY <1>5, <1>6, StoreFailIsFree DEF Store!Sweep, StoreFree

(* A backup is restored when nothing is installed, and then it is what was     *)
(* promised: afterwards what was promised is in place, and backups may go.     *)
LEMMA StoreRestoreKeeps ==
  ASSUME Store!StoreAssumption, Store!NamesUnrelated, StoreInv, NEW c \in Clients, cmd[c] # Store!Idle, Store!Restore(c)
  PROVE  StoreInv'
<1>0. /\ cmd[c].step = "restore" /\ cmd[c].step # "lock" /\ UNCHANGED <<lock, staging, promised>>
  BY DEF Store!Restore
<1>1. PICK n : n = cmd[c].name
  OBVIOUS
<1>2. StoreDiskOK /\ StoreNothingLost /\ n \in Store!Names /\ Store!Matching(backups, n) = StoreBackups(n)
  BY <1>0, <1>1, StoreHolder DEF StoreDiskOK, StoreBackups
<1>3. CASE /\ installed[n] = None /\ Store!Goto(c, "purge")
           /\ \E b \in StoreBackups(n) : /\ installed' = [installed EXCEPT ![n] = b.package]
                                         /\ backups' = backups \ {b}
  <2>1. PICK b \in StoreBackups(n) : /\ installed' = [installed EXCEPT ![n] = b.package]
                                     /\ backups' = backups \ {b}
    BY <1>3
  <2>2. b \in backups /\ b.name = n /\ b.package \in Store!Packages
    BY <1>2, <2>1 DEF StoreBackups, StoreDiskOK, Store!Artifacts
  <2>3. StoreDiskOK'
    BY <1>0, <1>2, <2>1, <2>2 DEF StoreDiskOK
  <2>4. ASSUME n \in PackageIds, promised[n] # None PROVE installed'[n] = StoreKept(n)
    <3>1. StoreKept(n) # None
      <4>1. promised[n] \in Versions
        BY <1>2, <2>4 DEF StoreDiskOK
      <4>2. StoreKept(n) \in Store!Packages
        BY <2>4, <4>1 DEF StoreKept, Store!Packages
      <4> QED BY <4>2 DEF Store!StoreAssumption
    <3>2. StoreBackups(n) = {[name |-> n, package |-> StoreKept(n)]}
      BY <1>2, <1>3, <2>4, <3>1 DEF StoreNothingLost
    <3>3. b.package = StoreKept(n)
      BY <2>1, <3>2
    <3> QED BY <1>2, <2>1, <3>3 DEF StoreDiskOK
  <2>5. StoreInPlace(n)' /\ StoreKept(n)' = StoreKept(n)
    BY <1>0, <2>4 DEF StoreInPlace, StoreKept
  <2>6. \A i \in PackageIds : i # n => installed'[i] = installed[i] /\ StoreBackups(i)' = StoreBackups(i)
    BY <1>2, <2>1, <2>2 DEF StoreDiskOK, Store!Names, StoreBackups
  <2>7. StoreNothingLost'
    BY <1>0, <1>2, <2>5, <2>6, StoreLosesNothing DEF StoreInPlace
  <2> QED BY <1>0, <1>1, <1>3, <2>3, <2>5, <2>7, StoreHolderGoesOn DEF Store!Steps
<1>4. CASE (installed[n] # None \/ StoreBackups(n) = {}) /\ UNCHANGED <<installed, backups>>
           /\ Store!Goto(c, "purge")
  <2>1. StoreDiskOK' /\ StoreNothingLost'
    BY <1>0, <1>2, <1>4, StoreStagingIsApart DEF StoreDiskOK
  <2>2. StoreInPlace(n)'
    BY <1>0, <1>2, <1>4 DEF StoreInPlace, StoreNothingLost, StoreKept
  <2> QED BY <1>0, <1>1, <1>4, <2>1, <2>2, StoreHolderGoesOn DEF Store!Steps
<1>5. CASE Store!Fail(c) /\ UNCHANGED <<installed, backups>>
  <2>1. StoreDiskOK' /\ StoreNothingLost'
    BY <1>0, <1>2, <1>5, StoreStagingIsApart DEF StoreDiskOK
  <2> QED BY <1>0, <1>5, <2>1, StoreFailIsFree, StoreHolderIsFree
<1> QED BY <1>1, <1>2, <1>3, <1>4, <1>5 DEF Store!Restore

LEMMA StorePurgeKeeps ==
  ASSUME Store!StoreAssumption, Store!NamesUnrelated, StoreInv, NEW c \in Clients, cmd[c] # Store!Idle, Store!Purge(c)
  PROVE  StoreInv'
<1>0. /\ cmd[c].step = "purge" /\ cmd[c].step # "lock"
      /\ UNCHANGED <<lock, installed, staging, promised>>
  BY DEF Store!Purge
<1>1. PICK n : n = cmd[c].name
  OBVIOUS
<1>2. PICK i : i = cmd[c].id
  OBVIOUS
<1>3. /\ StoreDiskOK /\ StoreNothingLost /\ n \in Store!Names /\ Store!Matching(backups, n) = StoreBackups(n)
      /\ StoreInPlace(n) /\ n \in {i, Store!StagedAs(cmd[c])} /\ lock = c
  BY <1>0, <1>1, <1>2, StoreHolder DEF StoreDiskOK, StoreBackups, StoreOnItsWay
<1>4. CASE /\ StoreBackups(n) = {} /\ UNCHANGED backups
           /\ Store!Goto(c, IF n = Store!StagedAs(cmd[c]) THEN "stage" ELSE "commit")
  <2>1. StoreDiskOK' /\ StoreNothingLost' /\ StoreBackups(n)' = {}
    BY <1>0, <1>3, <1>4, StoreStagingIsApart DEF StoreDiskOK, StoreBackups
  <2>2. CASE n = Store!StagedAs(cmd[c])
    <3>1. Store!Goto(c, "stage") /\ "stage" \in Store!Steps \ {"lock"}
      BY <1>4, <2>2 DEF Store!Steps
    <3> QED BY <1>0, <1>1, <1>2, <2>1, <2>2, <3>1, StoreHolderGoesOn
  <2>3. CASE n # Store!StagedAs(cmd[c])
    BY <1>0, <1>1, <1>2, <1>3, <1>4, <2>1, <2>3, StoreHolderGoesOn DEF Store!Steps
  <2> QED BY <2>2, <2>3
<1>5. ASSUME NEW b \in StoreBackups(n),
             backups' = backups \ {b} \/ backups' = (backups \ {b}) \cup {Store!Part(b)}
      PROVE  StoreDiskOK' /\ StoreNothingLost'
  <2>1. b \in backups /\ b.name = n /\ Store!Part(b) \in Store!Artifacts /\ Store!Part(b).name = n
    BY <1>3, <1>5, StoreParts DEF StoreBackups, StoreDiskOK
  <2>2. StoreDiskOK'
    BY <1>0, <1>3, <1>5, <2>1 DEF StoreDiskOK
  <2>3. \A j \in PackageIds : j # n => StoreBackups(j)' = StoreBackups(j)
    BY <1>5, <2>1 DEF StoreBackups
  <2>4. n \in PackageIds /\ promised'[n] # None => installed'[n] = StoreKept(n)'
    BY <1>0, <1>3 DEF StoreInPlace, StoreKept
  <2>5. StoreNothingLost'
    BY <1>0, <1>3, <2>3, <2>4, StoreLosesNothing
  <2> QED BY <2>2, <2>5
<1>6. CASE \E b \in StoreBackups(n) : backups' = backups \ {b} /\ UNCHANGED cmd
  <2>1. StoreDiskOK' /\ StoreNothingLost' /\ StoreInPlace(n)'
    BY <1>0, <1>3, <1>5, <1>6 DEF StoreInPlace, StoreKept
  <2>2. StoreOnItsWay(c, cmd[c])'
    BY <1>0, <1>1, <1>2, <1>3, <1>6, <2>1 DEF StoreOnItsWay, Store!StagedAs
  <2>3. StoreAllOnTheirWay'
    BY <1>3, <1>6, <2>2, StoreOthersWait DEF StoreInv
  <2> QED BY <1>0, <1>6, <2>1, <2>3 DEF StoreInv, Store!TypeOK, StoreDiskOK
<1>7. CASE \E b \in StoreBackups(n) : backups' = (backups \ {b}) \cup {Store!Part(b)} /\ Store!Fail(c)
  <2>1. StoreDiskOK' /\ StoreNothingLost'
    BY <1>5, <1>7
  <2> QED BY <1>0, <1>7, <2>1, StoreFailIsFree, StoreHolderIsFree
<1> QED BY <1>1, <1>3, <1>4, <1>6, <1>7 DEF Store!Purge

-----------------------------------------------------------------------------
(* Staging a package leaves what is installed alone.                           *)
LEMMA StoreStageKeeps ==
  ASSUME Store!StoreAssumption, Store!NamesUnrelated, StoreInv, NEW c \in Clients, cmd[c] # Store!Idle, Store!Stage(c)
  PROVE  StoreInv'
<1>0. /\ cmd[c].step = "stage" /\ cmd[c].step # "lock"
      /\ UNCHANGED <<lock, installed, backups, promised>>
      /\ staging' \in {staging, staging \cup {Store!Part(Store!Staged(cmd[c]))}}
      /\ Store!Goto(c, "copy") \/ Store!Fail(c)
  BY DEF Store!Stage
<1>1. PICK n : n = cmd[c].name
  OBVIOUS
<1>2. PICK i : i = cmd[c].id
  OBVIOUS
<1>3. StoreDiskOK /\ StoreNothingLost' /\ cmd[c] \in Store!Commands /\ n = Store!StagedAs(cmd[c]) /\ StoreBackups(n) = {}
  BY <1>0, <1>1, StoreHolder, StoreStagingIsApart DEF StoreOnItsWay, Store!Commands
<1>4. StoreDiskOK'
  BY <1>0, <1>3, StoreParts DEF StoreDiskOK
<1>5. CASE Store!Goto(c, "copy")
  <2>1. StoreBackups(n)' = {}
    BY <1>0, <1>3 DEF StoreBackups
  <2>2. "copy" \in Store!Steps \ {"lock"}
    BY DEF Store!Steps
  <2> QED BY <1>0, <1>1, <1>2, <1>3, <1>4, <1>5, <2>1, <2>2, StoreHolderGoesOn
<1>6. CASE Store!Fail(c)
  BY <1>0, <1>3, <1>4, <1>6, StoreFailIsFree, StoreHolderIsFree
<1> QED BY <1>0, <1>5, <1>6

(* An archive says which extension it is of, and cleans up after that one.     *)
LEMMA StoreCopyKeeps ==
  ASSUME Store!StoreAssumption, Store!NamesUnrelated, StoreInv, NEW c \in Clients, cmd[c] # Store!Idle, Store!Copy(c)
  PROVE  StoreInv'
<1>0. /\ cmd[c].step = "copy" /\ cmd[c].step # "lock"
      /\ UNCHANGED <<lock, installed, backups, promised>>
  BY DEF Store!Copy
<1>1. /\ StoreDiskOK /\ StoreNothingLost' /\ StoreOnItsWay(c, cmd[c]) /\ lock = c /\ cmd[c] \in Store!Commands
      /\ cmd[c] \in [kind : Store!Kinds, id : PackageIds, version : Versions, replace : BOOLEAN,
                     name : Store!Names, step : Store!Steps]
  BY <1>0, StoreHolder, StoreStagingIsApart DEF Store!Commands
<1>2. StoreDiskOK'
  BY <1>0, <1>1, StoreParts DEF StoreDiskOK, Store!Copy
<1>3. CASE Store!Fail(c)
  BY <1>0, <1>1, <1>2, <1>3, StoreFailIsFree, StoreHolderIsFree
<1>4. CASE cmd' = [cmd EXCEPT ![c].name = cmd[c].id,
                              ![c].step = IF cmd[c].kind = "archive" THEN "sweep" ELSE "commit"]
  <2>0. PICK m : m = [cmd[c] EXCEPT !.name = cmd[c].id,
                       !.step = IF cmd[c].kind = "archive" THEN "sweep" ELSE "commit"]
    OBVIOUS
  <2>1. /\ m \in [kind : Store!Kinds, id : PackageIds, version : Versions, replace : BOOLEAN,
                  name : Store!Names, step : Store!Steps]
        /\ m.name = cmd[c].id /\ m.id = cmd[c].id /\ m.kind = cmd[c].kind
        /\ m.step = IF cmd[c].kind = "archive" THEN "sweep" ELSE "commit"
    BY <1>1, <2>0 DEF Store!Names, Store!Steps
  <2>2. cmd' = [cmd EXCEPT ![c] = m]
    BY <1>4, <2>0 DEF StoreInv, Store!TypeOK
  <2>3. /\ cmd' \in [Clients -> Store!Commands] /\ cmd'[c] = m
        /\ \A d \in Clients : d # c => cmd'[d] = cmd[d]
    BY <2>1, <2>2 DEF StoreInv, Store!TypeOK, Store!Commands
  <2>4. m.step = "commit" => cmd[c].name = cmd[c].id /\ StoreBackups(cmd[c].id) = {}
    BY <1>0, <1>1, <2>1 DEF StoreOnItsWay, Store!StagedAs
  <2>5. m.step = "commit" => StoreBackups(m.name) = {} /\ StoreBackups(m.name)' = {}
    BY <1>0, <2>1, <2>3, <2>4 DEF StoreBackups
  <2>6. StoreOnItsWay(c, cmd[c])'
    BY <1>0, <1>1, <2>1, <2>3, <2>5 DEF StoreOnItsWay, Store!StagedAs
  <2>7. StoreAllOnTheirWay'
    BY <1>1, <2>3, <2>6, StoreOthersWait DEF StoreInv
  <2> QED BY <1>0, <1>1, <1>2, <2>3, <2>7 DEF StoreInv, Store!TypeOK, StoreDiskOK
<1> QED BY <1>3, <1>4 DEF Store!Copy

-----------------------------------------------------------------------------
(* The installed package is moved away when no other backup is left.           *)
LEMMA StoreCommitKeeps ==
  ASSUME Store!StoreAssumption, Store!NamesUnrelated, StoreInv, NEW c \in Clients, cmd[c] # Store!Idle, Store!Commit(c)
  PROVE  StoreInv'
<1>0. cmd[c].step = "commit" /\ cmd[c].step # "lock" /\ UNCHANGED lock
  BY DEF Store!Commit
<1>1. PICK i : i = cmd[c].id
  OBVIOUS
<1>2. /\ StoreDiskOK /\ StoreNothingLost /\ i \in PackageIds /\ i \in Store!Names /\ cmd[c].name = i /\ StoreBackups(i) = {}
      /\ cmd[c].version \in Versions /\ cmd[c] \in Store!Commands
  BY <1>0, <1>1, StoreHolder DEF StoreOnItsWay, Store!Commands
<1>3. CASE /\ installed' = [installed EXCEPT ![i] = Store!Staged(cmd[c]).package]
           /\ promised' = [promised EXCEPT ![i] = cmd[c].version]
           /\ staging' = staging \ {Store!Staged(cmd[c])}
           /\ Store!Goto(c, "unlock") /\ UNCHANGED backups
  <2>1. StoreDiskOK'
    BY <1>2, <1>3, StoreParts DEF StoreDiskOK
  <2>2. installed'[i] = StoreKept(i)'
    BY <1>1, <1>2, <1>3, StoreParts DEF StoreDiskOK, StoreKept
  <2>3. \A j \in PackageIds : j # i => /\ installed'[j] = installed[j] /\ promised'[j] = promised[j]
                                       /\ StoreBackups(j)' = StoreBackups(j)
    BY <1>2, <1>3 DEF StoreDiskOK, StoreBackups
  <2>4. StoreNothingLost'
    BY <1>2, <2>2, <2>3, StoreLosesNothing
  <2> QED BY <1>0, <1>3, <2>1, <2>4, StoreHolderIsFree DEF StoreFree
<1>4. CASE /\ installed[i] # None
           /\ backups' = backups \cup {[name |-> i, package |-> installed[i]]}
           /\ installed' = [installed EXCEPT ![i] = None]
           /\ Store!Goto(c, "swap") /\ UNCHANGED <<staging, promised>>
  <2>1. installed[i] \in Store!Packages
    BY <1>2, <1>4 DEF StoreDiskOK
  <2>2. StoreDiskOK'
    BY <1>2, <1>4, <2>1 DEF StoreDiskOK, Store!Artifacts
  <2>3. installed'[i] = None
    BY <1>2, <1>4 DEF StoreDiskOK
  <2>4. StoreBackups(i)' = {[name |-> i, package |-> installed[i]]}
    BY <1>2, <1>4 DEF StoreBackups
  <2>5. promised'[i] # None => StoreBackups(i)' = {[name |-> i, package |-> StoreKept(i)']}
    BY <1>2, <1>4, <2>4 DEF StoreNothingLost, StoreKept
  <2>6. \A j \in PackageIds : j # i => installed'[j] = installed[j] /\ StoreBackups(j)' = StoreBackups(j)
    BY <1>2, <1>4 DEF StoreDiskOK, StoreBackups
  <2>7. StoreNothingLost'
    BY <1>2, <1>4, <2>3, <2>5, <2>6, StoreLosesNothing
  <2>8. "swap" \in Store!Steps \ {"lock"}
    BY DEF Store!Steps
  <2> QED BY <1>0, <1>1, <1>2, <1>4, <2>2, <2>3, <2>7, <2>8, StoreHolderGoesOn
<1>5. CASE Store!Fail(c) /\ UNCHANGED Store!disk
  <2>1. StoreDiskOK' /\ StoreNothingLost'
    BY <1>2, <1>5, StoreStagingIsApart DEF StoreDiskOK, Store!disk
  <2> QED BY <1>0, <1>5, <2>1, StoreFailIsFree, StoreHolderIsFree
<1> QED BY <1>1, <1>3, <1>4, <1>5 DEF Store!Commit

(* The new package moves in, or the old one moves back, or neither can.        *)
LEMMA StoreSwapKeeps ==
  ASSUME Store!StoreAssumption, Store!NamesUnrelated, StoreInv, NEW c \in Clients, cmd[c] # Store!Idle, Store!Swap(c)
  PROVE  StoreInv'
<1>0. cmd[c].step = "swap" /\ cmd[c].step # "lock" /\ UNCHANGED lock
  BY DEF Store!Swap
<1>1. PICK i : i = cmd[c].id
  OBVIOUS
<1>2. /\ StoreDiskOK /\ StoreNothingLost /\ i \in PackageIds /\ i \in Store!Names /\ installed[i] = None
      /\ cmd[c].version \in Versions /\ cmd[c] \in Store!Commands
  BY <1>0, <1>1, StoreHolder DEF StoreOnItsWay, Store!Commands
<1>3. CASE /\ installed' = [installed EXCEPT ![i] = Store!Staged(cmd[c]).package]
           /\ promised' = [promised EXCEPT ![i] = cmd[c].version]
           /\ staging' = staging \ {Store!Staged(cmd[c])}
           /\ Store!Goto(c, "drop") /\ UNCHANGED backups
  <2>1. StoreDiskOK'
    BY <1>2, <1>3, StoreParts DEF StoreDiskOK
  <2>2. installed'[i] = StoreKept(i)'
    BY <1>1, <1>2, <1>3, StoreParts DEF StoreDiskOK, StoreKept
  <2>3. \A j \in PackageIds : j # i => /\ installed'[j] = installed[j] /\ promised'[j] = promised[j]
                                       /\ StoreBackups(j)' = StoreBackups(j)
    BY <1>2, <1>3 DEF StoreDiskOK, StoreBackups
  <2>4. StoreNothingLost' /\ StoreInPlace(i)'
    BY <1>2, <2>2, <2>3, StoreLosesNothing DEF StoreInPlace
  <2>5. "drop" \in Store!Steps \ {"lock"}
    BY DEF Store!Steps
  <2> QED BY <1>0, <1>1, <1>3, <2>1, <2>4, <2>5, StoreHolderGoesOn
<1>4. ASSUME NEW b \in backups, b.name = i,
             installed' = [installed EXCEPT ![i] = b.package],
             backups' = backups \ {b}, Store!Fail(c), UNCHANGED <<staging, promised>>
      PROVE  StoreInv'
  <2>1. b \in StoreBackups(i) /\ b.package \in Store!Packages
    BY <1>2, <1>4 DEF StoreBackups, StoreDiskOK, Store!Artifacts
  <2>2. StoreDiskOK'
    BY <1>2, <1>4, <2>1 DEF StoreDiskOK
  <2>3. ASSUME promised[i] # None PROVE installed'[i] = StoreKept(i)
    <3>1. StoreKept(i) # None
      <4>1. promised[i] \in Versions
        BY <1>2, <2>3 DEF StoreDiskOK
      <4>2. StoreKept(i) \in Store!Packages
        BY <1>2, <4>1 DEF StoreKept, Store!Packages
      <4> QED BY <4>2 DEF Store!StoreAssumption
    <3>2. b.package = StoreKept(i)
      BY <1>2, <2>1, <2>3, <3>1 DEF StoreNothingLost
    <3> QED BY <1>2, <1>4, <3>2 DEF StoreDiskOK
  <2>4. \A j \in PackageIds : j # i => installed'[j] = installed[j] /\ StoreBackups(j)' = StoreBackups(j)
    BY <1>2, <1>4 DEF StoreDiskOK, StoreBackups
  <2>5. StoreKept(i)' = StoreKept(i)
    BY <1>4 DEF StoreKept
  <2>6. StoreNothingLost'
    BY <1>2, <1>4, <2>3, <2>4, <2>5, StoreLosesNothing
  <2> QED BY <1>0, <1>4, <2>2, <2>6, StoreFailIsFree, StoreHolderIsFree
<1>5. CASE Store!Fail(c) /\ UNCHANGED Store!disk
  <2>1. StoreDiskOK' /\ StoreNothingLost'
    BY <1>2, <1>5, StoreStagingIsApart DEF StoreDiskOK, Store!disk
  <2> QED BY <1>0, <1>5, <2>1, StoreFailIsFree, StoreHolderIsFree
<1> QED BY <1>1, <1>3, <1>4, <1>5 DEF Store!Swap

(* The backup goes once the new package is in place.                           *)
LEMMA StoreDropKeeps ==
  ASSUME Store!StoreAssumption, Store!NamesUnrelated, StoreInv, NEW c \in Clients, cmd[c] # Store!Idle, Store!Drop(c)
  PROVE  StoreInv'
<1>0. /\ cmd[c].step = "drop" /\ cmd[c].step # "lock" /\ Store!Goto(c, "unlock")
      /\ UNCHANGED <<lock, installed, staging, promised>>
  BY DEF Store!Drop
<1>1. PICK i : i = cmd[c].id
  OBVIOUS
<1>2. StoreDiskOK /\ StoreNothingLost /\ i \in PackageIds /\ StoreInPlace(i)
  BY <1>0, <1>1, StoreHolder DEF StoreOnItsWay
<1>3. PICK b \in backups : /\ b.name = i
                           /\ \/ backups' = backups \ {b}
                              \/ backups' = (backups \ {b}) \cup {Store!Part(b)}
  BY <1>1 DEF Store!Drop
<1>4. Store!Part(b) \in Store!Artifacts /\ Store!Part(b).name = i
  BY <1>2, <1>3, StoreParts DEF StoreDiskOK
<1>5. StoreDiskOK'
  BY <1>0, <1>2, <1>3, <1>4 DEF StoreDiskOK
<1>6. \A j \in PackageIds : j # i => StoreBackups(j)' = StoreBackups(j)
  BY <1>3, <1>4 DEF StoreBackups
<1>7. promised'[i] # None => installed'[i] = StoreKept(i)'
  BY <1>0, <1>2 DEF StoreInPlace, StoreKept
<1>8. StoreNothingLost'
  BY <1>0, <1>2, <1>6, <1>7, StoreLosesNothing
<1> QED BY <1>0, <1>5, <1>8, StoreHolderIsFree DEF StoreFree

LEMMA StoreDiscardKeeps ==
  ASSUME Store!StoreAssumption, Store!NamesUnrelated, StoreInv, NEW c \in Clients, cmd[c] # Store!Idle, Store!Discard(c)
  PROVE  StoreInv'
<1>0. /\ cmd[c].step = "discard" /\ cmd[c].step # "lock" /\ Store!Goto(c, "unlock")
      /\ UNCHANGED <<lock, installed, backups, promised>>
  BY DEF Store!Discard
<1>1. StoreDiskOK /\ StoreNothingLost' /\ cmd[c] \in Store!Commands
  BY <1>0, StoreHolder, StoreStagingIsApart DEF Store!Commands
<1>2. StoreDiskOK'
  BY <1>0, <1>1, StoreParts DEF StoreDiskOK, Store!Discard
<1> QED BY <1>0, <1>1, <1>2, StoreHolderIsFree DEF StoreFree

(* A removal takes the promise back before it takes the package.               *)
LEMMA StoreRemoveKeeps ==
  ASSUME Store!StoreAssumption, Store!NamesUnrelated, StoreInv, NEW c \in Clients, cmd[c] # Store!Idle, Store!Remove(c)
  PROVE  StoreInv'
<1>0. /\ cmd[c].step = "remove" /\ cmd[c].step # "lock" /\ Store!Goto(c, "unlock")
      /\ UNCHANGED <<lock, staging, backups>>
  BY DEF Store!Remove
<1>1. PICK i : i = cmd[c].id
  OBVIOUS
<1>2. StoreDiskOK /\ StoreNothingLost /\ i \in PackageIds /\ i \in Store!Names
  BY <1>0, <1>1, StoreHolder
<1>3. /\ promised' = [promised EXCEPT ![i] = None]
      /\ \/ installed' = [installed EXCEPT ![i] = None]
         \/ installed[i] # None /\ installed' = [installed EXCEPT ![i].whole = FALSE]
  BY <1>1 DEF Store!Remove
<1>4. StoreDiskOK'
  <2>1. CASE installed' = [installed EXCEPT ![i] = None]
    BY <1>0, <1>2, <1>3, <2>1 DEF StoreDiskOK
  <2>2. CASE installed[i] # None /\ installed' = [installed EXCEPT ![i].whole = FALSE]
    <3>1. installed[i] \in Store!Packages /\ [installed[i] EXCEPT !.whole = FALSE] \in Store!Packages
      BY <1>2, <2>2 DEF StoreDiskOK, Store!Packages
    <3>2. installed' = [installed EXCEPT ![i] = [installed[i] EXCEPT !.whole = FALSE]]
      BY <2>2
    <3> QED BY <1>0, <1>2, <1>3, <3>1, <3>2 DEF StoreDiskOK
  <2> QED BY <1>3, <2>1, <2>2
<1>5. \A j \in PackageIds : j # i => /\ installed'[j] = installed[j] /\ promised'[j] = promised[j]
                                     /\ StoreBackups(j)' = StoreBackups(j)
  <2>1. \A j \in PackageIds : StoreBackups(j)' = StoreBackups(j)
    BY <1>0 DEF StoreBackups
  <2>2. \A j \in PackageIds : j # i => promised'[j] = promised[j]
    BY <1>2, <1>3 DEF StoreDiskOK
  <2>3. \A j \in Store!Names : j # i => installed'[j] = installed[j]
    BY <1>2, <1>3 DEF StoreDiskOK
  <2> QED BY <2>1, <2>2, <2>3 DEF Store!Names
<1>6. promised'[i] = None
  BY <1>2, <1>3 DEF StoreDiskOK
<1>7. StoreNothingLost'
  BY <1>2, <1>5, <1>6, StoreLosesNothing
<1> QED BY <1>0, <1>4, <1>7, StoreHolderIsFree DEF StoreFree

(* A command ends, or its process dies; then nobody holds the lock it held.    *)
LEMMA StoreEndKeeps ==
  ASSUME Store!StoreAssumption, StoreInv, NEW c \in Clients, cmd[c] # Store!Idle,
         Store!Unlock(c) \/ Store!Crash(c)
  PROVE  StoreInv'
<1>0. /\ cmd' = [cmd EXCEPT ![c] = Store!Idle] /\ UNCHANGED Store!disk
      /\ lock' \in {None, lock}
  BY DEF Store!Unlock, Store!Crash
<1>1. cmd' \in [Clients -> Store!Commands] /\ \A d \in Clients : cmd'[d] = IF d = c THEN Store!Idle ELSE cmd[d]
  BY <1>0 DEF StoreInv, Store!TypeOK, Store!Commands
<1>2. ASSUME NEW d \in Clients, cmd'[d] # Store!Idle PROVE StoreOnItsWay(d, cmd[d])'
  <2>1. d # c /\ cmd'[d] = cmd[d] /\ StoreOnItsWay(d, cmd[d])
    BY <1>1, <1>2 DEF StoreInv, StoreAllOnTheirWay
  <2>2. cmd[d].step # "lock" => lock' = d
    <3> SUFFICES ASSUME cmd[d].step # "lock" PROVE lock' = d
      OBVIOUS
    <3>1. lock = d
      BY <2>1 DEF StoreOnItsWay
    <3>2. CASE Store!Crash(c)
      BY <2>1, <3>1, <3>2 DEF Store!Crash
    <3>3. CASE Store!Unlock(c)
      BY <2>1, <3>1, <3>3 DEF Store!Unlock, StoreInv, StoreAllOnTheirWay, StoreOnItsWay
    <3> QED BY <3>2, <3>3
  <2> QED BY <1>0, <2>1, <2>2 DEF StoreOnItsWay, StoreInPlace, StoreKept, StoreBackups, Store!StagedAs, Store!disk
<1>3. StoreAllOnTheirWay' /\ StoreNothingLost'
  BY <1>0, <1>2, StoreStagingIsApart DEF StoreAllOnTheirWay, Store!disk
<1> QED BY <1>0, <1>1, <1>3 DEF StoreInv, Store!TypeOK, Store!disk

-----------------------------------------------------------------------------
LEMMA StoreBegins == Store!Init => StoreInv
BY DEF Store!Init, StoreInv, Store!TypeOK, StoreAllOnTheirWay, StoreNothingLost, Store!Commands

LEMMA StoreSteps ==
  ASSUME Store!StoreAssumption, Store!NamesUnrelated, StoreInv, [Store!Next]_(Store!vars) PROVE StoreInv'
<1>1. CASE UNCHANGED Store!vars
  BY <1>1 DEF Store!vars, StoreInv, Store!TypeOK, StoreAllOnTheirWay, StoreNothingLost, StoreOnItsWay, StoreInPlace, StoreKept, StoreBackups,
              Store!StagedAs
<1>2. ASSUME NEW c \in Clients, Store!Step(c) PROVE StoreInv'
  BY <1>2, StoreAcquireKeeps, StoreSweepKeeps, StoreRestoreKeeps, StorePurgeKeeps, StoreStageKeeps, StoreCopyKeeps,
     StoreCommitKeeps, StoreSwapKeeps, StoreDropKeeps, StoreDiscardKeeps, StoreRemoveKeeps, StoreEndKeeps DEF Store!Step
<1>3. ASSUME NEW c \in Clients, Store!Crash(c) PROVE StoreInv'
  BY <1>3, StoreEndKeeps DEF Store!Crash
<1> QED BY <1>1, <1>2, <1>3, StoreBeginKeeps DEF Store!Next

(* Recoverable follows: names of extensions are unrelated.                      *)
LEMMA StoreNothingIsLost == ASSUME Store!StoreAssumption, Store!NamesUnrelated PROVE StoreInv => Store!TypeOK /\ Store!Recoverable
<1> SUFFICES ASSUME StoreInv PROVE Store!Recoverable
BY DEF StoreInv
<1>1. \A i \in PackageIds : {b \in backups : <<i, b.name>> \in Unrelated} = StoreBackups(i)
  <2>1. \A b \in backups : b.name \in Store!Names
    BY DEF StoreInv, Store!TypeOK, Store!Artifacts
  <2> QED BY <2>1 DEF StoreBackups, Store!NamesUnrelated, Store!Names
<1> QED BY <1>1 DEF StoreInv, StoreNothingLost, Store!Recoverable, StoreKept
-----------------------------------------------------------------------------
(* An install that succeeds leaves nothing staged: staging directories of     *)
(* earlier commands are swept before a package is staged, or before it is     *)
(* committed when only its content says which extension it is, and only the   *)
(* holder of the lock makes new ones.                                          *)
StoreStagedBy(n) == {a \in staging : a.name = n}
StoreSwept(m) ==
    /\ m.step \in {"restore", "purge", "stage"} => StoreStagedBy(m.name) = {}
    /\ m.step = "copy" => StoreStagedBy(m.name) \subseteq {Store!Part(Store!Staged(m))}
    /\ m.step \in {"commit", "swap"} => StoreStagedBy(m.id) \subseteq {Store!Staged(m)}
StoreAllSwept == \A c \in Clients : cmd[c] # Store!Idle => StoreSwept(cmd[c])

\* The others wait for the lock, so they are at no such step.
LEMMA StoreOthersSwept ==
  ASSUME StoreInv, NEW c \in Clients, cmd[c] # Store!Idle, cmd[c].step # "lock",
         \A d \in Clients : d # c => cmd'[d] = cmd[d],
         cmd'[c] # Store!Idle => StoreSwept(cmd[c])'
  PROVE  StoreAllSwept'
<1> SUFFICES ASSUME NEW d \in Clients, d # c, cmd'[d] # Store!Idle PROVE StoreSwept(cmd[d])'
  BY DEF StoreAllSwept
<1>1. cmd'[d] = cmd[d] /\ cmd[d].step = "lock"
  BY DEF StoreInv, StoreAllOnTheirWay, StoreOnItsWay
<1> QED BY <1>1 DEF StoreSwept

LEMMA StoreSweptGoesOn ==
  ASSUME StoreInv, NEW c \in Clients, cmd[c] # Store!Idle, cmd[c].step # "lock",
         NEW s \in Store!Steps, Store!Goto(c, s), NEW m, m = cmd[c],
         s \in {"restore", "purge", "stage"} => StoreStagedBy(m.name)' = {},
         s = "copy" => StoreStagedBy(m.name)' \subseteq {Store!Part(Store!Staged(m))},
         s \in {"commit", "swap"} => StoreStagedBy(m.id)' \subseteq {Store!Staged(m)}
  PROVE  StoreAllSwept'
<1>1. /\ cmd'[c].step = s /\ cmd'[c].id = m.id /\ cmd'[c].name = m.name
      /\ cmd'[c].kind = m.kind /\ cmd'[c].version = m.version
      /\ \A d \in Clients : d # c => cmd'[d] = cmd[d]
  BY StoreGoesOn DEF StoreInv
<1>2. Store!Staged(cmd'[c]) = Store!Staged(m)
  BY <1>1 DEF Store!Staged, Store!StagedAs
<1>3. StoreSwept(cmd[c])'
  <2>1. PICK n : n = cmd'[c]
    OBVIOUS
  <2>2. s \in {"restore", "purge", "stage"} => StoreStagedBy(n.name)' = {}
    BY <1>1, <2>1
  <2>3. s = "copy" => StoreStagedBy(n.name)' \subseteq {Store!Part(Store!Staged(n))}
    BY <1>1, <1>2, <2>1
  <2>4. s \in {"commit", "swap"} => StoreStagedBy(n.id)' \subseteq {Store!Staged(n)}
    BY <1>1, <1>2, <2>1
  <2>5. StoreSwept(n)'
    BY <1>1, <2>1, <2>2, <2>3, <2>4 DEF StoreSwept
  <2> QED BY <2>1, <2>5 DEF StoreSwept, StoreStagedBy
<1> QED BY <1>1, <1>3, StoreOthersSwept

\* Steps that ask nothing of the staging directories.
LEMMA StoreSweptAnyhow ==
  ASSUME StoreInv, NEW c \in Clients, cmd[c] # Store!Idle, cmd[c].step # "lock",
         Store!Fail(c) \/ Store!Goto(c, "unlock") \/ Store!Goto(c, "drop")
  PROVE  StoreAllSwept'
<1>1. PICK s \in {"discard", "unlock", "drop"} : Store!Goto(c, s)
  BY DEF Store!Fail
<1>2. s \in Store!Steps /\ s \notin {"restore", "purge", "stage", "copy", "commit", "swap"}
  BY <1>1 DEF Store!Steps
<1> QED BY <1>1, <1>2, StoreSweptGoesOn

LEMMA StoreSweptKeeps ==
  ASSUME Store!StoreAssumption, Store!NamesUnrelated, StoreInv, StoreAllSwept, NEW c \in Clients, Store!Step(c)
  PROVE  StoreAllSwept'
<1> PICK m : m = cmd[c]
  OBVIOUS
<1>0. cmd[c] # Store!Idle /\ StoreSwept(m)
  BY DEF Store!Step, StoreAllSwept
<1>1. ASSUME cmd[c].step # "lock"
      PROVE  /\ StoreDiskOK /\ m \in Store!Commands \ {Store!Idle} /\ StoreOnItsWay(c, m) /\ m.name \in Store!Names /\ m.id \in Store!Names
             /\ \A S \in SUBSET Store!Artifacts : \A n \in Store!Names : Store!Matching(S, n) = {b \in S : b.name = n}
  BY <1>0, <1>1, StoreHolder DEF StoreInv, Store!TypeOK
<1>2. CASE Store!Acquire(c)
  <2>1. PICK s \in {"remove", "sweep"} : Store!Goto(c, s)
    BY <1>2 DEF Store!Acquire
  <2>2. cmd'[c].step = s /\ (\A d \in Clients : d # c => cmd'[d] = cmd[d])
    BY <1>0, <2>1, StoreGoesOn DEF StoreInv, Store!Steps
  <2>3. UNCHANGED staging
    BY <1>2 DEF Store!Acquire, Store!disk
  <2>4. ASSUME NEW d \in Clients, cmd'[d] # Store!Idle PROVE StoreSwept(cmd[d])'
    <3>1. CASE d = c
      BY <2>1, <2>2, <3>1 DEF StoreSwept
    <3>2. CASE d # c
      BY <2>2, <2>3, <2>4, <3>2 DEF StoreAllSwept, StoreSwept, StoreStagedBy, Store!Staged, Store!StagedAs, Store!Part
    <3> QED BY <3>1, <3>2
  <2> QED BY <2>4 DEF StoreAllSwept
<1>3. CASE Store!Sweep(c)
  <2>0. cmd[c].step = "sweep" /\ cmd[c].step # "lock"
    BY <1>3 DEF Store!Sweep
  <2>1. CASE Store!Fail(c)
    BY <1>0, <2>0, <2>1, StoreSweptAnyhow
  <2>2. CASE UNCHANGED cmd
    <3>1. \A d \in Clients : d # c => cmd'[d] = cmd[d]
      BY <2>2
    <3>2. StoreSwept(cmd[c])'
      BY <2>0, <2>2 DEF StoreSwept
    <3> QED BY <1>0, <2>0, <3>1, <3>2, StoreOthersSwept
  <2>3. CASE Store!Matching(staging, m.name) = {} /\ Store!Goto(c, "restore") /\ UNCHANGED staging
    <3>1. StoreStagedBy(m.name)' = {}
      BY <1>1, <2>0, <2>3 DEF StoreStagedBy, StoreDiskOK
    <3>2. "restore" \in Store!Steps
      BY DEF Store!Steps
    <3> QED BY <1>0, <2>0, <2>3, <3>1, <3>2, StoreSweptGoesOn
  <2> QED BY <1>3, <2>1, <2>2, <2>3 DEF Store!Sweep
<1>4. CASE Store!Restore(c)
  <2>0. cmd[c].step = "restore" /\ cmd[c].step # "lock" /\ UNCHANGED staging
        /\ (Store!Goto(c, "purge") \/ Store!Fail(c))
    BY <1>4 DEF Store!Restore
  <2>1. StoreStagedBy(m.name)' = {}
    BY <1>0, <2>0 DEF StoreSwept, StoreStagedBy
  <2>2. "purge" \in Store!Steps
    BY DEF Store!Steps
  <2>3. CASE Store!Goto(c, "purge")
    BY <1>0, <2>0, <2>1, <2>2, <2>3, StoreSweptGoesOn
  <2>4. CASE Store!Fail(c)
    BY <1>0, <2>0, <2>4, StoreSweptAnyhow
  <2> QED BY <2>0, <2>3, <2>4
<1>5. CASE Store!Purge(c)
  <2>0. cmd[c].step = "purge" /\ cmd[c].step # "lock" /\ UNCHANGED staging
        /\ \/ Store!Goto(c, IF m.name = Store!StagedAs(m) THEN "stage" ELSE "commit")
           \/ UNCHANGED cmd
           \/ Store!Fail(c)
    BY <1>5 DEF Store!Purge
  <2>1. StoreStagedBy(m.name)' = {}
    BY <1>0, <2>0 DEF StoreSwept, StoreStagedBy
  <2>2. CASE Store!Fail(c)
    BY <1>0, <2>0, <2>2, StoreSweptAnyhow
  <2>3. CASE UNCHANGED cmd
    <3>1. \A d \in Clients : d # c => cmd'[d] = cmd[d]
      BY <2>3
    <3>2. StoreSwept(cmd[c])'
      BY <2>0, <2>1, <2>3 DEF StoreSwept, StoreStagedBy
    <3> QED BY <1>0, <2>0, <3>1, <3>2, StoreOthersSwept
  <2>4. CASE Store!Goto(c, IF m.name = Store!StagedAs(m) THEN "stage" ELSE "commit")
    <3>1. "stage" \in Store!Steps /\ "commit" \in Store!Steps
      BY DEF Store!Steps
    <3>2. CASE m.name = Store!StagedAs(m)
      BY <1>0, <2>0, <2>1, <2>4, <3>1, <3>2, StoreSweptGoesOn
    <3>3. CASE m.name # Store!StagedAs(m)
      <4>1. m.name = m.id
        BY <1>1, <2>0, <3>3 DEF StoreOnItsWay
      <4> QED BY <1>0, <2>0, <2>1, <2>4, <3>1, <3>3, <4>1, StoreSweptGoesOn
    <3> QED BY <3>2, <3>3
  <2> QED BY <2>0, <2>2, <2>3, <2>4
<1>6. CASE Store!Stage(c)
  <2>0. cmd[c].step = "stage" /\ cmd[c].step # "lock"
        /\ \/ staging' = staging \cup {Store!Part(Store!Staged(m))} /\ Store!Goto(c, "copy")
           \/ Store!Fail(c)
    BY <1>6 DEF Store!Stage
  <2>1. CASE Store!Fail(c)
    BY <1>0, <2>0, <2>1, StoreSweptAnyhow
  <2>2. CASE staging' = staging \cup {Store!Part(Store!Staged(m))} /\ Store!Goto(c, "copy")
    <3>1. StoreStagedBy(m.name)' \subseteq {Store!Part(Store!Staged(m))}
      BY <1>0, <2>0, <2>2 DEF StoreSwept, StoreStagedBy
    <3>2. "copy" \in Store!Steps
      BY DEF Store!Steps
    <3> QED BY <1>0, <2>0, <2>2, <3>1, <3>2, StoreSweptGoesOn
  <2> QED BY <2>0, <2>1, <2>2
<1>7. CASE Store!Copy(c)
  <2>0. cmd[c].step = "copy" /\ cmd[c].step # "lock"
    BY <1>7 DEF Store!Copy
  <2>1. CASE Store!Fail(c)
    BY <1>0, <2>0, <2>1, StoreSweptAnyhow
  <2>2. CASE /\ staging' = (staging \ {Store!Part(Store!Staged(m))}) \cup {Store!Staged(m)}
             /\ cmd' = [cmd EXCEPT ![c].name = cmd[c].id,
                                   ![c].step = IF cmd[c].kind = "archive" THEN "sweep" ELSE "commit"]
    <3>1. PICK n : n = [m EXCEPT !.name = m.id, !.step = IF m.kind = "archive" THEN "sweep" ELSE "commit"]
      OBVIOUS
    <3>2. /\ n.id = m.id /\ n.kind = m.kind /\ n.version = m.version
          /\ n.step = IF m.kind = "archive" THEN "sweep" ELSE "commit"
      <4>1. m \in [kind : Store!Kinds, id : PackageIds, version : Versions, replace : BOOLEAN, name : Store!Names, step : Store!Steps]
        BY <1>1, <2>0 DEF Store!Commands
      <4> QED BY <3>1, <4>1
    <3>3. cmd' = [cmd EXCEPT ![c] = n]
      BY <2>2, <3>1 DEF StoreInv, Store!TypeOK
    <3>4. cmd'[c] = n /\ \A d \in Clients : d # c => cmd'[d] = cmd[d]
      BY <3>3 DEF StoreInv, Store!TypeOK
    <3>5. Store!Staged(n) = Store!Staged(m)
      BY <3>2 DEF Store!Staged, Store!StagedAs
    <3>6. n.step = "commit" => StoreStagedBy(n.id)' \subseteq {Store!Staged(n)}
      <4>1. m.kind # "archive" => m.name = m.id
        BY <1>1, <2>0 DEF StoreOnItsWay, Store!StagedAs
      <4>2. StoreStagedBy(m.name) \subseteq {Store!Part(Store!Staged(m))}
        BY <1>0, <2>0 DEF StoreSwept
      <4>3. StoreStagedBy(m.name)' \subseteq {Store!Staged(m)}
        BY <2>2, <4>2 DEF StoreStagedBy
      <4> QED BY <3>2, <3>5, <4>1, <4>3
    <3>7. StoreSwept(n)'
      BY <3>2, <3>6 DEF StoreSwept
    <3>8. StoreSwept(cmd[c])'
      BY <3>4, <3>7 DEF StoreSwept, StoreStagedBy
    <3> QED BY <1>0, <2>0, <3>4, <3>8, StoreOthersSwept
  <2> QED BY <1>7, <2>1, <2>2 DEF Store!Copy
<1>8. CASE Store!Commit(c)
  <2>0. cmd[c].step = "commit" /\ cmd[c].step # "lock"
        /\ (Store!Goto(c, "unlock") \/ (Store!Goto(c, "swap") /\ UNCHANGED staging) \/ Store!Fail(c))
    BY <1>8 DEF Store!Commit
  <2>1. StoreStagedBy(m.id) \subseteq {Store!Staged(m)} /\ "swap" \in Store!Steps
    BY <1>0, <2>0 DEF StoreSwept, Store!Steps
  <2>2. CASE Store!Goto(c, "swap") /\ UNCHANGED staging
    <3>1. StoreStagedBy(m.id)' \subseteq {Store!Staged(m)}
      BY <2>1, <2>2 DEF StoreStagedBy
    <3> QED BY <1>0, <2>0, <2>1, <2>2, <3>1, StoreSweptGoesOn
  <2>3. CASE Store!Fail(c) \/ Store!Goto(c, "unlock")
    BY <1>0, <2>0, <2>3, StoreSweptAnyhow
  <2> QED BY <2>0, <2>2, <2>3
<1>9. CASE Store!Swap(c) \/ Store!Drop(c) \/ Store!Discard(c) \/ Store!Remove(c)
  <2>1. cmd[c].step # "lock" /\ (Store!Fail(c) \/ Store!Goto(c, "unlock") \/ Store!Goto(c, "drop"))
    BY <1>9 DEF Store!Swap, Store!Drop, Store!Discard, Store!Remove
  <2> QED BY <1>0, <2>1, StoreSweptAnyhow
<1>10. CASE Store!Unlock(c)
  <2>1. cmd[c].step # "lock" /\ cmd'[c] = Store!Idle /\ \A d \in Clients : d # c => cmd'[d] = cmd[d]
    BY <1>10 DEF Store!Unlock, StoreInv, Store!TypeOK
  <2> QED BY <1>0, <2>1, StoreOthersSwept
<1> QED BY <1>2, <1>3, <1>4, <1>5, <1>6, <1>7, <1>8, <1>9, <1>10 DEF Store!Step

LEMMA StoreInitSwept == Store!Init => StoreAllSwept
BY DEF Store!Init, StoreAllSwept

LEMMA StoreNextSwept ==
  ASSUME Store!StoreAssumption, Store!NamesUnrelated, StoreInv, StoreAllSwept, [Store!Next]_(Store!vars) PROVE StoreAllSwept'
<1>1. CASE UNCHANGED Store!vars
  BY <1>1 DEF Store!vars, StoreAllSwept, StoreSwept, StoreStagedBy, Store!Staged, Store!StagedAs, Store!Part
<1>2. ASSUME NEW c \in Clients, Store!Begin(c) \/ Store!Crash(c) PROVE StoreAllSwept'
  <2>1. UNCHANGED staging /\ \A d \in Clients : d # c => cmd'[d] = cmd[d]
    BY <1>2 DEF Store!Begin, Store!Crash, Store!disk, StoreInv, Store!TypeOK
  <2>2. cmd'[c] = Store!Idle \/ cmd'[c].step = "lock"
    BY <1>2 DEF Store!Begin, Store!Crash, StoreInv, Store!TypeOK
  <2>3. ASSUME NEW d \in Clients, cmd'[d] # Store!Idle PROVE StoreSwept(cmd[d])'
    <3>1. CASE d = c
      BY <2>2, <2>3, <3>1 DEF StoreSwept
    <3>2. CASE d # c
      BY <2>1, <2>3, <3>2 DEF StoreAllSwept, StoreSwept, StoreStagedBy, Store!Staged, Store!StagedAs, Store!Part
    <3> QED BY <3>1, <3>2
  <2> QED BY <2>3 DEF StoreAllSwept
<1> QED BY <1>1, <1>2, StoreSweptKeeps DEF Store!Next

LEMMA StoreSuccessIsSwept ==
  ASSUME Store!StoreAssumption, Store!NamesUnrelated, StoreInv, StoreAllSwept, [Store!Next]_(Store!vars),
         NEW c \in Clients, cmd[c] # Store!Idle, cmd'[c] # Store!Idle, cmd[c].step \in {"commit", "swap"},
         cmd'[c].step \in {"unlock", "drop"}
  PROVE  Store!Matching(staging', cmd[c].id) = {}
<1> PICK m : m = cmd[c]
  OBVIOUS
<1>1. PICK d \in Clients : Store!Begin(d) \/ Store!Step(d) \/ Store!Crash(d)
  BY DEF Store!Next, Store!vars
<1>2. d = c
  <2>1. ASSUME d # c PROVE cmd'[c] = cmd[c]
    <3>1. CASE Store!Begin(d) \/ Store!Crash(d) \/ Store!Unlock(d)
      BY <2>1, <3>1 DEF Store!Begin, Store!Crash, Store!Unlock, StoreInv, Store!TypeOK
    <3>2. CASE Store!Step(d) /\ ~Store!Unlock(d)
      BY <2>1, <3>2 DEF Store!Step, Store!Acquire, Store!Sweep, Store!Restore, Store!Purge, Store!Stage, Store!Copy, Store!Commit, Store!Swap, Store!Drop,
         Store!Discard, Store!Remove, Store!Fail, Store!Goto, StoreInv, Store!TypeOK
    <3> QED BY <1>1, <3>1, <3>2
  <2> QED BY <2>1
<1>3. Store!Commit(c) \/ Store!Swap(c)
  <2>1. Store!Step(c)
    BY <1>1, <1>2 DEF Store!Begin, Store!Crash, StoreInv, Store!TypeOK
  <2> QED BY <2>1 DEF Store!Step, Store!Acquire, Store!Sweep, Store!Restore, Store!Purge, Store!Stage, Store!Copy, Store!Drop, Store!Discard, Store!Remove, Store!Unlock
<1>4. /\ StoreDiskOK /\ m.id \in Store!Names /\ cmd[c].step # "lock" /\ StoreInv' /\ m.id = cmd[c].id
      /\ StoreStagedBy(m.id) \subseteq {Store!Staged(m)}
      /\ \A S \in SUBSET Store!Artifacts : \A n \in Store!Names : Store!Matching(S, n) = {b \in S : b.name = n}
  BY StoreHolder, StoreSteps DEF StoreAllSwept, StoreSwept
<1>5. staging' = staging \ {Store!Staged(m)}
  <2>1. ASSUME NEW s \in Store!Steps, Store!Goto(c, s) PROVE cmd'[c].step = s
    BY <2>1, StoreGoesOn DEF StoreInv
  <2>2. "swap" \in Store!Steps /\ "discard" \in Store!Steps
    BY DEF Store!Steps
  <2>3. ~Store!Goto(c, "swap") /\ ~Store!Fail(c)
    BY <2>1, <2>2 DEF Store!Fail
  <2> QED BY <1>3, <2>3 DEF Store!Commit, Store!Swap
<1>6. StoreStagedBy(m.id)' = {}
  BY <1>4, <1>5 DEF StoreStagedBy
<1>7. staging' \subseteq Store!Artifacts
  BY <1>4, <1>5 DEF StoreDiskOK
<1> QED BY <1>4, <1>6, <1>7 DEF StoreStagedBy

-----------------------------------------------------------------------------
(* The surfaces of the renderer.                                              *)
(* What holds of each slot: an image its surface holds is held by the          *)
(* swapchain; a slot without a surface has no swapchain, and a surface that is *)
(* Ready has one and a size; the last frame drawn into it was marked as its    *)
(* last use.                                                                   *)
Swapchains == [size : Sizes \cup {0}, configured : BOOLEAN, acquired : BOOLEAN]
SlotRecords == [generation : Nat, id : Nat, surface : BOOLEAN, swapchain : Swapchains,
                size : Sizes \cup {0}, state : {"Ready", "Minimized", "Outdated", "Lost"},
                acquired : BOOLEAN, lastUsed : Nat, drawn : Nat]
SoundSlots == {s \in SlotRecords :
              /\ s.acquired => s.swapchain.acquired
              /\ s.swapchain.acquired => s.swapchain.configured
              /\ ~s.surface => s.swapchain = Surfaces!NoSwapchain
              /\ s.surface /\ s.state = "Ready" => s.swapchain # Surfaces!NoSwapchain /\ s.size # 0
              /\ s.drawn <= s.lastUsed}

(* A generation of a slot is not given out again before the slot has come to   *)
(* it; what is free has no surface and is free once.                           *)
HandlesSound ==
    \A h \in handles :
        /\ h.index \in 1..Len(slots) /\ h.generation \in Nat
        /\ h.generation <= slots[h.index].generation
        /\ Surfaces!Valid(h) => slots[h.index].surface /\ slots[h.index].id = h.id
FreeSound ==
    /\ free \in Seq(1..Len(slots)) /\ Distinct(free)
    /\ \A i \in 1..Len(free) : ~slots[free[i]].surface

(* An image that is held is held for the frame at work or by one refused.      *)
HeldSound ==
    \A i \in 1..Len(slots) :
        slots[i].swapchain.acquired => i \in kept \/ (~Surfaces!Between /\ i \in acquired)
FrameSound ==
    /\ at \in {"idle", "canvas", "views", "present"}
    /\ canvas \in handles \cup {Surfaces!NoHandle} /\ views \subseteq handles
    /\ at = "canvas" => acquired = {}

SurfacesInv ==
    /\ slots \in Seq(SoundSlots) /\ created \in Nat /\ submitted \in Nat
    /\ HandlesSound /\ FreeSound /\ HeldSound /\ FrameSound /\ Surfaces!RetiredWhenDrawn

-----------------------------------------------------------------------------
\* What a slot is to its handles stays as it is.
SameToHandles(s, t) == t.generation = s.generation /\ t.surface = s.surface /\ t.id = s.id

LEMMA SlotOf ==
  ASSUME slots \in Seq(SoundSlots), NEW i \in 1..Len(slots)
  PROVE  slots[i] \in SoundSlots /\ slots[i] \in SlotRecords /\ slots[i].swapchain \in Swapchains
<1>1. slots[i] \in SoundSlots
  BY ElementOfSeq
<1> QED BY <1>1 DEF SoundSlots, SlotRecords

LEMMA SlotFields ==
  ASSUME NEW s \in SlotRecords
  PROVE  /\ s.generation \in Nat /\ s.id \in Nat /\ s.surface \in BOOLEAN /\ s.swapchain \in Swapchains
         /\ s.size \in Sizes \cup {0} /\ s.acquired \in BOOLEAN /\ s.lastUsed \in Nat /\ s.drawn \in Nat
         /\ s.swapchain.acquired \in BOOLEAN /\ s.swapchain.configured \in BOOLEAN
BY DEF SlotRecords, Swapchains

LEMMA IsSound ==
  ASSUME NEW s \in SlotRecords, s.acquired => s.swapchain.acquired,
         s.swapchain.acquired => s.swapchain.configured,
         ~s.surface => s.swapchain = Surfaces!NoSwapchain,
         s.surface /\ s.state = "Ready" => s.swapchain # Surfaces!NoSwapchain /\ s.size # 0,
         s.drawn <= s.lastUsed
  PROVE  s \in SoundSlots
BY DEF SoundSlots

LEMMA SoundSlot ==
  ASSUME NEW s \in SoundSlots
  PROVE  /\ s \in SlotRecords /\ (s.acquired => s.swapchain.acquired)
         /\ (s.swapchain.acquired => s.swapchain.configured)
         /\ (~s.surface => s.swapchain = Surfaces!NoSwapchain)
         /\ (s.surface /\ s.state = "Ready" => s.swapchain # Surfaces!NoSwapchain /\ s.size # 0)
         /\ s.drawn <= s.lastUsed
BY DEF SoundSlots

LEMMA NoneHeld ==
  /\ Surfaces!NoSwapchain \in Swapchains /\ Surfaces!NoSwapchain.acquired = FALSE
  /\ \A size \in Sizes \cup {0} :
        /\ Surfaces!NewSwapchain(size) \in Swapchains /\ Surfaces!NewSwapchain(size).acquired = FALSE
        /\ Surfaces!NewSwapchain(size) # Surfaces!NoSwapchain
BY DEF Surfaces!NoSwapchain, Surfaces!NewSwapchain, Swapchains

(* A step of slots that are still there, to their handles what they were.      *)
LEMMA SlotsStay ==
  ASSUME SurfacesInv, slots' \in [1..Len(slots) -> SoundSlots], UNCHANGED Surfaces!registry,
         \A i \in 1..Len(slots) : SameToHandles(slots[i], slots'[i])
  PROVE  /\ slots' \in Seq(SoundSlots) /\ Len(slots') = Len(slots)
         /\ created' \in Nat /\ HandlesSound' /\ FreeSound'
<1>1. Len(slots) \in Nat
  BY LenProperties DEF SurfacesInv
<1>2. slots' \in Seq(SoundSlots) /\ Len(slots') = Len(slots)
  BY <1>1, FunctionIsSeq
<1>3. handles' = handles /\ free' = free /\ created' = created
  BY DEF Surfaces!registry
<1>4. HandlesSound'
  <2> SUFFICES ASSUME NEW h \in handles
               PROVE  /\ h.index \in 1..Len(slots') /\ h.generation \in Nat
                      /\ h.generation <= slots'[h.index].generation
                      /\ Surfaces!Valid(h)' => slots'[h.index].surface /\ slots'[h.index].id = h.id
    BY <1>3 DEF HandlesSound
  <2>1. /\ h.index \in 1..Len(slots) /\ h.generation \in Nat
        /\ h.generation <= slots[h.index].generation
        /\ Surfaces!Valid(h) => slots[h.index].surface /\ slots[h.index].id = h.id
    BY DEF SurfacesInv, HandlesSound
  <2>2. SameToHandles(slots[h.index], slots'[h.index])
    BY <2>1
  <2> QED BY <1>2, <2>1, <2>2 DEF SameToHandles, Surfaces!Valid
<1>5. FreeSound'
  <2>1. free \in Seq(1..Len(slots)) /\ Distinct(free) /\ \A i \in 1..Len(free) : ~slots[free[i]].surface
    BY DEF SurfacesInv, FreeSound
  <2>2. \A i \in 1..Len(free) : free[i] \in 1..Len(slots)
    BY <2>1, ElementOfSeq
  <2>3. \A i \in 1..Len(free) : ~slots'[free[i]].surface
    BY <2>1, <2>2 DEF SameToHandles
  <2> QED BY <1>2, <1>3, <2>1, <2>3 DEF FreeSound
<1> QED BY <1>2, <1>3, <1>4, <1>5 DEF SurfacesInv

(* So with one slot that changes.                                              *)
LEMMA OneSlot ==
  ASSUME slots \in Seq(SoundSlots), NEW i \in 1..Len(slots), NEW s \in SoundSlots, SameToHandles(slots[i], s),
         slots' = [slots EXCEPT ![i] = s]
  PROVE  /\ slots' \in [1..Len(slots) -> SoundSlots] /\ slots'[i] = s
         /\ \A j \in 1..Len(slots) : j # i => slots'[j] = slots[j]
         /\ \A j \in 1..Len(slots) : SameToHandles(slots[j], slots'[j])
<1>1. slots \in [1..Len(slots) -> SoundSlots]
  BY LenProperties
<1>2. /\ slots' \in [1..Len(slots) -> SoundSlots] /\ slots'[i] = s
      /\ \A j \in 1..Len(slots) : j # i => slots'[j] = slots[j]
  BY <1>1
<1> QED BY <1>2 DEF SameToHandles

LEMMA SurfacesInit == Surfaces!Init => SurfacesInv
<1> SUFFICES ASSUME Surfaces!Init PROVE SurfacesInv
  OBVIOUS
<1>1. Len(slots) = 0 /\ slots \in Seq(SoundSlots) /\ free \in Seq(1..Len(slots)) /\ Len(free) = 0
  BY EmptySeq DEF Surfaces!Init
<1>2. Distinct(free)
  BY <1>1 DEF Distinct
<1> QED BY <1>1, <1>2 DEF Surfaces!Init, SurfacesInv, HandlesSound, FreeSound, HeldSound, FrameSound, Surfaces!RetiredWhenDrawn, Surfaces!Between

LEMMA ReconfigureStep ==
  ASSUME SurfacesInv, NEW h \in handles, NEW size \in Sizes \cup {0}, Surfaces!ReconfigureSurface(h, size)
  PROVE  SurfacesInv'
<1>0. PICK i \in 1..Len(slots) : i = h.index
  BY DEF SurfacesInv, HandlesSound
<1>1. PICK old \in SoundSlots : old = slots[i]
  BY SlotOf DEF SurfacesInv
<1>2. old \in SlotRecords /\ old.swapchain \in Swapchains /\ old.surface
  BY <1>0, <1>1, SlotOf DEF SurfacesInv, Surfaces!ReconfigureSurface, Surfaces!Live
<1>3. PICK slot \in SlotRecords : slot = [old EXCEPT !.acquired = FALSE]
  BY <1>2 DEF SlotRecords
<1>4. slot \in SoundSlots /\ SameToHandles(old, slot) /\ slot.swapchain = old.swapchain /\ slot.surface
  BY <1>1, <1>2, <1>3 DEF SoundSlots, SlotRecords, SameToHandles
<1>5. PICK new \in SoundSlots :
        /\ slots' = [slots EXCEPT ![i] = new] /\ SameToHandles(old, new)
        /\ new.swapchain.acquired => old.swapchain.acquired
        /\ \/ UNCHANGED kept
           \/ kept' = kept \ {i} /\ ~new.swapchain.acquired
  <2>1. CASE size = 0
    <3>1. PICK new \in SlotRecords : new = [slot EXCEPT !.size = 0, !.state = "Minimized"]
      BY <1>3 DEF SlotRecords
    <3>2. new \in SoundSlots /\ SameToHandles(old, new) /\ new.swapchain = old.swapchain
      BY <1>3, <1>4, <3>1 DEF SoundSlots, SlotRecords, SameToHandles
    <3>3. slots' = [slots EXCEPT ![i] = new] /\ UNCHANGED kept
      BY <1>0, <1>1, <1>3, <2>1, <3>1 DEF Surfaces!ReconfigureSurface
    <3> QED BY <3>2, <3>3
  <2>2. CASE size # 0 /\ slot.swapchain = Surfaces!NoSwapchain
    <3>1. CASE slots' = [slots EXCEPT ![i] = slot]
      <4>1. UNCHANGED kept
        BY <1>0, <1>1, <1>3, <2>2 DEF Surfaces!ReconfigureSurface
      <4> QED BY <1>4, <3>1, <4>1
    <3>2. CASE slots' # [slots EXCEPT ![i] = slot]
      <4>1. PICK c \in Swapchains : c = Surfaces!NewSwapchain(size)
        BY DEF Surfaces!NewSwapchain, Swapchains
      <4>2. PICK new \in SlotRecords : new = [slot EXCEPT !.size = size, !.state = "Ready", !.swapchain = c]
        BY <1>3, <4>1 DEF SlotRecords
      <4>3. new \in SoundSlots /\ SameToHandles(old, new) /\ ~new.swapchain.acquired
        BY <1>3, <1>4, <2>2, <4>1, <4>2 DEF SoundSlots, SlotRecords, SameToHandles, Surfaces!NewSwapchain, Surfaces!NoSwapchain
      <4>4. slots' = [slots EXCEPT ![i] = new] /\ UNCHANGED kept
        BY <1>0, <1>1, <1>3, <2>2, <3>2, <4>1, <4>2 DEF Surfaces!ReconfigureSurface
      <4> QED BY <4>3, <4>4
    <3> QED BY <3>1, <3>2
  <2>3. CASE size # 0 /\ slot.swapchain # Surfaces!NoSwapchain
    <3>1. PICK succeeds \in BOOLEAN :
            slots' = [slots EXCEPT ![i] = [slot EXCEPT !.size = size, !.state = "Ready",
                                                        !.swapchain = Surfaces!Resized(slot.swapchain, size, succeeds)]]
      BY <1>0, <1>1, <1>3, <2>3 DEF Surfaces!ReconfigureSurface
    <3>2. PICK c \in Swapchains :
            /\ c = Surfaces!Resized(slot.swapchain, size, succeeds) /\ c # Surfaces!NoSwapchain
            /\ IF size = slot.swapchain.size THEN c = slot.swapchain ELSE ~c.acquired
      <4>1. PICK w \in Swapchains : w = slot.swapchain /\ w # Surfaces!NoSwapchain
        BY <1>2, <1>4, <2>3
      <4>2. CASE size = w.size
        BY <4>1, <4>2 DEF Surfaces!Resized
      <4>3. CASE size # w.size
        <5>1. Surfaces!Resized(w, size, succeeds) = [size |-> size, configured |-> succeeds, acquired |-> FALSE]
          BY <4>3 DEF Surfaces!Resized
        <5>2. [size |-> size, configured |-> succeeds, acquired |-> FALSE] \in Swapchains
          BY DEF Swapchains
        <5>3. [size |-> size, configured |-> succeeds, acquired |-> FALSE] # Surfaces!NoSwapchain
          BY <2>3 DEF Surfaces!NoSwapchain
        <5> QED BY <4>1, <4>3, <5>1, <5>2, <5>3
      <4> QED BY <4>2, <4>3
    <3>3. PICK new \in SlotRecords : new = [slot EXCEPT !.size = size, !.state = "Ready", !.swapchain = c]
      BY <1>3, <3>2 DEF SlotRecords
    <3>4. new \in SoundSlots /\ SameToHandles(old, new) /\ new.swapchain = c
      BY <1>3, <1>4, <2>3, <3>2, <3>3 DEF SoundSlots, SlotRecords, SameToHandles
    <3>5. kept' = IF size = slot.swapchain.size THEN kept ELSE kept \ {i}
      BY <1>0, <1>1, <1>3, <2>3 DEF Surfaces!ReconfigureSurface
    <3> QED BY <1>4, <3>1, <3>2, <3>3, <3>4, <3>5
  <2> QED BY <2>1, <2>2, <2>3
<1>6. /\ slots' \in [1..Len(slots) -> SoundSlots] /\ slots'[i] = new
      /\ \A j \in 1..Len(slots) : j # i => slots'[j] = slots[j]
      /\ \A j \in 1..Len(slots) : SameToHandles(slots[j], slots'[j])
  BY <1>1, <1>5, OneSlot DEF SurfacesInv
<1>7. UNCHANGED <<Surfaces!registry, Surfaces!frame, Surfaces!gpu>>
  BY DEF Surfaces!ReconfigureSurface
<1>8. /\ slots' \in Seq(SoundSlots) /\ Len(slots') = Len(slots)
      /\ created' \in Nat /\ HandlesSound' /\ FreeSound'
  BY <1>6, <1>7, SlotsStay
<1>9. HeldSound'
  BY <1>1, <1>5, <1>6, <1>7, <1>8 DEF SurfacesInv, HeldSound, Surfaces!frame, Surfaces!Between
<1> QED BY <1>7, <1>8, <1>9 DEF SurfacesInv, Surfaces!registry, Surfaces!frame, Surfaces!gpu, FrameSound, Surfaces!RetiredWhenDrawn

(* A slot for a new surface is one more or one without a surface, and is then  *)
(* no longer free.                                                             *)
LEMMA Placement ==
  ASSUME SurfacesInv, NEW s \in SoundSlots, slots' = Surfaces!Placed(s)
  PROVE  /\ slots' \in Seq(SoundSlots) /\ Surfaces!Index \in 1..Len(slots') /\ slots'[Surfaces!Index] = s
         /\ Len(slots) \in Nat /\ Len(slots') \in Nat /\ Len(slots) <= Len(slots')
         /\ \A j \in 1..Len(slots) : j # Surfaces!Index => slots'[j] = slots[j]
         /\ \A j \in 1..Len(slots') : j # Surfaces!Index => j \in 1..Len(slots)
         /\ Surfaces!Index \in 1..Len(slots) => ~slots[Surfaces!Index].surface
         /\ Surfaces!Taken \in Seq(1..Len(slots)) /\ Distinct(Surfaces!Taken)
         /\ \A k \in 1..Len(Surfaces!Taken) : Surfaces!Taken[k] # Surfaces!Index /\ ~slots[Surfaces!Taken[k]].surface
<1>1. /\ slots \in Seq(SoundSlots) /\ Len(slots) \in Nat /\ slots \in [1..Len(slots) -> SoundSlots]
      /\ free \in Seq(1..Len(slots)) /\ Len(free) \in Nat /\ Distinct(free)
      /\ \A i \in 1..Len(free) : ~slots[free[i]].surface
  BY LenProperties DEF SurfacesInv, FreeSound
<1>2. CASE free = << >>
  <2>1. Surfaces!Index = Len(slots) + 1 /\ Surfaces!Taken = free /\ Len(Surfaces!Taken) = 0
    BY <1>1, <1>2 DEF Surfaces!Index, Surfaces!Taken
  <2>2. slots' = Append(slots, s)
    <3>1. ~(Surfaces!Index <= Len(slots))
      BY <1>1, <2>1
    <3> QED BY <3>1 DEF Surfaces!Placed
  <2>3. /\ slots' \in Seq(SoundSlots) /\ Len(slots') = Len(slots) + 1
        /\ \A i \in 1..Len(slots) : slots'[i] = slots[i]
        /\ slots'[Len(slots) + 1] = s
    BY <1>1, <2>2, AppendProperties
  <2> QED BY <1>1, <2>1, <2>3
<1>3. CASE free # << >>
  <2>1. Len(free) \in 1..Len(free)
    BY <1>1, <1>3, EmptySeq, LenProperties
  <2>2. /\ Surfaces!Index = free[Len(free)] /\ Surfaces!Index \in 1..Len(slots) /\ ~slots[Surfaces!Index].surface
    <3>1. Surfaces!Index = free[Len(free)]
      BY <1>3 DEF Surfaces!Index
    <3> QED BY <1>1, <2>1, <3>1, ElementOfSeq
  <2>3. slots' = [slots EXCEPT ![Surfaces!Index] = s]
    <3>1. Surfaces!Index <= Len(slots)
      BY <1>1, <2>2
    <3> QED BY <3>1 DEF Surfaces!Placed
  <2>4. slots' \in [1..Len(slots) -> SoundSlots]
    BY <1>1, <2>2, <2>3
  <2>5. slots' \in Seq(SoundSlots) /\ Len(slots') = Len(slots)
    BY <1>1, <2>4, FunctionIsSeq
  <2>6. Surfaces!Taken = SubSeq(free, 1, Len(free) - 1)
    BY <1>3 DEF Surfaces!Taken
  <2>7. \A i \in 1..Len(free) : free[i] \in 1..Len(slots)
    BY <1>1, ElementOfSeq
  <2>8. /\ Surfaces!Taken \in Seq(1..Len(slots)) /\ Len(Surfaces!Taken) = Len(free) - 1
        /\ \A i \in 1..Len(free) - 1 : Surfaces!Taken[i] = free[i]
    <3>0. Len(free) \in Nat
      BY <1>1
    <3>1. PICK m \in Int : m = Len(free) - 1
      BY <3>0
    <3>2. \A i \in 1..m : free[i] \in 1..Len(slots)
      BY <1>1, <2>7, <3>1
    <3>3. /\ SubSeq(free, 1, m) \in Seq(1..Len(slots))
          /\ Len(SubSeq(free, 1, m)) = IF 1 <= m THEN m - 1 + 1 ELSE 0
          /\ \A i \in 1..m - 1 + 1 : SubSeq(free, 1, m)[i] = free[1 + i - 1]
      BY <3>2, SubSeqProperties
    <3>4. Len(SubSeq(free, 1, m)) = m
      BY <1>1, <2>1, <3>1, <3>3
    <3>5. \A i \in 1..m : SubSeq(free, 1, m)[i] = free[i]
      BY <3>3
    <3> QED BY <2>6, <3>1, <3>3, <3>4, <3>5
  <2>9. Distinct(Surfaces!Taken) /\ \A k \in 1..Len(Surfaces!Taken) : Surfaces!Taken[k] # Surfaces!Index /\ ~slots[Surfaces!Taken[k]].surface
    <3>1. PICK m \in Nat : m = Len(free) - 1
      BY <1>1, <2>1
    <3>2. Len(Surfaces!Taken) = m /\ Len(free) = m + 1 /\ \A i \in 1..m : Surfaces!Taken[i] = free[i]
      BY <1>1, <2>8, <3>1
    <3>3. \A i, j \in 1..m + 1 : i # j => free[i] # free[j]
      BY <1>1, <3>2 DEF Distinct
    <3>4. Distinct(Surfaces!Taken)
      BY <3>2, <3>3 DEF Distinct
    <3>5. Surfaces!Index = free[m + 1] /\ \A k \in 1..m : ~slots[free[k]].surface
      BY <1>1, <2>2, <3>2
    <3> QED BY <3>2, <3>3, <3>4, <3>5
  <2> QED BY <1>1, <2>2, <2>3, <2>5, <2>8, <2>9
<1> QED BY <1>2, <1>3

LEMMA PlacedStep ==
  ASSUME SurfacesInv, NEW s \in SoundSlots, slots' = Surfaces!Placed(s),
         s.generation = Surfaces!Slot(Surfaces!Index).generation, ~s.swapchain.acquired,
         UNCHANGED <<Surfaces!frame, Surfaces!gpu, kept>>, created' \in Nat,
         \/ free' = Surfaces!Taken
         \/ free' = Append(Surfaces!Taken, Surfaces!Index) /\ ~s.surface,
         \/ handles' = handles
         \/ /\ s.surface
            /\ handles' = handles \cup {[index |-> Surfaces!Index, generation |-> s.generation, id |-> s.id]}
  PROVE  SurfacesInv'
<1>1. PICK i : i = Surfaces!Index
  OBVIOUS
<1>2. /\ slots' \in Seq(SoundSlots) /\ i \in 1..Len(slots') /\ slots'[i] = s
      /\ Len(slots) \in Nat /\ Len(slots') \in Nat /\ Len(slots) <= Len(slots')
      /\ \A j \in 1..Len(slots) : j # i => slots'[j] = slots[j]
      /\ \A j \in 1..Len(slots') : j # i => j \in 1..Len(slots)
      /\ i \in 1..Len(slots) => ~slots[i].surface
  BY <1>1, Placement
<1>3. /\ Surfaces!Taken \in Seq(1..Len(slots)) /\ Distinct(Surfaces!Taken) /\ Len(Surfaces!Taken) \in Nat
      /\ \A k \in 1..Len(Surfaces!Taken) : Surfaces!Taken[k] # i /\ ~slots[Surfaces!Taken[k]].surface
  BY <1>1, Placement, LenProperties
<1>4. s.generation \in Nat
  BY DEF SoundSlots, SlotRecords
<1>5. i \in 1..Len(slots) => s.generation = slots[i].generation
  BY <1>1, <1>2 DEF Surfaces!Slot
<1>6. HandlesSound'
  <2> SUFFICES ASSUME NEW h \in handles'
               PROVE  /\ h.index \in 1..Len(slots') /\ h.generation \in Nat
                      /\ h.generation <= slots'[h.index].generation
                      /\ Surfaces!Valid(h)' => slots'[h.index].surface /\ slots'[h.index].id = h.id
    BY DEF HandlesSound
  <2>1. CASE h \in handles
    <3>1. /\ h.index \in 1..Len(slots) /\ h.generation \in Nat
          /\ h.generation <= slots[h.index].generation
          /\ Surfaces!Valid(h) => slots[h.index].surface /\ slots[h.index].id = h.id
      BY <2>1 DEF SurfacesInv, HandlesSound
    <3>2. CASE h.index = i
      <4>1. h.generation # slots[h.index].generation
        BY <1>2, <3>1, <3>2 DEF Surfaces!Valid
      <4> QED BY <1>2, <1>5, <3>1, <3>2, <4>1 DEF Surfaces!Valid
    <3>3. CASE h.index # i
      BY <1>2, <3>1, <3>3 DEF Surfaces!Valid
    <3> QED BY <3>2, <3>3
  <2>2. CASE h \notin handles
    <3>1. s.surface /\ h = [index |-> i, generation |-> s.generation, id |-> s.id]
      BY <1>1, <2>2
    <3>2. h.index = i /\ h.generation = s.generation /\ h.id = s.id
      BY <3>1
    <3> QED BY <1>2, <1>4, <3>1, <3>2
  <2> QED BY <2>1, <2>2
<1>7. FreeSound'
  <2>1. \A k \in 1..Len(Surfaces!Taken) : Surfaces!Taken[k] \in 1..Len(slots)
    BY <1>3, ElementOfSeq
  <2>2. \A k \in 1..Len(Surfaces!Taken) : Surfaces!Taken[k] \in 1..Len(slots') /\ ~slots'[Surfaces!Taken[k]].surface
    BY <1>2, <1>3, <2>1
  <2>3. Surfaces!Taken \in [1..Len(Surfaces!Taken) -> 1..Len(slots')]
    BY <1>3, <2>2, LenProperties
  <2>4. Surfaces!Taken \in Seq(1..Len(slots'))
    BY <1>3, <2>3, FunctionIsSeq
  <2>5. CASE free' = Surfaces!Taken
    BY <1>3, <2>2, <2>4, <2>5 DEF FreeSound
  <2>6. CASE free' = Append(Surfaces!Taken, Surfaces!Index) /\ ~s.surface
    <3>1. free' = Append(Surfaces!Taken, i)
      BY <1>1, <2>6
    <3>2. i \notin Range(Surfaces!Taken)
      BY <1>3, <2>3 DEF Range
    <3>3. Distinct(free')
      BY <1>2, <1>3, <2>4, <3>1, <3>2, DistinctAppend
    <3>4. /\ free' \in Seq(1..Len(slots')) /\ Len(free') = Len(Surfaces!Taken) + 1
          /\ \A k \in 1..Len(Surfaces!Taken) : free'[k] = Surfaces!Taken[k]
          /\ free'[Len(Surfaces!Taken) + 1] = i
      BY <1>2, <2>4, <3>1, AppendProperties
    <3>5. \A k \in 1..Len(free') : ~slots'[free'[k]].surface
      <4> SUFFICES ASSUME NEW k \in 1..Len(free') PROVE ~slots'[free'[k]].surface
        OBVIOUS
      <4>1. CASE k \in 1..Len(Surfaces!Taken)
        BY <2>2, <3>4, <4>1
      <4>2. CASE k \notin 1..Len(Surfaces!Taken)
        <5>1. k = Len(Surfaces!Taken) + 1
          BY <1>3, <3>4, <4>2
        <5> QED BY <1>2, <2>6, <3>4, <5>1
      <4> QED BY <4>1, <4>2
    <3> QED BY <3>3, <3>4, <3>5 DEF FreeSound
  <2> QED BY <2>5, <2>6
<1>8. HeldSound'
  BY <1>2 DEF SurfacesInv, HeldSound, Surfaces!frame, Surfaces!Between
<1>9. FrameSound' /\ Surfaces!RetiredWhenDrawn' /\ submitted' \in Nat
  BY DEF SurfacesInv, FrameSound, Surfaces!RetiredWhenDrawn, Surfaces!frame, Surfaces!gpu
<1> QED BY <1>2, <1>6, <1>7, <1>8, <1>9 DEF SurfacesInv

LEMMA CreateStep ==
  ASSUME SurfacesInv, NEW size \in Sizes \cup {0}, Surfaces!CreateSurface(size)
  PROVE  SurfacesInv'
<1>1. PICK old : old = Surfaces!Slot(Surfaces!Index)
  OBVIOUS
<1>2. old \in SoundSlots /\ old \in SlotRecords /\ ~old.surface /\ old.swapchain = Surfaces!NoSwapchain
  <2>1. CASE Surfaces!Index <= Len(slots)
    <3>2. Surfaces!Index \in 1..Len(slots) /\ ~slots[Surfaces!Index].surface
      <4>1. /\ Len(slots) \in Nat /\ free \in Seq(1..Len(slots)) /\ Len(free) \in Nat
            /\ \A i \in 1..Len(free) : ~slots[free[i]].surface
        BY LenProperties DEF SurfacesInv, FreeSound
      <4>2. free # << >>
        BY <2>1, <4>1 DEF Surfaces!Index
      <4>3. Len(free) \in 1..Len(free)
        BY <4>1, <4>2, EmptySeq, LenProperties
      <4> QED BY <4>1, <4>2, <4>3, ElementOfSeq DEF Surfaces!Index
    <3>3. old = slots[Surfaces!Index]
      BY <1>1, <2>1 DEF Surfaces!Slot
    <3>4. old \in SoundSlots /\ old \in SlotRecords /\ ~old.surface
      BY <3>2, <3>3, SlotOf DEF SurfacesInv
    <3> QED BY <3>4, SoundSlot
  <2>2. CASE ~(Surfaces!Index <= Len(slots))
    <3>1. old = Surfaces!Empty
      BY <1>1, <2>2 DEF Surfaces!Slot
    <3>2. /\ Surfaces!Empty.generation = 1 /\ Surfaces!Empty.surface = FALSE /\ Surfaces!Empty.swapchain = Surfaces!NoSwapchain
          /\ Surfaces!Empty.acquired = FALSE /\ Surfaces!Empty.drawn = 0 /\ Surfaces!Empty.lastUsed = 0
      BY DEF Surfaces!Empty
    <3>3. Surfaces!Empty \in SlotRecords
      <4>1. PICK c \in Swapchains : c = Surfaces!NoSwapchain
        BY NoneHeld
      <4> QED BY <4>1 DEF Surfaces!Empty, SlotRecords
    <3>4. Surfaces!Empty \in SoundSlots
      BY <3>2, <3>3, NoneHeld, IsSound
    <3> QED BY <3>1, <3>2, <3>3, <3>4
  <2> QED BY <2>1, <2>2
<1>3. created \in Nat /\ created' = created + 1 /\ UNCHANGED <<Surfaces!frame, Surfaces!gpu, kept>>
  BY DEF SurfacesInv, Surfaces!CreateSurface
<1>4. PICK new \in SlotRecords :
        new = [old EXCEPT !.surface = TRUE, !.size = size, !.id = created + 1, !.drawn = 0]
  <2>1. PICK n \in Nat : n = created + 1
    BY <1>3
  <2>2. [old EXCEPT !.surface = TRUE, !.size = size, !.id = n, !.drawn = 0] \in SlotRecords
    BY <1>2 DEF SlotRecords
  <2> QED BY <2>1, <2>2
<1>5. /\ new.generation = old.generation /\ new.surface = TRUE /\ new.drawn = 0
      /\ new.swapchain = Surfaces!NoSwapchain /\ new.acquired = old.acquired /\ new.lastUsed \in Nat
      /\ new.size = size
  BY <1>2, <1>4 DEF SlotRecords
<1>9. new.acquired = FALSE
  BY <1>2, <1>5, SoundSlot, SlotFields, NoneHeld
<1>6. CASE slots' = Surfaces!Placed(old) /\ free' = Surfaces!Taken /\ UNCHANGED handles
  BY <1>1, <1>2, <1>3, <1>6, PlacedStep, NoneHeld
<1>7. CASE /\ slots' = Surfaces!Placed([new EXCEPT !.surface = FALSE])
           /\ free' = Append(Surfaces!Taken, Surfaces!Index) /\ UNCHANGED handles
  <2>1. PICK s \in SlotRecords : s = [new EXCEPT !.surface = FALSE]
    BY DEF SlotRecords
  <2>2. s \in SoundSlots /\ ~s.surface /\ s.generation = old.generation /\ ~s.swapchain.acquired
    <3>1. /\ s.generation = new.generation /\ s.surface = FALSE /\ s.swapchain = new.swapchain
          /\ s.acquired = new.acquired /\ s.drawn = new.drawn /\ s.lastUsed = new.lastUsed
      BY <2>1 DEF SlotRecords
    <3>2. s \in SoundSlots
      BY <1>5, <1>9, <3>1, NoneHeld, IsSound
    <3> QED BY <1>5, <3>1, <3>2, NoneHeld
  <2>3. slots' = Surfaces!Placed(s)
    BY <1>7, <2>1
  <2>4. free' = Append(Surfaces!Taken, Surfaces!Index) /\ ~s.surface /\ handles' = handles
    BY <1>7, <2>2
  <2>5. s.generation = Surfaces!Slot(Surfaces!Index).generation /\ ~s.swapchain.acquired /\ created' \in Nat
    BY <1>1, <1>3, <2>2
  <2> QED BY <1>3, <2>2, <2>3, <2>4, <2>5, PlacedStep
<1>8. CASE /\ slots' = Surfaces!Placed(IF size = 0 THEN [new EXCEPT !.state = "Minimized"]
                              ELSE [new EXCEPT !.state = "Ready", !.swapchain = Surfaces!NewSwapchain(size)])
           /\ free' = Surfaces!Taken
           /\ handles' = handles \cup {[index |-> Surfaces!Index, generation |-> new.generation, id |-> new.id]}
  <2>1. PICK s \in SlotRecords :
          s = IF size = 0 THEN [new EXCEPT !.state = "Minimized"]
              ELSE [new EXCEPT !.state = "Ready", !.swapchain = Surfaces!NewSwapchain(size)]
    <3>1. Surfaces!NewSwapchain(size) \in Swapchains
      BY DEF Surfaces!NewSwapchain, Swapchains
    <3>2. CASE size = 0
      BY <3>2 DEF SlotRecords
    <3>3. CASE size # 0
      <4>1. PICK c \in Swapchains : c = Surfaces!NewSwapchain(size)
        BY <3>1
      <4>2. [new EXCEPT !.state = "Ready", !.swapchain = c] \in SlotRecords
        BY DEF SlotRecords
      <4> QED BY <3>3, <4>1, <4>2
    <3> QED BY <3>2, <3>3
  <2>2. /\ s \in SoundSlots /\ s.surface /\ s.generation = old.generation /\ ~s.swapchain.acquired
        /\ s.generation = new.generation /\ s.id = new.id
    <3>1. CASE size = 0
      <4>1. s = [new EXCEPT !.state = "Minimized"]
        BY <2>1, <3>1
      <4>2. /\ s.generation = new.generation /\ s.surface = TRUE /\ s.swapchain = new.swapchain
            /\ s.acquired = new.acquired /\ s.drawn = new.drawn /\ s.lastUsed = new.lastUsed
            /\ s.state = "Minimized" /\ s.id = new.id
        BY <1>5, <4>1 DEF SlotRecords
      <4>3. s \in SoundSlots
        BY <1>5, <1>9, <4>2, NoneHeld, IsSound
      <4> QED BY <1>5, <4>2, <4>3, NoneHeld
    <3>2. CASE size # 0
      <4>1. s = [new EXCEPT !.state = "Ready", !.swapchain = Surfaces!NewSwapchain(size)]
        BY <2>1, <3>2
      <4>2. /\ s.generation = new.generation /\ s.surface = TRUE /\ s.swapchain = Surfaces!NewSwapchain(size)
            /\ s.acquired = new.acquired /\ s.drawn = new.drawn /\ s.lastUsed = new.lastUsed
            /\ s.id = new.id /\ s.size = new.size
        BY <1>5, <4>1 DEF SlotRecords
      <4>3. s \in SoundSlots
        BY <1>5, <1>9, <3>2, <4>2, NoneHeld, IsSound
      <4> QED BY <1>5, <4>2, <4>3, NoneHeld
    <3> QED BY <3>1, <3>2
  <2>3. slots' = Surfaces!Placed(s)
    BY <1>8, <2>1
  <2>4. handles' = handles \cup {[index |-> Surfaces!Index, generation |-> s.generation, id |-> s.id]}
    BY <1>8, <2>2
  <2> QED BY <1>1, <1>3, <1>8, <2>2, <2>3, <2>4, PlacedStep
<1> QED BY <1>1, <1>4, <1>6, <1>7, <1>8 DEF Surfaces!CreateSurface

LEMMA DestroyStep ==
  ASSUME SurfacesInv, NEW h \in handles, Surfaces!DestroySurface(h)
  PROVE  SurfacesInv'
<1>0. PICK i \in 1..Len(slots) : i = h.index
  BY DEF SurfacesInv, HandlesSound
<1>1. PICK old \in SoundSlots : old = slots[i]
  BY SlotOf DEF SurfacesInv
<1>2. old \in SlotRecords /\ old.surface /\ old.drawn <= old.lastUsed
  BY <1>0, <1>1, SlotOf DEF SurfacesInv, Surfaces!DestroySurface, Surfaces!Live, SoundSlots
<1>3. PICK new \in SlotRecords : new = Surfaces!Vacated(old)
  <2>1. Surfaces!NoSwapchain \in Swapchains
    BY DEF Surfaces!NoSwapchain, Swapchains
  <2>2. PICK c \in Swapchains : c = Surfaces!NoSwapchain
    BY <2>1
  <2>3. old.generation + 1 \in Nat
    BY <1>2 DEF SlotRecords
  <2>4. PICK g \in Nat : g = old.generation + 1
    BY <2>3
  <2>5. [old EXCEPT !.acquired = FALSE, !.surface = FALSE, !.swapchain = c, !.generation = g] \in SlotRecords
    BY <1>2 DEF SlotRecords
  <2>6. Surfaces!Vacated(old) = [old EXCEPT !.acquired = FALSE, !.surface = FALSE, !.swapchain = c, !.generation = g]
    BY <1>2, <2>2, <2>4 DEF Surfaces!Vacated, SlotRecords
  <2> QED BY <2>5, <2>6
<1>4. /\ new \in SoundSlots /\ ~new.surface /\ ~new.swapchain.acquired
      /\ new.generation = old.generation + 1 /\ old.generation \in Nat
  BY <1>2, <1>3 DEF Surfaces!Vacated, SoundSlots, SlotRecords, Surfaces!NoSwapchain
<1>5. /\ slots' = [slots EXCEPT ![i] = new] /\ free' = Append(free, i) /\ kept' = kept \ {i}
      /\ retired' = retired \cup {Surfaces!Retirement(old)}
      /\ handles' = handles /\ created' = created /\ submitted' = submitted /\ UNCHANGED Surfaces!frame /\ Surfaces!Between
  BY <1>0, <1>1, <1>3 DEF Surfaces!DestroySurface
<1>6. /\ slots \in Seq(SoundSlots) /\ Len(slots) \in Nat /\ slots \in [1..Len(slots) -> SoundSlots]
      /\ free \in Seq(1..Len(slots)) /\ Len(free) \in Nat /\ Distinct(free)
      /\ \A k \in 1..Len(free) : ~slots[free[k]].surface
  BY LenProperties DEF SurfacesInv, FreeSound
<1>7. /\ slots' \in [1..Len(slots) -> SoundSlots] /\ slots'[i] = new
      /\ \A j \in 1..Len(slots) : j # i => slots'[j] = slots[j]
  BY <1>4, <1>5, <1>6
<1>8. slots' \in Seq(SoundSlots) /\ Len(slots') = Len(slots)
  BY <1>6, <1>7, FunctionIsSeq
<1>9. HandlesSound'
  <2> SUFFICES ASSUME NEW k \in handles
               PROVE  /\ k.index \in 1..Len(slots') /\ k.generation \in Nat
                      /\ k.generation <= slots'[k.index].generation
                      /\ Surfaces!Valid(k)' => slots'[k.index].surface /\ slots'[k.index].id = k.id
    BY <1>5 DEF HandlesSound
  <2>1. /\ k.index \in 1..Len(slots) /\ k.generation \in Nat
        /\ k.generation <= slots[k.index].generation
        /\ Surfaces!Valid(k) => slots[k.index].surface /\ slots[k.index].id = k.id
    BY DEF SurfacesInv, HandlesSound
  <2>2. CASE k.index = i
    <3>1. k.generation <= old.generation
      BY <1>1, <2>1, <2>2
    <3>2. k.generation < new.generation
      BY <1>4, <2>1, <3>1
    <3>3. slots'[k.index] = new
      BY <1>7, <2>2
    <3>4. k.generation <= new.generation /\ k.generation # new.generation
      BY <1>4, <2>1, <3>2
    <3> QED BY <1>8, <2>1, <3>3, <3>4 DEF Surfaces!Valid
  <2>3. CASE k.index # i
    BY <1>7, <1>8, <2>1, <2>3 DEF Surfaces!Valid
  <2> QED BY <2>2, <2>3
<1>10. FreeSound'
  <2>1. i \notin Range(free)
    BY <1>1, <1>2, <1>6, LenProperties DEF Range
  <2>2. Distinct(free')
    BY <1>5, <1>6, <2>1, DistinctAppend
  <2>3. /\ free' \in Seq(1..Len(slots)) /\ Len(free') = Len(free) + 1
        /\ \A k \in 1..Len(free) : free'[k] = free[k]
        /\ free'[Len(free) + 1] = i
    BY <1>5, <1>6, AppendProperties
  <2>4. \A k \in 1..Len(free') : ~slots'[free'[k]].surface
    <3> SUFFICES ASSUME NEW k \in 1..Len(free') PROVE ~slots'[free'[k]].surface
      OBVIOUS
    <3>1. CASE k \in 1..Len(free)
      <4>1. free[k] \in 1..Len(slots) /\ free[k] # i
        BY <1>1, <1>2, <1>6, <3>1, ElementOfSeq
      <4> QED BY <1>6, <1>7, <2>3, <3>1, <4>1
    <3>2. CASE k \notin 1..Len(free)
      <4>1. k = Len(free) + 1
        BY <1>6, <2>3, <3>2
      <4> QED BY <1>4, <1>7, <2>3, <4>1
    <3> QED BY <3>1, <3>2
  <2> QED BY <1>8, <2>2, <2>3, <2>4 DEF FreeSound
<1>11. HeldSound'
  BY <1>4, <1>5, <1>7, <1>8 DEF SurfacesInv, HeldSound, Surfaces!frame, Surfaces!Between
<1>12. Surfaces!RetiredWhenDrawn'
  BY <1>2, <1>5 DEF SurfacesInv, Surfaces!RetiredWhenDrawn, Surfaces!Retirement
<1>13. FrameSound'
  BY <1>5 DEF SurfacesInv, FrameSound, Surfaces!frame
<1> QED BY <1>5, <1>8, <1>9, <1>10, <1>11, <1>12, <1>13 DEF SurfacesInv

LEMMA RecoverStep == ASSUME SurfacesInv, Surfaces!Recover PROVE SurfacesInv'
<1>1. /\ slots \in Seq(SoundSlots) /\ Len(slots) \in Nat /\ DOMAIN slots = 1..Len(slots)
  BY LenProperties DEF SurfacesInv
<1>2. \A i \in 1..Len(slots) :
        /\ Surfaces!Recovered(slots[i]) \in SoundSlots /\ SameToHandles(slots[i], Surfaces!Recovered(slots[i]))
        /\ ~Surfaces!Recovered(slots[i]).swapchain.acquired
  <2> SUFFICES ASSUME NEW i \in 1..Len(slots)
               PROVE  /\ Surfaces!Recovered(slots[i]) \in SoundSlots /\ SameToHandles(slots[i], Surfaces!Recovered(slots[i]))
                      /\ ~Surfaces!Recovered(slots[i]).swapchain.acquired
    OBVIOUS
  <2>1. PICK old \in SlotRecords : old = slots[i]
    BY <1>1, SlotOf
  <2>2. PICK kin \in SlotRecords :
          kin = [Surfaces!Empty EXCEPT !.generation = old.generation, !.size = old.size, !.id = old.id]
    BY DEF Surfaces!Empty, Surfaces!NoSwapchain, SlotRecords, Swapchains
  <2>3. /\ kin.generation = old.generation /\ kin.id = old.id /\ kin.surface = FALSE /\ kin.size = old.size
        /\ kin.swapchain = Surfaces!NoSwapchain /\ kin.acquired = FALSE /\ kin.drawn = 0 /\ kin.lastUsed = 0
    BY <2>2 DEF Surfaces!Empty
  <2>4. CASE ~old.surface
    <3>1. Surfaces!Recovered(old) = kin
      BY <2>2, <2>4 DEF Surfaces!Recovered
    <3>2. old.surface = FALSE
      BY <2>4 DEF SlotRecords
    <3>3. kin \in SoundSlots
      BY <2>3, NoneHeld, IsSound
    <3> QED BY <2>1, <2>3, <3>1, <3>2, <3>3, NoneHeld DEF SameToHandles
  <2>5. CASE old.surface /\ old.size = 0
    <3>1. PICK new \in SlotRecords : new = [kin EXCEPT !.surface = TRUE, !.state = "Minimized"]
      BY DEF SlotRecords
    <3>2. Surfaces!Recovered(old) = new
      BY <2>2, <2>5, <3>1 DEF Surfaces!Recovered
    <3>3. old.surface = TRUE
      BY <2>5 DEF SlotRecords
    <3>4. /\ new.generation = kin.generation /\ new.id = kin.id /\ new.surface = TRUE
          /\ new.swapchain = kin.swapchain /\ new.acquired = kin.acquired /\ new.state = "Minimized"
          /\ new.drawn = kin.drawn /\ new.lastUsed = kin.lastUsed
      BY <3>1 DEF SlotRecords
    <3>5. new \in SoundSlots
      BY <2>3, <3>4, NoneHeld, IsSound
    <3> QED BY <2>1, <2>3, <3>2, <3>3, <3>4, <3>5, NoneHeld DEF SameToHandles
  <2>6. CASE old.surface /\ old.size # 0
    <3>1. PICK c \in Swapchains : c = Surfaces!NewSwapchain(old.size)
      BY DEF Surfaces!NewSwapchain, Swapchains, SlotRecords
    <3>2. PICK new \in SlotRecords : new = [kin EXCEPT !.surface = TRUE, !.swapchain = c]
      BY DEF SlotRecords
    <3>3. Surfaces!Recovered(old) = new
      BY <2>2, <2>6, <3>1, <3>2 DEF Surfaces!Recovered
    <3>4. old.surface = TRUE
      BY <2>6 DEF SlotRecords
    <3>5. c.acquired = FALSE /\ c # Surfaces!NoSwapchain
      BY <3>1 DEF Surfaces!NewSwapchain, Surfaces!NoSwapchain
    <3>6. /\ new.generation = kin.generation /\ new.id = kin.id /\ new.surface = TRUE
          /\ new.swapchain = c /\ new.acquired = kin.acquired
          /\ new.drawn = kin.drawn /\ new.lastUsed = kin.lastUsed /\ new.size = kin.size
      BY <3>2 DEF SlotRecords
    <3>7. new \in SoundSlots
      BY <2>3, <2>6, <3>5, <3>6, IsSound
    <3> QED BY <2>1, <2>3, <3>3, <3>4, <3>5, <3>6, <3>7 DEF SameToHandles
  <2> QED BY <2>4, <2>5, <2>6
<1>3. slots' = [i \in 1..Len(slots) |-> Surfaces!Recovered(slots[i])]
  BY <1>1 DEF Surfaces!Recover
<1>4. /\ slots' \in [1..Len(slots) -> SoundSlots]
      /\ \A i \in 1..Len(slots) : SameToHandles(slots[i], slots'[i]) /\ ~slots'[i].swapchain.acquired
  BY <1>2, <1>3
<1>5. UNCHANGED <<Surfaces!registry, at, canvas, views, acquired>> /\ submitted' = 0 /\ retired' = {}
  BY DEF Surfaces!Recover
<1>6. /\ slots' \in Seq(SoundSlots) /\ Len(slots') = Len(slots)
      /\ created' \in Nat /\ HandlesSound' /\ FreeSound'
  BY <1>4, <1>5, SlotsStay
<1>7. HeldSound'
  BY <1>4, <1>6 DEF HeldSound
<1> QED BY <1>5, <1>6, <1>7 DEF SurfacesInv, Surfaces!registry, FrameSound, Surfaces!RetiredWhenDrawn

(* Steps that leave the slots alone.                                           *)
LEMMA NoSlotMoves ==
  ASSUME SurfacesInv, UNCHANGED <<slots, Surfaces!registry, Surfaces!gpu>>, FrameSound', HeldSound'
  PROVE  SurfacesInv'
BY DEF SurfacesInv, Surfaces!registry, Surfaces!gpu, HandlesSound, FreeSound, Surfaces!Valid, Surfaces!RetiredWhenDrawn

LEMMA RefusedStep ==
  ASSUME SurfacesInv,
         \/ \E c \in handles \cup {Surfaces!NoHandle} : \E vs \in SUBSET handles : Surfaces!RenderFrame(c, vs)
         \/ Surfaces!CanvasRefused \/ Surfaces!SceneStale
         \/ \E v \in views : Surfaces!SkipView(v)
  PROVE  SurfacesInv'
<1>1. CASE \E c \in handles \cup {Surfaces!NoHandle} : \E vs \in SUBSET handles : Surfaces!RenderFrame(c, vs)
  <2>1. PICK c \in handles \cup {Surfaces!NoHandle} : \E vs \in SUBSET handles : Surfaces!RenderFrame(c, vs)
    BY <1>1
  <2>2. PICK vs \in SUBSET handles : Surfaces!RenderFrame(c, vs)
    BY <2>1
  <2>3. UNCHANGED <<slots, Surfaces!registry, Surfaces!gpu, kept>> /\ Surfaces!Between
    BY <2>2 DEF Surfaces!RenderFrame
  <2>4. FrameSound'
    BY <2>2 DEF Surfaces!RenderFrame, FrameSound, Surfaces!registry
  <2>5. HeldSound'
    BY <2>3 DEF SurfacesInv, HeldSound, Surfaces!Between
  <2> QED BY <2>3, <2>4, <2>5, NoSlotMoves
<1>2. CASE Surfaces!CanvasRefused
  <2>1. UNCHANGED <<slots, Surfaces!registry, Surfaces!gpu, kept, canvas, views, acquired>> /\ at = "canvas" /\ at' = "idle"
    BY <1>2 DEF Surfaces!CanvasRefused
  <2>2. FrameSound' /\ HeldSound'
    BY <2>1 DEF SurfacesInv, FrameSound, HeldSound, Surfaces!Between, Surfaces!registry
  <2> QED BY <2>1, <2>2, NoSlotMoves
<1>3. CASE Surfaces!SceneStale
  <2>1. /\ UNCHANGED <<slots, Surfaces!registry, Surfaces!gpu, canvas, views, acquired>> /\ at' = "idle"
        /\ kept' = kept \cup acquired
    BY <1>3 DEF Surfaces!SceneStale
  <2>2. FrameSound' /\ HeldSound'
    BY <2>1 DEF SurfacesInv, FrameSound, HeldSound, Surfaces!Between, Surfaces!registry
  <2> QED BY <2>1, <2>2, NoSlotMoves
<1>4. CASE \E v \in views : Surfaces!SkipView(v)
  <2>1. /\ UNCHANGED <<slots, Surfaces!registry, Surfaces!gpu, kept, at, canvas, acquired>> /\ views' \subseteq views
    BY <1>4 DEF Surfaces!SkipView
  <2>2. FrameSound' /\ HeldSound'
    BY <2>1 DEF SurfacesInv, FrameSound, HeldSound, Surfaces!Between, Surfaces!registry
  <2> QED BY <2>1, <2>2, NoSlotMoves
<1> QED BY <1>1, <1>2, <1>3, <1>4

(* An image is acquired: the slot's swapchain holds it for the frame.          *)
LEMMA AcquireStep ==
  ASSUME slots \in Seq(SoundSlots), NEW i \in 1..Len(slots), slots[i].surface, Surfaces!Acquire(i),
         slots[i].swapchain.configured
  PROVE  /\ slots' \in [1..Len(slots) -> SoundSlots]
         /\ \A j \in 1..Len(slots) : j # i => slots'[j] = slots[j]
         /\ \A j \in 1..Len(slots) : SameToHandles(slots[j], slots'[j])
         /\ slots'[i].surface /\ slots'[i].size = slots[i].size
         /\ slots'[i].swapchain # Surfaces!NoSwapchain /\ slots'[i].swapchain.acquired
<1>1. PICK old \in SlotRecords : old = slots[i] /\ old \in SoundSlots /\ old.swapchain \in Swapchains
  BY SlotOf
<1>2. PICK c \in Swapchains : c = [old.swapchain EXCEPT !.acquired = TRUE]
  BY <1>1 DEF Swapchains
<1>3. PICK new \in SlotRecords : new = [old EXCEPT !.acquired = TRUE, !.swapchain = c]
  BY DEF SlotRecords
<1>4. c.acquired = TRUE /\ c # Surfaces!NoSwapchain /\ c.configured
  BY <1>1, <1>2 DEF Swapchains, Surfaces!NoSwapchain
<1>5. /\ new \in SoundSlots /\ SameToHandles(old, new)
      /\ new.swapchain = c /\ new.surface /\ new.size = old.size
  <2>1. /\ new.swapchain = c /\ new.surface = old.surface /\ new.generation = old.generation
        /\ new.id = old.id /\ new.drawn = old.drawn /\ new.lastUsed = old.lastUsed
        /\ new.size = old.size /\ new.state = old.state
    BY <1>3 DEF SlotRecords
  <2>2. new.surface
    BY <1>1, <2>1
  <2>3. new.drawn <= new.lastUsed /\ (new.state = "Ready" => new.size # 0)
    BY <1>1, <2>1, SoundSlot
  <2>4. new \in SoundSlots
    BY <1>4, <2>1, <2>2, <2>3, IsSound
  <2> QED BY <2>1, <2>2, <2>4 DEF SameToHandles
<1>6. slots' = [slots EXCEPT ![i] = new]
  <2>1. slots \in [1..Len(slots) -> SoundSlots]
    BY LenProperties
  <2>2. [old EXCEPT !.acquired = TRUE, !.swapchain.acquired = TRUE] = new
    BY <1>1, <1>2, <1>3 DEF SlotRecords
  <2> QED BY <1>1, <2>1, <2>2 DEF Surfaces!Acquire
<1>7. slots'[i] = new
  BY <1>1, <1>5, <1>6, OneSlot
<1> QED BY <1>1, <1>4, <1>5, <1>6, <1>7, OneSlot

LEMMA CanvasStep == ASSUME SurfacesInv, Surfaces!AcquireCanvas PROVE SurfacesInv'
<1>0. canvas \in handles
  BY DEF SurfacesInv, FrameSound, Surfaces!AcquireCanvas, Surfaces!Valid, Surfaces!NoHandle
<1>1. PICK i \in 1..Len(slots) : i = canvas.index
  BY <1>0 DEF SurfacesInv, HandlesSound
<1>2. /\ slots[i].surface /\ slots[i].swapchain.configured /\ Surfaces!Acquire(i)
      /\ acquired' = {i} /\ acquired = {} /\ at' = "views"
      /\ UNCHANGED <<Surfaces!registry, canvas, views, Surfaces!gpu, kept>>
  BY <1>0, <1>1 DEF SurfacesInv, HandlesSound, Surfaces!AcquireCanvas, Surfaces!CanAcquire, FrameSound
<1>3. /\ slots' \in [1..Len(slots) -> SoundSlots]
      /\ \A j \in 1..Len(slots) : j # i => slots'[j] = slots[j]
      /\ \A j \in 1..Len(slots) : SameToHandles(slots[j], slots'[j])
  BY <1>2, AcquireStep DEF SurfacesInv
<1>4. /\ slots' \in Seq(SoundSlots) /\ Len(slots') = Len(slots)
      /\ created' \in Nat /\ HandlesSound' /\ FreeSound'
  BY <1>2, <1>3, SlotsStay
<1>5. HeldSound'
  BY <1>2, <1>3, <1>4 DEF SurfacesInv, HeldSound, Surfaces!Between
<1> QED BY <1>2, <1>4, <1>5 DEF SurfacesInv, Surfaces!registry, Surfaces!gpu, FrameSound, Surfaces!RetiredWhenDrawn

LEMMA ViewStep ==
  ASSUME SurfacesInv, NEW v \in views, Surfaces!AcquireView(v)
  PROVE  SurfacesInv'
<1>0. v \in handles
  BY DEF SurfacesInv, FrameSound
<1>1. PICK i \in 1..Len(slots) : i = v.index
  BY <1>0 DEF SurfacesInv, HandlesSound
<1>2. /\ slots[i].surface
      /\ \/ UNCHANGED slots
         \/ Surfaces!Acquire(i) /\ slots[i].swapchain.configured
      /\ acquired' = acquired \cup {i} /\ at = "views" /\ at' = at /\ views' \subseteq views
      /\ UNCHANGED <<Surfaces!registry, canvas, Surfaces!gpu, kept>>
  BY <1>1 DEF Surfaces!AcquireView, Surfaces!ViewSkipped, Surfaces!Live, Surfaces!CanAcquire
<1>3. CASE UNCHANGED slots
  <2>1. FrameSound' /\ HeldSound'
    BY <1>2, <1>3 DEF SurfacesInv, FrameSound, HeldSound, Surfaces!Between, Surfaces!registry
  <2> QED BY <1>2, <1>3, <2>1, NoSlotMoves
<1>4. CASE Surfaces!Acquire(i) /\ slots[i].swapchain.configured
  <2>1. /\ slots' \in [1..Len(slots) -> SoundSlots]
        /\ \A j \in 1..Len(slots) : j # i => slots'[j] = slots[j]
        /\ \A j \in 1..Len(slots) : SameToHandles(slots[j], slots'[j])
    BY <1>2, <1>4, AcquireStep DEF SurfacesInv
  <2>2. /\ slots' \in Seq(SoundSlots) /\ Len(slots') = Len(slots)
        /\ created' \in Nat /\ HandlesSound' /\ FreeSound'
    BY <1>2, <2>1, SlotsStay
  <2>3. HeldSound'
    BY <1>2, <2>1, <2>2 DEF SurfacesInv, HeldSound, Surfaces!Between
  <2> QED BY <1>2, <2>2, <2>3 DEF SurfacesInv, Surfaces!registry, Surfaces!gpu, FrameSound, Surfaces!RetiredWhenDrawn
<1> QED BY <1>2, <1>3, <1>4

LEMMA OutdatedStep ==
  ASSUME SurfacesInv, NEW v \in views, Surfaces!ViewOutdated(v)
  PROVE  SurfacesInv'
<1>0. v \in handles
  BY DEF SurfacesInv, FrameSound
<1>1. PICK i \in 1..Len(slots) : i = v.index
  BY <1>0 DEF SurfacesInv, HandlesSound
<1>2. PICK old \in SlotRecords : old = slots[i] /\ old \in SoundSlots
  BY SlotOf DEF SurfacesInv
<1>3. PICK new \in SlotRecords : new = [old EXCEPT !.state = "Outdated"]
  BY DEF SlotRecords
<1>4. new \in SoundSlots /\ SameToHandles(old, new) /\ new.swapchain = old.swapchain
  BY <1>2, <1>3 DEF SoundSlots, SlotRecords, SameToHandles
<1>5. /\ slots' = [slots EXCEPT ![i] = new] /\ views' \subseteq views
      /\ UNCHANGED <<Surfaces!registry, at, canvas, acquired, Surfaces!gpu, kept>>
  <2>1. slots \in [1..Len(slots) -> SoundSlots]
    BY LenProperties DEF SurfacesInv
  <2> QED BY <1>1, <1>2, <1>3, <2>1 DEF Surfaces!ViewOutdated
<1>6. /\ slots' \in [1..Len(slots) -> SoundSlots] /\ slots'[i] = new
      /\ \A j \in 1..Len(slots) : j # i => slots'[j] = slots[j]
      /\ \A j \in 1..Len(slots) : SameToHandles(slots[j], slots'[j])
  BY <1>2, <1>4, <1>5, OneSlot DEF SurfacesInv
<1>7. /\ slots' \in Seq(SoundSlots) /\ Len(slots') = Len(slots)
      /\ created' \in Nat /\ HandlesSound' /\ FreeSound'
  BY <1>5, <1>6, SlotsStay
<1>8. HeldSound'
  BY <1>2, <1>4, <1>5, <1>6, <1>7 DEF SurfacesInv, HeldSound, Surfaces!Between
<1> QED BY <1>5, <1>7, <1>8 DEF SurfacesInv, Surfaces!registry, Surfaces!gpu, FrameSound, Surfaces!RetiredWhenDrawn

LEMMA ReleasedSound ==
  ASSUME NEW s \in SoundSlots
  PROVE  /\ Surfaces!Released(s) \in SoundSlots /\ SameToHandles(s, Surfaces!Released(s)) /\ ~Surfaces!Released(s).swapchain.acquired
         /\ [Surfaces!Released(s) EXCEPT !.state = "Lost"] \in SoundSlots
         /\ SameToHandles(s, [Surfaces!Released(s) EXCEPT !.state = "Lost"])
         /\ ~[Surfaces!Released(s) EXCEPT !.state = "Lost"].swapchain.acquired
<1>1. s \in SlotRecords /\ s.swapchain \in Swapchains
  BY DEF SoundSlots, SlotRecords
<1>2. PICK c \in Swapchains : c = [s.swapchain EXCEPT !.acquired = FALSE]
  BY <1>1 DEF Swapchains
<1>3. PICK new \in SlotRecords : new = [s EXCEPT !.acquired = FALSE, !.swapchain = c]
  BY <1>1 DEF SlotRecords
<1>4. Surfaces!Released(s) = new
  BY <1>1, <1>2, <1>3 DEF Surfaces!Released, SlotRecords
<1>5. /\ c.acquired = FALSE /\ c.size = s.swapchain.size /\ c.configured = s.swapchain.configured
  BY <1>1, <1>2 DEF Swapchains
<1>6. c = Surfaces!NoSwapchain <=> s.swapchain = Surfaces!NoSwapchain
  <2>1. CASE s.swapchain.acquired
    <3>1. s.swapchain.configured = TRUE /\ s.swapchain.acquired = TRUE
      BY <1>1, <2>1 DEF SoundSlots, Swapchains
    <3> QED BY <1>5, <3>1 DEF Surfaces!NoSwapchain
  <2>2. CASE ~s.swapchain.acquired
    <3>1. s.swapchain.acquired = FALSE
      BY <1>1, <2>2 DEF Swapchains
    <3>2. c = s.swapchain
      BY <1>1, <1>2, <3>1 DEF Swapchains
    <3> QED BY <3>2
  <2> QED BY <2>1, <2>2
<1>7. new \in SoundSlots
  <2>1. /\ new.acquired = FALSE /\ new.swapchain = c /\ new.surface = s.surface /\ new.state = s.state
        /\ new.drawn = s.drawn /\ new.lastUsed = s.lastUsed /\ new.size = s.size
    BY <1>1, <1>3 DEF SlotRecords
  <2> QED BY <1>5, <1>6, <2>1, SoundSlot, IsSound
<1>8. PICK gone \in SlotRecords : gone = [new EXCEPT !.state = "Lost"]
  BY DEF SlotRecords
<1>9. gone \in SoundSlots
  <2>1. /\ gone.acquired = new.acquired /\ gone.swapchain = new.swapchain /\ gone.surface = new.surface
        /\ gone.state = "Lost" /\ gone.drawn = new.drawn /\ gone.lastUsed = new.lastUsed
    BY <1>8 DEF SlotRecords
  <2> QED BY <1>7, <2>1, SoundSlot, IsSound
<1>10. SameToHandles(s, new) /\ SameToHandles(s, gone) /\ ~new.swapchain.acquired /\ ~gone.swapchain.acquired
  BY <1>1, <1>3, <1>5, <1>8 DEF SameToHandles, SlotRecords
<1> QED BY <1>4, <1>7, <1>8, <1>9, <1>10

(* Images are given back: the slots of the frame's images hold none.           *)
LEMMA GivenBackStep ==
  ASSUME SurfacesInv, slots' \in [1..Len(slots) -> SoundSlots],
         \A i \in 1..Len(slots) :
             /\ SameToHandles(slots[i], slots'[i])
             /\ slots'[i].swapchain.acquired => i \notin acquired /\ slots[i].swapchain.acquired,
         kept' = kept \ acquired, at' = "idle", UNCHANGED <<Surfaces!registry, canvas, views, Surfaces!gpu>>
  PROVE  SurfacesInv'
<1>1. /\ slots' \in Seq(SoundSlots) /\ Len(slots') = Len(slots)
      /\ created' \in Nat /\ HandlesSound' /\ FreeSound'
  BY SlotsStay
<1>2. HeldSound'
  BY <1>1 DEF SurfacesInv, HeldSound
<1> QED BY <1>1, <1>2 DEF SurfacesInv, Surfaces!registry, Surfaces!gpu, FrameSound, Surfaces!RetiredWhenDrawn

LEMMA DiscardStep == ASSUME SurfacesInv, Surfaces!Discard PROVE SurfacesInv'
<1>1. /\ slots \in [1..Len(slots) -> SoundSlots] /\ DOMAIN slots = 1..Len(slots)
  BY LenProperties DEF SurfacesInv
<1>2. slots' = [i \in 1..Len(slots) |-> IF i \in acquired THEN Surfaces!Released(slots[i]) ELSE slots[i]]
  BY <1>1 DEF Surfaces!Discard, Surfaces!Releasing
<1>3. \A i \in 1..Len(slots) :
        /\ slots'[i] \in SoundSlots /\ SameToHandles(slots[i], slots'[i])
        /\ slots'[i].swapchain.acquired => i \notin acquired /\ slots[i].swapchain.acquired
  <2> SUFFICES ASSUME NEW i \in 1..Len(slots)
               PROVE  /\ slots'[i] \in SoundSlots /\ SameToHandles(slots[i], slots'[i])
                      /\ slots'[i].swapchain.acquired => i \notin acquired /\ slots[i].swapchain.acquired
    OBVIOUS
  <2>1. slots[i] \in SoundSlots
    BY <1>1
  <2>2. CASE i \in acquired
    <3>1. slots'[i] = Surfaces!Released(slots[i])
      BY <1>2, <2>2
    <3> QED BY <2>1, <3>1, ReleasedSound
  <2>3. CASE i \notin acquired
    BY <1>2, <2>1, <2>3 DEF SameToHandles
  <2> QED BY <2>2, <2>3
<1>4. slots' \in [1..Len(slots) -> SoundSlots]
  BY <1>2, <1>3
<1> QED BY <1>3, <1>4, GivenBackStep DEF Surfaces!Discard

LEMMA PresentStep == ASSUME SurfacesInv, Surfaces!Present PROVE SurfacesInv'
<1>1. /\ slots \in [1..Len(slots) -> SoundSlots] /\ DOMAIN slots = 1..Len(slots)
  BY LenProperties DEF SurfacesInv
<1>2. PICK failed \in SUBSET acquired :
        slots' = [i \in 1..Len(slots) |->
              IF i \notin acquired THEN slots[i]
              ELSE [Surfaces!Released(slots[i]) EXCEPT !.state = IF i \in failed THEN "Lost" ELSE @]]
  BY <1>1 DEF Surfaces!Present
<1>3. \A i \in 1..Len(slots) :
        /\ slots'[i] \in SoundSlots /\ SameToHandles(slots[i], slots'[i])
        /\ slots'[i].swapchain.acquired => i \notin acquired /\ slots[i].swapchain.acquired
  <2> SUFFICES ASSUME NEW i \in 1..Len(slots)
               PROVE  /\ slots'[i] \in SoundSlots /\ SameToHandles(slots[i], slots'[i])
                      /\ slots'[i].swapchain.acquired => i \notin acquired /\ slots[i].swapchain.acquired
    OBVIOUS
  <2>1. slots[i] \in SoundSlots
    BY <1>1
  <2>2. CASE i \in acquired /\ i \in failed
    <3>1. slots'[i] = [Surfaces!Released(slots[i]) EXCEPT !.state = "Lost"]
      BY <1>2, <2>2
    <3> QED BY <2>1, <3>1, ReleasedSound
  <2>3. CASE i \in acquired /\ i \notin failed
    <3>1. PICK new \in SlotRecords : new = Surfaces!Released(slots[i])
      BY <2>1, ReleasedSound DEF SoundSlots
    <3>2. slots'[i] = [new EXCEPT !.state = new.state]
      BY <1>2, <2>3, <3>1
    <3>3. slots'[i] = new
      BY <3>2 DEF SlotRecords
    <3> QED BY <2>1, <3>1, <3>3, ReleasedSound
  <2>4. CASE i \notin acquired
    BY <1>2, <2>1, <2>4 DEF SameToHandles
  <2> QED BY <2>2, <2>3, <2>4
<1>4. slots' \in [1..Len(slots) -> SoundSlots]
  BY <1>2, <1>3
<1>5. kept' = kept \ acquired /\ at' = "idle" /\ UNCHANGED <<Surfaces!registry, canvas, views, Surfaces!gpu>>
  BY DEF Surfaces!Present
<1> QED BY <1>3, <1>4, <1>5, GivenBackStep

LEMMA FrameSubmitStep == ASSUME SurfacesInv, NEW drawn, Surfaces!Submit(drawn) PROVE SurfacesInv'
<1>1. /\ slots \in [1..Len(slots) -> SoundSlots] /\ DOMAIN slots = 1..Len(slots) /\ submitted \in Nat
  BY LenProperties DEF SurfacesInv
<1>2. slots' = [i \in 1..Len(slots) |-> IF i \in drawn THEN Surfaces!Marked(slots[i]) ELSE slots[i]]
  BY <1>1 DEF Surfaces!Submit
<1>3. \A i \in 1..Len(slots) :
        /\ slots'[i] \in SoundSlots /\ SameToHandles(slots[i], slots'[i])
        /\ slots'[i].swapchain = slots[i].swapchain
  <2> SUFFICES ASSUME NEW i \in 1..Len(slots)
               PROVE  /\ slots'[i] \in SoundSlots /\ SameToHandles(slots[i], slots'[i])
                      /\ slots'[i].swapchain = slots[i].swapchain
    OBVIOUS
  <2>1. PICK old \in SlotRecords : old = slots[i] /\ old \in SoundSlots
    BY <1>1 DEF SoundSlots
  <2>2. CASE i \in drawn
    <3>1. PICK n \in Nat : n = submitted + 1
      BY <1>1
    <3>2. PICK new \in SlotRecords : new = [old EXCEPT !.lastUsed = n, !.drawn = n]
      BY DEF SlotRecords
    <3>3. slots'[i] = new
      BY <1>2, <2>1, <2>2, <3>1, <3>2 DEF Surfaces!Marked
    <3>4. new \in SoundSlots
      <4>1. new.drawn <= new.lastUsed
        BY <3>1, <3>2 DEF SlotRecords
      <4> QED BY <2>1, <3>2, <4>1 DEF SoundSlots, SlotRecords
    <3>5. SameToHandles(old, new) /\ new.swapchain = old.swapchain
      BY <3>2 DEF SlotRecords, SameToHandles
    <3> QED BY <2>1, <3>3, <3>4, <3>5
  <2>3. CASE i \notin drawn
    BY <1>2, <2>1, <2>3 DEF SameToHandles
  <2> QED BY <2>2, <2>3
<1>4. slots' \in [1..Len(slots) -> SoundSlots]
  BY <1>2, <1>3
<1>5. /\ at = "views" /\ at' = "present" /\ submitted' = submitted + 1
      /\ UNCHANGED <<Surfaces!registry, canvas, views, acquired, retired, kept>>
  BY DEF Surfaces!Submit, Surfaces!Drawing
<1>6. /\ slots' \in Seq(SoundSlots) /\ Len(slots') = Len(slots)
      /\ created' \in Nat /\ HandlesSound' /\ FreeSound'
  BY <1>3, <1>4, <1>5, SlotsStay
<1>7. HeldSound'
  BY <1>3, <1>5, <1>6 DEF SurfacesInv, HeldSound, Surfaces!Between
<1> QED BY <1>1, <1>5, <1>6, <1>7 DEF SurfacesInv, Surfaces!registry, FrameSound, Surfaces!RetiredWhenDrawn

LEMMA SurfacesStep == SurfacesInv /\ [Surfaces!Next]_(Surfaces!vars) => SurfacesInv'
<1> SUFFICES ASSUME SurfacesInv, [Surfaces!Next]_(Surfaces!vars) PROVE SurfacesInv'
  OBVIOUS
<1>1. CASE \E size \in Sizes \cup {0} :
             Surfaces!CreateSurface(size) \/ \E h \in handles : Surfaces!ReconfigureSurface(h, size)
  BY <1>1, CreateStep, ReconfigureStep
<1>2. CASE \E h \in handles : Surfaces!DestroySurface(h)
  BY <1>2, DestroyStep
<1>3. CASE \/ \E c \in handles \cup {Surfaces!NoHandle} : \E vs \in SUBSET handles : Surfaces!RenderFrame(c, vs)
           \/ Surfaces!CanvasRefused \/ Surfaces!SceneStale
  BY <1>3, RefusedStep
<1>4. CASE Surfaces!AcquireCanvas
  BY <1>4, CanvasStep
<1>5. CASE \E v \in views : Surfaces!SkipView(v) \/ Surfaces!AcquireView(v) \/ Surfaces!ViewOutdated(v)
  BY <1>5, RefusedStep, ViewStep, OutdatedStep
<1>6. CASE Surfaces!Discard
  BY <1>6, DiscardStep
<1>7. CASE Surfaces!SubmitFrame
  BY <1>7, FrameSubmitStep DEF Surfaces!SubmitFrame
<1>8. CASE Surfaces!Present
  BY <1>8, PresentStep
<1>9. CASE Surfaces!Recover
  BY <1>9, RecoverStep
<1>10. CASE UNCHANGED Surfaces!vars
  <2>1. UNCHANGED <<slots, Surfaces!registry, Surfaces!gpu, kept, at, canvas, views, acquired>>
    BY <1>10 DEF Surfaces!vars, Surfaces!frame
  <2>2. FrameSound' /\ HeldSound'
    BY <2>1 DEF SurfacesInv, FrameSound, HeldSound, Surfaces!Between, Surfaces!registry
  <2> QED BY <2>1, <2>2, NoSlotMoves
<1> QED BY <1>1, <1>2, <1>3, <1>4, <1>5, <1>6, <1>7, <1>8, <1>9, <1>10 DEF Surfaces!Next

(* The images of the frame at work, and what the loss of the device does to     *)
(* them: Frame replaces every swapchain after the last view was visited, and    *)
(* none of the new ones holds an image until the next frame.                    *)
InFrame == at \in {"views", "present"}
ImagesSound ==
    /\ replaced => InFrame /\ (at = "views" => views = {})
    /\ InFrame => \A i \in acquired :
          /\ i \in 1..Len(slots) /\ slots[i].surface /\ slots[i].size # 0
          /\ slots[i].swapchain # Surfaces!NoSwapchain
          /\ slots[i].swapchain.acquired <=> ~replaced

\* What a slot is to the frame that has acquired it stays as it is.
SameToFrame(s, t) == t.surface = s.surface /\ t.size = s.size /\ t.swapchain = s.swapchain

LEMMA ImagesStay ==
  ASSUME ImagesSound, InFrame, replaced' = replaced, acquired' = acquired, views' \subseteq views,
         at' = at \/ (views = {} /\ at' = "present"),
         Len(slots') = Len(slots), \A i \in 1..Len(slots) : SameToFrame(slots[i], slots'[i])
  PROVE  ImagesSound'
BY DEF ImagesSound, InFrame, SameToFrame

LEMMA ImagesInit == Surfaces!Init => ImagesSound
BY DEF Surfaces!Init, ImagesSound, InFrame

LEMMA ImagesRecover ==
  ASSUME SurfacesInv, ImagesSound, Surfaces!Recover
  PROVE  ImagesSound'
<1>1. slots \in Seq(SoundSlots) /\ Len(slots) \in Nat /\ DOMAIN slots = 1..Len(slots)
  BY LenProperties DEF SurfacesInv
<1>2. slots' = [i \in 1..Len(slots) |-> Surfaces!Recovered(slots[i])]
  BY <1>1 DEF Surfaces!Recover
<1>3. Len(slots') = Len(slots)
  BY <1>1, <1>2, FunctionIsSeq, RecoverStep, LenProperties DEF SurfacesInv
<1>4. at = "views" /\ views = {} /\ UNCHANGED <<at, views, acquired>> /\ replaced' = TRUE
  BY DEF Surfaces!Recover, Surfaces!Drawing
<1>5. ASSUME NEW i \in acquired
      PROVE  /\ i \in 1..Len(slots) /\ slots'[i].surface /\ slots'[i].size # 0
             /\ slots'[i].swapchain # Surfaces!NoSwapchain /\ ~slots'[i].swapchain.acquired
  <2>1. i \in 1..Len(slots) /\ slots[i].surface /\ slots[i].size # 0
    BY <1>4, <1>5 DEF ImagesSound, InFrame
  <2>2. PICK old \in SlotRecords : old = slots[i]
    BY <1>1, <2>1, SlotOf
  <2>3. PICK kin \in SlotRecords :
          kin = [Surfaces!Empty EXCEPT !.generation = old.generation, !.size = old.size, !.id = old.id]
    BY DEF Surfaces!Empty, Surfaces!NoSwapchain, SlotRecords, Swapchains
  <2>4. kin.size = old.size
    BY <2>3 DEF Surfaces!Empty
  <2>5. PICK c \in Swapchains : c = Surfaces!NewSwapchain(old.size)
    BY DEF Surfaces!NewSwapchain, Swapchains, SlotRecords
  <2>6. PICK new \in SlotRecords : new = [kin EXCEPT !.surface = TRUE, !.swapchain = c]
    BY DEF SlotRecords
  <2>7. slots'[i] = new
    BY <1>2, <2>1, <2>2, <2>3, <2>5, <2>6 DEF Surfaces!Recovered
  <2>8. new.surface = TRUE /\ new.size = kin.size /\ new.swapchain = c
    BY <2>6 DEF SlotRecords
  <2>9. c # Surfaces!NoSwapchain /\ c.acquired = FALSE
    BY <2>5 DEF Surfaces!NewSwapchain, Surfaces!NoSwapchain
  <2> QED BY <2>1, <2>2, <2>4, <2>7, <2>8, <2>9
<1> QED BY <1>3, <1>4, <1>5 DEF ImagesSound, InFrame

LEMMA ImagesCanvas ==
  ASSUME SurfacesInv, ImagesSound, Surfaces!AcquireCanvas
  PROVE  ImagesSound'
<1>1. canvas \in handles
  BY DEF SurfacesInv, FrameSound, Surfaces!AcquireCanvas, Surfaces!Valid, Surfaces!NoHandle
<1>2. PICK i \in 1..Len(slots) : i = canvas.index
  BY <1>1 DEF SurfacesInv, HandlesSound
<1>3. /\ slots[i].surface /\ slots[i].state = "Ready" /\ slots[i].swapchain.configured
      /\ Surfaces!Acquire(i) /\ acquired' = {i} /\ at = "canvas" /\ replaced' = replaced
  BY <1>1, <1>2 DEF SurfacesInv, HandlesSound, Surfaces!AcquireCanvas, Surfaces!CanAcquire
<1>4. slots[i].size # 0
  BY <1>3, SlotOf, SoundSlot DEF SurfacesInv
<1>5. /\ slots'[i].surface /\ slots'[i].size = slots[i].size
      /\ slots'[i].swapchain # Surfaces!NoSwapchain /\ slots'[i].swapchain.acquired
      /\ slots' \in [1..Len(slots) -> SoundSlots]
  BY <1>3, AcquireStep DEF SurfacesInv
<1>6. Len(slots') = Len(slots)
  BY <1>5, LenProperties, FunctionIsSeq DEF SurfacesInv
<1>7. ~replaced'
  BY <1>3 DEF ImagesSound, InFrame
<1> QED BY <1>3, <1>4, <1>5, <1>6, <1>7 DEF ImagesSound

LEMMA ImagesView ==
  ASSUME SurfacesInv, ImagesSound, NEW v \in views, Surfaces!AcquireView(v)
  PROVE  ImagesSound'
<1>1. v \in handles
  BY DEF SurfacesInv, FrameSound
<1>2. PICK i \in 1..Len(slots) : i = v.index
  BY <1>1 DEF SurfacesInv, HandlesSound
<1>3. /\ slots[i].surface /\ slots[i].state = "Ready"
      /\ \/ slots[i].acquired /\ UNCHANGED slots
         \/ Surfaces!Acquire(i) /\ slots[i].swapchain.configured
      /\ acquired' = acquired \cup {i} /\ at = "views" /\ at' = at /\ replaced' = replaced
  BY <1>2 DEF Surfaces!AcquireView, Surfaces!ViewSkipped, Surfaces!Live, Surfaces!CanAcquire
<1>4. ~replaced' /\ ~replaced
  BY <1>3 DEF ImagesSound
<1>5. slots[i].size # 0 /\ (slots[i].acquired => slots[i].swapchain.acquired)
  BY <1>3, SlotOf, SoundSlot DEF SurfacesInv
<1>6. \A j \in acquired :
        /\ j \in 1..Len(slots) /\ slots[j].surface /\ slots[j].size # 0
        /\ slots[j].swapchain # Surfaces!NoSwapchain /\ slots[j].swapchain.acquired
  BY <1>3, <1>4 DEF ImagesSound, InFrame
<1>7. CASE slots[i].acquired /\ UNCHANGED slots
  <2>1. slots[i].swapchain # Surfaces!NoSwapchain
    BY <1>5, <1>7, NoneHeld
  <2> QED BY <1>2, <1>3, <1>4, <1>5, <1>6, <1>7, <2>1 DEF ImagesSound
<1>8. CASE Surfaces!Acquire(i) /\ slots[i].swapchain.configured
  <2>1. /\ slots'[i].surface /\ slots'[i].size = slots[i].size
        /\ slots'[i].swapchain # Surfaces!NoSwapchain /\ slots'[i].swapchain.acquired
        /\ slots' \in [1..Len(slots) -> SoundSlots]
        /\ \A j \in 1..Len(slots) : j # i => slots'[j] = slots[j]
    BY <1>3, <1>8, AcquireStep DEF SurfacesInv
  <2>2. Len(slots') = Len(slots)
    BY <2>1, LenProperties, FunctionIsSeq DEF SurfacesInv
  <2> QED BY <1>3, <1>4, <1>5, <1>6, <2>1, <2>2 DEF ImagesSound
<1> QED BY <1>3, <1>7, <1>8

LEMMA ImagesOutdated ==
  ASSUME SurfacesInv, ImagesSound, NEW v \in views, Surfaces!ViewOutdated(v)
  PROVE  ImagesSound'
<1>1. /\ slots \in [1..Len(slots) -> SoundSlots] /\ DOMAIN slots = 1..Len(slots)
      /\ SoundSlots \subseteq SlotRecords
  BY LenProperties DEF SurfacesInv, SoundSlots
<1>2. slots' = [slots EXCEPT ![v.index] = [@ EXCEPT !.state = "Outdated"]]
  BY DEF Surfaces!ViewOutdated
<1>3. \A j \in 1..Len(slots) : SameToFrame(slots[j], slots'[j])
  <2> SUFFICES ASSUME NEW j \in 1..Len(slots) PROVE SameToFrame(slots[j], slots'[j])
    OBVIOUS
  <2>1. PICK old \in SlotRecords : old = slots[j]
    BY <1>1
  <2>2. slots'[j] = IF j = v.index THEN [old EXCEPT !.state = "Outdated"] ELSE old
    BY <1>1, <1>2, <2>1
  <2> QED BY <2>1, <2>2 DEF SameToFrame, SlotRecords
<1>4. Len(slots') = Len(slots)
  BY OutdatedStep, <1>1, <1>2, LenProperties DEF SurfacesInv
<1>5. UNCHANGED <<at, acquired, replaced>> /\ views' \subseteq views /\ InFrame
  BY DEF Surfaces!ViewOutdated, InFrame
<1> QED BY <1>3, <1>4, <1>5, ImagesStay

LEMMA ImagesSubmit ==
  ASSUME SurfacesInv, ImagesSound, NEW drawn, Surfaces!Submit(drawn)
  PROVE  ImagesSound'
<1>1. /\ slots \in [1..Len(slots) -> SoundSlots] /\ DOMAIN slots = 1..Len(slots)
      /\ SoundSlots \subseteq SlotRecords /\ submitted \in Nat
  BY LenProperties DEF SurfacesInv, SoundSlots
<1>2. slots' = [i \in 1..Len(slots) |-> IF i \in drawn THEN Surfaces!Marked(slots[i]) ELSE slots[i]]
  BY <1>1 DEF Surfaces!Submit
<1>3. \A j \in 1..Len(slots) : SameToFrame(slots[j], slots'[j])
  <2> SUFFICES ASSUME NEW j \in 1..Len(slots) PROVE SameToFrame(slots[j], slots'[j])
    OBVIOUS
  <2>1. PICK old \in SlotRecords : old = slots[j]
    BY <1>1
  <2>2. CASE j \in drawn
    <3>1. slots'[j] = [old EXCEPT !.lastUsed = submitted + 1, !.drawn = submitted + 1]
      BY <1>2, <2>1, <2>2 DEF Surfaces!Marked
    <3> QED BY <2>1, <3>1 DEF SameToFrame, SlotRecords
  <2>3. CASE j \notin drawn
    BY <1>2, <2>3 DEF SameToFrame
  <2> QED BY <2>2, <2>3
<1>4. Len(slots') = Len(slots)
  BY FrameSubmitStep, <1>1, <1>2, LenProperties DEF SurfacesInv
<1>5. /\ UNCHANGED <<views, acquired, replaced>> /\ at = "views" /\ views = {} /\ at' = "present"
  BY DEF Surfaces!Submit, Surfaces!Drawing
<1> QED BY <1>3, <1>4, <1>5, ImagesStay DEF InFrame

LEMMA ImagesStep == SurfacesInv /\ ImagesSound /\ [Surfaces!Next]_(Surfaces!vars) => ImagesSound'
<1> SUFFICES ASSUME SurfacesInv, ImagesSound, [Surfaces!Next]_(Surfaces!vars) PROVE ImagesSound'
  OBVIOUS
<1>1. CASE \/ \E size \in Sizes \cup {0} :
                Surfaces!CreateSurface(size) \/ \E h \in handles : Surfaces!ReconfigureSurface(h, size)
           \/ \E h \in handles : Surfaces!DestroySurface(h)
  <2>1. at = "idle" /\ UNCHANGED <<at, replaced>>
    BY <1>1 DEF Surfaces!CreateSurface, Surfaces!ReconfigureSurface, Surfaces!DestroySurface,
                Surfaces!Between, Surfaces!frame
  <2> QED BY <2>1 DEF ImagesSound, InFrame
<1>2. CASE \E c \in handles \cup {Surfaces!NoHandle} : \E vs \in SUBSET handles : Surfaces!RenderFrame(c, vs)
  <2>1. at = "idle" /\ acquired' = {} /\ replaced' = replaced
    BY <1>2 DEF Surfaces!RenderFrame, Surfaces!Between
  <2> QED BY <2>1 DEF ImagesSound, InFrame
<1>3. CASE Surfaces!CanvasRefused
  BY <1>3 DEF Surfaces!CanvasRefused, ImagesSound, InFrame
<1>4. CASE Surfaces!SceneStale \/ Surfaces!Discard \/ Surfaces!Present
  <2>1. at' = "idle" /\ ~replaced'
    BY <1>4 DEF Surfaces!SceneStale, Surfaces!Discard, Surfaces!Present
  <2> QED BY <2>1 DEF ImagesSound, InFrame
<1>5. CASE Surfaces!AcquireCanvas
  BY <1>5, ImagesCanvas
<1>6. CASE \E v \in views : Surfaces!SkipView(v) \/ Surfaces!AcquireView(v) \/ Surfaces!ViewOutdated(v)
  <2>1. PICK v \in views : Surfaces!SkipView(v) \/ Surfaces!AcquireView(v) \/ Surfaces!ViewOutdated(v)
    BY <1>6
  <2>2. CASE Surfaces!SkipView(v)
    BY <2>2, ImagesStay DEF Surfaces!SkipView, SameToFrame, InFrame
  <2> QED BY <2>1, <2>2, ImagesView, ImagesOutdated
<1>7. CASE Surfaces!SubmitFrame
  BY <1>7, ImagesSubmit DEF Surfaces!SubmitFrame
<1>8. CASE Surfaces!Recover
  BY <1>8, ImagesRecover
<1>9. CASE UNCHANGED Surfaces!vars
  BY <1>9 DEF Surfaces!vars, Surfaces!frame, ImagesSound, InFrame
<1> QED BY <1>1, <1>2, <1>3, <1>4, <1>5, <1>6, <1>7, <1>8, <1>9 DEF Surfaces!Next

LEMMA SurfacesSound ==
  ASSUME SurfacesInv, ImagesSound
  PROVE  Surfaces!ImagesReleased /\ Surfaces!HandlesReachTheirOwn /\ Surfaces!RetiredWhenDrawn
<1>1. /\ Len(slots) \in Nat /\ DOMAIN slots = 1..Len(slots) /\ DOMAIN free = 1..Len(free)
  BY LenProperties DEF SurfacesInv, FreeSound
<1>2. \A i \in 1..Len(slots) :
        /\ slots[i].acquired => slots[i].swapchain.acquired
        /\ slots[i].surface /\ slots[i].state = "Ready" => slots[i].swapchain # Surfaces!NoSwapchain
  BY SlotOf DEF SurfacesInv, SoundSlots
<1>3. Surfaces!ImagesReleased
  <2>1. \A i \in 1..Len(slots) :
          slots[i].swapchain.acquired => i \in kept \/ (~Surfaces!Between /\ i \in acquired)
    BY DEF SurfacesInv, HeldSound
  <2>2. ~Surfaces!Between /\ at # "canvas" =>
          \A i \in acquired :
              slots[i].swapchain # Surfaces!NoSwapchain /\ (slots[i].swapchain.acquired <=> ~replaced)
    BY DEF SurfacesInv, FrameSound, Surfaces!Between, ImagesSound, InFrame
  <2> QED BY <1>1, <1>2, <2>1, <2>2 DEF Surfaces!ImagesReleased
<1>4. Surfaces!HandlesReachTheirOwn
  <2>1. \A h \in handles :
          /\ h.index \in 1..Len(slots)
          /\ Surfaces!Valid(h) => slots[h.index].surface /\ slots[h.index].id = h.id
    BY DEF SurfacesInv, HandlesSound
  <2>2. \A h \in handles : Surfaces!Valid(h) => Surfaces!Live(h)
    BY <2>1 DEF Surfaces!Live
  <2>3. \A h \in handles : Surfaces!Live(h) =>
          /\ slots[h.index].id = h.id
          /\ slots[h.index].state = "Ready" => slots[h.index].swapchain # Surfaces!NoSwapchain
    BY <1>2, <2>1 DEF Surfaces!Live
  <2>4. \A i, j \in DOMAIN free : free[i] = free[j] => i = j
    BY <1>1 DEF SurfacesInv, FreeSound, Distinct
  <2>5. \A i \in DOMAIN free : ~slots[free[i]].surface
    BY <1>1 DEF SurfacesInv, FreeSound
  <2> QED BY <2>2, <2>3, <2>4, <2>5 DEF Surfaces!HandlesReachTheirOwn
<1> QED BY <1>3, <1>4 DEF SurfacesInv

-----------------------------------------------------------------------------
(* Command encoders and their queue.                                          *)
(* Commands that an encoder has recorded, from its first to its last.          *)
Cmds == [encoder : Encoders, number : Nat, kind : {"clear", "copy", "write"}]
NumberedBy(e, q) == q \in Seq(Cmds) /\ \A k \in 1..Len(q) : q[k].encoder = e /\ q[k].number = k

(* What ran is, encoder by encoder, what it recorded in that order.            *)
InOrder(w) ==
    \A i \in 1..Len(w) : w[i].number = Commands!Cardinality({j \in 1..i : w[j].encoder = w[i].encoder})
AllIn(q, w) == \A k \in 1..Len(q) : \E j \in 1..Len(w) : w[j] = q[k]

(* An encoder that has not finished holds all that it recorded; a buffer holds *)
(* what its encoder had recorded.                                              *)
EncodersSound ==
    /\ commands \in [Encoders -> Seq(Cmds)] /\ recorded \in [Encoders -> Nat]
    /\ \A e \in Encoders \ encoded : NumberedBy(e, commands[e]) /\ Len(commands[e]) = recorded[e]
    /\ encoded \subseteq Encoders /\ DOMAIN buffers = encoded
    /\ \A b \in encoded : NumberedBy(b, buffers[b])

(* Only marked buffers run, and tickets are given for marked buffers that ran. *)
RanSound ==
    /\ ran \in Seq(Cmds) /\ InOrder(ran)
    /\ \A i \in 1..Len(ran) : ran[i].encoder \in marked
Backed(list, given, full, contents, w) ==
    \A k \in 1..Len(list) : list[k] \in given \cap full /\ AllIn(contents[list[k]], w)
TicketsSound ==
    /\ tickets \in Seq(Seq(Encoders))
    /\ \A t \in 1..Len(tickets) : Backed(tickets[t], marked, encoded, buffers, ran)
    /\ \A t, u \in 1..Len(tickets) : Commands!Range(tickets[t]) \cap Commands!Range(tickets[u]) # {} => t = u
    /\ accepted = Len(tickets) /\ ticked \in Nat /\ ticked <= accepted

CommandsInv == EncodersSound /\ RanSound /\ TicketsSound

-----------------------------------------------------------------------------
LEMMA CommandsCount == \A S : Commands!Cardinality(S) = Cardinality(S)
BY DEF Commands!Cardinality, Cardinality

LEMMA RangeOf == \A S : \A q \in Seq(S) : Commands!Range(q) = {q[k] : k \in 1..Len(q)}
<1> SUFFICES ASSUME NEW S, NEW q \in Seq(S) PROVE Commands!Range(q) = {q[k] : k \in 1..Len(q)}
  OBVIOUS
<1> QED BY LenProperties DEF Commands!Range

\* What an encoder recorded follows what others did.
LEMMA InOrderConcat ==
  ASSUME NEW w \in Seq(Cmds), InOrder(w), NEW e, NEW q, NumberedBy(e, q),
         \A i \in 1..Len(w) : w[i].encoder # e
  PROVE  /\ w \o q \in Seq(Cmds) /\ InOrder(w \o q)
         /\ Len(w \o q) = Len(w) + Len(q) /\ Len(w) \in Nat /\ Len(q) \in Nat
         /\ \A i \in 1..Len(w) : (w \o q)[i] = w[i]
         /\ \A k \in 1..Len(q) : (w \o q)[Len(w) + k] = q[k]
<1>1. q \in Seq(Cmds) /\ \A k \in 1..Len(q) : q[k].encoder = e /\ q[k].number = k
  BY DEF NumberedBy
<1>2. PICK m \in Nat : m = Len(w)
  BY LenProperties
<1>3. PICK n \in Nat : n = Len(q)
  BY <1>1, LenProperties
<1>4. PICK v : v = w \o q
  OBVIOUS
<1>5. /\ v \in Seq(Cmds) /\ Len(v) = m + n
      /\ \A i \in 1..m : v[i] = w[i]
      /\ \A k \in 1..n : v[m + k] = q[k]
  <2>1. /\ v \in Seq(Cmds) /\ Len(v) = m + n
        /\ \A i \in 1..(m + n) : v[i] = IF i <= m THEN w[i] ELSE q[i - m]
    BY <1>1, <1>2, <1>3, <1>4, ConcatProperties
  <2>2. ASSUME NEW i \in 1..m PROVE v[i] = w[i]
    BY <2>1
  <2>3. ASSUME NEW k \in 1..n PROVE v[m + k] = q[k]
    <3>1. m + k \in 1..(m + n) /\ ~(m + k <= m) /\ (m + k) - m = k
      OBVIOUS
    <3> QED BY <2>1, <3>1
  <2> QED BY <2>1, <2>2, <2>3
<1>6. ASSUME NEW i \in 1..(m + n)
      PROVE  v[i].number = Commands!Cardinality({j \in 1..i : v[j].encoder = v[i].encoder})
  <2>1. CASE i \in 1..m
    <3>1. {j \in 1..i : v[j].encoder = v[i].encoder} = {j \in 1..i : w[j].encoder = w[i].encoder}
      BY <1>5, <2>1
    <3> QED BY <1>2, <1>5, <2>1, <3>1 DEF InOrder
  <2>2. CASE i \notin 1..m
    <3>1. PICK k \in 1..n : i = m + k
      <4>1. i - m \in 1..n /\ i = m + (i - m)
        BY <2>2
      <4> QED BY <4>1
    <3>2. v[i].encoder = e /\ v[i].number = k
      BY <1>1, <1>3, <1>5, <3>1
    <3>3. ASSUME NEW j \in 1..i PROVE v[j].encoder = e <=> j \in (m + 1)..(m + k)
      <4>1. CASE j \in 1..m
        <5>1. v[j] = w[j] /\ w[j].encoder # e
          BY <1>2, <1>5, <4>1
        <5> QED BY <4>1, <5>1
      <4>2. CASE j \notin 1..m
        <5>1. PICK x \in 1..n : j = m + x
          <6>1. j - m \in 1..n /\ j = m + (j - m)
            BY <3>1, <4>2
          <6> QED BY <6>1
        <5>2. v[j].encoder = e
          BY <1>1, <1>3, <1>5, <5>1
        <5> QED BY <3>1, <4>2, <5>2
      <4> QED BY <4>1, <4>2
    <3>4. {j \in 1..i : v[j].encoder = v[i].encoder} = (m + 1)..(m + k)
      BY <3>1, <3>2, <3>3
    <3>5. Commands!Cardinality((m + 1)..(m + k)) = k
      <4>1. m + 1 \in Int /\ m + k \in Int /\ ~(m + 1 > m + k) /\ (m + k) - (m + 1) + 1 = k
        OBVIOUS
      <4> QED BY <4>1, FS_Interval, CommandsCount
    <3> QED BY <3>2, <3>4, <3>5
  <2> QED BY <2>1, <2>2
<1>7. InOrder(v)
  BY <1>5, <1>6 DEF InOrder
<1> QED BY <1>2, <1>3, <1>4, <1>5, <1>7

\* What runs of a buffer's commands is the beginning of them.
LEMMA RunNumbered ==
  ASSUME NEW e, NEW q, NumberedBy(e, q)
  PROVE  NumberedBy(e, Commands!RunOf(q)) /\ Len(Commands!RunOf(q)) <= Len(q)
<1>1. q \in Seq(Cmds) /\ Len(q) \in Nat /\ DOMAIN q = 1..Len(q)
  BY LenProperties DEF NumberedBy
<1>2. PICK fails \in SUBSET (1..Len(q)) : fails = {i \in DOMAIN q : Commands!Fails(q[i])}
  BY <1>1
<1>3. CASE fails = {}
  <2>1. Commands!RunOf(q) = q
    BY <1>2, <1>3 DEF Commands!RunOf
  <2> QED BY <1>1, <2>1
<1>4. CASE fails # {}
  <2>1. PICK i : i = CHOOSE x \in fails : \A j \in fails : x <= j
    OBVIOUS
  <2>2. i \in 1..Len(q)
    <3>1. fails \in SUBSET Nat
      OBVIOUS
    <3>2. \E x \in fails : \A j \in fails : x <= j
      BY <1>4, <3>1, LeastOf
    <3> QED BY <2>1, <3>2
  <2>3. Commands!RunOf(q) = SubSeq(q, 1, i - 1)
    BY <1>2, <1>4, <2>1 DEF Commands!RunOf
  <2>4. PICK n \in Nat : n = i - 1 /\ n <= Len(q)
    BY <1>1, <2>2
  <2>5. Commands!RunOf(q) \in Seq(Cmds) /\ Len(Commands!RunOf(q)) = n /\ \A k \in 1..n : Commands!RunOf(q)[k] = q[k]
    BY <1>1, <2>3, <2>4, FirstOf
  <2>6. \A k \in 1..n : Commands!RunOf(q)[k].encoder = e /\ Commands!RunOf(q)[k].number = k
    BY <1>1, <2>4, <2>5 DEF NumberedBy
  <2> QED BY <2>4, <2>5, <2>6 DEF NumberedBy
<1> QED BY <1>3, <1>4

\* The buffers that are executed are the beginning of the list, all of it if
\* each of them runs to its end.
LEMMA ExecutedPrefix ==
  ASSUME NEW S, NEW list \in Seq(S)
  PROVE  /\ Commands!Executed(list) \in Seq(S) /\ Len(Commands!Executed(list)) \in 0..Len(list)
         /\ \A i \in 1..Len(Commands!Executed(list)) : Commands!Executed(list)[i] = list[i]
         /\ (\A i \in DOMAIN list : Commands!Clean(buffers[list[i]])) => Commands!Executed(list) = list
<1>1. Len(list) \in Nat /\ DOMAIN list = 1..Len(list)
  BY LenProperties
<1>2. PICK bad \in SUBSET (1..Len(list)) : bad = {i \in DOMAIN list : ~Commands!Clean(buffers[list[i]])}
  BY <1>1
<1>3. CASE bad = {}
  <2>1. Commands!Executed(list) = list
    BY <1>2, <1>3 DEF Commands!Executed
  <2> QED BY <1>1, <2>1
<1>4. CASE bad # {}
  <2>1. PICK i : i = CHOOSE x \in bad : \A j \in bad : x <= j
    OBVIOUS
  <2>2. i \in 1..Len(list)
    <3>1. bad \in SUBSET Nat
      OBVIOUS
    <3>2. \E x \in bad : \A j \in bad : x <= j
      BY <1>4, <3>1, LeastOf
    <3> QED BY <2>1, <3>2
  <2>3. Commands!Executed(list) = SubSeq(list, 1, i)
    BY <1>2, <1>4, <2>1 DEF Commands!Executed
  <2>4. i \in Nat /\ i <= Len(list)
    BY <1>1, <2>2
  <2>5. Commands!Executed(list) \in Seq(S) /\ Len(Commands!Executed(list)) = i /\ \A k \in 1..i : Commands!Executed(list)[k] = list[k]
    BY <2>3, <2>4, FirstOf
  <2>6. ~(\A k \in DOMAIN list : Commands!Clean(buffers[list[k]]))
    BY <1>2, <1>4
  <2> QED BY <1>1, <2>4, <2>5, <2>6
<1> QED BY <1>3, <1>4

(* What the queue marks was not marked, and occurs once.                       *)
Fresh(list, n) ==
    \A i \in 1..n : list[i] \notin marked /\ \A j \in 1..i - 1 : list[j] # list[i]

LEMMA MarkableFresh ==
  ASSUME NEW list, Len(list) \in Nat
  PROVE  Commands!Markable(list) \in 0..Len(list) /\ Fresh(list, Commands!Markable(list))
<1>1. PICK n \in 0..Len(list) : Fresh(list, n) /\ (n < Len(list) => ~Fresh(list, n + 1))
  <2> SUFFICES ASSUME \A n \in 0..Len(list) : Fresh(list, n) => n < Len(list) /\ Fresh(list, n + 1)
               PROVE  FALSE
    OBVIOUS
  <2>1. PICK T \in SUBSET Nat : T = {n \in Nat : n <= Len(list) /\ Fresh(list, n)}
    OBVIOUS
  <2>2. 0 \in T
    BY <2>1 DEF Fresh
  <2>3. \A n \in T : n + 1 \in T
    BY <2>1
  <2>4. T = Nat
    BY <2>2, <2>3, AllNaturals
  <2>5. Len(list) + 1 \in T
    BY <2>4
  <2> QED BY <2>1, <2>5
<1>2. PICK found : found = Commands!Markable(list)
  OBVIOUS
<1>3. found \in 0..Len(list) /\ Fresh(list, found)
  BY <1>1, <1>2 DEF Commands!Markable, Fresh
<1> QED BY <1>2, <1>3

(* What has run once the first i of these buffers have run too.                *)
RanUpTo(runs, i) ==
    {w \in Seq(Cmds) :
        /\ InOrder(w) /\ AllIn(ran, w)
        /\ \A j \in 1..Len(w) : w[j].encoder \in marked \cup {runs[k] : k \in 1..i}
        /\ \A k \in 1..i : AllIn(Commands!RunOf(buffers[runs[k]]), w)}

LEMMA RunsKeepOrder ==
  ASSUME CommandsInv, NEW runs \in Seq(encoded), Fresh(runs, Len(runs))
  PROVE  Commands!RanWith(runs) \in RanUpTo(runs, Len(runs))
<1>1. PICK n \in Nat : n = Len(runs)
  BY LenProperties
<1>2. \A i \in 1..n : runs[i] \in encoded
  BY <1>1, ElementOfSeq
<1>3. PICK q : q = [i \in 1..n |-> Commands!RunOf(buffers[runs[i]])]
  OBVIOUS
<1>4. \A i \in 1..n : q[i] = Commands!RunOf(buffers[runs[i]]) /\ NumberedBy(runs[i], q[i])
  BY <1>2, <1>3, RunNumbered DEF CommandsInv, EncodersSound
<1>5. PICK W : W = Seq(Cmds)
  OBVIOUS
<1>6. PICK step : step = [i \in 1..n |-> [w \in W |-> w \o q[i]]]
  OBVIOUS
<1>7. ran \in W /\ \A i \in 1..n : q[i] \in W
  BY <1>4, <1>5 DEF CommandsInv, RanSound, NumberedBy
<1>8. \A i \in 1..n : \A w \in W : w \o q[i] \in W
  BY <1>5, <1>7, ConcatProperties
<1>9. step \in Steps(n, W)
  BY <1>6, <1>8 DEF Steps
<1>10. PICK f : FoldOf(f, n, W, ran, step)
  BY <1>7, <1>9, FoldExists
<1>11. f \in [0..n -> W] /\ f[0] = ran /\ \A i \in 1..n : f[i] = step[i][f[i - 1]]
  BY <1>10 DEF FoldOf
<1> DEFINE Runs(h) == h = [i \in 0..n |-> IF i = 0 THEN ran ELSE h[i - 1] \o Commands!RunOf(buffers[runs[i]])]
<1>12. Runs(f)
  <2>1. ASSUME NEW i \in 0..n PROVE f[i] = IF i = 0 THEN ran ELSE f[i - 1] \o Commands!RunOf(buffers[runs[i]])
    <3>1. CASE i # 0
      <4>1. i \in 1..n /\ i - 1 \in 0..n /\ f[i - 1] \in W
        BY <1>11, <3>1
      <4>2. f[i] = f[i - 1] \o q[i]
        BY <1>6, <1>11, <4>1
      <4> QED BY <1>4, <3>1, <4>1, <4>2
    <3> QED BY <1>11, <3>1
  <2> QED BY <1>11, <2>1
<1>13. PICK g : g = CHOOSE h : Runs(h)
  OBVIOUS
<1>14. Runs(g)
  BY <1>12, <1>13
<1>15. Commands!RanWith(runs) = g[n]
  BY <1>1, <1>13 DEF Commands!RanWith
<1>16. g[0] = ran /\ \A i \in 1..n : g[i] = g[i - 1] \o q[i]
  <2>1. g[0] = ran
    BY <1>14
  <2>2. ASSUME NEW i \in 1..n PROVE g[i] = g[i - 1] \o q[i]
    <3>1. i \in 0..n /\ i # 0
      OBVIOUS
    <3>2. g[i] = g[i - 1] \o Commands!RunOf(buffers[runs[i]])
      BY <1>14, <3>1
    <3> QED BY <1>4, <3>2
  <2> QED BY <2>1, <2>2
<1> HIDE DEF Runs
<1>17. PICK V : V = [i \in 0..n |-> RanUpTo(runs, i)]
  OBVIOUS
<1>18. g[0] \in V[0]
  <2>1. AllIn(ran, ran)
    BY DEF AllIn
  <2>2. ran \in RanUpTo(runs, 0)
    BY <2>1 DEF CommandsInv, RanSound, RanUpTo
  <2> QED BY <1>16, <1>17, <2>2
<1>19. ASSUME NEW i \in 1..n, g[i - 1] \in V[i - 1] PROVE g[i] \in V[i]
  <2>0. i - 1 \in 0..n /\ i \in 0..n
    OBVIOUS
  <2>1. PICK w \in Seq(Cmds) :
          /\ w = g[i - 1] /\ InOrder(w) /\ AllIn(ran, w)
          /\ \A j \in 1..Len(w) : w[j].encoder \in marked \cup {runs[k] : k \in 1..i - 1}
          /\ \A k \in 1..i - 1 : AllIn(Commands!RunOf(buffers[runs[k]]), w)
    BY <1>17, <1>19, <2>0 DEF RanUpTo
  <2>2. PICK p : p = q[i] /\ NumberedBy(runs[i], p)
    BY <1>4
  <2>3. runs[i] \notin marked /\ \A k \in 1..i - 1 : runs[k] # runs[i]
    BY <1>1 DEF Fresh
  <2>4. \A j \in 1..Len(w) : w[j].encoder # runs[i]
    BY <2>1, <2>3
  <2>5. PICK v : v = w \o p
    OBVIOUS
  <2>6. /\ v \in Seq(Cmds) /\ InOrder(v)
        /\ Len(v) = Len(w) + Len(p) /\ Len(w) \in Nat /\ Len(p) \in Nat
        /\ \A j \in 1..Len(w) : v[j] = w[j]
        /\ \A k \in 1..Len(p) : v[Len(w) + k] = p[k]
    <3>1. PICK e : e = runs[i]
      OBVIOUS
    <3>2. InOrder(w) /\ NumberedBy(e, p) /\ \A j \in 1..Len(w) : w[j].encoder # e
      BY <2>1, <2>2, <2>4, <3>1
    <3>3. /\ w \o p \in Seq(Cmds) /\ InOrder(w \o p)
          /\ Len(w \o p) = Len(w) + Len(p) /\ Len(w) \in Nat /\ Len(p) \in Nat
          /\ \A j \in 1..Len(w) : (w \o p)[j] = w[j]
          /\ \A k \in 1..Len(p) : (w \o p)[Len(w) + k] = p[k]
      BY <3>2, InOrderConcat
    <3> QED BY <2>5, <3>3
  <2>7. ASSUME NEW r, AllIn(r, w) PROVE AllIn(r, v)
    <3>1. \A j \in 1..Len(w) : j \in 1..Len(v) /\ v[j] = w[j]
      BY <2>6
    <3> QED BY <2>7, <3>1 DEF AllIn
  <2>8. AllIn(p, v)
    <3>1. \A k \in 1..Len(p) : Len(w) + k \in 1..Len(v) /\ v[Len(w) + k] = p[k]
      BY <2>6
    <3> QED BY <3>1 DEF AllIn
  <2>9. \A k \in 1..i : AllIn(Commands!RunOf(buffers[runs[k]]), v)
    <3>1. \A k \in 1..i : k \in 1..i - 1 \/ k = i
      OBVIOUS
    <3>2. Commands!RunOf(buffers[runs[i]]) = p
      BY <1>4, <2>2
    <3> QED BY <2>1, <2>7, <2>8, <3>1, <3>2
  <2>10. \A j \in 1..Len(v) : v[j].encoder \in marked \cup {runs[k] : k \in 1..i}
    <3> SUFFICES ASSUME NEW j \in 1..Len(v) PROVE v[j].encoder \in marked \cup {runs[k] : k \in 1..i}
      OBVIOUS
    <3>1. CASE j \in 1..Len(w)
      <4>1. v[j].encoder \in marked \cup {runs[k] : k \in 1..i - 1}
        BY <2>1, <2>6, <3>1
      <4>2. \A k \in 1..i - 1 : k \in 1..i
        OBVIOUS
      <4> QED BY <4>1, <4>2
    <3>2. CASE j \notin 1..Len(w)
      <4>1. PICK k \in 1..Len(p) : j = Len(w) + k
        <5>1. j - Len(w) \in 1..Len(p) /\ j = Len(w) + (j - Len(w))
          BY <2>6, <3>2
        <5> QED BY <5>1
      <4>2. v[j].encoder = runs[i]
        BY <2>2, <2>6, <4>1 DEF NumberedBy
      <4> QED BY <4>2
    <3> QED BY <3>1, <3>2
  <2>11. v \in RanUpTo(runs, i)
    BY <2>1, <2>6, <2>7, <2>9, <2>10 DEF RanUpTo
  <2> QED BY <1>16, <1>17, <2>0, <2>1, <2>2, <2>5, <2>11
<1>20. \A i \in 0..n : g[i] \in V[i]
  BY <1>18, <1>19, KeptAlongFold
<1> QED BY <1>1, <1>15, <1>17, <1>20

-----------------------------------------------------------------------------
LEMMA CommandsInit == Commands!Init => CommandsInv
<1> SUFFICES ASSUME Commands!Init PROVE CommandsInv
  OBVIOUS
<1>1. /\ << >> \in Seq(Cmds) /\ << >> \in Seq(Seq(Encoders)) /\ Len(<< >>) = 0 /\ DOMAIN << >> = {}
  BY EmptySeq
<1>2. EncodersSound
  <2>1. commands \in [Encoders -> Seq(Cmds)] /\ \A e \in Encoders : commands[e] = << >> /\ recorded[e] = 0
    BY <1>1 DEF Commands!Init
  <2>2. recorded \in [Encoders -> Nat] /\ encoded = {} /\ buffers = << >>
    BY DEF Commands!Init
  <2>3. \A e \in Encoders : NumberedBy(e, commands[e]) /\ Len(commands[e]) = recorded[e]
    BY <1>1, <2>1 DEF NumberedBy
  <2> QED BY <1>1, <2>1, <2>2, <2>3 DEF EncodersSound
<1>3. RanSound
  BY <1>1 DEF Commands!Init, RanSound, InOrder
<1>4. TicketsSound
  BY <1>1 DEF Commands!Init, TicketsSound
<1> QED BY <1>2, <1>3, <1>4 DEF CommandsInv

LEMMA RecordStep ==
  ASSUME CommandsInv, NEW e \in Encoders, NEW kind \in {"clear", "copy", "write"}, Commands!Record(e, kind)
  PROVE  CommandsInv'
<1>1. PICK n \in Nat : n = recorded[e]
  BY DEF CommandsInv, EncodersSound
<1>2. PICK c \in Cmds : c = [encoder |-> e, number |-> n + 1, kind |-> kind]
  <2>1. PICK m \in Nat : m = n + 1
    OBVIOUS
  <2> QED BY <2>1 DEF Cmds
<1>3. c.encoder = e /\ c.number = n + 1
  BY <1>2
<1>4. /\ commands' = [commands EXCEPT ![e] = Append(commands[e], c)]
      /\ recorded' = [recorded EXCEPT ![e] = n + 1]
      /\ UNCHANGED <<encoded, buffers, Commands!queue>>
  BY <1>1, <1>2 DEF Commands!Record
<1>5. PICK q \in Seq(Cmds) : q = Append(commands[e], c)
  <2>1. commands[e] \in Seq(Cmds)
    BY DEF CommandsInv, EncodersSound
  <2> QED BY <2>1, AppendProperties
<1>6. /\ commands' \in [Encoders -> Seq(Cmds)] /\ commands'[e] = q
      /\ \A o \in Encoders : o # e => commands'[o] = commands[o]
      /\ recorded' \in [Encoders -> Nat] /\ recorded'[e] = n + 1
      /\ \A o \in Encoders : o # e => recorded'[o] = recorded[o]
  BY <1>4, <1>5 DEF CommandsInv, EncodersSound
<1>7. ASSUME e \notin encoded PROVE NumberedBy(e, q) /\ Len(q) = n + 1
  <2>1. /\ commands[e] \in Seq(Cmds) /\ Len(commands[e]) = n
        /\ \A k \in 1..n : commands[e][k].encoder = e /\ commands[e][k].number = k
    BY <1>1, <1>7 DEF CommandsInv, EncodersSound, NumberedBy
  <2>2. /\ Len(q) = n + 1 /\ \A k \in 1..n : q[k] = commands[e][k]
        /\ q[n + 1] = c
    BY <1>5, <2>1, AppendProperties
  <2>3. \A k \in 1..(n + 1) : k \in 1..n \/ k = n + 1
    OBVIOUS
  <2>4. \A k \in 1..(n + 1) : q[k].encoder = e /\ q[k].number = k
    BY <1>3, <2>1, <2>2, <2>3
  <2> QED BY <2>2, <2>4 DEF NumberedBy
<1>8. EncodersSound'
  <2>1. \A o \in Encoders \ encoded : NumberedBy(o, commands'[o]) /\ Len(commands'[o]) = recorded'[o]
    BY <1>6, <1>7 DEF CommandsInv, EncodersSound
  <2> QED BY <1>4, <1>6, <2>1 DEF CommandsInv, EncodersSound
<1>9. UNCHANGED <<encoded, buffers, marked, ran, accepted, ticked, tickets>>
  BY <1>4 DEF Commands!queue
<1>10. RanSound' /\ TicketsSound'
  BY <1>9 DEF CommandsInv, RanSound, TicketsSound, Backed
<1> QED BY <1>8, <1>10 DEF CommandsInv

LEMMA FinishStep ==
  ASSUME CommandsInv, NEW e \in Encoders, Commands!Finish(e)
  PROVE  CommandsInv'
<1>0. UNCHANGED <<recorded, marked, ran, accepted, ticked, tickets>>
  BY DEF Commands!Finish, Commands!queue
<1>1. CASE ~Commands!Ready(e)
  <2>1. UNCHANGED <<encoded, buffers, commands>>
    BY <1>1 DEF Commands!Finish
  <2> QED BY <1>0, <2>1 DEF CommandsInv, EncodersSound, RanSound, TicketsSound, Backed
<1>2. CASE Commands!Ready(e)
  <2>1. /\ e \notin encoded /\ encoded' = encoded \cup {e}
        /\ buffers' = [b \in encoded \cup {e} |-> IF b = e THEN commands[e] ELSE buffers[b]]
        /\ commands' = [commands EXCEPT ![e] = << >>]
    BY <1>2 DEF Commands!Finish, Commands!Ready, CommandsInv, EncodersSound
  <2>2. DOMAIN buffers' = encoded' /\ encoded' \subseteq Encoders
    BY <2>1 DEF CommandsInv, EncodersSound
  <2>3. buffers'[e] = commands[e] /\ \A b \in encoded : buffers'[b] = buffers[b]
    BY <2>1
  <2>4. NumberedBy(e, commands[e])
    BY <2>1 DEF CommandsInv, EncodersSound
  <2>5. \A b \in encoded' : NumberedBy(b, buffers'[b])
    BY <2>1, <2>3, <2>4 DEF CommandsInv, EncodersSound
  <2>6. /\ commands' \in [Encoders -> Seq(Cmds)]
        /\ \A o \in Encoders : o # e => commands'[o] = commands[o]
    <3>1. << >> \in Seq(Cmds)
      BY EmptySeq
    <3> QED BY <2>1, <3>1 DEF CommandsInv, EncodersSound
  <2>7. \A o \in Encoders \ encoded' : NumberedBy(o, commands'[o]) /\ Len(commands'[o]) = recorded'[o]
    BY <1>0, <2>1, <2>6 DEF CommandsInv, EncodersSound
  <2>8. EncodersSound'
    BY <1>0, <2>2, <2>5, <2>6, <2>7 DEF CommandsInv, EncodersSound
  <2>9. RanSound'
    BY <1>0 DEF CommandsInv, RanSound
  <2>10. \A t \in 1..Len(tickets) : Backed(tickets[t], marked, encoded', buffers', ran)
    <3> SUFFICES ASSUME NEW t \in 1..Len(tickets), NEW k \in 1..Len(tickets[t])
                 PROVE  tickets[t][k] \in marked \cap encoded' /\ AllIn(buffers'[tickets[t][k]], ran)
      BY DEF Backed
    <3>1. tickets[t][k] \in marked \cap encoded /\ AllIn(buffers[tickets[t][k]], ran)
      BY DEF CommandsInv, TicketsSound, Backed
    <3> QED BY <2>1, <2>3, <3>1
  <2>11. TicketsSound'
    BY <1>0, <2>10 DEF CommandsInv, TicketsSound
  <2> QED BY <2>8, <2>9, <2>11 DEF CommandsInv
<1> QED BY <1>1, <1>2

LEMMA ListSubmitStep ==
  ASSUME CommandsInv, NEW list \in Seq(encoded), Commands!Submit(list)
  PROVE  CommandsInv'
<1>1. PICK n \in Nat : n = Len(list) /\ DOMAIN list = 1..n /\ \A k \in 1..n : list[k] \in encoded
  BY LenProperties, ElementOfSeq
<1>2. PICK m \in 0..n : m = Commands!Markable(list) /\ Fresh(list, m)
  BY <1>1, MarkableFresh
<1>3. /\ marked' = marked \cup {list[i] : i \in 1..m}
      /\ UNCHANGED <<encoded, buffers, commands, recorded>>
  BY <1>2 DEF Commands!Submit, Commands!encoding
<1>4. EncodersSound'
  BY <1>3 DEF CommandsInv, EncodersSound
<1>5. CASE m < n \/ lost
  <2>1. UNCHANGED <<ran, accepted, ticked, tickets>>
    BY <1>1, <1>2, <1>5 DEF Commands!Submit
  <2>2. RanSound'
    BY <1>3, <2>1 DEF CommandsInv, RanSound
  <2>3. TicketsSound'
    BY <1>3, <2>1 DEF CommandsInv, TicketsSound, Backed
  <2> QED BY <1>4, <2>2, <2>3 DEF CommandsInv
<1>6. CASE ~(m < n \/ lost)
  <2>1. m = n
    BY <1>6
  <2>2. PICK runs \in Seq(encoded) :
          /\ runs = Commands!Executed(list) /\ Len(runs) \in 0..n /\ \A i \in 1..Len(runs) : runs[i] = list[i]
          /\ (\A i \in 1..n : Commands!Clean(buffers[list[i]])) => runs = list
    BY <1>1, ExecutedPrefix
  <2>3. Fresh(runs, Len(runs))
    <3> SUFFICES ASSUME NEW i \in 1..Len(runs)
                 PROVE  runs[i] \notin marked /\ \A j \in 1..i - 1 : runs[j] # runs[i]
      BY DEF Fresh
    <3>1. i \in 1..n /\ \A j \in 1..i - 1 : j \in 1..Len(runs)
      BY <2>2
    <3>2. list[i] \notin marked /\ \A j \in 1..i - 1 : list[j] # list[i]
      BY <1>2, <2>1, <3>1 DEF Fresh
    <3> QED BY <2>2, <3>1, <3>2
  <2>4. PICK w : w = Commands!RanWith(runs)
    OBVIOUS
  <2>5. /\ w \in Seq(Cmds) /\ InOrder(w) /\ AllIn(ran, w)
        /\ \A j \in 1..Len(w) : w[j].encoder \in marked \cup {runs[k] : k \in 1..Len(runs)}
        /\ \A k \in 1..Len(runs) : AllIn(Commands!RunOf(buffers[runs[k]]), w)
    BY <2>3, <2>4, RunsKeepOrder DEF RanUpTo
  <2>6. ran' = w /\ ticked' = ticked
    BY <1>1, <1>2, <1>6, <2>2, <2>4 DEF Commands!Submit
  <2>7. RanSound'
    <3>1. \A k \in 1..Len(runs) : runs[k] \in {list[i] : i \in 1..m}
      BY <2>1, <2>2
    <3> QED BY <1>3, <2>5, <2>6, <3>1 DEF RanSound
  <2>8. ASSUME NEW r, AllIn(r, ran) PROVE AllIn(r, w)
    BY <2>5, <2>8 DEF AllIn
  <2>9. \A t \in 1..Len(tickets) : Backed(tickets[t], marked', encoded, buffers, w)
    <3> SUFFICES ASSUME NEW t \in 1..Len(tickets), NEW k \in 1..Len(tickets[t])
                 PROVE  tickets[t][k] \in marked' \cap encoded /\ AllIn(buffers[tickets[t][k]], w)
      BY DEF Backed
    <3>1. tickets[t][k] \in marked \cap encoded /\ AllIn(buffers[tickets[t][k]], ran)
      BY DEF CommandsInv, TicketsSound, Backed
    <3> QED BY <1>3, <2>8, <3>1
  <2>10. CASE ~(\A i \in 1..n : Commands!Clean(buffers[list[i]]))
    <3>1. accepted' = accepted /\ tickets' = tickets
      BY <1>1, <1>2, <1>6, <2>10 DEF Commands!Submit
    <3>2. TicketsSound'
      BY <1>3, <2>6, <2>9, <3>1 DEF CommandsInv, TicketsSound
    <3> QED BY <1>4, <2>7, <3>2 DEF CommandsInv
  <2>11. CASE \A i \in 1..n : Commands!Clean(buffers[list[i]])
    <3>1. accepted' = accepted + 1 /\ tickets' = Append(tickets, list)
      BY <1>1, <1>2, <1>6, <2>11 DEF Commands!Submit
    <3>2. list \in Seq(Encoders)
      <4>1. encoded \subseteq Encoders
        BY DEF CommandsInv, EncodersSound
      <4> QED BY <4>1
    <3>3. PICK c \in Nat : c = Len(tickets) /\ tickets \in Seq(Seq(Encoders))
      BY LenProperties DEF CommandsInv, TicketsSound
    <3>4. /\ tickets' \in Seq(Seq(Encoders)) /\ Len(tickets') = c + 1
          /\ \A t \in 1..c : tickets'[t] = tickets[t]
          /\ tickets'[c + 1] = list
      BY <3>1, <3>2, <3>3, AppendProperties
    <3>5. \A t \in 1..(c + 1) : t \in 1..c \/ t = c + 1
      OBVIOUS
    <3>6. Backed(list, marked', encoded, buffers, w)
      <4> SUFFICES ASSUME NEW k \in 1..n
                   PROVE  list[k] \in marked' \cap encoded /\ AllIn(buffers[list[k]], w)
        BY <1>1 DEF Backed
      <4>1. list[k] \in marked'
        BY <1>3, <2>1
      <4>2. runs = list /\ Commands!RunOf(buffers[list[k]]) = buffers[list[k]]
        BY <2>2, <2>11 DEF Commands!Clean
      <4>3. AllIn(Commands!RunOf(buffers[list[k]]), w)
        BY <1>1, <2>5, <4>2
      <4> QED BY <1>1, <4>1, <4>2, <4>3
    <3>7. \A t \in 1..c : Commands!Range(tickets[t]) \subseteq marked /\ Commands!Range(tickets[t]) \cap Commands!Range(list) = {}
      <4> SUFFICES ASSUME NEW t \in 1..c
                   PROVE  Commands!Range(tickets[t]) \subseteq marked /\ Commands!Range(tickets[t]) \cap Commands!Range(list) = {}
        OBVIOUS
      <4>1. tickets[t] \in Seq(Encoders) /\ \A k \in 1..Len(tickets[t]) : tickets[t][k] \in marked
        BY <3>3, ElementOfSeq DEF CommandsInv, TicketsSound, Backed
      <4>2. Commands!Range(tickets[t]) = {tickets[t][k] : k \in 1..Len(tickets[t])}
        BY <4>1, RangeOf
      <4>3. Commands!Range(list) = {list[k] : k \in 1..n}
        BY <1>1, <3>2, RangeOf
      <4>4. \A k \in 1..n : list[k] \notin marked
        BY <1>2, <2>1 DEF Fresh
      <4> QED BY <4>1, <4>2, <4>3, <4>4
    <3>8. \A t, u \in 1..(c + 1) : Commands!Range(tickets'[t]) \cap Commands!Range(tickets'[u]) # {} => t = u
      <4> SUFFICES ASSUME NEW t \in 1..(c + 1), NEW u \in 1..(c + 1),
                          Commands!Range(tickets'[t]) \cap Commands!Range(tickets'[u]) # {}
                   PROVE  t = u
        OBVIOUS
      <4>1. CASE t \in 1..c /\ u \in 1..c
        BY <3>3, <3>4, <4>1 DEF CommandsInv, TicketsSound
      <4>2. CASE t \in 1..c /\ u = c + 1
        BY <3>4, <3>7, <4>2
      <4>3. CASE t = c + 1 /\ u \in 1..c
        BY <3>4, <3>7, <4>3
      <4> QED BY <3>5, <4>1, <4>2, <4>3
    <3>9. \A t \in 1..(c + 1) : Backed(tickets'[t], marked', encoded, buffers, w)
      BY <2>9, <3>3, <3>4, <3>5, <3>6
    <3>10. accepted' = c + 1 /\ ticked' \in Nat /\ ticked' <= c + 1
      BY <2>6, <3>1, <3>3 DEF CommandsInv, TicketsSound
    <3>11. TicketsSound'
      BY <1>3, <2>6, <3>4, <3>8, <3>9, <3>10 DEF TicketsSound
    <3> QED BY <1>4, <2>7, <3>11 DEF CommandsInv
  <2> QED BY <2>10, <2>11
<1> QED BY <1>5, <1>6

LEMMA CommandsStep == CommandsInv /\ [Commands!Next]_(Commands!vars) => CommandsInv'
<1> SUFFICES ASSUME CommandsInv, [Commands!Next]_(Commands!vars) PROVE CommandsInv'
  OBVIOUS
<1>1. CASE \E e \in Encoders : \E kind \in {"clear", "copy", "write"} : Commands!Record(e, kind)
  BY <1>1, RecordStep
<1>2. CASE \E e \in Encoders : Commands!Finish(e)
  BY <1>2, FinishStep
<1>3. CASE \E list \in Commands!Lists : Commands!Submit(list)
  <2>1. PICK list \in Commands!Lists : Commands!Submit(list)
    BY <1>3
  <2>2. list \in Seq(encoded)
    <3>1. DOMAIN buffers = encoded
      BY DEF CommandsInv, EncodersSound
    <3>2. \/ \E a \in encoded : list = <<a>>
          \/ \E a, b \in encoded : list = <<a, b>>
      BY <3>1 DEF Commands!Lists
    <3>3. CASE \E a \in encoded : list = <<a>>
      <4>1. PICK a \in encoded : list = <<a>>
        BY <3>3
      <4>2. << >> \in Seq(encoded) /\ list = Append(<< >>, a)
        BY <4>1, EmptySeq
      <4> QED BY <4>2, AppendProperties
    <3>4. CASE \E a, b \in encoded : list = <<a, b>>
      <4>1. PICK a \in encoded, b \in encoded : list = <<a, b>>
        BY <3>4
      <4>2. << >> \in Seq(encoded)
        BY EmptySeq
      <4>3. PICK q \in Seq(encoded) : q = Append(<< >>, a)
        BY <4>2, AppendProperties
      <4>4. list = Append(q, b)
        BY <4>1, <4>3
      <4> QED BY <4>4, AppendProperties
    <3> QED BY <3>2, <3>3, <3>4
  <2> QED BY <2>1, <2>2, ListSubmitStep
<1>4. CASE Commands!Tick
  <2>1. UNCHANGED <<encoded, buffers, commands, recorded, marked, ran, accepted, tickets>>
    BY <1>4 DEF Commands!Tick, Commands!encoding
  <2>2. ticked' = accepted /\ Len(tickets) \in Nat
    BY <1>4, LenProperties DEF Commands!Tick, CommandsInv, TicketsSound
  <2>3. EncodersSound' /\ RanSound'
    BY <2>1 DEF CommandsInv, EncodersSound, RanSound
  <2>4. accepted = Len(tickets) /\ ticked' \in Nat /\ ticked' <= accepted'
    BY <2>1, <2>2 DEF CommandsInv, TicketsSound
  <2>5. TicketsSound'
    BY <2>1, <2>4 DEF CommandsInv, TicketsSound
  <2> QED BY <2>3, <2>5 DEF CommandsInv
<1>5. CASE \/ \E e \in Encoders : Commands!BeginPass(e) \/ Commands!EndPass(e)
           \/ Commands!DestroyTexture \/ Commands!Lose \/ UNCHANGED Commands!vars
  <2>1. /\ UNCHANGED <<encoded, buffers, commands, recorded>>
        /\ UNCHANGED <<marked, ran, accepted, ticked, tickets>>
    BY <1>5 DEF Commands!BeginPass, Commands!EndPass, Commands!DestroyTexture, Commands!Lose, Commands!vars, Commands!encoding, Commands!queue
  <2> QED BY <2>1 DEF CommandsInv, EncodersSound, RanSound, TicketsSound
<1> QED BY <1>1, <1>2, <1>3, <1>4, <1>5 DEF Commands!Next

LEMMA CommandsSound ==
  ASSUME CommandsInv PROVE Commands!CommandsRunOnce /\ Commands!BuffersGivenOnce
<1>1. /\ ran \in Seq(Cmds) /\ DOMAIN ran = 1..Len(ran)
      /\ tickets \in Seq(Seq(Encoders)) /\ DOMAIN tickets = 1..Len(tickets)
  BY LenProperties DEF CommandsInv, RanSound, TicketsSound
<1>2. \A i \in DOMAIN ran :
        ran[i].number = Commands!Cardinality({j \in 1 .. i : ran[j].encoder = ran[i].encoder})
  BY <1>1 DEF CommandsInv, RanSound, InOrder
<1>3. \A t \in DOMAIN tickets : \A b \in Commands!Range(tickets[t]) : Commands!Range(buffers[b]) \subseteq Commands!Range(ran)
  <2> SUFFICES ASSUME NEW t \in 1..Len(tickets), NEW b \in Commands!Range(tickets[t])
               PROVE  Commands!Range(buffers[b]) \subseteq Commands!Range(ran)
    BY <1>1
  <2>1. tickets[t] \in Seq(Encoders)
    BY <1>1, ElementOfSeq
  <2>2. PICK k \in 1..Len(tickets[t]) : b = tickets[t][k]
    BY <2>1, RangeOf
  <2>3. b \in encoded /\ AllIn(buffers[b], ran)
    BY <2>2 DEF CommandsInv, TicketsSound, Backed
  <2>4. buffers[b] \in Seq(Cmds)
    BY <2>3 DEF CommandsInv, EncodersSound, NumberedBy
  <2>5. /\ Commands!Range(buffers[b]) = {buffers[b][x] : x \in 1..Len(buffers[b])}
        /\ Commands!Range(ran) = {ran[x] : x \in 1..Len(ran)}
    BY <1>1, <2>4, RangeOf
  <2> QED BY <2>3, <2>5 DEF AllIn
<1>4. Commands!BuffersGivenOnce
  BY <1>1 DEF CommandsInv, TicketsSound, Commands!BuffersGivenOnce
<1>5. ticked <= accepted /\ accepted = Len(tickets)
  BY DEF CommandsInv, TicketsSound
<1> QED BY <1>2, <1>3, <1>4, <1>5 DEF Commands!CommandsRunOnce

-----------------------------------------------------------------------------
(* The parts together: whatever an application does is a step of one part and *)
(* leaves the others as they are.                                             *)
ApplicationInv ==
    /\ TrackingInv /\ HostInv /\ StoreInv /\ StoreAllSwept
    /\ SurfacesInv /\ ImagesSound /\ CommandsInv

ApplicationVars == <<part, tracking, hosting, storing, presenting, recording, interacting>>

LEMMA OneStep ==
  ASSUME [ApplicationNext]_ApplicationVars
  PROVE  /\ [Next]_vars /\ [Host!Next]_(Host!vars) /\ [Store!Next]_(Store!vars)
         /\ [Surfaces!Next]_(Surfaces!vars) /\ [Commands!Next]_(Commands!vars)
<1>1. UNCHANGED tracking => UNCHANGED vars
  BY DEF tracking
<1>2. UNCHANGED hosting => UNCHANGED Host!vars
  BY DEF hosting, Host!vars
<1>3. UNCHANGED storing => UNCHANGED Store!vars
  BY DEF storing, Store!vars
<1>4. UNCHANGED presenting => UNCHANGED Surfaces!vars
  BY DEF presenting, Surfaces!vars, Surfaces!registry, Surfaces!frame, Surfaces!gpu
<1>5. UNCHANGED recording => UNCHANGED Commands!vars
  BY DEF recording, Commands!vars, Commands!encoding, Commands!queue
<1> QED BY <1>1, <1>2, <1>3, <1>4, <1>5 DEF ApplicationNext, ApplicationVars

LEMMA ApplicationBegins == ApplicationInit => ApplicationInv
BY TrackingBegins, HostBegins, StoreBegins, StoreInitSwept, SurfacesInit, ImagesInit, CommandsInit
   DEF ApplicationInit, ApplicationInv

LEMMA ApplicationSteps ==
  ApplicationInv /\ [ApplicationNext]_ApplicationVars => ApplicationInv'
<1> SUFFICES ASSUME ApplicationInv, [ApplicationNext]_ApplicationVars PROVE ApplicationInv'
  OBVIOUS
<1>1. TrackingInv'
  BY OneStep, TrackingSteps DEF ApplicationInv
<1>2. HostInv'
  BY OneStep, HostSteps DEF ApplicationInv
<1>3. StoreInv' /\ StoreAllSwept'
  BY OneStep, StoreSteps, StoreNextSwept, ApplicationAssumption DEF ApplicationInv
<1>4. SurfacesInv' /\ ImagesSound'
  BY OneStep, SurfacesStep, ImagesStep DEF ApplicationInv
<1>5. CommandsInv'
  BY OneStep, CommandsStep DEF ApplicationInv
<1> QED BY <1>1, <1>2, <1>3, <1>4, <1>5 DEF ApplicationInv

LEMMA ApplicationInvariant == ApplicationSpec => []ApplicationInv
<1>1. ApplicationInv /\ [ApplicationNext]_<<part, tracking, hosting, storing, presenting,
                                            recording, interacting>> => ApplicationInv'
  BY ApplicationSteps DEF ApplicationVars
<1> QED BY <1>1, ApplicationBegins, PTL DEF ApplicationSpec

(* The watermark never names a submission the GPU has not finished; once every *)
(* callback has run and none has failed it names them all.                     *)
THEOREM WatermarkIsTruthful == ApplicationSpec => []WatermarkTruthful
<1>1. ApplicationInv => WatermarkTruthful
  BY TrackingIsTruthful DEF ApplicationInv
<1> QED BY <1>1, ApplicationInvariant, PTL

(* Callbacks that run late, in another order or on other threads never take the *)
(* watermark back.                                                              *)
THEOREM WatermarkNeverGoesBack == ApplicationSpec => WatermarkAdvances
<1>1. ApplicationInv /\ [ApplicationNext]_<<part, tracking, hosting, storing, presenting,
                                            recording, interacting>>
         => [completed' >= completed]_vars
  BY OneStep, TrackingAdvances DEF ApplicationInv, ApplicationVars
<1> QED BY <1>1, ApplicationInvariant, PTL DEF ApplicationSpec, WatermarkAdvances

(* Every event a guest emits is queued, published once or withdrawn with its   *)
(* failed activation, in the order of emission; what is reported as active     *)
(* runs, and between calls whatever runs is registered, however activations,   *)
(* drains, nested dispatches and failures follow each other.                   *)
THEOREM HostIsConsistent == ApplicationSpec => []HostConsistent
<1>1. ApplicationInv => HostConsistent
  BY HostSafe DEF ApplicationInv, HostConsistent
<1> QED BY <1>1, ApplicationInvariant, PTL

(* What a command left installed is in place, or the only backup of its        *)
(* extension, whole, whichever of the processes that install, replace and      *)
(* remove extensions die and whichever of their file operations fail.          *)
THEOREM InstalledIsRecoverable == ApplicationSpec => []Recoverable
<1>1. ApplicationInv => Recoverable
  BY StoreNothingIsLost, ApplicationAssumption DEF ApplicationInv, Recoverable
<1> QED BY <1>1, ApplicationInvariant, PTL

(* An install or a replacement that succeeds leaves no staging directory of    *)
(* its extension, neither its own nor one of a command that died before it.    *)
THEOREM InstallsLeaveNothingStaged == ApplicationSpec => SuccessLeavesNoStaging
<1> DEFINE Succeeds == \A c \in Clients :
          cmd[c] # Store!Idle /\ cmd'[c] # Store!Idle
             /\ cmd[c].step \in {"commit", "swap"} /\ installed'[cmd[c].id] = Store!Staged(cmd[c]).package
             /\ cmd'[c].step \in {"unlock", "drop"}
          => Store!Matching(staging', cmd[c].id) = {}
<1>1. ApplicationInv /\ [ApplicationNext]_<<part, tracking, hosting, storing, presenting,
                                            recording, interacting>> => [Succeeds]_(Store!vars)
  BY OneStep, StoreSuccessIsSwept, ApplicationAssumption DEF ApplicationInv, ApplicationVars
<1> QED BY <1>1, ApplicationInvariant, PTL DEF ApplicationSpec, SuccessLeavesNoStaging,
           Store!SuccessLeavesNoStaging

(* What a frame draws into and presents is held by its swapchain, unless Frame  *)
(* found the device lost in the middle of it: then none of its surfaces holds   *)
(* an image; every image is given back but those of frames refused for a stale  *)
(* scene; a handle reaches the surface it was given for or none, and a surface  *)
(* that is Ready has a swapchain; a swapchain is released only after the last   *)
(* frame drawn into it: whatever surfaces are created, resized, destroyed and   *)
(* recovered.                                                                   *)
THEOREM SurfacesAreFaithful == ApplicationSpec => []SurfacesFaithful
<1>1. ApplicationInv => SurfacesFaithful
  BY SurfacesSound DEF ApplicationInv, SurfacesFaithful
<1> QED BY <1>1, ApplicationInvariant, PTL

(* Each encoder's commands run in the order it recorded them and none twice,    *)
(* whatever is refused, fails or is lost; a ticket stands for commands that     *)
(* all ran before it was given, and no buffer is part of two.                   *)
THEOREM CommandsAreRunOnce == ApplicationSpec => []CommandsRunOnce
<1>1. ApplicationInv => CommandsRunOnce
  BY CommandsSound DEF ApplicationInv, CommandsRunOnce
<1> QED BY <1>1, ApplicationInvariant, PTL
=============================================================================
