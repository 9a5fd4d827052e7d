---------------------------- MODULE AssetManager ---------------------------
(* The asset manager: a request for an asset becomes a load that runs on an   *)
(* I/O lane, is validated on the scheduler and published by the owner thread *)
(* when it pumps the publication queue; later requests join the load that is *)
(* in flight.  Request takes the mutex in several separate sections, and the *)
(* lanes, other callers and the pump get in between.                         *)
(*                                                                           *)
(* Futures and executors are taken at what TaskFuture and ExecutorSpec       *)
(* promise: a continuation is submitted once, when its future is set, and an *)
(* executor accepts a work or refuses it.  Lanes and scheduler are shared    *)
(* with other assets, so they may be full at any time.                       *)
EXTENDS Integers, Sequences, FiniteSets, Functions

CONSTANTS Assets,
          Requests,      \* calls of Request; each one stands for its load as well
          Threads,       \* that call the manager
          Owner,         \* the one of them that pumps the publications
          Sizes,         \* of the products that are loaded or published
          MaxBytes,      \* max_decoded_bytes
          MaxWaiters,    \* max_waiters_per_asset
          MaxPrefetch,   \* max_prefetch_requests
          Refusing,      \* the executors that can be full: "lane", "publications"
          Batches,       \* the assets that PublishAtomic is called with
          MaxSource,     \* bound on the changes of an asset's source
          None

ASSUME ManagerAssumption ==
    /\ Owner \in Threads
    /\ Sizes \subseteq Nat
    /\ MaxBytes \in Nat /\ MaxWaiters \in Nat /\ MaxPrefetch \in Nat
    /\ MaxSource \in Nat
    /\ Refusing \subseteq {"lane", "publications"}
    /\ IsFiniteSet(Assets)
    /\ Batches \subseteq Seq(Assets)
    /\ \A b \in Batches : \A j, k \in DOMAIN b : b[j] = b[k] => j = k
    /\ None \notin Requests /\ None \notin Assets

VARIABLES
    known,      \* the keys of records
    rec,        \* records; one whose key is not known is fresh
    resident,   \* resident_bytes
    prefetches, \* prefetch_requests
    source,     \* per asset, the changes of its source so far
    call,       \* per request, what it asked for and what it read at its start
    at,         \* where its caller is
    stage,      \* where its load is
    result,     \* what its load came to
    read,       \* what its load read, and as what it was published
    joined,     \* the load whose published future it waits for
    attached,   \* per load, the requests waiting for it, oldest first
    lease,      \* per request, the generation it holds
    answer,     \* what its future was set to
    calling,    \* per thread, the request it is making
    cancelled,  \* requests whose own token was cancelled
    revoked,    \* loads whose operation token was cancelled
    queue,      \* publications
    setting     \* the load whose published future the pump is about to set

recordVars == <<known, rec, resident, prefetches, source>>
loadVars   == <<stage, result, read, revoked>>
futureVars == <<joined, attached, lease, answer>>
pumpVars   == <<queue, setting>>
vars == <<known, rec, resident, prefetches, source, call, at, stage, result, read,
          joined, attached, lease, answer, calling, cancelled, revoked, queue, setting>>

-----------------------------------------------------------------------------
\* A generation: its number, how much of the source it has seen, its size.
Generations  == [number : Nat, stamp : 0..MaxSource, size : Nat]
NoGeneration == [number |-> 0, stamp |-> 0, size |-> 0]

FreshRecord == [state |-> "Unloaded", revision |-> 0, generation |-> 0,
                current |-> NoGeneration, in_flight |-> None, load |-> None,
                waiters |-> {}, prefetch |-> FALSE]

Init ==
    /\ known = {}
    /\ rec = [a \in Assets |-> FreshRecord]
    /\ resident = 0 /\ prefetches = 0
    /\ source = [a \in Assets |-> 0]
    /\ call = [r \in Requests |->
                  [asset |-> None, prefetch |-> FALSE, revision |-> 0, born |-> 0]]
    /\ at = [r \in Requests |-> "new"]
    /\ stage = [r \in Requests |-> "none"]
    /\ result = [r \in Requests |-> "none"]
    /\ read = [r \in Requests |-> NoGeneration]
    /\ joined = [r \in Requests |-> None]
    /\ attached = [r \in Requests |-> <<>>]
    /\ lease = [r \in Requests |-> NoGeneration]
    /\ answer = [r \in Requests |-> "none"]
    /\ calling = [t \in Threads |-> None]
    /\ cancelled = {} /\ revoked = {}
    /\ queue = <<>>
    /\ setting = None

\* The sum of f over the assets, taken in some order.
Order == CHOOSE o \in Bijection(1..Cardinality(Assets), Assets) : TRUE
Total(f) ==
    LET sum[k \in 0..Cardinality(Assets)] ==
            IF k = 0 THEN 0 ELSE sum[k - 1] + f[Order[k]]
    IN  sum[Cardinality(Assets)]

Idle(t) == calling[t] = None /\ (t = Owner => setting = None)
Resident(a) == rec[a].current.number # 0

\* What the publications take of the works rs: all, or any part when they can
\* be full.
Accepted(rs) == IF "publications" \in Refusing THEN SUBSET Range(rs) ELSE {Range(rs)}

\* The answers to those of the requests rs that are taken, oldest first.
Answers(rs, taken) ==
    LET answers[k \in 0..Len(rs)] ==
            IF k = 0 THEN <<>>
            ELSE IF rs[k] \in taken
                 THEN Append(answers[k - 1], [kind |-> "answer", of |-> rs[k]])
                 ELSE answers[k - 1]
    IN  answers[Len(rs)]

\* The continuations of a published future: the answers to the requests rs are
\* submitted to the publications, those refused are settled with QueueFull.
SubmitAnswers(rs) ==
    \E taken \in Accepted(rs) :
        /\ queue' = queue \o Answers(rs, taken)
        /\ answer' = [r \in Requests |->
                IF r \in Range(rs) \ taken THEN "failed" ELSE answer[r]]

-----------------------------------------------------------------------------
\* Variants of definitions below, each with one plausible mistake.
SlotAlwaysReturned(a) == prefetches - 1              \* whether or not it was taken
LoadingOnly(a, r) == [rec[a] EXCEPT !.state = "Loading"]     \* in_flight is not set
StaleIfErased(r) == call[r].asset \notin known       \* the revision is not compared
BytesAdded(r) == resident + read[r].size             \* what is replaced still counts
KeepPrefetch(a) == [rec[a] EXCEPT !.in_flight = None, !.waiters = {}]
FailureUnrecorded(a) ==                              \* the state is left as it was
    [rec[a] EXCEPT !.in_flight = None, !.waiters = {}, !.prefetch = FALSE]
FirstWaiter(l) == SubSeq(attached[l], 1, 1)          \* one waiter is answered
RevisionOnly(a) ==                                   \* the record still says Ready
    [rec[a] EXCEPT !.revision = @ + 1, !.in_flight = None]

\* The prefetch slots left when the record of a gives up its own.
SlotsAfter(a) == IF rec[a].prefetch THEN prefetches - 1 ELSE prefetches

\* The record once r is the load in flight, and once it is over: in any way,
\* without a product, by an invalidation.
Registered(a, r) == [rec[a] EXCEPT !.state = "Loading", !.in_flight = r]
Published(a) == [rec[a] EXCEPT !.in_flight = None, !.waiters = {}, !.prefetch = FALSE]
FailedRecord(a) == [Published(a) EXCEPT !.state = "Failed"]
Invalidated(a) ==
    [rec[a] EXCEPT !.revision = @ + 1, !.in_flight = None, !.state = "Unloaded"]

\* A publication that comes too late.
Stale(r) ==
    LET a == call[r].asset
    IN  a \notin known \/ rec[a].revision # call[r].revision

\* The resident bytes once the product of r replaces the current generation.
Bytes(r) == resident - rec[call[r].asset].current.size + read[r].size

\* The continuations of the published future of l.
Continuations(l) == attached[l]

-----------------------------------------------------------------------------
\* Request, first section: what every outcome of it reads and writes.
Begin(t, r, a, p) ==
    /\ Idle(t) /\ at[r] = "new"
    /\ known' = known \cup {a}
    /\ call' = [call EXCEPT ![r] = [asset |-> a, prefetch |-> p,
                                    revision |-> rec[a].revision, born |-> source[a]]]
    /\ UNCHANGED <<resident, source, cancelled, setting, loadVars>>

Refused(t, r, a, p) ==
    /\ Begin(t, r, a, p)
    /\ \/ rec[a].in_flight # None /\ Cardinality(rec[a].waiters) >= MaxWaiters
       \/ /\ rec[a].in_flight = None /\ ~(Resident(a) /\ rec[a].state = "Ready")
          /\ p /\ prefetches >= MaxPrefetch
    /\ at' = [at EXCEPT ![r] = "returned"]
    /\ answer' = [answer EXCEPT ![r] = "failed"]
    /\ UNCHANGED <<rec, prefetches, joined, attached, lease, calling, queue>>

\* The request waits for the load in flight; Then runs inline if it is set.
Join(t, r, a, p) ==
    LET l == rec[a].in_flight IN
    /\ Begin(t, r, a, p)
    /\ l # None
    /\ Cardinality(rec[a].waiters) < MaxWaiters
    /\ rec' = [rec EXCEPT ![a].waiters = @ \cup {r}]
    /\ joined' = [joined EXCEPT ![r] = l]
    /\ IF stage[l] = "settled"
       THEN /\ SubmitAnswers(<<r>>)
            /\ lease' = [lease EXCEPT ![r] = read[l]]
            /\ UNCHANGED attached
       ELSE /\ attached' = [attached EXCEPT ![l] = Append(@, r)]
            /\ UNCHANGED <<lease, answer, queue>>
    /\ at' = [at EXCEPT ![r] = "returned"]
    /\ UNCHANGED <<prefetches, calling>>

UseResident(t, r, a, p) ==
    /\ Begin(t, r, a, p)
    /\ rec[a].in_flight = None
    /\ Resident(a) /\ rec[a].state = "Ready"
    /\ SubmitAnswers(<<r>>)
    /\ lease' = [lease EXCEPT ![r] = rec[a].current]
    /\ at' = [at EXCEPT ![r] = "returned"]
    /\ UNCHANGED <<rec, prefetches, joined, attached, calling>>

StartRequest(t, r, a, p) ==
    /\ Begin(t, r, a, p)
    /\ rec[a].in_flight = None
    /\ ~(Resident(a) /\ rec[a].state = "Ready")
    /\ p => prefetches < MaxPrefetch
    /\ rec' = [rec EXCEPT ![a].state = "Queued", ![a].load = r,
                          ![a].waiters = {r}, ![a].prefetch = p]
    /\ prefetches' = IF p THEN prefetches + 1 ELSE prefetches
    /\ at' = [at EXCEPT ![r] = "schedule"]
    /\ calling' = [calling EXCEPT ![t] = r]
    /\ UNCHANGED <<queue, futureVars>>

\* The load is submitted to its lane, with the validation and the publication
\* that follow it; or the lane refuses it.
ScheduleLoad(t, r) ==
    /\ calling[t] = r /\ at[r] = "schedule"
    /\ \/ /\ stage' = [stage EXCEPT ![r] = "lane"]
          /\ at' = [at EXCEPT ![r] = "register"]
       \/ /\ "lane" \in Refusing
          /\ at' = [at EXCEPT ![r] = "refused"]
          /\ UNCHANGED stage
    /\ UNCHANGED <<recordVars, futureVars, pumpVars, call, result, read, revoked,
                   calling, cancelled>>

\* The section that takes a refused load back.
RecordRefusal(t, r) ==
    LET a == call[r].asset IN
    /\ calling[t] = r /\ at[r] = "refused"
    /\ known' = known \cup {a}
    /\ prefetches' = SlotsAfter(a)
    /\ rec' = [rec EXCEPT ![a].prefetch = FALSE, ![a].state = "Failed"]
    /\ answer' = [answer EXCEPT ![r] = "failed"]
    /\ at' = [at EXCEPT ![r] = "returned"]
    /\ calling' = [calling EXCEPT ![t] = None]
    /\ UNCHANGED <<loadVars, pumpVars, resident, source, call, joined, attached,
                   lease, cancelled>>

\* The last section, and the waiter that is attached after it.
Register(t, r) ==
    LET a == call[r].asset IN
    /\ calling[t] = r /\ at[r] = "register"
    /\ known' = known \cup {a}
    /\ IF rec[a].revision # call[r].revision
       THEN /\ answer' = [answer EXCEPT ![r] = "cancelled"]
            /\ UNCHANGED <<rec, joined, attached, lease, queue>>
       ELSE /\ rec' = [rec EXCEPT ![a] = Registered(a, r)]
            /\ joined' = [joined EXCEPT ![r] = r]
            /\ IF stage[r] = "settled"
               THEN /\ SubmitAnswers(<<r>>)
                    /\ lease' = [lease EXCEPT ![r] = read[r]]
                    /\ UNCHANGED attached
               ELSE /\ attached' = [attached EXCEPT ![r] = Append(@, r)]
                    /\ UNCHANGED <<lease, answer, queue>>
    /\ at' = [at EXCEPT ![r] = "returned"]
    /\ calling' = [calling EXCEPT ![t] = None]
    /\ UNCHANGED <<loadVars, resident, prefetches, source, call, cancelled, setting>>

-----------------------------------------------------------------------------
\* The lane looks at the tokens before it calls the loader.
StartLoad(r) ==
    LET a == call[r].asset
        unwanted == \/ a \notin known
                    \/ ~rec[a].prefetch /\ rec[a].waiters \subseteq cancelled
    IN  /\ stage[r] = "lane"
        /\ IF r \in revoked \/ unwanted
           THEN /\ stage' = [stage EXCEPT ![r] = "loaded"]
                /\ result' = [result EXCEPT ![r] = "cancelled"]
                /\ revoked' = IF r \in revoked \/ a \notin known THEN revoked
                              ELSE revoked \cup ({rec[a].load} \ {None})
                /\ UNCHANGED read
           ELSE /\ stage' = [stage EXCEPT ![r] = "loading"]
                /\ read' = [read EXCEPT ![r].stamp = source[a]]
                /\ UNCHANGED <<result, revoked>>
        /\ UNCHANGED <<recordVars, futureVars, pumpVars, call, at, calling, cancelled>>

\* The loader returns and the scheduler validates: a product of some size, or
\* an error of either, which is the loader's own when its token was cancelled.
EndLoad(r) ==
    /\ stage[r] = "loading"
    /\ stage' = [stage EXCEPT ![r] = "loaded"]
    /\ \/ \E n \in {s \in Sizes : s <= MaxBytes} :
              /\ result' = [result EXCEPT ![r] = "ok"]
              /\ read' = [read EXCEPT ![r].size = n]
       \/ /\ \E e \in {"failed"} \cup (IF r \in revoked THEN {"cancelled"} ELSE {}) :
                 result' = [result EXCEPT ![r] = e]
          /\ UNCHANGED read
    /\ UNCHANGED <<recordVars, futureVars, pumpVars, call, at, calling, cancelled, revoked>>

\* The publication is submitted; refused, it settles the future and never runs.
SubmitPublication(r) ==
    /\ stage[r] = "loaded"
    /\ \/ /\ queue' = Append(queue, [kind |-> "publish", of |-> r])
          /\ stage' = [stage EXCEPT ![r] = "queued"]
          /\ UNCHANGED <<result, attached, answer>>
       \/ /\ "publications" \in Refusing
          /\ stage' = [stage EXCEPT ![r] = "settled"]
          /\ result' = [result EXCEPT ![r] = "failed"]
          /\ attached' = [attached EXCEPT ![r] = <<>>]
          /\ SubmitAnswers(attached[r])
    /\ UNCHANGED <<recordVars, call, at, read, joined, lease, calling, cancelled,
                   revoked, setting>>

-----------------------------------------------------------------------------
Publish ==
    LET r == Head(queue).of
        a == call[r].asset
        generation == [read[r] EXCEPT !.number = rec[a].generation + 1]
    IN  /\ Idle(Owner) /\ queue # <<>> /\ Head(queue).kind = "publish"
        /\ queue' = Tail(queue)
        /\ setting' = r
        /\ IF Stale(r)
           THEN /\ result' = [result EXCEPT ![r] = "cancelled"]
                /\ UNCHANGED <<rec, prefetches, resident, read>>
           ELSE /\ prefetches' = SlotsAfter(a)
                /\ IF result[r] = "ok" /\ Bytes(r) <= MaxBytes
                   THEN /\ rec' = [rec EXCEPT ![a] =
                            [Published(a) EXCEPT !.generation = @ + 1,
                                !.current = generation, !.state = "Ready"]]
                        /\ resident' = Bytes(r)
                        /\ read' = [read EXCEPT ![r] = generation]
                        /\ UNCHANGED result
                   ELSE /\ rec' = [rec EXCEPT ![a] = FailedRecord(a)]
                        /\ result' = [result EXCEPT ![r] =
                                         IF @ = "ok" THEN "failed" ELSE @]
                        /\ UNCHANGED <<resident, read>>
        /\ UNCHANGED <<futureVars, known, source, call, at, stage, calling, cancelled, revoked>>

\* The pump sets the published future, whose waiters are submitted.
Settle ==
    /\ setting # None
    /\ stage' = [stage EXCEPT ![setting] = "settled"]
    /\ attached' = [attached EXCEPT ![setting] = <<>>]
    /\ SubmitAnswers(Continuations(setting))
    /\ lease' = [r \in Requests |->
          IF r \in Range(Continuations(setting)) THEN read[setting] ELSE lease[r]]
    /\ setting' = None
    /\ UNCHANGED <<recordVars, call, at, result, read, joined, calling, cancelled, revoked>>

\* The pump answers a waiter, by its own token and the load it joined.
Answer ==
    LET r == Head(queue).of
    IN  /\ Idle(Owner) /\ queue # <<>> /\ Head(queue).kind = "answer"
        /\ queue' = Tail(queue)
        /\ answer' = [answer EXCEPT ![r] =
               IF r \in cancelled THEN "cancelled"
               ELSE IF joined[r] = None THEN "ok" ELSE result[joined[r]]]
        /\ UNCHANGED <<recordVars, loadVars, call, at, joined, attached, lease,
                       calling, cancelled, setting>>

-----------------------------------------------------------------------------
Cancel(r) ==
    /\ at[r] # "new" /\ answer[r] = "none" /\ r \notin cancelled
    /\ cancelled' = cancelled \cup {r}
    /\ UNCHANGED <<recordVars, loadVars, futureVars, pumpVars, call, at, calling>>

\* A request's future and lease are let go.
Drop(r) ==
    /\ answer[r] # "none" /\ lease[r] # NoGeneration
    /\ lease' = [lease EXCEPT ![r] = NoGeneration]
    /\ UNCHANGED <<recordVars, loadVars, pumpVars, call, at, joined, attached,
                   answer, calling, cancelled>>

\* The source changed, and the manager is told.
Invalidate(t, a) ==
    /\ Idle(t)
    /\ source[a] < MaxSource
    /\ source' = [source EXCEPT ![a] = @ + 1]
    /\ known' = known \cup {a}
    /\ rec' = [rec EXCEPT ![a] = Invalidated(a)]
    /\ revoked' = revoked \cup ({rec[a].load} \ {None})
    /\ UNCHANGED <<futureVars, pumpVars, resident, prefetches, call, at, stage,
                   result, read, calling, cancelled>>

\* use_count() > 1: a request holds the generation, or a published future does.
Leased(a) ==
    \E r \in Requests :
        /\ call[r].asset = a
        /\ \/ lease[r] = rec[a].current
           \/ read[r] = rec[a].current /\ (setting = r \/ rec[a].in_flight = r)

ReleaseUnused(t) ==
    LET idle == {a \in known : Resident(a) /\ ~Leased(a) /\ rec[a].in_flight = None}
        released == [a \in Assets |->
            IF a \in idle THEN [rec[a] EXCEPT !.current = NoGeneration, !.state = "Unloaded"]
            ELSE rec[a]]
        erased == {a \in known : released[a].current = NoGeneration
                                 /\ rec[a].in_flight = None /\ rec[a].revision = 0}
    IN  /\ Idle(t)
        /\ idle # {} \/ erased # {}
        /\ rec' = [a \in Assets |-> IF a \in erased THEN FreshRecord ELSE released[a]]
        /\ known' = known \ erased
        /\ resident' = resident -
              Total([a \in Assets |-> IF a \in idle THEN rec[a].current.size ELSE 0])
        /\ UNCHANGED <<loadVars, futureVars, pumpVars, prefetches, source, call, at,
                       calling, cancelled>>

\* PublishAtomic: products that did not come from a load replace the current
\* generations of a batch of assets, all or none, within the budget.
PublishAtomic(t, batch, size) ==
    LET admitted[k \in 0..Len(batch)] ==
            IF k = 0 THEN resident
            ELSE admitted[k - 1] - rec[batch[k]].current.size + size[k]
    IN  /\ Idle(t)
        /\ \A a \in Range(batch) : source[a] < MaxSource
        /\ \A k \in DOMAIN batch : admitted[k] <= MaxBytes
        /\ source' = [a \in Assets |->
                         IF a \in Range(batch) THEN source[a] + 1 ELSE source[a]]
        /\ known' = known \cup Range(batch)
        /\ revoked' = revoked \cup ({rec[a].load : a \in Range(batch)} \ {None})
        /\ prefetches' = prefetches - Cardinality({a \in Range(batch) : rec[a].prefetch})
        /\ rec' = [a \in Assets |->
             IF a \notin Range(batch) THEN rec[a]
             ELSE [rec[a] EXCEPT !.in_flight = None, !.prefetch = FALSE,
                      !.generation = @ + 1, !.state = "Ready",
                      !.current = [number |-> rec[a].generation + 1,
                                   stamp |-> source[a] + 1,
                                   size |-> size[CHOOSE k \in DOMAIN batch : batch[k] = a]]]]
        /\ resident' = admitted[Len(batch)]
        /\ UNCHANGED <<futureVars, pumpVars, call, at, stage, result, read,
                       calling, cancelled>>

-----------------------------------------------------------------------------
Calls(t) ==
    \/ \E r \in Requests, a \in Assets, p \in BOOLEAN :
           \/ Refused(t, r, a, p) \/ Join(t, r, a, p)
           \/ UseResident(t, r, a, p) \/ StartRequest(t, r, a, p)
    \/ \E a \in Assets : Invalidate(t, a)
    \/ ReleaseUnused(t)
    \/ \E b \in Batches : \E size \in [DOMAIN b -> Sizes] : PublishAtomic(t, b, size)

Goes(t)    == \E r \in Requests : ScheduleLoad(t, r) \/ RecordRefusal(t, r) \/ Register(t, r)
Loading(r) == StartLoad(r) \/ EndLoad(r) \/ SubmitPublication(r)
Pump       == Publish \/ Settle \/ Answer

Next ==
    \/ \E t \in Threads : Calls(t) \/ Goes(t)
    \/ \E r \in Requests : Loading(r) \/ Cancel(r) \/ Drop(r)
    \/ Pump

Spec == Init /\ [][Next]_vars

\* Callers, lanes and scheduler go on, loaders return, and the owner pumps as
\* long as there is something to pump.
FairSpec ==
    /\ Spec
    /\ \A t \in Threads : WF_vars(Goes(t))
    /\ \A r \in Requests : WF_vars(Loading(r))
    /\ SF_vars(Pump)

-----------------------------------------------------------------------------
States == {"Unloaded", "Queued", "Loading", "Ready", "Failed"}
Records == [state : States, revision : 0..MaxSource, generation : Nat,
            current : Generations, in_flight : Requests \cup {None},
            load : Requests \cup {None}, waiters : SUBSET Requests, prefetch : BOOLEAN]
Outcomes == {"none", "ok", "failed", "cancelled"}

TypeOK ==
    /\ known \in SUBSET Assets
    /\ rec \in [Assets -> Records]
    /\ \A a \in Assets \ known : rec[a] = FreshRecord
    /\ resident \in Nat /\ prefetches \in Nat
    /\ source \in [Assets -> 0..MaxSource]
    /\ call \in [Requests -> [asset : Assets \cup {None}, prefetch : BOOLEAN,
                              revision : 0..MaxSource, born : 0..MaxSource]]
    /\ at \in [Requests -> {"new", "schedule", "refused", "register", "returned"}]
    /\ stage \in [Requests -> {"none", "lane", "loading", "loaded", "queued", "settled"}]
    /\ result \in [Requests -> Outcomes] /\ answer \in [Requests -> Outcomes]
    /\ read \in [Requests -> Generations] /\ lease \in [Requests -> Generations]
    /\ joined \in [Requests -> Requests \cup {None}]
    /\ attached \in [Requests -> Seq(Requests)]
    /\ calling \in [Threads -> Requests \cup {None}]
    /\ cancelled \in SUBSET Requests /\ revoked \in SUBSET Requests
    /\ queue \in Seq([kind : {"publish", "answer"}, of : Requests])
    /\ setting \in Requests \cup {None}

\* resident_bytes is what the resident generations hold, and within the budget,
\* whichever of load, atomic publication and release changed them.
ResidentAccounted ==
    /\ resident = Total([a \in Assets |-> rec[a].current.size])
    /\ resident <= MaxBytes

\* prefetch_requests covers every record that is being prefetched, so it never
\* wraps below zero, and stays within its bound.
PrefetchesBounded ==
    /\ Cardinality({a \in Assets : rec[a].prefetch}) <= prefetches
    /\ prefetches <= MaxPrefetch

\* A request is never answered with a generation that is older than the last
\* change the manager had been told of when the request was made, although the
\* mutex is released between the sections of Request, the load and the publication.
NeverServesStale ==
    \A r \in Requests :
        answer[r] = "ok" /\ lease[r] # NoGeneration => lease[r].stamp >= call[r].born

\* A record that says Ready holds the content of its last change.
ReadyIsCurrent ==
    \A a \in Assets : rec[a].state = "Ready" =>
        Resident(a) /\ rec[a].current.stamp = source[a]

\* Requests for the same asset share one load.
LoadsCoalesce ==
    \A r, s \in Requests :
        /\ call[r].asset = call[s].asset
        /\ {stage[r], stage[s]} \subseteq {"lane", "loading"}
        /\ {r, s} \cap revoked = {}
        => r = s

\* Every accepted request is answered: comes to hold, whatever is requested.
RequestsAnswered == \A r \in Requests : at[r] # "new" => answer[r] # "none"

\* No record says Loading: comes to hold, when the loads are over.
LoadingEnded == \A a \in Assets : rec[a].state # "Loading"

=============================================================================
