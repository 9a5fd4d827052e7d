------------------------- MODULE MCCompletionQueue ------------------------
(* The completion queue, and futures on an executor that may be one: they    *)
(* share no state here, a behaviour is one of them, and the other stays as   *)
(* it begins.                                                                *)
(*                                                                           *)
(* The queue has two threads, its owner and another that submits, stops or   *)
(* drains by mistake; works nest one drain inside a published work.  Futures *)
(* have one worker and two callers; three of them are enough for a chain and *)
(* for two continuations of the same one, over an executor that can be full. *)
EXTENDS CompletionQueue

CONSTANTS main, other, w1, w2, w3, t1,
          FutureWorkers,   \* the threads of the executor of the futures
          FutureCapacity,  \* the bound of its queue
          MaxFutures

VARIABLES part,
    pending, running, returned, dropped, halted,
    made, parent, result, conts, frames, inline, job, ended, waiting, asleep, halter

chaining == <<pending, running, returned, dropped, halted, made, parent, result,
              conts, frames, inline, job, ended, waiting, asleep, halter>>

Future == INSTANCE TaskFuture WITH
    Workers <- FutureWorkers, Callers <- Threads, Capacity <- FutureCapacity,
    ran <- returned, disposed <- dropped, stopped <- halted, stopper <- halter

ASSUME FuturesAssumption == Future!FutureAssumption

QueueInit == part \in {"queue", "future"} /\ Init /\ Future!Init

QueueNext ==
    \/ part = "queue" /\ Next /\ UNCHANGED <<part, chaining>>
    \/ part = "future" /\ Future!Next /\ UNCHANGED <<part, vars>>

\* The fairness of each module, for the behaviours that are its own.
QueueSpec ==
    /\ QueueInit /\ [][QueueNext]_<<part, vars, chaining>>
    /\ \A t \in Threads : /\ WF_vars(part = "queue" /\ Step(t))
                         /\ SF_vars(part = "queue" /\ Return(t))
    /\ SF_vars(/\ part = "queue" /\ drains[main] = <<>>
               /\ \E n \in Limits \ {0} : Drain(main, n))
    /\ \A t \in FutureWorkers \cup Threads :
          /\ WF_chaining(part = "future" /\ Future!SetStep(t))
          /\ WF_chaining(part = "future" /\ Future!Dispose(t))
    /\ \A w \in FutureWorkers : WF_chaining(part = "future" /\ Future!WorkerStep(w))
    /\ \A c \in Threads : WF_chaining(part = "future" /\ Future!WaitCheck(c))

(* Neither a continuation nor a notification is lost or repeated, and a
   continuation is only run when its parent is set, however Then, Wait and Set
   interleave. *)
FuturesFaithful == part = "future" => Future!NothingLost /\ Future!ReadsSetResult

(* Every work that was accepted is published or disposed of, and every future
   that was made is set: what has settled stays so, and it is enough that again
   and again nothing is left.  Every Drain returns, and every Wait for a future. *)
Settled == IF part = "queue" THEN Range(accepted) \subseteq Range(started) \cup Range(disposed)
           ELSE \A f \in made : result[f] # "none"
Inside(t) == IF part = "queue" THEN drains[t] # <<>> ELSE waiting[t] # Future!NoFuture

EverythingSettles == []<>Settled /\ \A t \in Threads : []<>~Inside(t)
=============================================================================
