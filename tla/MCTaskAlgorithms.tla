------------------------- MODULE MCTaskAlgorithms -------------------------
(* ParallelFor and WhenAll, which share no state: a behaviour is a call of   *)
(* one of them, and the other stays as it begins.  ParallelFor has short     *)
(* ranges, chunks and worker limits whose arithmetic stays below SizeMax.    *)
(* WhenAll has three positions over two futures: every mix of valid,         *)
(* repeated and invalid ones.                                                *)
EXTENDS TaskParallelFor

CONSTANTS f1, f2, N, Futures, NoFuture, Caller

VARIABLES part, child, result, conts, todo, index, left, values, kept, claimed,
          holding, returned, joined

\* The counter passes the end once for each work, by one chunk.
Fitting ==
    {c \in [begin : 0..1, end : 1..4, chunk : 1..2, desired : 1..3] :
        c.end + c.chunk * (c.desired + 1) <= SizeMax
        /\ (c.desired = 3 => c.end <= 3)}

All == INSTANCE TaskWhenAll WITH remaining <- left, error <- kept, outcome <- joined

\* The counter of a loop stays below SizeMax when every work passes the end.
CallFits(c) == c.end + c.chunk * (WorkerCount(c) + 1) <= SizeMax + 1

ASSUME CallsFit == \A c \in Calls : CallFits(c)
ASSUME PositionsAssumption == All!WhenAllAssumption

looping == vars
joining == <<child, result, conts, todo, index, left, values, kept, claimed,
             holding, returned, joined>>

AlgorithmsInit ==
    /\ part \in {"loop", "all"}
    /\ Init /\ (part # "loop" => call = CHOOSE c \in Fitting : c.end = 4)
    /\ All!Init /\ (part # "all" => child = [s \in 1..N |-> NoFuture])

AlgorithmsNext ==
    \/ part = "loop" /\ Next /\ UNCHANGED <<part, joining>>
    \/ part = "all" /\ All!Next /\ UNCHANGED <<part, looping>>

\* The fairness of each module, for the behaviours that are its own.
AlgorithmsSpec ==
    /\ AlgorithmsInit /\ [][AlgorithmsNext]_<<part, looping, joining>>
    /\ WF_looping(part = "loop" /\ Submit)
    /\ WF_looping(part = "loop" /\ Start)
    /\ WF_looping(part = "loop" /\ Dispose)
    /\ \A w \in 1..3 : WF_looping(part = "loop" /\ w \in Works /\ Step(w))
    /\ WF_joining(part = "all" /\ (All!SkipInvalid \/ All!AttachChild \/ All!FinalLook))
    /\ \A a \in All!Actors : WF_joining(part = "all" /\ All!Run(a))

(* Each index is visited at most once, all of them if the loop succeeds, and
   the error of a loop is one that a work met. *)
LoopFaithful == TypeOK /\ CoversEachIndexOnce /\ ErrorReported

(* WhenAll completes once, and tells the truth about its futures. *)
CompletesTruthfully ==
    part = "all" => All!TypeOK /\ All!CompletionTruthful /\ All!ClaimedOnce

(* A loop ends, whatever is refused or disposed of; WhenAll's output is set as
   soon as every future is. *)
OutputsSettle ==
    []<>IF part = "loop" THEN outcome # "open"
        ELSE (\A s \in All!Slots : All!Settled(s)) => joined # All!Open
=============================================================================
