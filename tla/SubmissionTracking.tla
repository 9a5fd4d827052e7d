-------------------------- MODULE SubmissionTracking --------------------------
(***************************************************************************)
(* How the WebGPU queue knows what the GPU has finished: WgpuQueueImpl's    *)
(* Submit hands out an epoch under a mutex and registers a callback, and    *)
(* the callbacks raise the watermark with a compare-exchange, on any        *)
(* thread and in any order.  modules/rhi/backend/wgpu/wgpu_queue.cpp.       *)
(***************************************************************************)
EXTENDS Integers

CONSTANTS MaxEpochs   \* bound: submissions

ASSUME EpochsAssumption == MaxEpochs \in Nat

Epochs == 1 .. MaxEpochs

VARIABLES
    next,       \* the epoch of the next submission
    completed,  \* the watermark
    status,     \* SubmissionTracking
    finished,   \* the last epoch the GPU has finished
    callback,   \* per epoch: "none", "registered", "read", "done"
    loaded      \* what a callback has read of the watermark

vars == <<next, completed, status, finished, callback, loaded>>

Init ==
    /\ next = 1 /\ completed = 0 /\ status = "Healthy" /\ finished = 0
    /\ callback = [e \in Epochs |-> "none"]
    /\ loaded = [e \in Epochs |-> 0]

\* Variants of definitions below, each with one plausible mistake.
FailedRaises(e) ==
    /\ callback[e] = "registered"
    /\ callback' = [callback EXCEPT ![e] = "done"]
    /\ completed' = (IF completed < e THEN e ELSE completed)
    /\ status' = "CompletionCallbackFailed"
    /\ UNCHANGED <<next, finished, loaded>>
StoresAnyhow(e) ==
    /\ callback[e] = "read" /\ loaded[e] < e
    /\ completed' = e /\ callback' = [callback EXCEPT ![e] = "done"]
    /\ UNCHANGED <<next, status, finished, loaded>>
ExchangesOnce(e) ==
    /\ callback[e] = "read" /\ loaded[e] < e
    /\ completed' = (IF completed = loaded[e] THEN e ELSE completed)
    /\ callback' = [callback EXCEPT ![e] = "done"]
    /\ UNCHANGED <<next, status, finished, loaded>>
SubmitForgetsFailure(registers) ==
    /\ next \in Epochs
    /\ next' = next + 1
    /\ callback' = [callback EXCEPT ![next] = IF registers THEN "registered" ELSE "none"]
    /\ UNCHANGED <<completed, status, finished, loaded>>

(* Submit: the work goes to the GPU whether or not its callback registers.     *)
Submit(registers) ==
    /\ next \in Epochs
    /\ next' = next + 1
    /\ callback' = [callback EXCEPT ![next] = IF registers THEN "registered" ELSE "none"]
    /\ status' = IF registers THEN status ELSE "CompletionRegistrationFailed"
    /\ UNCHANGED <<completed, finished, loaded>>

(* The GPU finishes what was submitted in order.                               *)
Finish ==
    /\ finished + 1 < next
    /\ finished' = finished + 1
    /\ UNCHANGED <<next, completed, status, callback, loaded>>

(* SubmissionDoneThunk                                                         *)
CallbackFails(e) ==
    /\ callback[e] = "registered"
    /\ callback' = [callback EXCEPT ![e] = "done"]
    /\ status' = "CompletionCallbackFailed"
    /\ UNCHANGED <<next, completed, finished, loaded>>

Loads(e) ==
    /\ callback[e] = "registered" /\ e <= finished
    /\ loaded' = [loaded EXCEPT ![e] = completed]
    /\ callback' = [callback EXCEPT ![e] = "read"]
    /\ UNCHANGED <<next, completed, status, finished>>

(* A compare-exchange that fails has loaded the watermark anew.                *)
Exchanges(e) ==
    /\ callback[e] = "read" /\ loaded[e] < e
    /\ IF completed = loaded[e]
       THEN completed' = e /\ callback' = [callback EXCEPT ![e] = "done"] /\ UNCHANGED loaded
       ELSE loaded' = [loaded EXCEPT ![e] = completed] /\ UNCHANGED <<completed, callback>>
    /\ UNCHANGED <<next, status, finished>>

NothingToRaise(e) ==
    /\ callback[e] = "read" /\ loaded[e] >= e
    /\ callback' = [callback EXCEPT ![e] = "done"]
    /\ UNCHANGED <<next, completed, status, finished, loaded>>

CallbackRuns(e) == Loads(e) \/ Exchanges(e) \/ NothingToRaise(e)

Next ==
    \/ \E registers \in BOOLEAN : Submit(registers)
    \/ Finish
    \/ \E e \in Epochs : CallbackFails(e) \/ CallbackRuns(e)

Spec ==
    /\ Init /\ [][Next]_vars
    /\ WF_vars(Finish) /\ \A e \in Epochs : WF_vars(CallbackRuns(e))

------------------------------------------------------------------------------
Callbacks == {"none", "registered", "read", "done"}
Statuses == {"Healthy", "CompletionRegistrationFailed", "CompletionCallbackFailed"}

TypeOK ==
    /\ next \in 1 .. MaxEpochs + 1 /\ completed \in Nat /\ finished \in Nat
    /\ status \in Statuses
    /\ callback \in [Epochs -> Callbacks] /\ loaded \in [Epochs -> Nat]

(* The watermark never names what the GPU has not finished, and when no        *)
(* callback is left and tracking is healthy it names everything submitted.     *)
WatermarkTruthful ==
    /\ completed <= finished
    /\ (\A e \in 1 .. next - 1 : callback[e] = "done") /\ status = "Healthy" => completed = next - 1

(* Queue progress is monotonic.                                                *)
WatermarkAdvances == [][completed' >= completed]_vars

(* Every submission is reached, or tracking has failed: comes to hold.         *)
SubmissionsReached == completed = next - 1 \/ status # "Healthy"
================================================================================
