----------------------------- MODULE RenderFrames -----------------------------
(***************************************************************************)
(* RenderRuntime's frames on the owner thread, over a GPU queue that works  *)
(* behind it: FrameContextRing, the submissions of a frame, the loss of the *)
(* device and its recovery, and the shutdown that waits for the GPU.        *)
(* modules/gfx/src/epoch.cpp, runtime/frame.cpp, recovery.cpp,              *)
(* bootstrap.cpp.                                                           *)
(*                                                                          *)
(* A ticket is kept as how far the GPU is behind it: the number of          *)
(* submissions still to finish before it is reached, 0 once it is.  The     *)
(* code compares tickets with the completed epoch only.                     *)
(***************************************************************************)
EXTENDS Integers, FiniteSets

CONSTANTS
    FramesInFlight,  \* capacity of the ring
    MaxInFlight,     \* bound: submissions the GPU has not finished
    MaxAborts,       \* bound: frames given up between Acquire and their end
    MaxLosses        \* bound: losses of the device

VARIABLES
    contexts,   \* FrameContext: state and ticket
    cursor,     \* cursor_
    inFlight,   \* submissions of the device the GPU has not finished
    lost,       \* the device is lost
    recovery,   \* recovery_state
    at,         \* where the owner thread is in Frame or Shutdown
    current,    \* the context of this frame
    ticket,     \* frame_submission
    last,       \* last_submission
    viewed,     \* the ticket the graph executors' resources were last used with
    aborts, losses,
    work,       \* per context, the last submission made by the frame it was for
    cancelled   \* contexts of frames cancelled with submissions on the GPU

vars == <<contexts, cursor, inFlight, lost, recovery, at, current, ticket, last,
          viewed, aborts, losses, work, cancelled>>

Contexts == 0 .. FramesInFlight - 1
Invalid == -1
Max2(a, b) == IF a > b THEN a ELSE b
NewRing == [c \in Contexts |-> [state |-> "Available", ticket |-> Invalid]]

Init ==
    /\ contexts = NewRing /\ cursor = 0
    /\ inFlight = 0
    /\ lost = FALSE /\ recovery = "Ready"
    /\ at = "idle" /\ current = 0
    /\ ticket = Invalid /\ last = Invalid /\ viewed = Invalid
    /\ aborts = 0 /\ losses = 0
    /\ work = [c \in Contexts |-> 0] /\ cancelled = {}

(* Queue::Submit: the new ticket is behind everything in flight.             *)
Submits ==
    /\ inFlight < MaxInFlight
    /\ inFlight' = inFlight + 1

------------------------------------------------------------------------------
(* Frame *)

(* A lost device is noticed at the start of a frame; every service is built   *)
(* anew on the replacement, or the runtime has failed.  The ticket of the old *)
(* device is kept: what it means on the new one's queue is any distance.      *)
Recover ==
    /\ at = "idle" /\ lost /\ recovery = "Ready"
    /\ \/ /\ recovery' = "Ready" /\ lost' = FALSE
          /\ contexts' = NewRing /\ cursor' = 0
          /\ inFlight' = 0 /\ viewed' = Invalid
          /\ work' = [c \in Contexts |-> 0] /\ cancelled' = {}
          /\ IF last = Invalid THEN UNCHANGED last ELSE last' \in 1 .. MaxInFlight
          /\ aborts' = 0
       \/ /\ recovery' = "Failed"
          /\ UNCHANGED <<lost, contexts, cursor, inFlight, viewed, work, cancelled, last, aborts>>
    /\ UNCHANGED <<at, current, ticket, losses>>

(* The uploads are submitted before a context is acquired.                    *)
BeginFrame ==
    /\ at = "idle" /\ ~lost /\ recovery = "Ready"
    /\ \/ Submits /\ ticket' = inFlight'
       \/ ticket' = Invalid /\ UNCHANGED inFlight
    /\ at' = "acquire"
    /\ UNCHANGED <<contexts, cursor, lost, recovery, current, last, viewed, aborts, losses, work, cancelled>>

(* Variants of definitions below, each with one plausible mistake. *)
NeverReached(context) == FALSE

Reached(context) == context.ticket = 0

Usable(c) ==
    \/ contexts[c].state = "Available"
    \/ contexts[c].state = "Submitted" /\ Reached(contexts[c])

(* The first usable context from the cursor on.                               *)
Acquire ==
    /\ at = "acquire"
    /\ \E attempt \in 0 .. FramesInFlight - 1 :
          LET c == (cursor + attempt) % FramesInFlight
          IN  /\ Usable(c)
              /\ \A earlier \in 0 .. attempt - 1 : ~Usable((cursor + earlier) % FramesInFlight)
              /\ contexts' = [contexts EXCEPT ![c] = [state |-> "Recording", ticket |-> Invalid]]
              /\ cursor' = (c + 1) % FramesInFlight
              /\ current' = c
              /\ work' = [work EXCEPT ![c] = Max2(ticket, 0)]
              /\ cancelled' = cancelled \ {c}
    /\ at' = "record"
    /\ UNCHANGED <<inFlight, lost, recovery, ticket, last, viewed, aborts, losses>>

Refused ==
    /\ at = "acquire"
    /\ \A c \in Contexts : ~Usable(c)
    /\ at' = "idle"
    /\ UNCHANGED <<contexts, cursor, inFlight, lost, recovery, current, ticket, last, viewed,
                   aborts, losses, work, cancelled>>

(* Variants of definitions below, each with one plausible mistake. *)
StaysRecording == contexts

Cancelled == [contexts EXCEPT ![current] = [state |-> "Available", ticket |-> Invalid]]

(* The uploads failed and the policy requires them.                           *)
CancelUploads ==
    /\ at = "record" /\ ticket = Invalid
    /\ contexts' = Cancelled /\ at' = "idle"
    /\ UNCHANGED <<cursor, inFlight, lost, recovery, current, ticket, last, viewed,
                   aborts, losses, work, cancelled>>

(* GpuScene::Synchronize or UploadDirty fails, or a submission fails on the   *)
(* way there: the error is returned and the context left as it is.            *)
AbortViews ==
    /\ at = "record" /\ aborts < MaxAborts
    /\ aborts' = aborts + 1
    /\ at' = "idle"
    /\ UNCHANGED <<contexts, cursor, inFlight, lost, recovery, current, ticket, last, viewed,
                   losses, work, cancelled>>

(* The views and the canvas: each that can be drawn is a submission.          *)
DrawView ==
    /\ at = "record"
    /\ Submits
    /\ ticket' = inFlight' /\ viewed' = inFlight'
    /\ work' = [work EXCEPT ![current] = inFlight']
    /\ at' = "facade"
    /\ UNCHANGED <<contexts, cursor, lost, recovery, current, last, aborts, losses, cancelled>>

SkipViews ==
    /\ at = "record" /\ at' = "facade"
    /\ UNCHANGED <<contexts, cursor, inFlight, lost, recovery, current, ticket, last, viewed,
                   aborts, losses, work, cancelled>>

(* Variants of definitions below, each with one plausible mistake. *)
ViewsOnly == IF ticket = Invalid THEN inFlight' ELSE ticket

FacadeTicket == inFlight'

(* PumpFacade: compute work and readbacks, a submission of their own.         *)
PumpFacade ==
    /\ at = "facade"
    /\ \/ /\ Submits /\ ticket' = FacadeTicket
          /\ work' = [work EXCEPT ![current] = inFlight']
       \/ UNCHANGED <<inFlight, ticket, work>>
    /\ at' = "end"
    /\ UNCHANGED <<contexts, cursor, lost, recovery, current, last, viewed, aborts, losses, cancelled>>

(* The context is cancelled even if views of the frame were submitted.        *)
FacadeFails ==
    /\ at = "facade"
    /\ contexts' = Cancelled /\ at' = "idle"
    /\ cancelled' = IF work[current] > 0 THEN cancelled \cup {current} ELSE cancelled
    /\ UNCHANGED <<cursor, inFlight, lost, recovery, current, ticket, last, viewed,
                   aborts, losses, work>>

HasSubmitted == ticket # Invalid

EndFrame ==
    /\ at = "end"
    /\ IF ~HasSubmitted
       THEN contexts' = Cancelled /\ UNCHANGED last
       ELSE /\ contexts' = [contexts EXCEPT ![current] =
                                [state |-> "Submitted", ticket |-> ticket]]
            /\ last' = ticket
    /\ at' = "idle"
    /\ UNCHANGED <<cursor, inFlight, lost, recovery, current, ticket, viewed, aborts, losses, work, cancelled>>

------------------------------------------------------------------------------
(* Shutdown *)

BeginShutdown ==
    /\ at = "idle"
    /\ at' = IF recovery = "Ready" THEN "drain" ELSE "down"
    /\ UNCHANGED <<contexts, cursor, inFlight, lost, recovery, current, ticket, last, viewed,
                   aborts, losses, work, cancelled>>

(* It waits for last_submission; what the executors retired must be reached.  *)
Drain ==
    /\ at = "drain" /\ last <= 0
    /\ at' = IF viewed > 0 THEN "refused" ELSE "down"
    /\ UNCHANGED <<contexts, cursor, inFlight, lost, recovery, current, ticket, last, viewed,
                   aborts, losses, work, cancelled>>

------------------------------------------------------------------------------
(* The GPU *)

Sooner(distance) == IF distance > 0 THEN distance - 1 ELSE distance

Complete ==
    /\ inFlight > 0 /\ ~lost
    /\ inFlight' = inFlight - 1
    /\ contexts' = [c \in Contexts |-> [contexts[c] EXCEPT !.ticket = Sooner(@)]]
    /\ ticket' = Sooner(ticket) /\ last' = Sooner(last) /\ viewed' = Sooner(viewed)
    /\ work' = [c \in Contexts |-> Sooner(work[c])]
    /\ cancelled' = {c \in cancelled : work'[c] > 0}
    /\ UNCHANGED <<cursor, lost, recovery, at, current, aborts, losses>>

LoseDevice ==
    /\ ~lost /\ losses < MaxLosses
    /\ lost' = TRUE /\ losses' = losses + 1
    /\ UNCHANGED <<contexts, cursor, inFlight, recovery, at, current, ticket, last, viewed,
                   aborts, work, cancelled>>

FrameStep ==
    \/ Recover \/ BeginFrame \/ Acquire \/ Refused
    \/ CancelUploads \/ AbortViews \/ DrawView \/ SkipViews
    \/ PumpFacade \/ FacadeFails \/ EndFrame

Next == FrameStep \/ BeginShutdown \/ Drain \/ Complete \/ LoseDevice

(* The application goes on calling Frame and the GPU goes on working.         *)
Fairness == WF_vars(FrameStep) /\ WF_vars(Drain) /\ WF_vars(Complete)

Spec == Init /\ [][Next]_vars
FairSpec == Spec /\ Fairness

------------------------------------------------------------------------------
TypeOK ==
    /\ \A c \in Contexts :
          /\ contexts[c].state \in {"Available", "Recording", "Submitted"}
          /\ contexts[c].ticket \in Invalid .. MaxInFlight
          /\ contexts[c].state = "Submitted" <=> contexts[c].ticket # Invalid
    /\ ticket \in Invalid .. MaxInFlight
    /\ last \in Invalid .. MaxInFlight
    /\ recovery \in {"Ready", "Failed"}

(* A context is begun again only when everything the frame it was for has     *)
(* submitted, uploads, views, canvas and readbacks, has left the GPU, unless  *)
(* that frame was cancelled because its compute work or readbacks failed.     *)
NoReuseInFlight ==
    [][\A c \in Contexts :
        contexts[c].state # "Recording" /\ contexts'[c].state = "Recording"
            => work[c] = 0 \/ c \in cancelled]_vars

(* Between frames no context is left recording but those of the frames that   *)
(* were given up half-way: every other way out of a frame gives it back.      *)
ContextsReturned ==
    Cardinality({c \in Contexts : contexts[c].state = "Recording"})
        <= aborts + (IF at \in {"record", "facade", "end"} THEN 1 ELSE 0)
===============================================================================
