---------------------------- MODULE ReadbackService ----------------------------
(***************************************************************************)
(* Asynchronous readbacks: ReadbackService's tickets, the owner thread that *)
(* polls, appends and publishes them once a frame (PumpFacade), the GPU     *)
(* that reaches their submissions, and the map callbacks that come on a     *)
(* thread of the backend's.  modules/gfx/src/readback_service.cpp,          *)
(* runtime/facade_compute.cpp, runtime/recovery.cpp.                        *)
(*                                                                          *)
(* Submissions are kept as how far the GPU is behind them, as in            *)
(* RenderFrames.  A buffer that is destroyed while it is being mapped has   *)
(* its callback answered with an error, never with success.                 *)
(***************************************************************************)
EXTENDS Integers, FiniteSets

Functions == INSTANCE Functions

CONSTANTS
    Tickets,       \* tickets the callers can hold at once
    MaxQueued,     \* maximum_queued
    MaxInFlight,   \* bound: submissions the GPU has not finished
    MaxLosses      \* bound: losses of the device

VARIABLES
    entries,    \* entries: ticket -> state, submission, release_requested, staging
    active,     \* active: the entries in the graph of this frame
    mapping,    \* entries whose map callback is still to come
    inFlight,   \* submissions the GPU has not finished
    at, visit,  \* where PumpFacade is; the entries Poll has still to visit
    losses,
    copied      \* the entries whose copy the GPU has made

vars == <<entries, active, mapping, inFlight, at, visit, losses, copied>>

Queued == [state |-> "Queued", submission |-> 0, released |-> FALSE, staging |-> FALSE]

Init ==
    /\ entries = << >>
    /\ active = {} /\ mapping = {} /\ copied = {}
    /\ inFlight = 0
    /\ at = "idle" /\ visit = {}
    /\ losses = 0

In(states) == {t \in DOMAIN entries : entries[t].state \in states}
With(ticket, state) == [entries EXCEPT ![ticket].state = state]

------------------------------------------------------------------------------
(* The callers, between the frames *)

Room == Cardinality(DOMAIN entries) < MaxQueued

(* A ticket is never used twice: its value is free again when nothing knows   *)
(* the old one.                                                               *)
Request(t) ==
    /\ at = "idle" /\ t \notin DOMAIN entries \cup mapping
    /\ Room
    /\ entries' = [u \in DOMAIN entries \cup {t} |-> IF u = t THEN Queued ELSE entries[u]]
    /\ copied' = copied \ {t}
    /\ UNCHANGED <<active, mapping, inFlight, at, visit, losses>>

InUse == {"Submitted", "Mapping"}

(* What the GPU or a map still uses is only marked; Poll erases it later.     *)
Release(t) ==
    /\ at = "idle" /\ t \in DOMAIN entries
    /\ entries' = IF entries[t].state \in InUse
                  THEN [entries EXCEPT ![t].released = TRUE, ![t].state = "Consumed"]
                  ELSE Functions!Restrict(entries, DOMAIN entries \ {t})
    /\ UNCHANGED <<active, mapping, inFlight, at, visit, losses, copied>>

Cancel(t) ==
    /\ at = "idle" /\ t \in In({"Queued", "Failed", "Cancelled", "DeviceLost"})
    /\ entries' = With(t, "Cancelled")
    /\ UNCHANGED <<active, mapping, inFlight, at, visit, losses, copied>>

------------------------------------------------------------------------------
(* The owner thread: PumpFacade *)

BeginPoll ==
    /\ at = "idle"
    /\ at' = "poll" /\ visit' = DOMAIN entries
    /\ UNCHANGED <<entries, active, mapping, inFlight, losses, copied>>

(* Variants of definitions below, each with one plausible mistake. *)
AlwaysReached(t) == TRUE
ReachedLate(t) == entries[t].submission < 0

Reached(t) == entries[t].submission = 0

GivenUp(t) == entries[t].released /\ entries[t].state = "Consumed"

(* Poll takes the lock of one entry after the other; a callback may come in   *)
(* between.                                                                   *)
Poll(t) ==
    /\ at = "poll" /\ t \in visit
    /\ visit' = visit \ {t}
    /\ \/ /\ GivenUp(t) /\ Reached(t)
          /\ entries' = [entries EXCEPT ![t].staging = FALSE]
          /\ UNCHANGED mapping
       \/ /\ entries[t].state = "Submitted" /\ Reached(t)
          /\ entries' = With(t, "Mapping")
          /\ mapping' = mapping \cup {t}
       \/ /\ ~Reached(t) \/ ~(GivenUp(t) \/ entries[t].state = "Submitted")
          /\ UNCHANGED <<entries, mapping>>
    /\ UNCHANGED <<active, inFlight, at, losses, copied>>

Erasable(t) == GivenUp(t) /\ ~entries[t].staging

Erase ==
    /\ at = "poll" /\ visit = {}
    /\ entries' = Functions!Restrict(entries, {t \in DOMAIN entries : ~Erasable(t)})
    /\ at' = "append"
    /\ UNCHANGED <<active, mapping, inFlight, visit, losses, copied>>

(* Each queued entry whose source resolves gets a staging buffer and a pass.  *)
Append ==
    /\ at = "append"
    /\ \E resolved \in SUBSET In({"Queued"}) :
          /\ active' = resolved
          /\ entries' = [t \in DOMAIN entries |->
                            IF t \in resolved THEN [entries[t] EXCEPT !.staging = TRUE]
                            ELSE IF t \in In({"Queued"}) THEN [entries[t] EXCEPT !.state = "Failed"]
                            ELSE entries[t]]
          /\ at' = IF resolved = {} THEN "idle" ELSE "execute"
    /\ UNCHANGED <<mapping, inFlight, visit, losses, copied>>

Publish ==
    /\ at = "execute" /\ inFlight < MaxInFlight
    /\ inFlight' = inFlight + 1
    /\ entries' = [t \in DOMAIN entries |->
                    IF t \in active
                    THEN [entries[t] EXCEPT !.state = "Submitted", !.submission = inFlight']
                    ELSE entries[t]]
    /\ active' = {} /\ at' = "idle"
    /\ UNCHANGED <<mapping, visit, losses, copied>>

(* Compiling, binding or executing the graph fails.                           *)
FailActive ==
    /\ at = "execute"
    /\ entries' = [t \in DOMAIN entries |->
                    IF t \in active THEN [entries[t] EXCEPT !.state = "Failed"] ELSE entries[t]]
    /\ active' = {} /\ at' = "idle"
    /\ UNCHANGED <<mapping, inFlight, visit, losses, copied>>

LostWithDevice == {"Queued", "Submitted", "Mapping"}

(* MarkDeviceLost, then a replacement whose queue starts anew: an old ticket  *)
(* is at any distance from it.                                                *)
ReplaceDevice ==
    /\ at = "idle" /\ losses < MaxLosses
    /\ losses' = losses + 1
    /\ \E behind \in 0 .. MaxInFlight :
          entries' = [t \in DOMAIN entries |->
                        [entries[t] EXCEPT
                            !.state = IF @ \in LostWithDevice THEN "DeviceLost" ELSE @,
                            !.submission = IF @ = 0 /\ entries[t].state = "Queued"
                                           THEN 0 ELSE behind]]
    /\ inFlight' = 0
    /\ UNCHANGED <<active, mapping, at, visit, copied>>

------------------------------------------------------------------------------
(* The backend *)

Sooner(distance) == IF distance > 0 THEN distance - 1 ELSE 0

Complete ==
    /\ inFlight > 0
    /\ inFlight' = inFlight - 1
    /\ entries' = [t \in DOMAIN entries |-> [entries[t] EXCEPT !.submission = Sooner(@)]]
    /\ copied' = copied \cup {t \in In({"Submitted"}) : entries[t].submission = 1}
    /\ UNCHANGED <<active, mapping, at, visit, losses>>

(* Variants of definitions below, each with one plausible mistake. *)
AlwaysReady(t) == "Ready"
OnlyUnknown(t) == t \notin DOMAIN entries

(* The callback leaves an entry alone that is gone or lost with its device.   *)
Ignored(t) == t \notin DOMAIN entries \/ entries[t].state = "DeviceLost"

(* A mapped buffer is read, or given up at once when nobody wants it.         *)
Mapped(t) == IF entries[t].released THEN "Consumed" ELSE "Ready"

MapSucceeds(t) ==
    /\ t \in mapping
    /\ t \in DOMAIN entries => entries[t].staging
    /\ mapping' = mapping \ {t}
    /\ entries' = IF Ignored(t) THEN entries
                  ELSE [entries EXCEPT ![t].state = Mapped(t), ![t].staging = FALSE]
    /\ UNCHANGED <<active, inFlight, at, visit, losses, copied>>

MapFails(t) ==
    /\ t \in mapping
    /\ mapping' = mapping \ {t}
    /\ entries' = IF Ignored(t) THEN entries
                  ELSE With(t, "Failed")
    /\ UNCHANGED <<active, inFlight, at, visit, losses, copied>>

PumpStep ==
    \/ BeginPoll \/ (\E t \in Tickets : Poll(t)) \/ Erase \/ Append
    \/ Publish \/ FailActive

Next ==
    \/ \E t \in Tickets : Request(t) \/ Release(t) \/ Cancel(t)
    \/ PumpStep
    \/ ReplaceDevice
    \/ Complete
    \/ \E t \in Tickets : MapSucceeds(t) \/ MapFails(t)

(* Frames go on, the GPU and the backend answer.                              *)
Fairness ==
    /\ WF_vars(PumpStep) /\ WF_vars(Complete)
    /\ \A t \in Tickets : WF_vars(MapSucceeds(t) \/ MapFails(t))

Spec == Init /\ [][Next]_vars
FairSpec == Spec /\ Fairness

------------------------------------------------------------------------------
States == {"Queued", "Submitted", "Mapping", "Ready", "Consumed", "Failed", "Cancelled",
           "DeviceLost"}

TypeOK ==
    /\ DOMAIN entries \subseteq Tickets
    /\ Cardinality(DOMAIN entries) <= MaxQueued
    /\ \A t \in DOMAIN entries :
          /\ entries[t].state \in States
          /\ entries[t].submission \in 0 .. MaxInFlight

(* A result is only what the GPU has copied: no readback is mapped before the *)
(* submission that fills it, of whichever device, has been reached.           *)
ReadyIsCopied == In({"Ready", "Mapping"}) \subseteq copied

(* A ticket its caller has released never comes back to life: neither a late  *)
(* callback nor a frame under way makes it submitted, ready or lost again.    *)
ReleasedIsOver ==
    \A t \in DOMAIN entries :
        entries[t].released => t \in In({"Consumed", "Failed", "Cancelled"})

(* An entry lost with its device stays lost until its caller takes it back,   *)
(* whatever the old device's callbacks say later.                             *)
LostStaysLost ==
    [][\A t \in In({"DeviceLost"}) \cap DOMAIN entries' :
          entries'[t].state \in {"DeviceLost", "Cancelled"}]_vars
================================================================================
