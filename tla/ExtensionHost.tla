--------------------------- MODULE ExtensionHost ---------------------------
(* The extension manager: it activates packages, calls their guest code, and *)
(* publishes the events that guests emit.                                    *)
(*                                                                           *)
(* Everything runs on one thread, yet calls nest: at the end of most         *)
(* operations, and after each activation, the manager drains the queue of    *)
(* emitted events; the bus of Studio hands each of them back to the manager, *)
(* which calls the guests again, and these may fail or emit more.            *)
(* Packages are visited in any order.  The bus is set and never throws.      *)
EXTENDS Naturals, Sequences

CONSTANTS
    Ids,          \* the extensions
    Startup,      \* those with activation.startup,
    Ticking,      \* those with activation.tick,
    Listening,    \* those that request the events permission
    MaxQueued,    \* kMaxQueuedEvents
    MaxPerDrain,  \* kMaxEventsPerDrain
    None

HostAssumption ==
    /\ Startup \subseteq Ids /\ Ticking \subseteq Ids /\ Listening \subseteq Ids
    /\ MaxQueued \in Nat \ {0} /\ MaxPerDrain \in Nat \ {0}
    /\ None \notin Ids \cup {"plain", "events", "active", "failed"}

(* Two events are watched, the others are all alike. *)
Events == {"first", "second", "any"}
Watched == {"first", "second"}

VARIABLES
    registry,   \* the packages the last scan accepted
    sessions,   \* the running instances, with the grants they were given
    status,     \* ExtensionStatus of each extension, or None
    queue,      \* EventService::queue_
    seen,       \* history: the watched events emitted, published, withdrawn
    call,       \* the operation in progress
    nested      \* packages a published event is still to be dispatched to, or None

vars == <<registry, sessions, status, queue, seen, call, nested>>
guests == <<sessions, status, queue, seen>>

Grants == {"plain", "events"}
Idle == [op |-> "idle", todo |-> {}, cur |-> None, at |-> "end", next |-> "end", left |-> 0]
Ops == {"idle", "load", "loadall", "startup", "tick", "event", "named", "command",
        "unload", "unloadall", "scan", "setroots"}
Places == {"loop", "deliver", "unload", "drain", "commit", "end"}
Calls == [op : Ops, todo : SUBSET Ids, cur : Ids \cup {None}, at : Places,
          next : Places, left : 0 .. MaxPerDrain]

IsActive(i) == sessions[i] # None

Init == /\ registry = {}
        /\ sessions = [i \in Ids |-> None]
        /\ status = [i \in Ids |-> None]
        /\ queue = <<>>
        /\ seen = [emitted |-> {}, published |-> {}, withdrawn |-> {}]
        /\ call = Idle
        /\ nested = None

----------------------------------------------------------------------------
(* Helpers *)

(* What a guest may emit during one callback: the second watched event comes
   after the first.  Only the events grant lets it emit; a full queue refuses. *)
Fresh == {"any"} \cup
         IF "first" \notin seen.emitted THEN {"first"}
         ELSE IF "second" \notin seen.emitted THEN {"second"} ELSE {}
HasRoomForOne(events) == Len(events) <= MaxQueued   \* a variant, as below
HasRoom(events) == Len(events) < MaxQueued
Outputs(granted) ==
    {<<>>} \cup IF granted = "events" /\ HasRoom(queue) THEN {<<e>> : e \in Fresh} ELSE {}

Watch(out) == {out[k] : k \in DOMAIN out} \cap Watched
Emit(out) == /\ queue' = queue \o out
             /\ seen' = [seen EXCEPT !.emitted = @ \cup Watch(out)]

(* Variants of definitions below, each with one plausible mistake. *)
DiscardAll(events, checkpoint) == <<>>
Undrained(c, next) == [c EXCEPT !.at = next]
AnyNumber(c) == TRUE
ActivateToo(i) == IsActive(i) \/ i \in Listening
StatusKept(i) == status
TakenLast(events) == [event |-> events[Len(events)], rest |-> SubSeq(events, 1, Len(events) - 1)]

DiscardAfter(events, checkpoint) == SubSeq(events, 1, checkpoint)

(* An operation drains, then goes on at next. *)
Drained(c, next) == [c EXCEPT !.at = "drain", !.next = next, !.left = MaxPerDrain]

MayPublish(c) == c.left > 0
Taken(events) == [event |-> Head(events), rest |-> Tail(events)]

(* Runtime::Load.  A failed activation takes its events back. *)
Grant(i) == IF i \in Listening THEN Grants ELSE {"plain"}
Activated(i) ==
    \E g \in Grant(i) : \E out \in Outputs(g) :
       /\ Emit(out)
       /\ sessions' = [sessions EXCEPT ![i] = g]
       /\ status' = [status EXCEPT ![i] = "active"]
NotActivated(i) ==
    \E g \in Grant(i) : \E out \in Outputs(g) :
       /\ queue' = DiscardAfter(queue \o out, Len(queue))
       /\ seen' = [seen EXCEPT !.emitted = @ \cup Watch(out), !.withdrawn = @ \cup Watch(out)]
       /\ status' = [status EXCEPT ![i] = "failed"]
       /\ UNCHANGED sessions
(* CapabilityPolicy::Grant failed *)
Rejected(i) ==
    /\ status' = [status EXCEPT ![i] = "failed"]
    /\ UNCHANGED <<sessions, queue, seen>>

(* A callback of a running guest; one that fails is unloaded. *)
WithoutSession(i) == [sessions EXCEPT ![i] = None]
WithFailure(i) == [status EXCEPT ![i] = "failed"]
Callback(i) ==
    \E out \in Outputs(sessions[i]) :
       /\ Emit(out)
       /\ \/ UNCHANGED <<sessions, status>>
          \/ sessions' = WithoutSession(i) /\ status' = WithFailure(i)

(* An event of an extension is only for packages that are already active. *)
Receives(i) == IsActive(i)

----------------------------------------------------------------------------
(* Operations *)

Enter(op, todo, at) ==
    call' = [Idle EXCEPT !.op = op, !.todo = todo, !.at = at]

Begin ==
    /\ call = Idle
    /\ \/ \E i \in registry : Enter("load", {i}, "loop") \/ Enter("command", {i}, "loop")
       \/ Enter("loadall", registry, "loop")
       \/ Enter("startup", registry \cap Startup, "loop")
       \/ Enter("event", registry \cap Listening, "loop")
       \/ Enter("named", registry, "loop")
       \/ \E i \in Ids : Enter("unload", {i}, "unload")
       \/ \E op \in {"unloadall", "scan", "setroots"} : Enter(op, Ids, "unload")
    /\ UNCHANGED <<registry, guests, nested>>

Tick ==
    /\ call = Idle
    /\ Enter("tick", registry \cap Ticking, "loop")
    /\ UNCHANGED <<registry, guests, nested>>

(* LoadAll drains once at the end; the others do so after each package. *)
LoadOne(i) ==
    LET c == [call EXCEPT !.todo = @ \ {i}]
        loaded(d) == CASE d.op = "loadall" -> d
                       [] d.op \in {"load", "startup"} -> Drained(d, "loop")
                       [] OTHER -> Drained([d EXCEPT !.cur = i], "deliver")
        failed(d) == CASE d.op = "loadall" -> d
                       [] d.op = "command" -> Drained(d, "end")
                       [] OTHER -> Drained(d, "loop")
    IN
    \/ Activated(i) /\ ~IsActive(i) /\ call' = loaded(c)
    \/ NotActivated(i) /\ ~IsActive(i) /\ call' = failed(c)
    \/ Rejected(i) /\ call' = IF c.op = "command" THEN [c EXCEPT !.at = "end"] ELSE c

Loop ==
    /\ nested = None /\ call.at = "loop"
    /\ \E i \in call.todo :
          LET c == [call EXCEPT !.todo = @ \ {i}] IN
          CASE call.op = "load" ->
                 \/ LoadOne(i)
                 \/ IsActive(i) /\ call' = Drained(c, "loop") /\ UNCHANGED guests
            [] call.op \in {"loadall", "startup"} ->
                 IF IsActive(i) THEN call' = c /\ UNCHANGED guests ELSE LoadOne(i)
            [] call.op \in {"event", "command"} ->
                 IF IsActive(i)
                 THEN call' = [c EXCEPT !.cur = i, !.at = "deliver"] /\ UNCHANGED guests
                 ELSE LoadOne(i)
            [] call.op \in {"tick", "named"} ->
                 /\ call' = c
                 /\ IF IsActive(i) /\ (call.op = "tick" \/ sessions[i] = "events")
                    THEN Callback(i) ELSE UNCHANGED guests
    /\ UNCHANGED <<registry, nested>>

(* The package may have been unloaded again while its activation was drained. *)
Deliver ==
    LET i == call.cur IN
    /\ nested = None /\ call.at = "deliver"
    /\ call' = [call EXCEPT !.cur = None, !.at = "loop"]
    /\ IF IsActive(i) /\ (call.op = "command" \/ sessions[i] = "events")
       THEN Callback(i) ELSE UNCHANGED guests
    /\ UNCHANGED <<registry, nested>>

LoopEnds ==
    /\ nested = None /\ call.at = "loop" /\ call.todo = {}
    /\ call' = IF call.op \in {"load", "startup"} THEN [call EXCEPT !.at = "end"]
               ELSE Drained(call, "end")
    /\ UNCHANGED <<registry, guests, nested>>

(* Unload calls the guest a last time: what it emits then is published. *)
UnloadOne ==
    /\ nested = None /\ call.at = "unload"
    /\ \E i \in call.todo :
          /\ call' = [call EXCEPT !.todo = @ \ {i}]
          /\ sessions' = [sessions EXCEPT ![i] = None]
          /\ status' = [status EXCEPT ![i] = None]
          /\ IF IsActive(i) THEN \E out \in Outputs(sessions[i]) : Emit(out) ELSE UNCHANGED <<queue, seen>>
    /\ UNCHANGED <<registry, nested>>

UnloadEnds ==
    /\ nested = None /\ call.at = "unload" /\ call.todo = {}
    /\ call' = Drained(call, IF call.op \in {"scan", "setroots"} THEN "commit" ELSE "end")
    /\ UNCHANGED <<registry, guests, nested>>

(* The registry found before the packages were unloaded takes effect. *)
Commit ==
    /\ nested = None /\ call.at = "commit"
    /\ \E found \in SUBSET Ids :
          /\ call.op = "setroots" => found = {}
          /\ registry' = found
    /\ call' = [call EXCEPT !.at = "end"]
    /\ UNCHANGED <<guests, nested>>

(* EventService::Drain, and StudioExtensionEventBus::Publish. *)
Publish ==
    /\ nested = None /\ call.at = "drain"
    /\ queue # <<>> /\ MayPublish(call)
    /\ seen' = [seen EXCEPT !.published = @ \cup ({Taken(queue).event} \cap Watched)]
    /\ queue' = Taken(queue).rest
    /\ call' = [call EXCEPT !.left = IF @ > 0 THEN @ - 1 ELSE 0]
    /\ nested' = registry
    /\ UNCHANGED <<registry, sessions, status>>

DrainEnds ==
    /\ nested = None /\ call.at = "drain"
    /\ queue = <<>> \/ ~MayPublish(call)
    /\ call' = [call EXCEPT !.at = call.next, !.next = "end", !.left = 0]
    /\ UNCHANGED <<registry, guests, nested>>

(* The nested DispatchEvent or DispatchNamedEvent; its own drain does nothing. *)
NestedStep ==
    /\ nested # None /\ nested # {}
    /\ \E i \in nested :
          /\ nested' = nested \ {i}
          /\ IF ~Receives(i) THEN UNCHANGED guests
             ELSE IF ~IsActive(i) THEN Activated(i)
             ELSE IF sessions[i] = "events" THEN Callback(i)
             ELSE UNCHANGED guests
    /\ UNCHANGED <<registry, call>>

NestedEnds ==
    /\ nested = {}
    /\ nested' = None
    /\ UNCHANGED <<registry, guests, call>>

Return ==
    /\ nested = None /\ call.at = "end" /\ call # Idle
    /\ call' = Idle
    /\ UNCHANGED <<registry, guests, nested>>

Step == \/ Loop \/ Deliver \/ LoopEnds \/ UnloadOne \/ UnloadEnds \/ Commit
        \/ Publish \/ DrainEnds \/ NestedStep \/ NestedEnds \/ Return

Next == Begin \/ Tick \/ Step

Spec == Init /\ [][Next]_vars

(* Guest calls are limited by fuel, so the thread always goes on, and the host
   ticks in every frame, whatever else it calls. *)
FairSpec == Spec /\ WF_vars(Step) /\ SF_vars(Tick)

----------------------------------------------------------------------------
(* Properties *)

TypeOK ==
    /\ registry \subseteq Ids
    /\ sessions \in [Ids -> Grants \cup {None}]
    /\ status \in [Ids -> {"active", "failed", None}]
    /\ queue \in Seq(Events) /\ Len(queue) <= MaxQueued
    /\ seen \in [emitted : SUBSET Watched, published : SUBSET Watched, withdrawn : SUBSET Watched]
    /\ call \in Calls
    /\ nested = None \/ nested \subseteq Ids

Queued == {queue[k] : k \in DOMAIN queue} \cap Watched

(* An event a guest emitted is queued, published or withdrawn with the
   activation that failed: never lost, never published twice and never both,
   however drains, activations and nested dispatches follow each other. *)
EventsAccounted ==
    /\ seen.emitted = Queued \cup seen.published \cup seen.withdrawn
    /\ Queued \cap seen.published = {}
    /\ Queued \cap seen.withdrawn = {}
    /\ seen.published \cap seen.withdrawn = {}

(* Events are published in the order in which they were emitted. *)
PublishedInOrder ==
    "second" \in seen.published => "first" \in seen.published \cup seen.withdrawn

(* An extension reported as active has a running instance, also after a guest
   failed inside a dispatch that its own activation caused. *)
ActiveIsRunning == \A i \in Ids : status[i] = "active" => IsActive(i)

(* Between calls, whatever runs was found by the last scan, though events are
   dispatched between the unloading of the old packages and the new registry. *)
RunningIsRegistered == call = Idle => {i \in Ids : IsActive(i)} \subseteq registry
=============================================================================
