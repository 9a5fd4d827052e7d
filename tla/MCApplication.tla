--------------------------- MODULE MCApplication ---------------------------
(* Six parts of an application around its assets and scenes, which share no  *)
(* state here: the host of extensions, the store of their packages, the      *)
(* surfaces of the renderer, command encoders and their queue, how the queue *)
(* knows what the GPU has finished, and the interaction state of the UI.  A  *)
(* behaviour is one of them, and the others stay as they begin.              *)
(*                                                                           *)
(* Two extensions start, tick and listen; two processes install and remove   *)
(* two versions of one package, none of whose names begins another's; the UI *)
(* has a component in the middle of its content and two pointers.            *)
EXTENDS SubmissionTracking

CONSTANTS hello, kitty, None, Ids, Startup, Ticking, Listening, MaxQueued, MaxPerDrain,
    Clients, Versions, Sizes, MaxCreated, MaxFrames, MaxRecoveries,
    Encoders, MaxCommands, MaxSubmits, PackageIds,
    Content, Built, Focusable, Pointers, MaxElements

VARIABLES part,
    registry, sessions, states, queue, seen, call, nested,
    lock, cmd, installed, staging, backups, promised,
    slots, free, handles, created, recoveries, at, canvas, views, acquired, outputs,
    submitted, retired, kept, replaced,
    closed, encoded, passActive, commands, recorded, buffers, marked, executed,
    destroyed, ran, accepted, ticked, lost, calls, tickets,
    elements, lastElement, declared, revisions, captured, pressed, focused, dangled

Unrelated == {<<n, n>> : n \in PackageIds \cup {"archive"}}

Host == INSTANCE ExtensionHost WITH status <- states
Store == INSTANCE PackageStore WITH Ids <- PackageIds, Prefixes <- Unrelated
Surfaces == INSTANCE SurfacePresentation
Commands == INSTANCE CommandRecording WITH
    finished <- encoded, submitted <- accepted, completed <- ticked
Ui == INSTANCE UiInteraction

ASSUME ApplicationAssumption ==
    /\ Host!HostAssumption /\ Ui!KeysAssumption
    /\ Store!StoreAssumption /\ Store!NamesUnrelated

tracking == vars
hosting == <<registry, sessions, states, queue, seen, call, nested>>
storing == <<lock, cmd, installed, staging, backups, promised>>
presenting == <<slots, free, handles, created, recoveries, at, canvas, views, acquired,
                outputs, submitted, retired, kept, replaced>>
recording == <<closed, encoded, passActive, commands, recorded, buffers, marked,
               executed, destroyed, ran, accepted, ticked, lost, calls, tickets>>
interacting == <<elements, lastElement, declared, revisions, captured, pressed,
                 focused, dangled>>

ApplicationInit ==
    /\ part \in {"tracking", "host", "store", "surfaces", "commands", "ui"}
    /\ Init /\ Host!Init /\ Store!Init /\ Surfaces!Init /\ Commands!Init /\ Ui!Init

ApplicationNext ==
    \/ /\ part = "tracking" /\ Next
       /\ UNCHANGED <<part, hosting, storing, presenting, recording, interacting>>
    \/ /\ part = "host" /\ Host!Next
       /\ UNCHANGED <<part, tracking, storing, presenting, recording, interacting>>
    \/ /\ part = "store" /\ Store!Next
       /\ UNCHANGED <<part, tracking, hosting, presenting, recording, interacting>>
    \/ /\ part = "surfaces" /\ Surfaces!Next
       /\ UNCHANGED <<part, tracking, hosting, storing, recording, interacting>>
    \/ /\ part = "commands" /\ Commands!Next
       /\ UNCHANGED <<part, tracking, hosting, storing, presenting, interacting>>
    \/ /\ part = "ui" /\ Ui!Next
       /\ UNCHANGED <<part, tracking, hosting, storing, presenting, recording>>

\* The fairness of each module, for the behaviours that are its own.
ApplicationSpec ==
    /\ ApplicationInit
    /\ [][ApplicationNext]_<<part, tracking, hosting, storing, presenting, recording,
                             interacting>>
    /\ WF_tracking(part = "tracking" /\ Finish)
    /\ \A e \in Epochs : WF_tracking(part = "tracking" /\ CallbackRuns(e))
    /\ WF_hosting(part = "host" /\ Host!Step)
    /\ SF_hosting(part = "host" /\ Host!Tick)
    /\ \A c \in Clients : WF_storing(part = "store" /\ Store!Step(c) /\ lock = c)

(* Events are published in order or discarded with the activation they come
   from; the registry says Active of what runs, and all that runs is listed. *)
HostConsistent ==
    part = "host" => /\ Host!TypeOK /\ Host!EventsAccounted /\ Host!PublishedInOrder
                     /\ Host!ActiveIsRunning /\ Host!RunningIsRegistered

(* What a command left installed is never lost, wherever another is killed. *)
Recoverable == part = "store" => Store!TypeOK /\ Store!Recoverable

(* A successful install leaves no staging directory. *)
SuccessLeavesNoStaging == Store!SuccessLeavesNoStaging

(* A handle reaches its own surface or none; an image is held from where it is
   acquired to where it is presented or discarded, unless the device is replaced
   in between; and a swapchain waits for the last frame drawn into it. *)
SurfacesFaithful ==
    part = "surfaces" => /\ Surfaces!ImagesReleased /\ Surfaces!HandlesReachTheirOwn
                         /\ Surfaces!RetiredWhenDrawn

(* Commands run once, in order, and all of those a ticket stands for. *)
CommandsRunOnce ==
    part = "commands" => Commands!CommandsRunOnce /\ Commands!BuffersGivenOnce

(* What the UI points to is in its tree, elements are pressed while they are
   captured, and the focus stays with an element that stays. *)
InteractionFaithful == /\ [](part = "ui" => Ui!PressedWhileCaptured)
                       /\ Ui!FocusStays

(* Every call of the host returns and every event is published or discarded;
   every process gives the lock back; every submission is reached, or tracking
   has failed. *)
Over(n) ==
    CASE part = "host" ->
             <<call = Host!Idle, "first" \notin Host!Queued, "second" \notin Host!Queued>>[n]
      [] part = "store" -> lock = None
      [] part = "tracking" -> SubmissionsReached
      [] OTHER -> TRUE

CallsEnd == \A n \in 1..3 : []<>Over(n)
=============================================================================
