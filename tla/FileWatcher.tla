------------------------------ MODULE FileWatcher ------------------------------
(***************************************************************************)
(* The file watcher on Linux: the tree that changes, the kernel's inotify   *)
(* queue, the thread that reads it (LinuxFileWatcherBackend::Run), the      *)
(* bounded list of events the owner drains, and Stop.                       *)
(* modules/platform/src/file_watcher_linux.cpp, file_watcher.cpp,           *)
(* file_watcher_internal.hpp.                                               *)
(*                                                                          *)
(* The tree holds one file, and one directory that may be made, renamed and *)
(* removed and holds one file.  A path's version is the change that last    *)
(* touched it, 0 while it is not there.  The kernel's part is external: a   *)
(* watch is on an inode, its number is never used again, and a queue that   *)
(* is full keeps one overflow event and drops the rest.                     *)
(***************************************************************************)
EXTENDS Integers, Sequences

Functions == INSTANCE Functions

CONSTANTS
    Names,        \* the names the directory may have
    Capacity,     \* queue_capacity
    KernelQueue,  \* fs.inotify.max_queued_events
    MaxChanges    \* bound: changes of the tree

WatcherAssumption ==
    /\ Names \cap {"", "file"} = {}
    /\ Capacity \in Nat /\ KernelQueue \in Nat /\ MaxChanges \in Nat

VARIABLES
    file, dir, inner,      \* the versions of the file, the directory and its file
    gone,                  \* the root was moved or deleted
    changes,
    queue, watched, lastWatch,  \* the kernel's: events, inode -> watch, the last watch
    watches,               \* watches_: watch -> relative path
    events, rescanPending, \* FileWatcherState's events_ and rescan_pending_
    running, stopRequested, wake,
    rebuildRequested,
    at, buffer, visit,     \* where the thread is; events read; entries to visit
    stopper,               \* where Stop is
    batch, seen,           \* what the owner drained, and the versions it knows
    blind                  \* paths changed while the watches were to be rebuilt, or
                           \* removed from a directory that has no watch yet

tree == <<file, dir, inner, gone, changes>>
kernel == <<queue, watched, lastWatch>>
state == <<events, rescanPending>>
flags == <<running, stopRequested, wake>>
thread == <<at, buffer, visit, rebuildRequested, watches>>
client == <<batch, seen>>
vars == <<tree, kernel, state, flags, thread, stopper, client, blind>>

Root == 0
Nothing == [w \in {} |-> w]
Absent == [name |-> "", id |-> 0]
File == <<"file">>
Inner(name) == <<name, "inner">>
Paths == {File} \cup {<<n>> : n \in Names} \cup {Inner(n) : n \in Names}
Rescan == << >>      \* FileWatchEventType::RescanRequired has an empty path

(* What the tree holds. *)
Current == [p \in Paths |->
    IF p = File THEN file
    ELSE IF p = <<dir.name>> THEN dir.id
    ELSE IF p = Inner(dir.name) THEN inner ELSE 0]

Init ==
    /\ file = 0 /\ inner = 0 /\ changes = 0 /\ dir = Absent
    /\ gone = FALSE
    /\ queue = << >> /\ watched = [i \in {Root} |-> 1] /\ lastWatch = 1
    /\ watches = [w \in {1} |-> << >>]
    /\ events = << >> /\ rescanPending = FALSE
    /\ running = TRUE /\ stopRequested = FALSE /\ wake = FALSE
    /\ at = "loop" /\ buffer = << >> /\ visit = {} /\ rebuildRequested = FALSE
    /\ stopper = "none"
    /\ batch = {} /\ seen = Current /\ blind = {}

------------------------------------------------------------------------------
(* The tree changes, and the kernel tells of it *)

(* An inode that is watched is told of; a full queue ends in an overflow. *)
Event(watch, kind, name, isDirectory) ==
    [watch |-> watch, kind |-> kind, name |-> name, directory |-> isDirectory]
Overflow == Event(0, "overflow", "", FALSE)
Enqueue(q, e) ==
    IF q # << >> /\ q[Len(q)] = Overflow THEN q
    ELSE Append(q, IF Len(q) < KernelQueue THEN e ELSE Overflow)
Told(q, inode, kind, name, isDirectory) ==
    IF inode \in DOMAIN watched THEN Enqueue(q, Event(watched[inode], kind, name, isDirectory))
    ELSE q

(* The worker has asked for the watches to be rebuilt, or is rebuilding them. *)
Rebuilding == rebuildRequested \/ at \in {"rebuild", "root", "tree"}

Changed(paths) ==
    /\ changes < MaxChanges /\ ~gone
    /\ changes' = changes + 1
    /\ blind' = IF Rebuilding THEN blind \cup paths ELSE blind
    /\ UNCHANGED <<gone, state, flags, thread, stopper, client>>

WriteFile ==
    /\ Changed({File})
    /\ file' = changes + 1
    /\ queue' = Told(queue, Root, IF file = 0 THEN "create" ELSE "modify", "file", FALSE)
    /\ UNCHANGED <<dir, inner, watched, lastWatch>>

RemoveFile ==
    /\ file # 0
    /\ Changed({File})
    /\ file' = 0
    /\ queue' = Told(queue, Root, "delete", "file", FALSE)
    /\ UNCHANGED <<dir, inner, watched, lastWatch>>

MakeDirectory(n) ==
    /\ dir = Absent
    /\ Changed({<<n>>})
    /\ dir' = [name |-> n, id |-> changes + 1]
    /\ queue' = Told(queue, Root, "create", n, TRUE)
    /\ UNCHANGED <<file, inner, watched, lastWatch>>

RenameDirectory(n) ==
    /\ dir # Absent /\ n # dir.name
    /\ Changed({<<dir.name>>, <<n>>, Inner(dir.name), Inner(n)})
    /\ dir' = [dir EXCEPT !.name = n]
    /\ queue' = Told(Told(Told(queue, Root, "moved", dir.name, TRUE), Root, "moved", n, TRUE),
                     dir.id, "move_self", "", FALSE)
    /\ UNCHANGED <<file, inner, watched, lastWatch>>

RemoveDirectory ==
    /\ dir # Absent /\ inner = 0
    /\ Changed({<<dir.name>>})
    /\ dir' = Absent
    /\ queue' = Told(Told(Told(queue, dir.id, "delete_self", "", FALSE), dir.id, "ignored", "", FALSE),
                     Root, "delete", dir.name, TRUE)
    /\ watched' = [i \in DOMAIN watched \ {dir.id} |-> watched[i]]
    /\ UNCHANGED <<file, inner, lastWatch>>

WriteInner ==
    /\ dir # Absent
    /\ Changed({Inner(dir.name)})
    /\ inner' = changes + 1
    /\ queue' = Told(queue, dir.id, IF inner = 0 THEN "create" ELSE "modify", "inner", FALSE)
    /\ UNCHANGED <<file, dir, watched, lastWatch>>

RemoveInner ==
    /\ inner # 0
    /\ changes < MaxChanges /\ ~gone
    /\ changes' = changes + 1
    /\ blind' = IF Rebuilding \/ dir.id \notin DOMAIN watched
                THEN blind \cup {Inner(dir.name)} ELSE blind
    /\ inner' = 0
    /\ queue' = Told(queue, dir.id, "delete", "inner", FALSE)
    /\ UNCHANGED <<file, dir, watched, lastWatch, gone, state, flags, thread, stopper, client>>

MoveRoot ==
    /\ ~gone
    /\ gone' = TRUE
    /\ queue' = Told(queue, Root, "move_self", "", FALSE)
    /\ UNCHANGED <<file, dir, inner, changes, watched, lastWatch, state, flags, thread,
                   stopper, client, blind>>

TreeChanges ==
    \/ WriteFile \/ RemoveFile \/ RemoveDirectory \/ WriteInner \/ RemoveInner \/ MoveRoot
    \/ \E n \in Names : MakeDirectory(n) \/ RenameDirectory(n)

------------------------------------------------------------------------------
(* FileWatcherState *)

(* Variants of definitions below, each with one plausible mistake. *)
PushOrDrop(path) ==
    /\ events' = IF ~rescanPending /\ Len(events) < Capacity THEN Append(events, path) ELSE events
    /\ UNCHANGED rescanPending

PushRescan ==
    /\ events' = IF rescanPending THEN events ELSE <<Rescan>>
    /\ rescanPending' = TRUE

Push(path) ==
    IF ~rescanPending /\ Len(events) < Capacity
    THEN events' = Append(events, path) /\ UNCHANGED rescanPending
    ELSE PushRescan

(* The owner drains, then looks at each path it was told of, or at all. *)
Drain ==
    /\ events # << >> /\ batch = {}
    /\ batch' = Functions!Range(events)
    /\ events' = << >> /\ rescanPending' = FALSE
    /\ UNCHANGED <<tree, kernel, flags, thread, stopper, seen, blind>>

Refresh ==
    /\ batch # {}
    /\ LET fresh == IF Rescan \in batch THEN Paths ELSE batch IN
        /\ seen' = [p \in Paths |-> IF p \in fresh THEN Current[p] ELSE seen[p]]
        /\ blind' = blind \ fresh
    /\ batch' = {}
    /\ UNCHANGED <<tree, kernel, state, flags, thread, stopper>>

------------------------------------------------------------------------------
(* The thread *)

Goto(there) == at' = there /\ UNCHANGED <<visit, rebuildRequested>>

(* Variants of definitions below, each with one plausible mistake. *)
PollsInotifyOnly ==
    /\ at = "poll" /\ queue # << >>
    /\ Goto("read")
    /\ UNCHANGED <<tree, kernel, state, flags, buffer, watches, stopper, client, blind>>

Loop ==
    /\ at = "loop"
    /\ Goto(IF stopRequested THEN "exit" ELSE "poll")
    /\ UNCHANGED <<tree, kernel, state, flags, buffer, watches, stopper, client, blind>>

PollReturns ==
    /\ at = "poll" /\ (wake \/ queue # << >>)
    /\ Goto(IF wake THEN "exit" ELSE "read")
    /\ UNCHANGED <<tree, kernel, state, flags, buffer, watches, stopper, client, blind>>

(* One read takes what there is; with nothing left the loop begins again. *)
Read ==
    /\ at = "read"
    /\ buffer' = queue /\ queue' = << >>
    /\ Goto(IF queue = << >> THEN "loop" ELSE "handle")
    /\ UNCHANGED <<tree, watched, lastWatch, state, flags, watches, stopper, client, blind>>

(* Every event of the buffer was handled. *)
BufferHandled ==
    /\ at = "handle" /\ buffer = << >>
    /\ at' = IF rebuildRequested THEN "rebuild" ELSE "read"
    /\ rebuildRequested' = FALSE
    /\ UNCHANGED <<tree, kernel, state, flags, buffer, visit, watches, stopper, client, blind>>

RebuildLater == PushRescan /\ rebuildRequested' = TRUE

GiveUp ==
    /\ PushRescan
    /\ running' = FALSE /\ stopRequested' = TRUE
    /\ UNCHANGED wake

event == Head(buffer)
Known == event.watch \in DOMAIN watches
RootMoved == event.kind \in {"delete_self", "move_self"} /\ watches[event.watch] = << >>
DirectoryMoved == event.directory /\ event.kind = "moved"
NewDirectory == event.directory /\ event.kind = "create" /\ dir.name = event.name
relative == watches[event.watch] \o <<event.name>>
Reported == event.kind \in {"create", "modify", "delete"}

(* Handle, for every event but a new directory that is still there. *)
Handle ==
    /\ at = "handle" /\ buffer # << >>
    /\ \/ /\ event.kind = "overflow"
          /\ RebuildLater /\ UNCHANGED <<watches, flags>>
       \/ /\ event.kind # "overflow" /\ ~Known
          /\ UNCHANGED <<state, rebuildRequested, watches, flags>>
       \/ /\ Known /\ RootMoved
          /\ GiveUp /\ UNCHANGED <<rebuildRequested, watches>>
       \/ /\ Known /\ event.kind = "ignored"
          /\ watches' = [w \in DOMAIN watches \ {event.watch} |-> watches[w]]
          /\ UNCHANGED <<state, rebuildRequested, flags>>
       \/ /\ Known /\ DirectoryMoved
          /\ RebuildLater /\ UNCHANGED <<watches, flags>>
       \/ /\ Known /\ Reported /\ ~NewDirectory
          /\ Push(relative) /\ UNCHANGED <<rebuildRequested, watches, flags>>
       \/ /\ Known /\ ~Reported /\ ~RootMoved /\ ~DirectoryMoved /\ event.kind # "ignored"
          /\ UNCHANGED <<state, rebuildRequested, watches, flags>>
    /\ buffer' = Tail(buffer)
    /\ UNCHANGED <<tree, kernel, at, visit, stopper, client, blind>>

(* A new directory: symlink_status found it, and AddTree is called for it. *)
HandleNewDirectory ==
    /\ at = "handle" /\ buffer # << >>
    /\ Known /\ NewDirectory
    /\ Goto("watch")
    /\ UNCHANGED <<tree, kernel, state, flags, buffer, watches, stopper, client, blind>>

(* AddWatch: an inode that is watched keeps its watch. *)
AddWatch(inode, path) ==
    LET new == inode \notin DOMAIN watched
        watch == IF new THEN lastWatch + 1 ELSE watched[inode]
    IN  /\ watched' = [i \in DOMAIN watched \cup {inode} |->
                          IF i = inode THEN watch ELSE watched[i]]
        /\ lastWatch' = IF new THEN watch ELSE lastWatch
        /\ watches' = [w \in DOMAIN watches \cup {watch} |->
                          IF w = watch THEN path ELSE watches[w]]

AddTreeFails ==
    /\ RebuildLater
    /\ at' = "handle" /\ buffer' = Tail(buffer) /\ visit' = {}
    /\ UNCHANGED <<kernel, watches>>

WatchDirectory ==
    /\ at = "watch"
    /\ IF dir.name = event.name
       THEN /\ AddWatch(dir.id, relative)
            /\ at' = "scan" /\ UNCHANGED <<queue, buffer, visit, rebuildRequested, state>>
       ELSE AddTreeFails
    /\ UNCHANGED <<tree, flags, stopper, client, blind>>

(* The iterator lists the directory, then looks at what it listed. *)
ListDirectory ==
    /\ at = "scan"
    /\ IF dir.name = event.name
       THEN /\ visit' = (IF inner # 0 THEN {"inner"} ELSE {})
            /\ at' = "entry" /\ UNCHANGED <<kernel, watches, buffer, rebuildRequested, state>>
       ELSE AddTreeFails
    /\ UNCHANGED <<tree, flags, stopper, client, blind>>

ScanEntry ==
    /\ at = "entry" /\ visit # {}
    /\ IF dir.name = event.name /\ inner # 0
       THEN /\ Push(Inner(event.name))
            /\ visit' = {} /\ UNCHANGED <<at, kernel, watches, buffer, rebuildRequested>>
       ELSE AddTreeFails
    /\ UNCHANGED <<tree, flags, stopper, client, blind>>

DirectoryAdded ==
    /\ at = "entry" /\ visit = {}
    /\ Push(relative)
    /\ at' = "handle" /\ buffer' = Tail(buffer)
    /\ UNCHANGED <<tree, kernel, flags, visit, rebuildRequested, watches, stopper, client, blind>>

(* Rebuild: the watches go, and what the queue held with them; AddTree(root). *)
Rebuild ==
    /\ at = "rebuild"
    /\ watched' = Nothing /\ watches' = Nothing /\ queue' = << >>
    /\ Goto("root")
    /\ UNCHANGED <<tree, lastWatch, state, flags, buffer, stopper, client, blind>>

RebuildFails ==
    /\ GiveUp
    /\ at' = "loop" /\ visit' = {} /\ UNCHANGED <<kernel, watches>>

WatchRoot ==
    /\ at = "root"
    /\ IF gone THEN RebuildFails
       ELSE /\ AddWatch(Root, << >>)
            /\ visit' = (IF file # 0 THEN {"file"} ELSE {})
                        \cup (IF dir # Absent THEN {dir.name} ELSE {})
            /\ at' = "tree" /\ UNCHANGED <<queue, state, flags>>
    /\ UNCHANGED <<tree, buffer, rebuildRequested, stopper, client, blind>>

(* An entry that was listed and is not there any more ends the watching. *)
TreeEntry(n) ==
    /\ at = "tree" /\ n \in visit
    /\ visit' = visit \ {n}
    /\ \/ /\ n = "file" /\ file # 0
          /\ UNCHANGED <<at, kernel, watches, state, flags>>
       \/ /\ n = dir.name
          /\ AddWatch(dir.id, <<n>>)
          /\ UNCHANGED <<at, queue, state, flags>>
    /\ UNCHANGED <<tree, buffer, rebuildRequested, stopper, client, blind>>

TreeEntryGone ==
    /\ at = "tree"
    /\ \E n \in visit : IF n = "file" THEN file = 0 ELSE n # dir.name
    /\ RebuildFails
    /\ UNCHANGED <<tree, buffer, rebuildRequested, stopper, client, blind>>

Rebuilt ==
    /\ at = "tree" /\ visit = {}
    /\ Goto("loop")
    /\ UNCHANGED <<tree, kernel, state, flags, buffer, watches, stopper, client, blind>>

Exit ==
    /\ at = "exit"
    /\ running' = FALSE
    /\ Goto("done")
    /\ UNCHANGED <<tree, kernel, state, stopRequested, wake, buffer, watches, stopper, client, blind>>

Worker ==
    \/ Loop \/ PollReturns \/ Read \/ BufferHandled \/ Handle \/ HandleNewDirectory
    \/ WatchDirectory \/ ListDirectory \/ ScanEntry \/ DirectoryAdded
    \/ Rebuild \/ WatchRoot \/ TreeEntryGone \/ Rebuilt \/ Exit
    \/ \E n \in visit : TreeEntry(n)

------------------------------------------------------------------------------
(* Stop: only who sets the flag writes to the eventfd; then the thread is joined *)

StopRequests ==
    /\ stopper = "none"
    /\ stopper' = IF stopRequested THEN "join" ELSE "wake"
    /\ stopRequested' = TRUE
    /\ UNCHANGED <<tree, kernel, state, running, wake, thread, client, blind>>

StopWakes ==
    /\ stopper = "wake"
    /\ wake' = TRUE
    /\ stopper' = "join"
    /\ UNCHANGED <<tree, kernel, state, running, stopRequested, thread, client, blind>>

StopJoins ==
    /\ stopper = "join" /\ at = "done"
    /\ running' = FALSE
    /\ stopper' = "done"
    /\ UNCHANGED <<tree, kernel, state, stopRequested, wake, thread, client, blind>>

Stop == StopWakes \/ StopJoins

Next == TreeChanges \/ Drain \/ Refresh \/ Worker \/ StopRequests \/ Stop

Spec == Init /\ [][Next]_vars /\ WF_vars(Worker) /\ WF_vars(Stop) /\ WF_vars(Drain) /\ WF_vars(Refresh)

------------------------------------------------------------------------------
Idle == at = "poll" /\ ~wake /\ queue = << >> /\ events = << >> /\ batch = {}

(* Everything has been read, drained and looked at: the owner then knows the   *)
(* tree, but for the paths that changed while the watches were to be rebuilt,  *)
(* and for those a rescan found in a new directory that were gone again before *)
(* the directory was watched.                                                  *)
NothingMissed == Idle => \A p \in Paths \ blind : seen[p] = Current[p]

(* A watcher that has stopped by itself has asked for a rescan and says that   *)
(* it does not run, before its thread ends; a directory is in the map under    *)
(* the name it has, while no event about it is under way.                      *)
StopIsTold ==
    /\ at = "done" => ~running
    /\ stopRequested /\ stopper = "none" => ~running
    /\ Idle /\ ~gone /\ blind = {} => Functions!Range(watches) =
           {<< >>} \cup (IF dir = Absent THEN {} ELSE {<<dir.name>>})

(* No call of Stop is under way; the owner knows each change it is not blind   *)
(* to, or the watcher says that it does not run: both come to hold.            *)
StopReturned == stopper \notin {"wake", "join"}
OwnerKnows == ~running \/ \A p \in Paths \ blind : seen[p] = Current[p]

(* What the tests say of every change: it is told, or a rescan is asked for.   *)
EveryChangeTold == Idle => seen = Current
================================================================================
