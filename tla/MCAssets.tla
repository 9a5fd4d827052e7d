-------------------------- MODULE MCAssets ---------------------------------
(* Four parts of the asset module and the file watcher that feeds its reload *)
(* share no state here: the manager with its owner as the only caller, so    *)
(* that a request runs undisturbed by other calls but not by lanes; the      *)
(* database with its reload coordinator and loaders; the dependency graph    *)
(* over more assets than those; the file of one cached product; the watcher  *)
(* with room for one event, over a kernel queue of two.  A behaviour is one  *)
(* of them; the others stay as they begin.                                   *)
EXTENDS AssetReload

CONSTANTS mesh, texture, Nodes, Processes, MaxFaults, owner, a1, r1, r2, Requests,
    Names, Capacity, KernelQueue, MaxChanges

VARIABLES part, edges, back, file, lockdir, job, faults, kept,
    known, rec, resident, prefetches, content, call, at, stage, result, read,
    joined, attached, lease, answer, calling, cancelled, revoked, queue, setting,
    leaf, dir, inner, gone, changes, notices, watched, lastWatch, watches, events,
    rescanPending, running, stopRequested, wake, rebuildRequested, place, buffer,
    visit, stopper, batch, seen, blind

Deps == INSTANCE DependencyGraph WITH Ids <- Nodes, forward <- edges, reverse <- back
Cache == INSTANCE ProductCache
Manager == INSTANCE AssetManager WITH
    Assets <- {a1}, Threads <- {owner}, Owner <- owner, Sizes <- {1}, MaxBytes <- 1,
    MaxWaiters <- 2, MaxPrefetch <- 1, Refusing <- {"lane"}, Batches <- {},
    MaxSource <- 1, source <- content
Watcher == INSTANCE FileWatcher WITH file <- leaf, queue <- notices, at <- place

ASSUME AssetsAssumption ==
    /\ Cache!CacheAssumption /\ Deps!GraphAssumption
    /\ Manager!ManagerAssumption /\ Watcher!WatcherAssumption


reloading == vars
depending == <<edges, back>>
caching == <<file, lockdir, job, faults, kept>>
managing == <<known, rec, resident, prefetches, content, call, at, stage, result,
              read, joined, attached, lease, answer, calling, cancelled, revoked,
              queue, setting>>
watching == <<leaf, dir, inner, gone, changes, notices, watched, lastWatch, watches,
              events, rescanPending, running, stopRequested, wake, rebuildRequested,
              place, buffer, visit, stopper, batch, seen, blind>>

\* Contents of different files are never compared: all may begin alike.
AssetsInit == /\ part \in {"manager", "reload", "graph", "cache", "watcher"}
              /\ Manager!Init /\ Init /\ Deps!InitGraph /\ Cache!InitCache /\ Watcher!Init
              /\ \A i \in Ids : source[i] = CHOOSE c \in Contents : TRUE

AssetsNext ==
    \/ /\ part = "manager" /\ Manager!Next
       /\ UNCHANGED <<part, reloading, depending, caching, watching>>
    \/ /\ part = "reload" /\ Next
       /\ UNCHANGED <<part, managing, depending, caching, watching>>
    \/ /\ part = "graph" /\ Deps!NextGraph
       /\ UNCHANGED <<part, managing, reloading, caching, watching>>
    \/ /\ part = "cache" /\ Cache!NextCache
       /\ UNCHANGED <<part, managing, reloading, depending, watching>>
    \/ /\ part = "watcher" /\ Watcher!Next
       /\ UNCHANGED <<part, managing, reloading, depending, caching>>

\* The fairness of each module, for the behaviours that are its own.
AssetsSpec ==
    /\ AssetsInit /\ [][AssetsNext]_<<part, managing, reloading, depending, caching, watching>>
    /\ WF_managing(part = "manager" /\ Manager!Goes(owner))
    /\ \A r \in Requests : WF_managing(part = "manager" /\ Manager!Loading(r))
    /\ SF_managing(part = "manager" /\ Manager!Pump)
    /\ \A i \in Ids : /\ WF_reloading(part = "reload" /\ Ripen(i))
                     /\ WF_reloading(part = "reload" /\ Consider(i))
    /\ WF_reloading(part = "reload" /\ BeginPump)
    /\ WF_reloading(part = "reload" /\ CommitPump)
    /\ WF_reloading(part = "reload" /\ Invalidate)
    /\ \A p \in Processes : WF_caching(part = "cache" /\ Cache!Work(p))
    /\ WF_watching(part = "watcher" /\ Watcher!Worker)
    /\ WF_watching(part = "watcher" /\ Watcher!Stop)
    /\ WF_watching(part = "watcher" /\ Watcher!Drain)
    /\ WF_watching(part = "watcher" /\ Watcher!Refresh)

(* Requests for one asset share one load, and a record that says Ready holds
   the content of its last change. *)
ReadyIsCurrent ==
    part = "manager" => Manager!TypeOK /\ Manager!LoadsCoalesce /\ Manager!ReadyIsCurrent

(* What a caller was told is on disk is there, whoever saves and stores at the
   same time: the table of the database, and the cached product, which one
   process at a time writes. *)
AnsweredIsKept ==
    TypeOK /\ AnsweredIsSaved /\ Cache!TypeOK /\ Cache!OneWriter /\ Cache!AnsweredIsStored

(* The graph over Nodes refuses cycles and nothing else, and invalidation
   reaches exactly the assets that depend on one. *)
GraphExact == part = "graph" => Deps!OnlyCyclesRefused /\ Deps!DependentsExact

(* A commit keeps the changes of others, and a change that was noticed is
   revised. *)
TableFaithful == CommitsKeepOthers /\ NoticedIsRevised

(* The owner of the watcher comes to know every change but those made while the
   watches are rebuilt, and a watcher that has stopped says so. *)
NothingMissed == part = "watcher" => Watcher!NothingMissed /\ Watcher!StopIsTold

(* Every accepted request is answered, no record says Loading for ever, a store
   that took the lock gives it back unless its process dies, a call of Stop
   returns, a watcher that says it runs tells its owner of every change, and
   every hint it gives is looked at.
   Each of these comes to hold again and again, two in each part. *)
First == CHOOSE p \in Processes : TRUE
FirstId == CHOOSE i \in Ids : TRUE
Ended(n) ==
    CASE part = "manager" -> IF n = 1 THEN Manager!RequestsAnswered ELSE Manager!LoadingEnded
      [] part = "reload" -> \A i \in Ids : (i = FirstId) = (n = 1) => HintLookedAt(i)
      [] part = "cache" -> \A p \in Processes : (p = First) = (n = 1) => Cache!LockGivenBack(p)
      [] part = "watcher" -> IF n = 1 THEN Watcher!StopReturned ELSE Watcher!OwnerKnows
      [] OTHER -> TRUE

AssetWorkEnds == []<>Ended(1) /\ []<>Ended(2)
=============================================================================
