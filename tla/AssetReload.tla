---------------------------- MODULE AssetReload ----------------------------
(* The asset database between its two kinds of writers: the coordinator that *)
(* turns hints of a file watcher into invalidations, and the loader threads  *)
(* that record what they loaded and save the manifest.  Both copy the        *)
(* records, change the copy and commit it if nobody committed in between.    *)
(*                                                                           *)
(* An asset has one URI, so the index by URI is left out.  Which assets are  *)
(* invalidated with those found changed is in DependencyGraph.               *)
EXTENDS Naturals

CONSTANTS
    Ids,        \* the assets
    Contents,   \* what a source file may contain
    Loaders,    \* threads of the I/O lanes
    MaxPushes,  \* bound: how many hints arrive
    MaxEpoch,   \* bound: loads start while fewer transactions committed
    None

VARIABLES
    source,     \* the files of the virtual file system
    records,    \* by_id_
    epoch,      \* epoch_
    pending,    \* pending_
    ripe,       \* those older than debounce_
    pushes,
    pump,       \* the Pump in progress
    load,       \* what each loader does
    mutex,      \* manifest_mutex
    manifest,   \* the saved database
    acked       \* history: assets whose load returned Ok

vars == <<source, records, epoch, pending, ripe, pushes, pump, load, mutex, manifest, acked>>
coordinator == <<pending, ripe, pushes, pump>>
loaders == <<load, mutex, manifest, acked>>

Hints == {"changed", "removed"}
Records == [hash : Contents \cup {None}, revision : 0 .. MaxPushes]
Tables == [Ids -> Records \cup {None}]

ASSUME ReloadAssumption == /\ MaxPushes \in Nat /\ MaxEpoch \in Nat
                           /\ None \notin Ids \cup Contents \cup Loaders \cup Records

IdlePump == [at |-> "idle", left |-> {}, noticed |-> {}, epoch |-> 0,
             copy |-> [i \in Ids |-> None]]
IdleLoad == [at |-> "idle", id |-> None, hash |-> None, epoch |-> 0,
             copy |-> [i \in Ids |-> None]]

Init == /\ source \in [Ids -> Contents]
        /\ records = [i \in Ids |-> None]
        /\ epoch = 0
        /\ pending = [i \in Ids |-> None]
        /\ ripe = {}
        /\ pushes = 0
        /\ pump = IdlePump
        /\ load = [l \in Loaders |-> IdleLoad]
        /\ mutex = None
        /\ manifest = [i \in Ids |-> None]
        /\ acked = {}

----------------------------------------------------------------------------
(* Helpers *)

(* Variants of definitions below, each with one plausible mistake. *)
AnyEpoch(transaction) == TRUE
Unlocked == TRUE
KeptUnrecorded(i) == [pending EXCEPT ![i] = IF records[i] = None THEN @ ELSE None]
RevisionKept(record, hash) == [record EXCEPT !.hash = hash]

(* Transaction::Commit checks that nobody else committed. *)
NobodyElse(transaction) == epoch = transaction.epoch

Consumed(i) == [pending EXCEPT ![i] = None]
MayLock == mutex = None
Revised(record, hash) == [hash |-> hash, revision |-> record.revision + 1]

----------------------------------------------------------------------------
(* The files and the watcher. *)

Edit(i) ==
    /\ \E c \in Contents \ {source[i]} : source' = [source EXCEPT ![i] = c]
    /\ UNCHANGED <<records, epoch, coordinator, loaders>>

(* A new hint replaces an older one and starts its debounce again. *)
Push(i) ==
    /\ pump.at = "idle" /\ pushes < MaxPushes
    /\ pushes' = pushes + 1
    /\ \E hint \in Hints : pending' = [pending EXCEPT ![i] = hint]
    /\ ripe' = ripe \ {i}
    /\ UNCHANGED <<source, records, epoch, pump, loaders>>

Ripen(i) ==
    /\ pump.at = "idle" /\ pending[i] # None /\ i \notin ripe
    /\ ripe' = ripe \cup {i}
    /\ UNCHANGED <<source, records, epoch, pending, pushes, pump, loaders>>

----------------------------------------------------------------------------
(* ReloadCoordinator::Pump *)

BeginPump ==
    /\ pump.at = "idle" /\ ripe # {}
    /\ pump' = [IdlePump EXCEPT !.at = "scan", !.epoch = epoch, !.copy = records, !.left = ripe]
    /\ UNCHANGED <<source, records, epoch, pending, ripe, pushes, loaders>>

Consider(i) ==
    LET record == records[i]
        removed == pending[i] = "removed"
        hash == IF removed THEN None ELSE record.hash
    IN
    /\ pump.at = "scan" /\ i \in pump.left
    /\ pending' = Consumed(i)
    /\ ripe' = ripe \ {i}
    /\ pump' = IF record # None /\ (removed \/ source[i] # record.hash)
               THEN [pump EXCEPT !.left = @ \ {i}, !.copy[i] = Revised(record, hash),
                                 !.noticed = @ \cup {i}]
               ELSE [pump EXCEPT !.left = @ \ {i}]
    /\ UNCHANGED <<source, records, epoch, pushes, loaders>>

CommitPump ==
    /\ pump.at = "scan" /\ pump.left = {}
    /\ \/ /\ pump.noticed = {}
          /\ UNCHANGED <<records, epoch>>
          /\ pump' = [pump EXCEPT !.at = "invalidate"]
       \/ /\ pump.noticed # {} /\ NobodyElse(pump)
          /\ records' = pump.copy
          /\ epoch' = epoch + 1
          /\ pump' = [pump EXCEPT !.at = "invalidate"]
       \/ /\ pump.noticed # {} /\ ~NobodyElse(pump)
          /\ UNCHANGED <<records, epoch>>
          /\ pump' = IdlePump
    /\ UNCHANGED <<source, pending, ripe, pushes, loaders>>

Invalidate ==
    /\ pump.at = "invalidate"
    /\ pump' = IdlePump
    /\ UNCHANGED <<source, records, epoch, pending, ripe, pushes, loaders>>

----------------------------------------------------------------------------
(* The loader of RenderRuntime: the manifest mutex covers the transaction and
   the saving of what it committed. *)

Lock(l) ==
    /\ load[l].at = "idle" /\ MayLock /\ epoch < MaxEpoch
    /\ mutex' = l
    /\ \E i \in Ids :
          load' = [load EXCEPT ![l] = [at |-> "commit", id |-> i, hash |-> source[i],
                                       epoch |-> epoch, copy |-> records]]
    /\ UNCHANGED <<source, records, epoch, coordinator, manifest, acked>>

CommitLoad(l) ==
    LET m == load[l] IN
    /\ m.at = "commit"
    /\ \/ /\ NobodyElse(m)
          /\ records' = [m.copy EXCEPT ![m.id] = [hash |-> m.hash, revision |-> 0]]
          /\ epoch' = epoch + 1
          /\ load' = [load EXCEPT ![l].at = "serialize"]
          /\ UNCHANGED mutex
       \/ /\ ~NobodyElse(m)
          /\ load' = [load EXCEPT ![l] = IdleLoad]
          /\ mutex' = None
          /\ UNCHANGED <<records, epoch>>
    /\ UNCHANGED <<source, coordinator, manifest, acked>>

(* SaveAtomic: a temporary file takes the records, then replaces the manifest. *)
Serialize(l) ==
    /\ load[l].at = "serialize"
    /\ load' = [load EXCEPT ![l].at = "rename", ![l].copy = records]
    /\ UNCHANGED <<source, records, epoch, coordinator, mutex, manifest, acked>>

Rename(l) ==
    /\ load[l].at = "rename"
    /\ \/ /\ manifest' = load[l].copy
          /\ acked' = acked \cup {load[l].id}
       \/ UNCHANGED <<manifest, acked>>
    /\ load' = [load EXCEPT ![l] = IdleLoad]
    /\ mutex' = None
    /\ UNCHANGED <<source, records, epoch, coordinator>>

Next ==
    \/ \E i \in Ids : Edit(i) \/ Push(i) \/ Ripen(i) \/ Consider(i)
    \/ BeginPump \/ CommitPump \/ Invalidate
    \/ \E l \in Loaders : Lock(l) \/ CommitLoad(l) \/ Serialize(l) \/ Rename(l)

Spec == Init /\ [][Next]_vars

(* Time passes, and the host pumps in every frame. *)
Fairness == /\ \A i \in Ids : WF_vars(Ripen(i)) /\ WF_vars(Consider(i))
            /\ WF_vars(BeginPump) /\ WF_vars(CommitPump) /\ WF_vars(Invalidate)

FairSpec == Spec /\ Fairness

----------------------------------------------------------------------------
(* Properties *)

TypeOK ==
    /\ source \in [Ids -> Contents]
    /\ records \in Tables /\ manifest \in Tables
    /\ epoch \in 0 .. MaxEpoch + MaxPushes
    /\ pending \in [Ids -> Hints \cup {None}] /\ ripe \subseteq {i \in Ids : pending[i] # None}
    /\ pushes \in 0 .. MaxPushes
    /\ pump \in [at : {"idle", "scan", "invalidate"}, left : SUBSET Ids,
                 noticed : SUBSET Ids, epoch : 0 .. MaxEpoch + MaxPushes, copy : Tables]
    /\ load \in [Loaders -> [at : {"idle", "commit", "serialize", "rename"}, id : Ids \cup {None},
                             hash : Contents \cup {None}, epoch : 0 .. MaxEpoch + MaxPushes,
                             copy : Tables]]
    /\ mutex \in Loaders \cup {None}
    /\ \A l \in Loaders : load[l].at # "idle" <=> mutex = l
    /\ acked \subseteq Ids

(* A load that was answered is in the manifest, whichever loads and pumps
   committed and saved at the same time. *)
AnsweredIsSaved == \A i \in acked : manifest[i] # None

(* No update is lost: a commit changes only the records its own transaction
   wrote, though it replaces the whole table by a copy made earlier. *)
CommitsKeepOthers ==
    [][\A i \in Ids : records'[i] # records[i] =>
          \/ i \in pump.noticed /\ pump'.at = "invalidate"
          \/ \E l \in Loaders : load[l].id = i /\ load'[l].at = "serialize"]_vars

(* A pump that answers has raised the revision of each asset it found changed,
   and no loader has put it back in between. *)
NoticedIsRevised ==
    [][pump.at = "scan" /\ pump'.at = "invalidate" =>
          \A i \in pump.noticed : records'[i] # None /\ records'[i].revision > records[i].revision]_vars

(* Every hint is looked at: comes to hold after every hint. *)
HintLookedAt(i) == pending[i] = None
=============================================================================
