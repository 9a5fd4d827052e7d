--------------------------- MODULE PackageStore ---------------------------
(* Extension packages on disk: installing, replacing and removing them by    *)
(* processes that may die between any two file operations.                   *)
(*                                                                           *)
(* Every command holds the lock file of the install root, which the system   *)
(* releases when its holder dies.  A package is a directory.  A rename moves *)
(* it in one step; a removal deletes it file by file, so one that fails or   *)
(* dies leaves a part.  A staged package is whole once it has been copied    *)
(* and validated; what the validation accepts is left out.                   *)
EXTENDS FiniteSets

CONSTANTS
    Ids,        \* the extensions
    Versions,
    Clients,    \* the processes
    \* <<name, id>>: names of artifacts of id start with "." name "."; every
    \* name is at least its own
    Prefixes,
    None

Archive == "archive"             \* what InstallArchive calls its staging root
Names == Ids \cup {Archive}

Packages == [id : Ids, version : Versions, whole : BOOLEAN]

\* The name of an extension has a dot in it.
StoreAssumption == Archive \notin Ids /\ None \notin Clients \cup Packages

\* No name is the beginning of another.
NamesUnrelated == \A n, m \in Names : <<n, m>> \in Prefixes <=> n = m

VARIABLES
    lock,       \* the holder of .woki-install.lock, or None
    cmd,        \* the command of each client
    installed,  \* the directory <name>, or None
    staging,    \* directories .<name>.<unique>.installing
    backups,    \* directories .<name>.<unique>.replaced
    promised    \* history: the version a finished command left, or None

vars == <<lock, cmd, installed, staging, backups, promised>>
disk == <<installed, staging, backups, promised>>

Kinds == {"archive", "unpacked", "remove"}
Steps == {"lock", "sweep", "restore", "purge", "stage", "copy", "commit", "swap",
          "drop", "discard", "remove", "unlock"}

Idle == [kind |-> "none"]
Commands == {Idle} \cup
    [kind : Kinds, id : Ids, version : Versions, replace : BOOLEAN,
     name : Names, step : Steps]

Artifacts == [name : Names, package : Packages]

Init == /\ lock = None
        /\ cmd = [c \in Clients |-> Idle]
        /\ installed = [n \in Names |-> None]
        /\ staging = {}
        /\ backups = {}
        /\ promised = [i \in Ids |-> None]

Goto(c, step) == cmd' = [cmd EXCEPT ![c].step = step]

(* Variants of definitions below, each with one plausible mistake. *)
Unswept(c) == cmd[c].step = "sweep" /\ Goto(c, "restore") /\ UNCHANGED <<lock, disk>>
Unrestored(c) == cmd[c].step = "restore" /\ Goto(c, "purge") /\ UNCHANGED <<lock, disk>>
KeepsLock(c) == /\ cmd[c].step = "unlock"
                /\ cmd' = [cmd EXCEPT ![c] = Idle]
                /\ UNCHANGED <<lock, disk>>

(* The name a command stages under, and the package it stages. *)
StagedAs(m) == IF m.kind = "archive" THEN Archive ELSE m.id
Staged(m) ==
    [name |-> StagedAs(m), package |-> [id |-> m.id, version |-> m.version, whole |-> TRUE]]
Part(a) == [a EXCEPT !.package.whole = FALSE]

(* Artifacts whose file name starts with the prefix that CleanupStaleArtifacts
   looks for. *)
Matching(artifacts, name) == {a \in artifacts : <<name, a.name>> \in Prefixes}

(* Where an error leads: nothing to clean up before the staging root exists. *)
Fail(c) ==
    Goto(c, IF cmd[c].step \in {"copy", "commit", "swap"}
               \/ (cmd[c].kind = "archive" /\ cmd[c].name # Archive)
            THEN "discard" ELSE "unlock")

----------------------------------------------------------------------------

(* A removal names no version and replaces nothing. *)
Begin(c) ==
    /\ cmd[c] = Idle
    /\ \E kind \in Kinds, i \in Ids, v \in Versions, r \in BOOLEAN :
          /\ kind = "remove" => ~r /\ v = CHOOSE any \in Versions : TRUE
          /\ cmd' = [cmd EXCEPT ![c] =
                 [kind |-> kind, id |-> i, version |-> v, replace |-> r,
                  name |-> IF kind = "archive" THEN Archive ELSE i, step |-> "lock"]]
    /\ UNCHANGED <<lock, disk>>

Acquire(c) ==
    /\ cmd[c].step = "lock"
    /\ lock = None
    /\ lock' = c
    /\ Goto(c, IF cmd[c].kind = "remove" THEN "remove" ELSE "sweep")
    /\ UNCHANGED disk

(* CleanupStaleArtifacts: the staging directories go first, *)
Sweep(c) ==
    LET stale == Matching(staging, cmd[c].name) IN
    /\ cmd[c].step = "sweep"
    /\ \/ /\ stale = {}
          /\ Goto(c, "restore")
          /\ UNCHANGED staging
       \/ \E a \in stale : staging' = staging \ {a} /\ UNCHANGED cmd
       \/ \E a \in stale : staging' = (staging \ {a}) \cup {Part(a)} /\ Fail(c)
    /\ UNCHANGED <<lock, installed, backups, promised>>

(* then a backup is restored if nothing is installed, *)
Restore(c) ==
    LET name == cmd[c].name
        stale == Matching(backups, name)
    IN
    /\ cmd[c].step = "restore"
    /\ \/ /\ installed[name] = None
          /\ \E b \in stale :
                /\ installed' = [installed EXCEPT ![name] = b.package]
                /\ backups' = backups \ {b}
          /\ Goto(c, "purge")
       \/ /\ installed[name] # None \/ stale = {}
          /\ Goto(c, "purge")
          /\ UNCHANGED <<installed, backups>>
       \/ /\ installed[name] = None /\ stale # {}
          /\ Fail(c)
          /\ UNCHANGED <<installed, backups>>
    /\ UNCHANGED <<lock, staging, promised>>

(* and the other backups are removed. *)
Purge(c) ==
    LET stale == Matching(backups, cmd[c].name) IN
    /\ cmd[c].step = "purge"
    /\ \/ /\ stale = {}
          /\ Goto(c, IF cmd[c].name = StagedAs(cmd[c]) THEN "stage" ELSE "commit")
          /\ UNCHANGED backups
       \/ \E b \in stale : backups' = backups \ {b} /\ UNCHANGED cmd
       \/ \E b \in stale : backups' = (backups \ {b}) \cup {Part(b)} /\ Fail(c)
    /\ UNCHANGED <<lock, installed, staging, promised>>

(* CreateStagingRoot *)
Stage(c) ==
    /\ cmd[c].step = "stage"
    /\ \/ staging' = staging \cup {Part(Staged(cmd[c]))} /\ Goto(c, "copy")
       \/ Fail(c) /\ UNCHANGED staging
    /\ UNCHANGED <<lock, installed, backups, promised>>

(* Copying or extracting, and validating what came out.  An archive says only
   now which extension it is: what that one left is cleaned up before it is
   committed. *)
Copy(c) ==
    /\ cmd[c].step = "copy"
    /\ \/ /\ staging' = (staging \ {Part(Staged(cmd[c]))}) \cup {Staged(cmd[c])}
          /\ cmd' = [cmd EXCEPT ![c].name = cmd[c].id,
                                ![c].step = IF cmd[c].kind = "archive" THEN "sweep" ELSE "commit"]
       \/ Fail(c) /\ UNCHANGED staging
    /\ UNCHANGED <<lock, installed, backups, promised>>

(* CommitStagedPackage: a first install is one rename; a replacement moves the
   installed package away first. *)
Commit(c) ==
    LET m == cmd[c] IN
    /\ m.step = "commit"
    /\ \/ /\ installed[m.id] = None
          /\ installed' = [installed EXCEPT ![m.id] = Staged(m).package]
          /\ promised' = [promised EXCEPT ![m.id] = m.version]
          /\ staging' = staging \ {Staged(m)}
          /\ Goto(c, "unlock")
          /\ UNCHANGED backups
       \/ /\ installed[m.id] # None
          /\ m.replace
          /\ backups' = backups \cup {[name |-> m.id, package |-> installed[m.id]]}
          /\ installed' = [installed EXCEPT ![m.id] = None]
          /\ Goto(c, "swap")
          /\ UNCHANGED <<staging, promised>>
       \/ Fail(c) /\ UNCHANGED disk
    /\ UNCHANGED lock

(* The second rename, or its rollback, which may fail as well. *)
Swap(c) ==
    LET m == cmd[c] IN
    /\ m.step = "swap"
    /\ \/ /\ installed' = [installed EXCEPT ![m.id] = Staged(m).package]
          /\ promised' = [promised EXCEPT ![m.id] = m.version]
          /\ staging' = staging \ {Staged(m)}
          /\ Goto(c, "drop")
          /\ UNCHANGED backups
       \/ \E b \in backups :
             /\ b.name = m.id
             /\ installed' = [installed EXCEPT ![m.id] = b.package]
             /\ backups' = backups \ {b}
             /\ Fail(c)
             /\ UNCHANGED <<staging, promised>>
       \/ Fail(c) /\ UNCHANGED disk
    /\ UNCHANGED lock

(* The backup is removed; if that fails the replacement stands all the same. *)
Drop(c) ==
    /\ cmd[c].step = "drop"
    /\ \E b \in backups :
          /\ b.name = cmd[c].id
          /\ \/ backups' = backups \ {b}
             \/ backups' = (backups \ {b}) \cup {Part(b)}
    /\ Goto(c, "unlock")
    /\ UNCHANGED <<lock, installed, staging, promised>>

(* ErrorWithCleanup *)
Discard(c) ==
    LET mine == {Staged(cmd[c]), Part(Staged(cmd[c]))} IN
    /\ cmd[c].step = "discard"
    /\ \/ staging' = staging \ mine
       \/ staging' = (staging \ mine) \cup {Part(Staged(cmd[c]))}
    /\ Goto(c, "unlock")
    /\ UNCHANGED <<lock, installed, backups, promised>>

(* The remove command of wokiext. *)
Remove(c) ==
    LET i == cmd[c].id IN
    /\ cmd[c].step = "remove"
    /\ promised' = [promised EXCEPT ![i] = None]
    /\ \/ installed' = [installed EXCEPT ![i] = None]
       \/ /\ installed[i] # None
          /\ installed' = [installed EXCEPT ![i].whole = FALSE]
    /\ Goto(c, "unlock")
    /\ UNCHANGED <<lock, staging, backups>>

Unlock(c) ==
    /\ cmd[c].step = "unlock"
    /\ lock' = None
    /\ cmd' = [cmd EXCEPT ![c] = Idle]
    /\ UNCHANGED disk

(* A process dies: the system closes its files, which releases the lock. *)
Crash(c) ==
    /\ cmd[c] # Idle
    /\ cmd' = [cmd EXCEPT ![c] = Idle]
    /\ lock' = IF lock = c THEN None ELSE lock
    /\ UNCHANGED disk

Step(c) == /\ cmd[c] # Idle
           /\ \/ Acquire(c) \/ Sweep(c) \/ Restore(c) \/ Purge(c) \/ Stage(c)
              \/ Copy(c) \/ Commit(c) \/ Swap(c) \/ Drop(c) \/ Discard(c)
              \/ Remove(c) \/ Unlock(c)

Next == \E c \in Clients : Begin(c) \/ Step(c) \/ Crash(c)

Spec == Init /\ [][Next]_vars

(* A process that holds the lock goes on until it releases it or dies. *)
Fairness == \A c \in Clients : WF_vars(Step(c) /\ lock = c)

FairSpec == Spec /\ Fairness

----------------------------------------------------------------------------

TypeOK ==
    /\ lock \in Clients \cup {None}
    /\ cmd \in [Clients -> Commands]
    /\ installed \in [Names -> Packages \cup {None}]
    /\ staging \subseteq Artifacts
    /\ backups \subseteq Artifacts
    /\ promised \in [Ids -> Versions \cup {None}]

(* What a command left installed is never lost, whoever dies when and whatever
   fails: until a later command replaces or removes it, it is in place and whole,
   or the next command on that extension finds it whole in a backup. *)
Recoverable ==
    \A i \in Ids : promised[i] # None =>
        LET kept == [id |-> i, version |-> promised[i], whole |-> TRUE] IN
        \/ installed[i] = kept
        \/ /\ installed[i] = None
           /\ {b \in backups : <<i, b.name>> \in Prefixes} = {[name |-> i, package |-> kept]}

(* An install that succeeds leaves no staging directory behind, neither its own
   nor one of an earlier command that died. *)
SuccessLeavesNoStaging ==
    [][\A c \in Clients :
          cmd[c] # Idle /\ cmd'[c] # Idle
             /\ cmd[c].step \in {"commit", "swap"} /\ installed'[cmd[c].id] = Staged(cmd[c]).package
             /\ cmd'[c].step \in {"unlock", "drop"}
          => Matching(staging', cmd[c].id) = {}]_vars
=============================================================================
