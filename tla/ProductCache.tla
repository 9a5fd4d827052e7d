---------------------------- MODULE ProductCache ----------------------------
(* The file of one product in the cache, shared by processes that store,     *)
(* load and remove it and may die: a lock directory, a temporary file, a     *)
(* rename, and a quarantine for what does not parse.                         *)
EXTENDS Naturals, FiniteSets

CONSTANTS
    Processes,
    MaxFaults,      \* bound: how often a process dies or the disk spoils the file
    None

\* Whoever made the lock directory is known by it.
CacheAssumption == None \notin Processes /\ MaxFaults \in Nat

VARIABLES
    file,       \* the file at Path(key)
    lockdir,    \* who made the lock directory, or None
    job,        \* what each process does
    faults,
    kept        \* history: a store answered Ok and nobody took the file away since

cache == <<file, lockdir, job, faults, kept>>

Files == {"none", "good", "bad"}
Places == {"idle", "read", "quarantine", "again", "lock", "write", "rename", "unlock"}
IdleJob == [op |-> "idle", at |-> "idle"]

InitCache == /\ file = "none"
             /\ lockdir = None
             /\ job = [p \in Processes |-> IdleJob]
             /\ faults = 0
             /\ kept = FALSE

(* Variants of definitions below, each with one plausible mistake. *)
RefusedUnlocks(p) == [op |-> "store", at |-> "unlock"]
OkAnyhow(renamed) == TRUE
LeavesLock(p) == lockdir

Refused(p) == IdleJob                   \* another process owns the lock
Succeeded(renamed) == renamed
Existing(p) == IF file = "none" THEN "lock" ELSE "read"
Released(p) == None

Goto(p, place) == job' = [job EXCEPT ![p].at = place]
Return(p) == job' = [job EXCEPT ![p] = IdleJob]

Start(p) ==
    /\ job[p].at = "idle"
    /\ \/ job' = [job EXCEPT ![p] = [op |-> "load", at |-> "read"]]
       \/ job' = [job EXCEPT ![p] = [op |-> "store", at |-> Existing(p)]]
    /\ UNCHANGED <<file, lockdir, faults, kept>>

(* Load.  A store that finds a good file has nothing to do. *)
Read(p) ==
    /\ job[p].at = "read"
    /\ CASE file = "bad" -> Goto(p, "quarantine") /\ UNCHANGED kept
         [] file = "good" -> Return(p) /\ kept' = (kept \/ job[p].op = "store")
         [] OTHER -> UNCHANGED kept /\ IF job[p].op = "store" THEN Goto(p, "lock") ELSE Return(p)
    /\ UNCHANGED <<file, lockdir, faults>>

(* Whatever is at the path by now moves to the quarantine, or nothing does. *)
Quarantine(p) ==
    /\ job[p].at \in {"quarantine", "again"}
    /\ \/ file' = "none" /\ kept' = FALSE
       \/ UNCHANGED <<file, kept>>
    /\ CASE job[p].op = "load" -> Return(p)
         [] job[p].at = "quarantine" -> Goto(p, "again")
         [] OTHER -> Goto(p, "lock")
    /\ UNCHANGED <<lockdir, faults>>

Lock(p) ==
    /\ job[p].at = "lock"
    /\ \/ lockdir = None /\ lockdir' = p /\ Goto(p, "write")
       \/ job' = [job EXCEPT ![p] = Refused(p)] /\ UNCHANGED lockdir
    /\ UNCHANGED <<file, faults, kept>>

Write(p) ==
    /\ job[p].at = "write"
    /\ Goto(p, "rename") \/ Goto(p, "unlock")
    /\ UNCHANGED <<file, lockdir, faults, kept>>

Rename(p) ==
    /\ job[p].at = "rename"
    /\ \E renamed \in BOOLEAN :
          /\ file' = IF renamed THEN "good" ELSE file
          /\ kept' = (kept \/ Succeeded(renamed))
    /\ Goto(p, "unlock")
    /\ UNCHANGED <<lockdir, faults>>

(* The destructor of the lock removes the directory. *)
Unlock(p) ==
    /\ job[p].at = "unlock"
    /\ lockdir' = Released(p)
    /\ Return(p)
    /\ UNCHANGED <<file, faults, kept>>

RemoveProduct(p) ==
    /\ job[p].at = "idle"
    /\ file' = "none"
    /\ kept' = FALSE
    /\ UNCHANGED <<lockdir, job, faults>>

(* A process that dies leaves its lock directory. *)
Die(p) ==
    /\ faults < MaxFaults /\ job[p].at # "idle"
    /\ faults' = faults + 1
    /\ Return(p)
    /\ UNCHANGED <<file, lockdir, kept>>

Spoil ==
    /\ faults < MaxFaults /\ file = "good"
    /\ faults' = faults + 1
    /\ file' = "bad"
    /\ kept' = FALSE
    /\ UNCHANGED <<lockdir, job>>

Work(p) == Read(p) \/ Quarantine(p) \/ Lock(p) \/ Write(p) \/ Rename(p) \/ Unlock(p)
NextCache == Spoil \/ \E p \in Processes : Start(p) \/ Work(p) \/ RemoveProduct(p) \/ Die(p)

SpecCache == InitCache /\ [][NextCache]_cache
----------------------------------------------------------------------------

TypeOK ==
    /\ file \in Files
    /\ lockdir \in Processes \cup {None}
    /\ job \in [Processes -> [op : {"idle", "load", "store"}, at : Places]]
    /\ faults \in 0 .. MaxFaults
    /\ kept \in BOOLEAN

Writing(p) == job[p].at \in {"write", "rename"}

(* One process at a time writes the product: a store that is refused the lock,
   fails or dies does not hand it to another that is still writing. *)
OneWriter == \A p \in Processes : Writing(p) => lockdir = p

(* A store that answered Ok has left a good file, though others load, store and
   quarantine at the same time, until one of them takes it away. *)
AnsweredIsStored == kept => file = "good"

(* A store that took the lock has given it back, unless its process died: comes
   to hold after every store. *)
LockGivenBack(p) == ~Writing(p) /\ (lockdir # p \/ faults > 0)
=============================================================================
