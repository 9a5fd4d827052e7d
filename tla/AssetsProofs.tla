---------------------------- MODULE AssetsProofs ----------------------------
(* What keeps what the asset module has answered, for any number of assets,   *)
(* loaders, processes and faults: the tables of the database lose no update,  *)
(* one process at a time writes a product, the graph of dependencies refuses  *)
(* the cycles and nothing else, and the watcher tells of every change.        *)
EXTENDS MCAssets, SequenceFacts

-----------------------------------------------------------------------------
(* The database and its reload.                                               *)

(* How much a hint that waits may still add to a revision, and the revisions   *)
(* of a table with that: each pump raises a revision once for a hint it takes. *)
Waits(hint) == IF hint = None THEN 0 ELSE 1
Within(table, hints, count) ==
    \A i \in Ids : table[i] # None => table[i].revision + Waits(hints[i]) <= count

(* So with the commits of the coordinator: each takes a hint that was pushed.  *)
Hinted(hints) == {i \in Ids : hints[i] # None}
Owing(p) == IF p.at = "scan" /\ p.noticed # {} THEN 1 ELSE 0
Bounded == /\ IsFiniteSet(Hinted(pending))
           /\ Cardinality(Hinted(pending)) + Owing(pump) <= pushes
           /\ epoch + Cardinality(Hinted(pending)) + Owing(pump) <= MaxEpoch + pushes
Revisions == /\ Within(records, pending, pushes) /\ Within(manifest, pending, pushes)
             /\ Within(pump.copy, pending, pushes)
             /\ \A l \in Loaders : Within(load[l].copy, pending, pushes)

(* A transaction that nobody came before holds the table, but for what it      *)
(* changed itself: the pump has revised what it noticed.                       *)
RevisedOrKept(copy, noticed, i) ==
    IF i \in noticed
    THEN records[i] # None /\ copy[i] # None /\ copy[i].revision > records[i].revision
    ELSE copy[i] = records[i]
PumpFollows ==
    pump.at = "scan" =>
        /\ pump.left \subseteq ripe /\ pump.epoch <= epoch
        /\ pump.epoch = epoch => \A i \in Ids : RevisedOrKept(pump.copy, pump.noticed, i)

Follows(m) ==
    /\ m.at # "idle" => m.id \in Ids
    /\ m.at = "commit" => /\ m.epoch < MaxEpoch /\ m.epoch <= epoch
                          /\ m.epoch = epoch => m.copy = records
    /\ m.at \in {"serialize", "rename"} => records[m.id] # None
    /\ m.at = "rename" => m.copy[m.id] # None /\ \A i \in acked : m.copy[i] # None
LoadsFollow == \A l \in Loaders : Follows(load[l])

(* No record is ever taken out of the table.                                   *)
Saved == \A i \in acked : records[i] # None /\ manifest[i] # None

ReloadInv == TypeOK /\ Bounded /\ Revisions /\ PumpFollows /\ LoadsFollow /\ Saved

-----------------------------------------------------------------------------
PumpType == [at : {"idle", "scan", "invalidate"}, left : SUBSET Ids,
             noticed : SUBSET Ids, epoch : 0 .. MaxEpoch + MaxPushes, copy : Tables]
LoadType == [at : {"idle", "commit", "serialize", "rename"}, id : Ids \cup {None},
             hash : Contents \cup {None}, epoch : 0 .. MaxEpoch + MaxPushes, copy : Tables]

LEMMA IdleTyped ==
  /\ IdlePump \in PumpType /\ IdlePump.at = "idle"
  /\ IdleLoad \in LoadType /\ IdleLoad.at = "idle"
  /\ \A hints, count : Within(IdlePump.copy, hints, count) /\ Within(IdleLoad.copy, hints, count)
<1>1. 0 \in 0 .. MaxEpoch + MaxPushes
  BY ReloadAssumption
<1>2. [i \in Ids |-> None] \in Tables
  BY DEF Tables
<1>3. \A i \in Ids : IdlePump.copy[i] = None /\ IdleLoad.copy[i] = None
  BY DEF IdlePump, IdleLoad
<1>4. \A hints, count : Within(IdlePump.copy, hints, count) /\ Within(IdleLoad.copy, hints, count)
  BY <1>3 DEF Within
<1> QED BY <1>1, <1>2, <1>4 DEF IdlePump, IdleLoad, PumpType, LoadType

(* A record is not None, and its revision is a number.                         *)
LEMMA RecordsAreRecords ==
  /\ \A t \in Tables, i \in Ids : t[i] # None => t[i] \in Records /\ t[i].revision \in Nat
  /\ \A r \in Records : r # None
BY ReloadAssumption DEF Tables, Records

(* A hint that waits was pushed.                                               *)
LEMMA HintsWerePushed ==
  ASSUME Bounded, pushes \in Nat
  PROVE  /\ Cardinality(Hinted(pending)) \in Nat /\ Owing(pump) \in {0, 1}
         /\ \A i \in Ids : Waits(pending[i]) \in {0, 1} /\ Waits(pending[i]) <= pushes
<1>1. Cardinality(Hinted(pending)) \in Nat /\ Owing(pump) \in {0, 1}
  BY FS_CardinalityType DEF Bounded, Owing
<1>2. ASSUME NEW i \in Ids PROVE Waits(pending[i]) \in {0, 1} /\ Waits(pending[i]) <= pushes
  <2>1. CASE pending[i] = None
    BY <2>1 DEF Waits
  <2>2. CASE pending[i] # None
    <3>1. i \in Hinted(pending)
      BY <2>2 DEF Hinted
    <3>2. Cardinality(Hinted(pending)) # 0
      BY <3>1, FS_EmptySet DEF Bounded
    <3> QED BY <1>1, <2>2, <3>2 DEF Bounded, Waits
  <2> QED BY <2>1, <2>2
<1> QED BY <1>1, <1>2

(* What is within its bound stays so while hints are taken, and when one is    *)
(* pushed and counted.                                                         *)
LEMMA WithinStays ==
  ASSUME NEW t \in Tables, NEW hints, NEW now, NEW count \in Nat, NEW next \in Nat,
         \A i \in Ids : Waits(now[i]) + count <= Waits(hints[i]) + next,
         Within(t, hints, count)
  PROVE  Within(t, now, next)
<1> SUFFICES ASSUME NEW i \in Ids, t[i] # None PROVE t[i].revision + Waits(now[i]) <= next
  BY DEF Within
<1>1. t[i].revision \in Nat /\ t[i].revision + Waits(hints[i]) <= count
  BY RecordsAreRecords DEF Within
<1>2. Waits(hints[i]) \in {0, 1} /\ Waits(now[i]) \in {0, 1}
  BY DEF Waits
<1> QED BY <1>1, <1>2

LEMMA RevisionsStay ==
  ASSUME TypeOK, Revisions, pushes \in Nat, pushes' \in Nat,
         \A i \in Ids : Waits(pending'[i]) + pushes <= Waits(pending[i]) + pushes'
  PROVE  /\ Within(records, pending', pushes') /\ Within(manifest, pending', pushes')
         /\ Within(pump.copy, pending', pushes')
         /\ \A l \in Loaders : Within(load[l].copy, pending', pushes')
<1>1. /\ records \in Tables /\ manifest \in Tables /\ pump.copy \in Tables
      /\ \A l \in Loaders : load[l].copy \in Tables
  BY DEF TypeOK
<1>2. \A t \in Tables : Within(t, pending, pushes) => Within(t, pending', pushes')
  BY WithinStays
<1> QED BY <1>1, <1>2 DEF Revisions

(* A record that is there stays there.                                         *)
LEMMA NoneIsDropped ==
  ASSUME TypeOK, PumpFollows, LoadsFollow, [Next]_vars
  PROVE  \A i \in Ids : records[i] # None => records'[i] # None
<1>1. CASE CommitPump
  <2>1. CASE UNCHANGED records
    BY <2>1
  <2>2. CASE NobodyElse(pump) /\ records' = pump.copy
    BY <1>1, <2>2 DEF CommitPump, NobodyElse, PumpFollows, RevisedOrKept
  <2> QED BY <1>1, <2>1, <2>2 DEF CommitPump
<1>2. ASSUME NEW l \in Loaders, CommitLoad(l)
      PROVE  \A i \in Ids : records[i] # None => records'[i] # None
  <2>1. CASE UNCHANGED records
    BY <2>1
  <2>2. CASE /\ NobodyElse(load[l])
             /\ records' = [load[l].copy EXCEPT ![load[l].id] = [hash |-> load[l].hash, revision |-> 0]]
    <3>1. load[l].copy = records /\ load[l].hash \in Contents \cup {None}
      BY <1>2, <2>2 DEF CommitLoad, NobodyElse, LoadsFollow, Follows, TypeOK
    <3>2. [hash |-> load[l].hash, revision |-> 0] \in Records
      BY <3>1, ReloadAssumption DEF Records
    <3>3. [hash |-> load[l].hash, revision |-> 0] # None
      BY <3>2, RecordsAreRecords
    <3> QED BY <2>2, <3>1, <3>3 DEF TypeOK, Tables
  <2> QED BY <1>2, <2>1, <2>2 DEF CommitLoad
<1>3. CASE UNCHANGED records
  BY <1>3
<1> QED BY <1>1, <1>2, <1>3 DEF Next, vars, Edit, Push, Ripen, Consider, BeginPump, Invalidate, Lock,
                                Serialize, Rename

-----------------------------------------------------------------------------
(* The steps.                                                                  *)
LEMMA ReloadInit == Init => ReloadInv
<1> SUFFICES ASSUME Init PROVE ReloadInv
  OBVIOUS
<1>1. TypeOK
  <2>1. 0 \in 0 .. MaxEpoch + MaxPushes /\ 0 \in 0 .. MaxPushes
    BY ReloadAssumption
  <2> QED BY <2>1, IdleTyped, ReloadAssumption DEF Init, TypeOK, Tables, PumpType, LoadType
<1>2. Bounded
  <2>1. Hinted(pending) = {} /\ Owing(pump) = 0
    BY IdleTyped DEF Init, Hinted, Owing
  <2> QED BY <2>1, FS_EmptySet, ReloadAssumption DEF Init, Bounded
<1>3. Revisions
  BY IdleTyped DEF Init, Revisions, Within
<1>4. PumpFollows /\ LoadsFollow /\ Saved
  BY IdleTyped DEF Init, PumpFollows, LoadsFollow, Follows, Saved
<1> QED BY <1>1, <1>2, <1>3, <1>4 DEF ReloadInv

\* What the loaders did is as it was when the table is.
LEMMA LoadersUndisturbed ==
  ASSUME LoadsFollow, Saved, UNCHANGED <<records, epoch, load, manifest, acked>>
  PROVE  LoadsFollow' /\ Saved'
BY DEF LoadsFollow, Follows, Saved

LEMMA EditStep ==
  ASSUME ReloadInv, NEW i \in Ids, Edit(i)
  PROVE  ReloadInv'
<1>1. source' \in [Ids -> Contents]
  BY DEF Edit, ReloadInv, TypeOK
<1>2. UNCHANGED <<records, epoch, coordinator, loaders>>
  BY DEF Edit
<1>3. TypeOK'
  BY <1>1, <1>2 DEF ReloadInv, TypeOK, coordinator, loaders
<1>4. Bounded' /\ Revisions' /\ PumpFollows'
  BY <1>2 DEF ReloadInv, Bounded, Revisions, PumpFollows, RevisedOrKept, coordinator, loaders
<1>5. LoadsFollow' /\ Saved'
  BY <1>2, LoadersUndisturbed DEF ReloadInv, loaders
<1> QED BY <1>3, <1>4, <1>5 DEF ReloadInv

LEMMA PushStep ==
  ASSUME ReloadInv, NEW i \in Ids, Push(i)
  PROVE  ReloadInv'
<1>0. /\ TypeOK /\ Bounded /\ Revisions /\ pushes \in Nat /\ epoch \in Nat
      /\ pump.at = "idle" /\ pushes' = pushes + 1 /\ pushes' \in 0 .. MaxPushes
  BY ReloadAssumption DEF ReloadInv, TypeOK, Push
<1>1. PICK hint \in Hints : pending' = [pending EXCEPT ![i] = hint]
  BY DEF Push
<1>2. pending' \in [Ids -> Hints \cup {None}] /\ \A j \in Ids : j # i => pending'[j] = pending[j]
  BY <1>0, <1>1 DEF TypeOK
<1>3. ripe' \subseteq {j \in Ids : pending'[j] # None}
  BY <1>0, <1>2 DEF Push, TypeOK
<1>4. TypeOK'
  BY <1>0, <1>2, <1>3 DEF Push, TypeOK, loaders
<1>5. Bounded'
  <2>1. Hinted(pending') \subseteq Hinted(pending) \cup {i}
    BY <1>2 DEF Hinted
  <2>2. /\ IsFiniteSet(Hinted(pending) \cup {i})
        /\ Cardinality(Hinted(pending) \cup {i}) <= Cardinality(Hinted(pending)) + 1
        /\ Cardinality(Hinted(pending)) \in Nat
    <3>1. IsFiniteSet(Hinted(pending))
      BY <1>0 DEF Bounded
    <3>2. Cardinality(Hinted(pending)) \in Nat
      BY <3>1, FS_CardinalityType
    <3>3. /\ IsFiniteSet(Hinted(pending) \cup {i})
          /\ \/ Cardinality(Hinted(pending) \cup {i}) = Cardinality(Hinted(pending))
             \/ Cardinality(Hinted(pending) \cup {i}) = Cardinality(Hinted(pending)) + 1
      BY <3>1, FS_AddElement
    <3> QED BY <3>2, <3>3
  <2>3. /\ IsFiniteSet(Hinted(pending'))
        /\ Cardinality(Hinted(pending')) <= Cardinality(Hinted(pending) \cup {i})
    BY <2>1, <2>2, FS_Subset
  <2>4. Owing(pump) = 0 /\ Owing(pump') = 0
    BY <1>0 DEF Owing, Push
  <2>5. Cardinality(Hinted(pending')) \in Nat /\ Cardinality(Hinted(pending) \cup {i}) \in Nat
    BY <2>2, <2>3, FS_CardinalityType
  <2>6. /\ Cardinality(Hinted(pending)) <= pushes
        /\ epoch + Cardinality(Hinted(pending)) <= MaxEpoch + pushes
    BY <1>0, <2>2, <2>4 DEF Bounded
  <2>7. /\ Cardinality(Hinted(pending')) <= pushes'
        /\ epoch + Cardinality(Hinted(pending')) <= MaxEpoch + pushes'
    BY <1>0, <2>2, <2>3, <2>5, <2>6, ReloadAssumption
  <2>8. epoch' = epoch
    BY DEF Push
  <2> QED BY <1>0, <2>3, <2>4, <2>5, <2>7, <2>8 DEF Bounded
<1>6. Revisions'
  <2>1. \A j \in Ids : Waits(pending'[j]) + pushes <= Waits(pending[j]) + pushes'
    BY <1>0, <1>2 DEF Waits
  <2>2. pushes' \in Nat
    BY <1>0
  <2> QED BY <1>0, <2>1, <2>2, RevisionsStay DEF Push, Revisions, loaders
<1>7. PumpFollows'
  BY <1>0 DEF Push, PumpFollows
<1>8. LoadsFollow' /\ Saved'
  BY LoadersUndisturbed DEF Push, ReloadInv, loaders
<1> QED BY <1>4, <1>5, <1>6, <1>7, <1>8 DEF ReloadInv

LEMMA RipenStep ==
  ASSUME ReloadInv, NEW i \in Ids, Ripen(i)
  PROVE  ReloadInv'
<1>1. TypeOK'
  BY DEF Ripen, ReloadInv, TypeOK, loaders
<1>2. Bounded' /\ Revisions' /\ PumpFollows'
  BY DEF Ripen, ReloadInv, Bounded, Revisions, PumpFollows, loaders
<1>3. LoadsFollow' /\ Saved'
  BY LoadersUndisturbed DEF Ripen, ReloadInv, loaders
<1> QED BY <1>1, <1>2, <1>3 DEF ReloadInv

LEMMA BeginPumpStep ==
  ASSUME ReloadInv, BeginPump
  PROVE  ReloadInv'
<1>0. TypeOK /\ pump' = [IdlePump EXCEPT !.at = "scan", !.epoch = epoch, !.copy = records, !.left = ripe]
  BY DEF ReloadInv, BeginPump
<1>1. /\ pump' \in PumpType /\ pump'.at = "scan" /\ pump'.epoch = epoch
      /\ pump'.copy = records /\ pump'.left = ripe /\ pump'.noticed = {}
  <2>1. /\ ripe \subseteq Ids /\ epoch \in 0 .. MaxEpoch + MaxPushes /\ records \in Tables
        /\ epoch \in Nat
    BY <1>0, ReloadAssumption DEF TypeOK
  <2> QED BY <1>0, <2>1 DEF PumpType, IdlePump
<1>2. TypeOK'
  BY <1>0, <1>1 DEF BeginPump, TypeOK, PumpType, loaders
<1>3. Bounded'
  <2>1. Owing(pump) = 0 /\ Owing(pump') = 0
    BY <1>1 DEF Owing, BeginPump
  <2> QED BY <2>1 DEF BeginPump, ReloadInv, Bounded
<1>4. Revisions'
  BY <1>1 DEF BeginPump, ReloadInv, Revisions, loaders
<1>5. PumpFollows'
  <2>1. epoch <= epoch
    BY <1>0, ReloadAssumption DEF TypeOK
  <2> QED BY <1>1, <2>1 DEF BeginPump, PumpFollows, RevisedOrKept
<1>6. LoadsFollow' /\ Saved'
  BY LoadersUndisturbed DEF BeginPump, ReloadInv, loaders
<1> QED BY <1>2, <1>3, <1>4, <1>5, <1>6 DEF ReloadInv

\* A revised record: newer than it was, and within the bound once its hint is
\* taken.
LEMMA RevisedTyped ==
  ASSUME ReloadInv, NEW i \in Ids, records[i] # None, pending[i] # None,
         NEW hash \in Contents \cup {None}
  PROVE  /\ Revised(records[i], hash) \in Records
         /\ Revised(records[i], hash).revision > records[i].revision
         /\ Revised(records[i], hash).revision <= pushes
<1>1. /\ records[i] \in Records /\ records[i].revision \in Nat
      /\ pushes \in 0 .. MaxPushes /\ pushes \in Nat
  BY RecordsAreRecords, ReloadAssumption DEF ReloadInv, TypeOK
<1>2. records[i].revision + 1 <= pushes
  BY DEF ReloadInv, Revisions, Within, Waits
<1>3. /\ Revised(records[i], hash).hash = hash
      /\ Revised(records[i], hash).revision = records[i].revision + 1
  BY DEF Revised
<1>4. records[i].revision + 1 \in 0 .. MaxPushes
  BY <1>1, <1>2, ReloadAssumption
<1> QED BY <1>1, <1>2, <1>3, <1>4 DEF Revised, Records

LEMMA ConsiderStep ==
  ASSUME ReloadInv, NEW i \in Ids, Consider(i)
  PROVE  ReloadInv'
<1>0. /\ TypeOK /\ Bounded /\ Revisions /\ PumpFollows /\ pushes \in Nat /\ epoch \in Nat
      /\ pump \in PumpType /\ pump.at = "scan" /\ i \in pump.left
      /\ pending[i] # None /\ pending' = [pending EXCEPT ![i] = None]
      /\ UNCHANGED <<source, records, epoch, pushes, load, mutex, manifest, acked>>
  BY ReloadAssumption DEF ReloadInv, TypeOK, PumpType, PumpFollows, Consider, Consumed, loaders
<1>1. /\ pending' \in [Ids -> Hints \cup {None}] /\ pending'[i] = None
      /\ \A j \in Ids : j # i => pending'[j] = pending[j]
  BY <1>0 DEF TypeOK
<1>2. \/ pump' = [pump EXCEPT !.left = @ \ {i}]
      \/ /\ records[i] # None
         /\ \E hash \in Contents \cup {None} :
               pump' = [pump EXCEPT !.left = @ \ {i}, !.copy[i] = Revised(records[i], hash),
                                    !.noticed = @ \cup {i}]
  <2>1. records[i] # None => records[i].hash \in Contents \cup {None}
    BY <1>0, RecordsAreRecords DEF TypeOK, Records
  <2> QED BY <2>1 DEF Consider
<1>3. /\ pump' \in PumpType /\ pump'.at = "scan" /\ pump'.epoch = pump.epoch
      /\ pump'.left = pump.left \ {i}
      /\ \/ pump'.copy = pump.copy /\ pump'.noticed = pump.noticed
         \/ /\ records[i] # None /\ pump'.noticed = pump.noticed \cup {i}
            /\ \A j \in Ids : j # i => pump'.copy[j] = pump.copy[j]
            /\ pump'.copy[i] # None /\ pump'.copy[i].revision > records[i].revision
            /\ pump'.copy[i].revision <= pushes
  <2>1. CASE pump' = [pump EXCEPT !.left = @ \ {i}]
    BY <1>0, <2>1 DEF PumpType
  <2>2. ASSUME NEW hash \in Contents \cup {None}, records[i] # None,
               pump' = [pump EXCEPT !.left = @ \ {i}, !.copy[i] = Revised(records[i], hash),
                                    !.noticed = @ \cup {i}]
        PROVE  <1>3
    <3>1. PICK r \in Records : /\ r = Revised(records[i], hash) /\ r # None
                               /\ r.revision > records[i].revision /\ r.revision <= pushes
      BY <1>0, <2>2, RevisedTyped, RecordsAreRecords
    <3>2. PICK copy \in Tables : copy = [pump.copy EXCEPT ![i] = r]
      BY <1>0 DEF PumpType, Tables
    <3>3. copy[i] = r /\ \A j \in Ids : j # i => copy[j] = pump.copy[j]
      BY <1>0, <3>2 DEF PumpType, Tables
    <3>4. pump' = [pump EXCEPT !.left = pump.left \ {i}, !.copy = copy,
                               !.noticed = pump.noticed \cup {i}]
      BY <1>0, <2>2, <3>1, <3>2 DEF PumpType
    <3>5. /\ pump' \in PumpType /\ pump'.at = "scan" /\ pump'.epoch = pump.epoch
          /\ pump'.left = pump.left \ {i} /\ pump'.copy = copy
          /\ pump'.noticed = pump.noticed \cup {i}
      BY <1>0, <3>4 DEF PumpType
    <3> QED BY <2>2, <3>1, <3>3, <3>5
  <2> QED BY <1>2, <2>1, <2>2
<1>4. ripe' = ripe \ {i}
  BY DEF Consider
<1>5. TypeOK'
  <2>1. ripe' \subseteq {j \in Ids : pending'[j] # None}
    BY <1>0, <1>1, <1>4 DEF TypeOK
  <2> QED BY <1>0, <1>1, <1>3, <2>1 DEF TypeOK, PumpType
<1>6. Bounded'
  <2>1. Hinted(pending') = Hinted(pending) \ {i} /\ i \in Hinted(pending)
    BY <1>0, <1>1 DEF Hinted
  <2>2. IsFiniteSet(Hinted(pending))
    BY <1>0 DEF Bounded
  <2>3. /\ IsFiniteSet(Hinted(pending'))
        /\ Cardinality(Hinted(pending')) = Cardinality(Hinted(pending)) - 1
        /\ Cardinality(Hinted(pending)) \in Nat
    BY <2>1, <2>2, FS_RemoveElement, FS_CardinalityType
  <2>4. Owing(pump) \in {0, 1} /\ Owing(pump') \in {0, 1}
    BY DEF Owing
  <2> QED BY <1>0, <2>3, <2>4, ReloadAssumption DEF Bounded
<1>7. Revisions'
  <2>1. \A j \in Ids : Waits(pending'[j]) + pushes <= Waits(pending[j]) + pushes'
    <3> TAKE j \in Ids
    <3>1. pending'[j] = pending[j] \/ pending'[j] = None
      BY <1>1
    <3> QED BY <1>0, <3>1 DEF Waits
  <2>2. /\ Within(records, pending', pushes') /\ Within(manifest, pending', pushes')
        /\ Within(pump.copy, pending', pushes')
        /\ \A l \in Loaders : Within(load[l].copy, pending', pushes')
    BY <1>0, <2>1, RevisionsStay
  <2>3. Within(pump'.copy, pending', pushes')
    <3>1. CASE pump'.copy = pump.copy
      BY <2>2, <3>1
    <3>2. CASE /\ \A j \in Ids : j # i => pump'.copy[j] = pump.copy[j]
               /\ pump'.copy[i].revision <= pushes /\ pump'.copy[i] # None
      <4>1. pump'.copy[i].revision \in Nat
        BY <1>3, <3>2, RecordsAreRecords DEF PumpType
      <4>2. pump'.copy[i].revision + Waits(pending'[i]) <= pushes'
        BY <1>0, <1>1, <3>2, <4>1 DEF Waits
      <4> QED BY <2>2, <3>2, <4>2 DEF Within
    <3> QED BY <1>3, <3>1, <3>2
  <2> QED BY <1>0, <2>2, <2>3 DEF Revisions
<1>8. PumpFollows'
  <2>1. pump'.left \subseteq ripe' /\ pump'.epoch <= epoch'
    BY <1>0, <1>3, <1>4 DEF PumpFollows
  <2>2. ASSUME pump'.epoch = epoch', NEW j \in Ids PROVE RevisedOrKept(pump.copy, pump.noticed, j)
    BY <1>0, <1>3, <2>2 DEF PumpFollows
  <2>3. ASSUME pump'.epoch = epoch', NEW j \in Ids PROVE RevisedOrKept(pump.copy, pump.noticed, j)'
    <3>1. RevisedOrKept(pump.copy, pump.noticed, j)
      BY <2>2, <2>3
    <3> QED BY <1>0, <1>3, <3>1 DEF RevisedOrKept
  <2> QED BY <1>0, <1>3, <2>1, <2>3 DEF PumpFollows
<1>9. LoadsFollow' /\ Saved'
  BY <1>0, LoadersUndisturbed DEF ReloadInv
<1> QED BY <1>5, <1>6, <1>7, <1>8, <1>9 DEF ReloadInv

\* Whoever commits, the transactions of others do not follow the table any
\* more, and their tables are as they were.
LEMMA OthersFollow ==
  ASSUME ReloadInv, NEW m \in LoadType, Follows(m), epoch \in Nat, epoch' \in Nat, epoch' >= epoch,
         epoch' = epoch => records' = records,
         \A i \in Ids : records[i] # None => records'[i] # None,
         UNCHANGED acked
  PROVE  Follows(m)'
<1>1. m.at = "commit" => m.epoch <= epoch' /\ (m.epoch = epoch' => m.copy = records')
  <2>1. ASSUME m.at = "commit" PROVE m.epoch \in Nat /\ m.epoch <= epoch
    BY <2>1, ReloadAssumption DEF Follows, LoadType
  <2>2. ASSUME m.at = "commit", m.epoch = epoch' PROVE epoch' = epoch
    BY <2>1, <2>2
  <2> QED BY <2>1, <2>2 DEF Follows
<1> QED BY <1>1 DEF Follows

LEMMA CommitPumpStep ==
  ASSUME ReloadInv, CommitPump
  PROVE  ReloadInv'
<1>0. /\ TypeOK /\ Bounded /\ Revisions /\ PumpFollows /\ LoadsFollow /\ Saved
      /\ pushes \in Nat /\ epoch \in Nat
      /\ pump \in PumpType /\ pump.at = "scan"
      /\ UNCHANGED <<source, pending, ripe, pushes, load, mutex, manifest, acked>>
  BY ReloadAssumption DEF ReloadInv, TypeOK, PumpType, CommitPump, loaders
<1>1. /\ pump' \in PumpType /\ pump'.at # "scan" /\ Within(pump'.copy, pending, pushes)
  <2>1. CASE pump' = [pump EXCEPT !.at = "invalidate"]
    BY <1>0, <2>1 DEF PumpType, Revisions
  <2>2. CASE pump' = IdlePump
    BY <2>2, IdleTyped
  <2> QED BY <2>1, <2>2 DEF CommitPump
<1>2. \/ UNCHANGED <<records, epoch>>
      \/ /\ pump.noticed # {} /\ pump.epoch = epoch
         /\ records' = pump.copy /\ epoch' = epoch + 1
  BY DEF CommitPump, NobodyElse
<1>3. \A i \in Ids : records[i] # None => records'[i] # None
  BY <1>0, NoneIsDropped DEF Next
<1>4. Bounded' /\ epoch' \in Nat
  <2>1. IsFiniteSet(Hinted(pending)) /\ Cardinality(Hinted(pending)) \in Nat
    BY <1>0, FS_CardinalityType DEF Bounded
  <2>2. Owing(pump') = 0 /\ Owing(pump) \in {0, 1}
    BY <1>1 DEF Owing
  <2>3. CASE UNCHANGED epoch
    BY <1>0, <2>1, <2>2, <2>3, ReloadAssumption DEF Bounded
  <2>4. CASE pump.noticed # {} /\ epoch' = epoch + 1
    <3>1. Owing(pump) = 1
      BY <1>0, <2>4 DEF Owing
    <3> QED BY <1>0, <2>1, <2>2, <2>4, <3>1, ReloadAssumption DEF Bounded
  <2> QED BY <1>2, <2>3, <2>4
<1>5. TypeOK'
  <2>1. records' \in Tables
    BY <1>0, <1>2 DEF TypeOK, PumpType
  <2>2. epoch' \in 0 .. MaxEpoch + MaxPushes
    <3>1. /\ IsFiniteSet(Hinted(pending')) /\ Owing(pump') \in {0, 1}
          /\ epoch' + Cardinality(Hinted(pending')) + Owing(pump') <= MaxEpoch + pushes
      BY <1>0, <1>4 DEF Bounded, Owing
    <3>2. Cardinality(Hinted(pending')) \in Nat /\ pushes <= MaxPushes
      BY <1>0, <3>1, FS_CardinalityType, ReloadAssumption DEF TypeOK
    <3> QED BY <1>0, <1>4, <3>1, <3>2, ReloadAssumption
  <2> QED BY <1>0, <1>1, <2>1, <2>2 DEF TypeOK, PumpType
<1>6. Revisions'
  BY <1>0, <1>1, <1>2 DEF Revisions
<1>7. PumpFollows'
  BY <1>1 DEF PumpFollows
<1>8. LoadsFollow'
  <2>1. ASSUME NEW l \in Loaders PROVE Follows(load[l])'
    <3>1. PICK m \in LoadType : m = load[l] /\ m = load'[l] /\ Follows(m)
      BY <1>0 DEF TypeOK, LoadType, LoadsFollow
    <3>2. epoch' >= epoch /\ (epoch' = epoch => records' = records)
      BY <1>0, <1>2
    <3>3. Follows(m)'
      BY <1>0, <1>3, <1>4, <3>1, <3>2, OthersFollow
    <3> QED BY <3>1, <3>3 DEF Follows
  <2> QED BY <2>1 DEF LoadsFollow
<1>9. Saved'
  BY <1>0, <1>3 DEF Saved, TypeOK
<1> QED BY <1>4, <1>5, <1>6, <1>7, <1>8, <1>9 DEF ReloadInv

LEMMA InvalidateStep ==
  ASSUME ReloadInv, Invalidate
  PROVE  ReloadInv'
<1>1. TypeOK'
  BY IdleTyped DEF Invalidate, ReloadInv, TypeOK, PumpType, loaders
<1>2. Bounded'
  BY IdleTyped DEF Invalidate, ReloadInv, Bounded, Owing
<1>3. Revisions' /\ PumpFollows'
  BY IdleTyped DEF Invalidate, ReloadInv, Revisions, PumpFollows, loaders
<1>4. LoadsFollow' /\ Saved'
  BY LoadersUndisturbed DEF Invalidate, ReloadInv, loaders
<1> QED BY <1>1, <1>2, <1>3, <1>4 DEF ReloadInv

LEMMA LockStep ==
  ASSUME ReloadInv, NEW l \in Loaders, Lock(l)
  PROVE  ReloadInv'
<1>0. /\ TypeOK /\ Bounded /\ Revisions /\ PumpFollows /\ LoadsFollow /\ Saved
      /\ load[l].at = "idle" /\ mutex = None /\ epoch \in Nat /\ epoch < MaxEpoch
      /\ epoch \in 0 .. MaxEpoch + MaxPushes
      /\ UNCHANGED <<source, records, epoch, pending, ripe, pushes, pump, manifest, acked>>
  BY ReloadAssumption DEF ReloadInv, TypeOK, Lock, MayLock, coordinator
<1>1. PICK i \in Ids : load' = [load EXCEPT ![l] = [at |-> "commit", id |-> i, hash |-> source[i],
                                                  epoch |-> epoch, copy |-> records]]
  BY DEF Lock
<1>2. /\ load' \in [Loaders -> LoadType] /\ load'[l] \in LoadType
      /\ load'[l].at = "commit" /\ load'[l].id = i
      /\ load'[l].epoch = epoch /\ load'[l].copy = records
      /\ \A k \in Loaders : k # l => load'[k] = load[k]
  BY <1>0, <1>1 DEF TypeOK, LoadType
<1>3. TypeOK'
  <2>1. mutex' = l /\ \A k \in Loaders : load'[k].at # "idle" <=> mutex' = k
    BY <1>0, <1>2, ReloadAssumption DEF TypeOK, Lock
  <2> QED BY <1>0, <1>2, <2>1 DEF TypeOK, LoadType
<1>4. Bounded' /\ PumpFollows'
  BY <1>0 DEF Bounded, PumpFollows, RevisedOrKept
<1>5. Revisions'
  BY <1>0, <1>2 DEF Revisions
<1>6. LoadsFollow'
  <2>1. ASSUME NEW k \in Loaders PROVE Follows(load[k])'
    <3>1. CASE k = l
      BY <1>0, <1>2, <3>1 DEF Follows
    <3>2. CASE k # l
      BY <1>0, <1>2, <3>2 DEF LoadsFollow, Follows
    <3> QED BY <3>1, <3>2
  <2> QED BY <2>1 DEF LoadsFollow
<1>7. Saved'
  BY <1>0 DEF Saved
<1> QED BY <1>3, <1>4, <1>5, <1>6, <1>7 DEF ReloadInv

\* A loader that holds the mutex is the only one at work, and stays so or
\* gives it back.
LEMMA LoaderTyped ==
  ASSUME TypeOK, NEW l \in Loaders, load[l].at # "idle", NEW m \in LoadType,
         load' = [load EXCEPT ![l] = m],
         IF m.at = "idle" THEN mutex' = None ELSE UNCHANGED mutex
  PROVE  /\ load' \in [Loaders -> LoadType] /\ load'[l] = m
         /\ \A k \in Loaders : k # l => load'[k] = load[k] /\ load[k].at = "idle"
         /\ mutex' \in Loaders \cup {None}
         /\ \A k \in Loaders : load'[k].at # "idle" <=> mutex' = k
<1>1. load' \in [Loaders -> LoadType] /\ load'[l] = m /\ \A k \in Loaders : k # l => load'[k] = load[k]
  BY DEF TypeOK, LoadType
<1>2. mutex = l /\ \A k \in Loaders : k # l => load[k].at = "idle"
  BY DEF TypeOK
<1>3. None \notin Loaders
  BY ReloadAssumption
<1> QED BY <1>1, <1>2, <1>3

LEMMA CommitLoadStep ==
  ASSUME ReloadInv, NEW l \in Loaders, CommitLoad(l)
  PROVE  ReloadInv'
<1>0. /\ TypeOK /\ Bounded /\ Revisions /\ PumpFollows /\ LoadsFollow /\ Saved
      /\ pushes \in Nat /\ epoch \in Nat /\ pump \in PumpType
      /\ load[l] \in LoadType /\ load[l].at = "commit" /\ load[l].id \in Ids
      /\ UNCHANGED <<source, pending, ripe, pushes, pump, manifest, acked>>
  BY ReloadAssumption DEF ReloadInv, TypeOK, PumpType, LoadType, CommitLoad, LoadsFollow, Follows,
                          coordinator
<1>1. \/ /\ load[l].epoch = epoch /\ load[l].epoch < MaxEpoch /\ load[l].copy = records
         /\ epoch' = epoch + 1 /\ UNCHANGED mutex
         /\ load' = [load EXCEPT ![l] = [load[l] EXCEPT !.at = "serialize"]]
         /\ \E r \in Records : r # None /\ r.revision = 0 /\ records' = [records EXCEPT ![load[l].id] = r]
      \/ /\ UNCHANGED <<records, epoch>> /\ mutex' = None
         /\ load' = [load EXCEPT ![l] = IdleLoad]
  <2>1. CASE /\ NobodyElse(load[l]) /\ epoch' = epoch + 1 /\ UNCHANGED mutex
             /\ load' = [load EXCEPT ![l].at = "serialize"]
             /\ records' = [load[l].copy EXCEPT ![load[l].id] = [hash |-> load[l].hash, revision |-> 0]]
    <3>0. load[l].hash \in Contents \cup {None} /\ 0 \in 0 .. MaxPushes
      BY <1>0, ReloadAssumption DEF LoadType
    <3>1. PICK r \in Records : r = [hash |-> load[l].hash, revision |-> 0]
      BY <3>0 DEF Records
    <3>2. r # None /\ r.revision = 0
      BY <3>1, RecordsAreRecords
    <3>3. load[l].epoch = epoch /\ load[l].epoch < MaxEpoch /\ load[l].copy = records
      BY <1>0, <2>1 DEF NobodyElse, LoadsFollow, Follows
    <3> QED BY <2>1, <3>1, <3>2, <3>3
  <2> QED BY <2>1 DEF CommitLoad
<1>2. PICK m \in LoadType : /\ load' = [load EXCEPT ![l] = m]
                            /\ Within(m.copy, pending, pushes) /\ m.at \in {"idle", "serialize"}
                            /\ m.at = "serialize" => m.id = load[l].id
                            /\ IF m.at = "idle" THEN mutex' = None ELSE UNCHANGED mutex
                            /\ m.at = "serialize" => records'[load[l].id] # None
  <2>1. CASE UNCHANGED mutex /\ load' = [load EXCEPT ![l] = [load[l] EXCEPT !.at = "serialize"]]
             /\ \E r \in Records : r # None /\ records' = [records EXCEPT ![load[l].id] = r]
    <3>1. PICK m : m = [load[l] EXCEPT !.at = "serialize"]
      OBVIOUS
    <3>2. m \in LoadType /\ m.at = "serialize" /\ m.id = load[l].id /\ m.copy = load[l].copy
      BY <1>0, <3>1 DEF LoadType
    <3>3. records'[load[l].id] # None
      BY <1>0, <2>1 DEF TypeOK, Tables
    <3> QED BY <1>0, <2>1, <3>1, <3>2, <3>3 DEF Revisions
  <2>2. CASE mutex' = None /\ load' = [load EXCEPT ![l] = IdleLoad]
    BY <2>2, IdleTyped
  <2> QED BY <1>1, <2>1, <2>2
<1>3. /\ load' \in [Loaders -> LoadType] /\ load'[l] = m
      /\ \A k \in Loaders : k # l => load'[k] = load[k] /\ load[k].at = "idle"
      /\ mutex' \in Loaders \cup {None}
      /\ \A k \in Loaders : load'[k].at # "idle" <=> mutex' = k
  BY <1>0, <1>2, LoaderTyped
<1>4. \A i \in Ids : records[i] # None => records'[i] # None
  BY <1>0, NoneIsDropped DEF Next
<1>5. Bounded' /\ epoch' \in Nat
  <2>1. IsFiniteSet(Hinted(pending)) /\ Cardinality(Hinted(pending)) \in Nat /\ Owing(pump) \in {0, 1}
    BY <1>0, FS_CardinalityType DEF Bounded, Owing
  <2>2. CASE UNCHANGED epoch
    BY <1>0, <2>2 DEF Bounded
  <2>3. CASE epoch' = epoch + 1 /\ epoch < MaxEpoch
    BY <1>0, <2>1, <2>3, ReloadAssumption DEF Bounded
  <2> QED BY <1>1, <2>2, <2>3
<1>6. TypeOK'
  <2>1. records' \in Tables
    BY <1>0, <1>1 DEF TypeOK, Tables
  <2>2. epoch' \in 0 .. MaxEpoch + MaxPushes
    BY <1>0, <1>1, ReloadAssumption DEF TypeOK
  <2> QED BY <1>0, <1>3, <2>1, <2>2 DEF TypeOK, LoadType
<1>7. Revisions'
  <2>1. Within(records', pending, pushes)
    <3>1. CASE UNCHANGED records
      BY <1>0, <3>1 DEF Revisions
    <3>2. ASSUME NEW r \in Records, r.revision = 0, records' = [records EXCEPT ![load[l].id] = r]
          PROVE  Within(records', pending, pushes)
      <4>1. ASSUME NEW i \in Ids, records'[i] # None PROVE records'[i].revision + Waits(pending[i]) <= pushes
        <5>1. CASE i = load[l].id
          <6>1. records'[i].revision = 0
            BY <1>0, <3>2, <5>1 DEF TypeOK, Tables
          <6>2. Waits(pending[i]) \in {0, 1} /\ Waits(pending[i]) <= pushes
            BY <1>0, HintsWerePushed
          <6> QED BY <6>1, <6>2
        <5>2. CASE i # load[l].id
          BY <1>0, <3>2, <4>1, <5>2 DEF TypeOK, Tables, Revisions, Within
        <5> QED BY <5>1, <5>2
      <4> QED BY <4>1 DEF Within
    <3> QED BY <1>1, <3>1, <3>2
  <2>2. ASSUME NEW k \in Loaders PROVE Within(load'[k].copy, pending, pushes)
    BY <1>0, <1>2, <1>3 DEF Revisions
  <2> QED BY <1>0, <2>1, <2>2 DEF Revisions
<1>8. PumpFollows'
  <2>1. CASE UNCHANGED <<records, epoch>>
    BY <1>0, <2>1 DEF PumpFollows, RevisedOrKept
  <2>2. CASE epoch' = epoch + 1
    <3>1. pump.epoch \in Nat
      BY <1>0, ReloadAssumption DEF PumpType
    <3>2. pump.at = "scan" => pump.left \subseteq ripe /\ pump.epoch <= epoch' /\ pump.epoch # epoch'
      BY <1>0, <2>2, <3>1 DEF PumpFollows
    <3> QED BY <1>0, <3>2 DEF PumpFollows
  <2> QED BY <1>1, <2>1, <2>2
<1>9. LoadsFollow'
  <2>1. ASSUME NEW k \in Loaders PROVE Follows(load[k])'
    <3>1. CASE k = l
      BY <1>0, <1>2, <1>3, <3>1 DEF Follows
    <3>2. CASE k # l
      BY <1>3, <3>2 DEF Follows
    <3> QED BY <3>1, <3>2
  <2> QED BY <2>1 DEF LoadsFollow
<1>10. Saved'
  BY <1>0, <1>4 DEF Saved, TypeOK
<1> QED BY <1>5, <1>6, <1>7, <1>8, <1>9, <1>10 DEF ReloadInv

LEMMA SerializeStep ==
  ASSUME ReloadInv, NEW l \in Loaders, Serialize(l)
  PROVE  ReloadInv'
<1>0. /\ TypeOK /\ Bounded /\ Revisions /\ PumpFollows /\ LoadsFollow /\ Saved
      /\ load[l] \in LoadType /\ load[l].at = "serialize" /\ load[l].id \in Ids
      /\ records[load[l].id] # None /\ records \in Tables
      /\ UNCHANGED <<source, records, epoch, pending, ripe, pushes, pump, mutex, manifest, acked>>
  BY DEF ReloadInv, TypeOK, LoadType, Serialize, LoadsFollow, Follows, coordinator
<1>1. PICK m \in LoadType : /\ load' = [load EXCEPT ![l] = m]
                            /\ m.at = "rename" /\ m.id = load[l].id /\ m.copy = records
  <2>1. PICK m : m = [load[l] EXCEPT !.at = "rename", !.copy = records]
    OBVIOUS
  <2>2. load' = [load EXCEPT ![l] = m]
    BY <1>0, <2>1 DEF Serialize, TypeOK
  <2>3. m \in LoadType /\ m.at = "rename" /\ m.id = load[l].id /\ m.copy = records
    BY <1>0, <2>1 DEF LoadType
  <2> QED BY <2>2, <2>3
<1>2. /\ load' \in [Loaders -> LoadType] /\ load'[l] = m
      /\ \A k \in Loaders : k # l => load'[k] = load[k] /\ load[k].at = "idle"
      /\ mutex' \in Loaders \cup {None}
      /\ \A k \in Loaders : load'[k].at # "idle" <=> mutex' = k
  BY <1>0, <1>1, LoaderTyped
<1>3. TypeOK'
  BY <1>0, <1>2 DEF TypeOK, LoadType
<1>4. Bounded' /\ PumpFollows' /\ Saved'
  BY <1>0 DEF Bounded, PumpFollows, RevisedOrKept, Saved
<1>5. Revisions'
  BY <1>0, <1>1, <1>2 DEF Revisions
<1>6. LoadsFollow'
  <2>1. ASSUME NEW k \in Loaders PROVE Follows(load[k])'
    <3>1. CASE k = l
      BY <1>0, <1>1, <1>2, <3>1 DEF Follows, Saved
    <3>2. CASE k # l
      BY <1>2, <3>2 DEF Follows
    <3> QED BY <3>1, <3>2
  <2> QED BY <2>1 DEF LoadsFollow
<1> QED BY <1>3, <1>4, <1>5, <1>6 DEF ReloadInv

LEMMA RenameStep ==
  ASSUME ReloadInv, NEW l \in Loaders, Rename(l)
  PROVE  ReloadInv'
<1>0. /\ TypeOK /\ Bounded /\ Revisions /\ PumpFollows /\ LoadsFollow /\ Saved
      /\ load[l] \in LoadType /\ load[l].at = "rename" /\ load[l].id \in Ids
      /\ records[load[l].id] # None
      /\ load[l].copy[load[l].id] # None /\ \A i \in acked : load[l].copy[i] # None
      /\ load' = [load EXCEPT ![l] = IdleLoad] /\ mutex' = None
      /\ UNCHANGED <<source, records, epoch, pending, ripe, pushes, pump>>
  BY DEF ReloadInv, TypeOK, LoadType, Rename, LoadsFollow, Follows, coordinator
<1>1. /\ load' \in [Loaders -> LoadType] /\ load'[l] = IdleLoad
      /\ \A k \in Loaders : k # l => load'[k] = load[k] /\ load[k].at = "idle"
      /\ mutex' \in Loaders \cup {None}
      /\ \A k \in Loaders : load'[k].at # "idle" <=> mutex' = k
  BY <1>0, IdleTyped, LoaderTyped
<1>2. /\ manifest' \in Tables /\ acked' \subseteq Ids /\ Within(manifest', pending, pushes)
      /\ \A i \in acked' : manifest'[i] # None
  <2>1. CASE manifest' = load[l].copy /\ acked' = acked \cup {load[l].id}
    BY <1>0, <2>1 DEF TypeOK, LoadType, Revisions
  <2>2. CASE UNCHANGED <<manifest, acked>>
    BY <1>0, <2>2 DEF TypeOK, Revisions, Saved
  <2> QED BY <2>1, <2>2 DEF Rename
<1>3. TypeOK'
  BY <1>0, <1>1, <1>2 DEF TypeOK, LoadType
<1>4. Bounded' /\ PumpFollows'
  BY <1>0 DEF Bounded, PumpFollows, RevisedOrKept
<1>5. Revisions'
  <2>1. ASSUME NEW k \in Loaders PROVE Within(load'[k].copy, pending, pushes)
    BY <1>0, <1>1, IdleTyped DEF Revisions
  <2> QED BY <1>0, <1>2, <2>1 DEF Revisions
<1>6. LoadsFollow'
  <2>1. ASSUME NEW k \in Loaders PROVE Follows(load[k])'
    BY <1>1, IdleTyped DEF Follows
  <2> QED BY <2>1 DEF LoadsFollow
<1>7. Saved'
  <2>1. ASSUME NEW i \in acked' PROVE records[i] # None
    BY <1>0, <2>1 DEF Saved, Rename
  <2> QED BY <1>0, <1>2, <2>1 DEF Saved
<1> QED BY <1>3, <1>4, <1>5, <1>6, <1>7 DEF ReloadInv

LEMMA ReloadNext == ReloadInv /\ [Next]_vars => ReloadInv'
<1> SUFFICES ASSUME ReloadInv, [Next]_vars PROVE ReloadInv'
  OBVIOUS
<1>1. CASE UNCHANGED vars
  BY <1>1 DEF vars, ReloadInv, TypeOK, Bounded, Revisions, PumpFollows, RevisedOrKept, LoadsFollow,
              Follows, Saved
<1>2. ASSUME NEW i \in Ids, Edit(i) \/ Push(i) \/ Ripen(i) \/ Consider(i) PROVE ReloadInv'
  BY <1>2, EditStep, PushStep, RipenStep, ConsiderStep
<1>3. CASE BeginPump \/ CommitPump \/ Invalidate
  BY <1>3, BeginPumpStep, CommitPumpStep, InvalidateStep
<1>4. ASSUME NEW l \in Loaders, Lock(l) \/ CommitLoad(l) \/ Serialize(l) \/ Rename(l) PROVE ReloadInv'
  BY <1>4, LockStep, CommitLoadStep, SerializeStep, RenameStep
<1> QED BY <1>1, <1>2, <1>3, <1>4 DEF Next

-----------------------------------------------------------------------------
(* What follows from it, step by step.                                         *)

LEMMA CommitsKeep ==
  ASSUME ReloadInv, [Next]_vars, NEW i \in Ids, records'[i] # records[i]
  PROVE  \/ i \in pump.noticed /\ pump'.at = "invalidate"
         \/ \E l \in Loaders : load[l].id = i /\ load'[l].at = "serialize"
<1>1. CASE CommitPump
  <2>1. NobodyElse(pump) /\ records' = pump.copy /\ pump' = [pump EXCEPT !.at = "invalidate"]
    BY <1>1 DEF CommitPump
  <2>2. RevisedOrKept(pump.copy, pump.noticed, i)
    BY <1>1, <2>1 DEF CommitPump, NobodyElse, ReloadInv, PumpFollows
  <2>3. pump'.at = "invalidate"
    BY <2>1 DEF ReloadInv, TypeOK
  <2> QED BY <2>1, <2>2, <2>3 DEF RevisedOrKept
<1>2. ASSUME NEW l \in Loaders, CommitLoad(l)
      PROVE  load[l].id = i /\ load'[l].at = "serialize"
  <2>1. /\ NobodyElse(load[l]) /\ load' = [load EXCEPT ![l].at = "serialize"]
        /\ records' = [load[l].copy EXCEPT ![load[l].id] = [hash |-> load[l].hash, revision |-> 0]]
    BY <1>2 DEF CommitLoad
  <2>2. load[l].copy = records
    BY <1>2, <2>1 DEF CommitLoad, NobodyElse, ReloadInv, LoadsFollow, Follows
  <2> QED BY <2>1, <2>2 DEF ReloadInv, TypeOK, Tables
<1>3. CASE UNCHANGED records
  BY <1>3
<1> QED BY <1>1, <1>2, <1>3 DEF Next, vars, Edit, Push, Ripen, Consider, BeginPump, Invalidate, Lock,
                                Serialize, Rename

LEMMA NoticedIsRaised ==
  ASSUME ReloadInv, [Next]_vars, pump.at = "scan", pump'.at = "invalidate", NEW i \in pump.noticed
  PROVE  records'[i] # None /\ records'[i].revision > records[i].revision
<1>0. pump \in PumpType /\ IdlePump.at = "idle"
  BY IdleTyped DEF ReloadInv, TypeOK, PumpType
<1>1. CASE CommitPump
  <2>1. NobodyElse(pump) /\ records' = pump.copy
    BY <1>0, <1>1 DEF CommitPump
  <2>2. RevisedOrKept(pump.copy, pump.noticed, i)
    BY <1>0, <2>1 DEF NobodyElse, ReloadInv, PumpFollows, PumpType
  <2> QED BY <2>1, <2>2 DEF RevisedOrKept
<1>2. CASE UNCHANGED pump
  BY <1>2
<1>3. ASSUME NEW k \in Ids, Consider(k) PROVE pump'.at = "scan"
  BY <1>0, <1>3 DEF Consider, PumpType
<1> QED BY <1>1, <1>2, <1>3 DEF Next, vars, Edit, Push, Ripen, BeginPump, Invalidate, Lock,
                                CommitLoad, Serialize, Rename, coordinator

-----------------------------------------------------------------------------
(* The file of one cached product.                                            *)

(* The lock directory is of the process between its creation and its removal:  *)
(* nobody removes the directory of another, also if that one has died.         *)
LockHeld == \A p \in Processes : job[p].at \in {"write", "rename", "unlock"} => lockdir = p

(* The inductive invariant.                                                    *)
CacheInv == Cache!TypeOK /\ LockHeld /\ Cache!AnsweredIsStored

-----------------------------------------------------------------------------
LEMMA GoesTo ==
  ASSUME Cache!TypeOK, NEW p \in Processes, NEW to \in Cache!Places, Cache!Goto(p, to)
  PROVE  /\ job' \in [Processes -> [op : {"idle", "load", "store"}, at : Cache!Places]]
         /\ job'[p].at = to /\ job'[p].op = job[p].op
         /\ \A q \in Processes : q # p => job'[q] = job[q]
<1>1. /\ job[p] \in [op : {"idle", "load", "store"}, at : Cache!Places]
      /\ job' = [job EXCEPT ![p] = [job[p] EXCEPT !.at = to]]
  BY DEF Cache!TypeOK, Cache!Goto
<1>2. /\ [job[p] EXCEPT !.at = to] \in [op : {"idle", "load", "store"}, at : Cache!Places]
      /\ [job[p] EXCEPT !.at = to].at = to
      /\ [job[p] EXCEPT !.at = to].op = job[p].op
  BY <1>1
<1> QED BY <1>1, <1>2 DEF Cache!TypeOK

LEMMA GoesBack ==
  ASSUME Cache!TypeOK, NEW p \in Processes, Cache!Return(p)
  PROVE  /\ job' \in [Processes -> [op : {"idle", "load", "store"}, at : Cache!Places]]
         /\ job'[p].at = "idle"
         /\ \A q \in Processes : q # p => job'[q] = job[q]
BY DEF Cache!TypeOK, Cache!Return, Cache!IdleJob, Cache!Places

(* A process that leaves the lock alone and does not come to hold it.          *)
LEMMA LockStays ==
  ASSUME LockHeld, NEW p \in Processes, UNCHANGED lockdir,
         \A q \in Processes : q # p => job'[q] = job[q],
         job'[p].at \in {"write", "rename", "unlock"} => job[p].at \in {"write", "rename"}
  PROVE  LockHeld'
BY DEF LockHeld

LEMMA CacheInit == Cache!CacheAssumption /\ Cache!InitCache => CacheInv
<1> SUFFICES ASSUME Cache!CacheAssumption, Cache!InitCache PROVE CacheInv
  OBVIOUS
<1>1. 0 \in 0 .. MaxFaults
  BY DEF Cache!CacheAssumption
<1>2. Cache!IdleJob \in [op : {"idle", "load", "store"}, at : Cache!Places] /\ Cache!IdleJob.at = "idle"
  BY DEF Cache!IdleJob, Cache!Places
<1>3. Cache!TypeOK
  BY <1>1, <1>2 DEF Cache!InitCache, Cache!TypeOK, Cache!Files
<1> QED BY <1>2, <1>3 DEF Cache!InitCache, CacheInv, LockHeld, Cache!AnsweredIsStored

LEMMA CacheNext ==
  ASSUME Cache!CacheAssumption, CacheInv, [Cache!NextCache]_(Cache!cache) PROVE CacheInv'
<1>0. Cache!TypeOK /\ LockHeld /\ Cache!AnsweredIsStored
  BY DEF CacheInv
<1>1. ASSUME NEW p \in Processes, Cache!Start(p) PROVE CacheInv'
  <2>1. PICK j \in [op : {"idle", "load", "store"}, at : {"read", "lock"}] :
          job' = [job EXCEPT ![p] = j]
    BY <1>1 DEF Cache!Start, Cache!Existing
  <2>2. /\ job' \in [Processes -> [op : {"idle", "load", "store"}, at : Cache!Places]]
        /\ job'[p].at \in {"read", "lock"}
        /\ \A q \in Processes : q # p => job'[q] = job[q]
    BY <1>0, <2>1 DEF Cache!TypeOK, Cache!Places
  <2>3. LockHeld'
    BY <1>0, <1>1, <2>2, LockStays DEF Cache!Start
  <2> QED BY <1>0, <1>1, <2>2, <2>3 DEF Cache!Start, CacheInv, Cache!TypeOK, Cache!AnsweredIsStored
<1>2. ASSUME NEW p \in Processes, Cache!Read(p) PROVE CacheInv'
  <2>1. Cache!Return(p) \/ \E to \in {"quarantine", "lock"} : Cache!Goto(p, to)
    BY <1>0, <1>2 DEF Cache!Read, Cache!TypeOK, Cache!Files
  <2>2. /\ job' \in [Processes -> [op : {"idle", "load", "store"}, at : Cache!Places]]
        /\ job'[p].at \in {"idle", "quarantine", "lock"}
        /\ \A q \in Processes : q # p => job'[q] = job[q]
    BY <1>0, <2>1, GoesTo, GoesBack DEF Cache!Places
  <2>3. LockHeld'
    BY <1>0, <1>2, <2>2, LockStays DEF Cache!Read
  <2>4. Cache!AnsweredIsStored' /\ kept' \in BOOLEAN
    BY <1>0, <1>2 DEF Cache!Read, Cache!AnsweredIsStored, Cache!TypeOK, Cache!Files
  <2> QED BY <1>0, <1>2, <2>2, <2>3, <2>4 DEF Cache!Read, CacheInv, Cache!TypeOK
<1>3. ASSUME NEW p \in Processes, Cache!Quarantine(p) PROVE CacheInv'
  <2>1. Cache!Return(p) \/ \E to \in {"again", "lock"} : Cache!Goto(p, to)
    BY <1>3 DEF Cache!Quarantine
  <2>2. /\ job' \in [Processes -> [op : {"idle", "load", "store"}, at : Cache!Places]]
        /\ job'[p].at \in {"idle", "again", "lock"}
        /\ \A q \in Processes : q # p => job'[q] = job[q]
    BY <1>0, <2>1, GoesTo, GoesBack DEF Cache!Places
  <2>3. LockHeld'
    BY <1>0, <1>3, <2>2, LockStays DEF Cache!Quarantine
  <2>4. Cache!AnsweredIsStored' /\ kept' \in BOOLEAN /\ file' \in Cache!Files
    <3>1. CASE file' = "none" /\ kept' = FALSE
      BY <3>1 DEF Cache!AnsweredIsStored, Cache!Files
    <3>2. CASE UNCHANGED <<file, kept>>
      BY <1>0, <3>2 DEF Cache!AnsweredIsStored, Cache!TypeOK
    <3> QED BY <1>3, <3>1, <3>2 DEF Cache!Quarantine
  <2> QED BY <1>0, <1>3, <2>2, <2>3, <2>4 DEF Cache!Quarantine, CacheInv, Cache!TypeOK
<1>4. ASSUME NEW p \in Processes, Cache!Lock(p) PROVE CacheInv'
  <2>1. CASE lockdir = None /\ lockdir' = p /\ Cache!Goto(p, "write")
    <3>1. \A q \in Processes : job[q].at \notin {"write", "rename", "unlock"}
      BY <1>0, <2>1 DEF LockHeld, Cache!CacheAssumption
    <3>2. /\ job' \in [Processes -> [op : {"idle", "load", "store"}, at : Cache!Places]]
          /\ \A q \in Processes : q # p => job'[q] = job[q]
      BY <1>0, <2>1, GoesTo DEF Cache!Places
    <3>3. LockHeld'
      BY <2>1, <3>1, <3>2 DEF LockHeld
    <3> QED BY <1>0, <1>4, <2>1, <3>2, <3>3 DEF Cache!Lock, CacheInv, Cache!TypeOK, Cache!AnsweredIsStored
  <2>2. CASE Cache!Return(p) /\ UNCHANGED lockdir
    <3>1. LockHeld'
      BY <1>0, <2>2, GoesBack, LockStays
    <3> QED BY <1>0, <1>4, <2>2, <3>1, GoesBack DEF Cache!Lock, CacheInv, Cache!TypeOK, Cache!AnsweredIsStored
  <2> QED BY <1>4, <2>1, <2>2 DEF Cache!Lock, Cache!Refused, Cache!Return
<1>5. ASSUME NEW p \in Processes, Cache!Write(p) \/ Cache!Rename(p) PROVE CacheInv'
  <2>1. /\ job[p].at \in {"write", "rename"} /\ UNCHANGED <<lockdir, faults>>
        /\ \E to \in {"rename", "unlock"} : Cache!Goto(p, to)
    BY <1>5 DEF Cache!Write, Cache!Rename
  <2>2. /\ job' \in [Processes -> [op : {"idle", "load", "store"}, at : Cache!Places]]
        /\ \A q \in Processes : q # p => job'[q] = job[q]
    BY <1>0, <2>1, GoesTo DEF Cache!Places
  <2>3. LockHeld'
    BY <1>0, <2>1, <2>2, LockStays
  <2>4. Cache!AnsweredIsStored' /\ kept' \in BOOLEAN /\ file' \in Cache!Files
    BY <1>0, <1>5 DEF Cache!Write, Cache!Rename, Cache!Succeeded, Cache!AnsweredIsStored, Cache!TypeOK, Cache!Files
  <2> QED BY <1>0, <2>1, <2>2, <2>3, <2>4 DEF CacheInv, Cache!TypeOK
<1>6. ASSUME NEW p \in Processes, Cache!Unlock(p) PROVE CacheInv'
  <2>1. /\ job' \in [Processes -> [op : {"idle", "load", "store"}, at : Cache!Places]]
        /\ job'[p].at = "idle"
        /\ \A q \in Processes : q # p => job'[q] = job[q]
    BY <1>0, <1>6, GoesBack DEF Cache!Unlock
  <2>2. \A q \in Processes : q # p => job[q].at \notin {"write", "rename", "unlock"}
    BY <1>0, <1>6 DEF Cache!Unlock, LockHeld
  <2>3. LockHeld'
    BY <2>1, <2>2 DEF LockHeld
  <2> QED BY <1>0, <1>6, <2>1, <2>3 DEF Cache!Unlock, Cache!Released, CacheInv, Cache!TypeOK, Cache!AnsweredIsStored
<1>7. ASSUME NEW p \in Processes, Cache!RemoveProduct(p) PROVE CacheInv'
  BY <1>0, <1>7 DEF Cache!RemoveProduct, CacheInv, Cache!TypeOK, LockHeld, Cache!AnsweredIsStored, Cache!Files
<1>8. ASSUME NEW p \in Processes, Cache!Die(p) PROVE CacheInv'
  <2>1. /\ job' \in [Processes -> [op : {"idle", "load", "store"}, at : Cache!Places]]
        /\ job'[p].at = "idle"
        /\ \A q \in Processes : q # p => job'[q] = job[q]
    BY <1>0, <1>8, GoesBack DEF Cache!Die
  <2>2. LockHeld'
    BY <1>0, <1>8, <2>1, LockStays DEF Cache!Die
  <2>3. faults' \in 0 .. MaxFaults
    BY <1>0, <1>8 DEF Cache!Die, Cache!TypeOK, Cache!CacheAssumption
  <2> QED BY <1>0, <1>8, <2>1, <2>2, <2>3 DEF Cache!Die, CacheInv, Cache!TypeOK, Cache!AnsweredIsStored
<1>9. CASE Cache!Spoil
  <2>1. faults' \in 0 .. MaxFaults
    BY <1>0, <1>9 DEF Cache!Spoil, Cache!TypeOK, Cache!CacheAssumption
  <2> QED BY <1>0, <1>9, <2>1 DEF Cache!Spoil, CacheInv, Cache!TypeOK, LockHeld, Cache!AnsweredIsStored, Cache!Files
<1>10. CASE UNCHANGED Cache!cache
  BY <1>0, <1>10 DEF Cache!cache, CacheInv, Cache!TypeOK, LockHeld, Cache!AnsweredIsStored
<1> QED BY <1>1, <1>2, <1>3, <1>4, <1>5, <1>6, <1>7, <1>8, <1>9, <1>10 DEF Cache!NextCache, Cache!Work

-----------------------------------------------------------------------------
(* The graph of dependencies.  First the search for a cycle.                  *)

\* Sets are finite and are counted in that module as they are here.
LEMMA NodesCounted == ASSUME NEW S PROVE Deps!Cardinality(S) = Cardinality(S)
BY DEF Deps!Cardinality, Cardinality
LEMMA NodesFinite == Deps!GraphAssumption => IsFiniteSet(Nodes)
BY DEF Deps!GraphAssumption, Deps!IsFiniteSet, IsFiniteSet

Graphs == [Nodes -> SUBSET Nodes]
Searches == [ok : BOOLEAN, mark : [Nodes -> {"new", "visiting", "complete"}],
             path : Seq(Nodes), left : SUBSET (Nodes \X Nodes)]

(* What the depth-first search knows while it has met no cycle.  The assets    *)
(* that are visited are a path of the graph; of an edge from one of them that  *)
(* was followed the end is complete, or is the next one on the path; and among *)
(* the complete ones, whose edges stay among them, there is no cycle.          *)
PathMarked(s) ==
    /\ \A k \in 1..Len(s.path) : s.mark[s.path[k]] = "visiting"
    /\ \A i \in Nodes : s.mark[i] = "visiting" => \E k \in 1..Len(s.path) : s.path[k] = i
    /\ Distinct(s.path)
PathLinked(g, s) == \A k \in 1..(Len(s.path) - 1) : s.path[k + 1] \in g[s.path[k]]
NewUntouched(g, s) == \A i \in Nodes : s.mark[i] = "new" => \A j \in g[i] : <<i, j>> \in s.left
Followed(g, s, k, j) ==
    \/ <<s.path[k], j>> \in s.left
    \/ s.mark[j] = "complete"
    \/ k < Len(s.path) /\ j = s.path[k + 1]
PathFollowed(g, s) == \A k \in 1..Len(s.path) : \A j \in g[s.path[k]] : Followed(g, s, k, j)
CompleteClosed(g, s) ==
    \A i \in Nodes : s.mark[i] = "complete" => \A j \in g[i] : s.mark[j] = "complete"
NoKnot(g, s) ==
    \A ids \in SUBSET Nodes :
        (\A i \in ids : s.mark[i] = "complete" /\ g[i] \cap ids # {}) => ids = {}
LeftAreEdges(g, s) == \A e \in s.left : e[2] \in g[e[1]]

Sound(g, s) ==
    /\ PathMarked(s) /\ PathLinked(g, s) /\ NewUntouched(g, s) /\ PathFollowed(g, s)
    /\ CompleteClosed(g, s) /\ NoKnot(g, s) /\ LeftAreEdges(g, s)
SearchInv(g, s) == s \in Searches /\ IF s.ok THEN Sound(g, s) ELSE Deps!Cyclic(g)

-----------------------------------------------------------------------------
LEMMA VisitNew ==
  ASSUME NEW s \in Searches, NEW id \in Nodes, s.mark[id] = "new"
  PROVE  /\ Deps!Visit(s, id) \in Searches
         /\ Deps!Visit(s, id).ok = s.ok /\ Deps!Visit(s, id).left = s.left
         /\ Deps!Visit(s, id).path = Append(s.path, id)
         /\ Deps!Visit(s, id).mark[id] = "visiting"
         /\ \A j \in Nodes : j # id => Deps!Visit(s, id).mark[j] = s.mark[j]
<1>1. PICK m : m = [s.mark EXCEPT ![id] = "visiting"]
  OBVIOUS
<1>2. /\ m \in [Nodes -> {"new", "visiting", "complete"}] /\ m[id] = "visiting"
      /\ \A j \in Nodes : j # id => m[j] = s.mark[j]
  BY <1>1 DEF Searches
<1>3. PICK p : p = Append(s.path, id)
  OBVIOUS
<1>4. p \in Seq(Nodes)
  BY <1>3, AppendProperties DEF Searches
<1>5. Deps!Visit(s, id) = [s EXCEPT !.mark = m, !.path = p]
  BY <1>1, <1>3 DEF Deps!Visit, Searches
<1>6. /\ [s EXCEPT !.mark = m, !.path = p] \in Searches
      /\ [s EXCEPT !.mark = m, !.path = p].ok = s.ok
      /\ [s EXCEPT !.mark = m, !.path = p].left = s.left
      /\ [s EXCEPT !.mark = m, !.path = p].path = p
      /\ [s EXCEPT !.mark = m, !.path = p].mark = m
  BY <1>2, <1>4 DEF Searches
<1> QED BY <1>2, <1>3, <1>5, <1>6

\* A call of visit from a root, or over an edge that was not followed yet, to
\* an asset that is new.
LEMMA Entered ==
  ASSUME NEW g \in Graphs, NEW s \in Searches, NEW t \in Searches, NEW id \in Nodes, Sound(g, s),
         s.mark[id] = "new", t.mark[id] = "visiting", \A j \in Nodes : j # id => t.mark[j] = s.mark[j],
         t.path = Append(s.path, id),
         \/ s.path = <<>> /\ t.left = s.left
         \/ /\ s.path # <<>> /\ id \in g[s.path[Len(s.path)]]
            /\ t.left = s.left \ {<<s.path[Len(s.path)], id>>}
  PROVE  Sound(g, t)
<1>0. PICK n \in Nat : n = Len(s.path)
  BY LenProperties DEF Searches
<1>1. /\ Len(t.path) = n + 1 /\ t.path[n + 1] = id
      /\ \A k \in 1..n : t.path[k] = s.path[k] /\ s.path[k] \in Nodes
  BY <1>0, AppendProperties, ElementOfSeq DEF Searches
<1>2. \A k \in 1..n : s.mark[s.path[k]] = "visiting" /\ s.path[k] # id
  BY <1>0 DEF Sound, PathMarked
<1>3. PathMarked(t)
  <2>1. \A k \in 1..(n + 1) : k \in 1..n \/ k = n + 1
    OBVIOUS
  <2>2. \A k \in 1..(n + 1) : t.mark[t.path[k]] = "visiting"
    BY <1>1, <1>2, <2>1
  <2>3. ASSUME NEW i \in Nodes, t.mark[i] = "visiting" PROVE \E k \in 1..(n + 1) : t.path[k] = i
    <3>1. CASE i = id
      BY <1>1, <3>1
    <3>2. CASE i # id
      <4>1. PICK k \in 1..n : s.path[k] = i
        BY <1>0, <2>3, <3>2 DEF Sound, PathMarked
      <4> QED BY <1>1, <4>1
    <3> QED BY <3>1, <3>2
  <2>4. Distinct(t.path)
    <3>1. s.path \in Seq(Nodes) /\ Distinct(s.path) /\ id \notin Range(s.path)
      BY <1>0, <1>2, RangeEquality DEF Sound, PathMarked, Searches
    <3> QED BY <3>1, DistinctAppend
  <2> QED BY <1>1, <2>2, <2>3, <2>4 DEF PathMarked
<1>4. PathLinked(g, t)
  <2>1. ASSUME NEW k \in 1..n PROVE t.path[k + 1] \in g[t.path[k]]
    <3>1. CASE k = n
      <4>1. s.path # <<>>
        BY <1>0, <3>1, EmptySeq
      <4> QED BY <1>0, <1>1, <3>1, <4>1
    <3>2. CASE k # n
      <4>1. k \in 1..(n - 1) /\ k + 1 \in 1..n
        BY <3>2
      <4> QED BY <1>0, <1>1, <4>1 DEF Sound, PathLinked
    <3> QED BY <3>1, <3>2
  <2> QED BY <1>1, <2>1 DEF PathLinked
<1>5. NewUntouched(g, t)
  <2>1. ASSUME NEW i \in Nodes, t.mark[i] = "new", NEW j \in g[i] PROVE <<i, j>> \in t.left
    <3>1. i # id /\ s.mark[i] = "new" /\ <<i, j>> \in s.left
      BY <2>1 DEF Sound, NewUntouched
    <3>2. s.path # <<>> => s.path[Len(s.path)] # i
      <4>1. s.path # <<>> => n \in 1..n
        BY <1>0, EmptySeq DEF Searches
      <4> QED BY <1>0, <1>2, <3>1, <4>1
    <3> QED BY <3>1, <3>2
  <2> QED BY <2>1 DEF NewUntouched
<1>6. PathFollowed(g, t)
  <2>1. ASSUME NEW k \in 1..n, NEW j \in g[t.path[k]] PROVE Followed(g, t, k, j)
    <3>1. Followed(g, s, k, j) /\ t.path[k] = s.path[k] /\ k < Len(t.path) /\ j \in Nodes
      BY <1>0, <1>1, <2>1 DEF Sound, PathFollowed, Graphs
    <3>2. CASE s.mark[j] = "complete"
      BY <3>1, <3>2 DEF Followed
    <3>3. CASE k < n /\ j = s.path[k + 1]
      <4>1. k + 1 \in 1..n
        BY <3>3
      <4> QED BY <1>1, <3>1, <3>3, <4>1 DEF Followed
    <3>4. CASE <<s.path[k], j>> \in s.left
      <4>1. CASE <<s.path[k], j>> \in t.left
        BY <3>1, <4>1 DEF Followed
      <4>2. CASE <<s.path[k], j>> \notin t.left
        <5>1. j = id /\ s.path[k] = s.path[n] /\ n \in 1..n
          BY <1>0, <3>4, <4>2, EmptySeq DEF Searches
        <5>2. k = n
          BY <1>0, <5>1 DEF Sound, PathMarked, Distinct
        <5> QED BY <1>1, <3>1, <5>1, <5>2 DEF Followed
      <4> QED BY <4>1, <4>2
    <3> QED BY <1>0, <3>1, <3>2, <3>3, <3>4 DEF Followed
  <2>2. ASSUME NEW j \in g[id] PROVE Followed(g, t, n + 1, j)
    <3>1. <<id, j>> \in s.left
      BY <2>2 DEF Sound, NewUntouched
    <3>2. s.path # <<>> => s.path[Len(s.path)] # id
      <4>1. s.path # <<>> => n \in 1..n
        BY <1>0, EmptySeq DEF Searches
      <4> QED BY <1>0, <1>2, <4>1
    <3> QED BY <1>1, <3>1, <3>2 DEF Followed
  <2>3. \A k \in 1..(n + 1) : k \in 1..n \/ k = n + 1
    OBVIOUS
  <2> QED BY <1>1, <2>1, <2>2, <2>3 DEF PathFollowed
<1>7. \A j \in Nodes : t.mark[j] = "complete" <=> s.mark[j] = "complete"
  OBVIOUS
<1>8. CompleteClosed(g, t) /\ NoKnot(g, t) /\ LeftAreEdges(g, t)
  <2>1. CompleteClosed(g, t)
    BY <1>7 DEF Sound, CompleteClosed, Graphs
  <2>2. NoKnot(g, t)
    BY <1>7 DEF Sound, NoKnot
  <2>3. LeftAreEdges(g, t)
    BY DEF Sound, LeftAreEdges
  <2> QED BY <2>1, <2>2, <2>3
<1> QED BY <1>3, <1>4, <1>5, <1>6, <1>8 DEF Sound

LEMMA ReturnFields ==
  ASSUME NEW s \in Searches, s.path # <<>>
  PROVE  /\ Deps!Return(s) \in Searches
         /\ Deps!Return(s).ok = s.ok /\ Deps!Return(s).left = s.left
         /\ Deps!Return(s).path = SubSeq(s.path, 1, Len(s.path) - 1)
         /\ Deps!Return(s).mark[s.path[Len(s.path)]] = "complete"
         /\ \A j \in Nodes : j # s.path[Len(s.path)] => Deps!Return(s).mark[j] = s.mark[j]
<1>0. s.path \in Seq(Nodes) /\ s.path[Len(s.path)] \in Nodes
  BY Shorter DEF Searches
<1>1. PICK m : m = [s.mark EXCEPT ![s.path[Len(s.path)]] = "complete"]
  OBVIOUS
<1>2. /\ m \in [Nodes -> {"new", "visiting", "complete"}] /\ m[s.path[Len(s.path)]] = "complete"
      /\ \A j \in Nodes : j # s.path[Len(s.path)] => m[j] = s.mark[j]
  BY <1>0, <1>1 DEF Searches
<1>3. PICK p : p = SubSeq(s.path, 1, Len(s.path) - 1)
  OBVIOUS
<1>4. p \in Seq(Nodes)
  BY <1>0, <1>3, Shorter
<1>5. Deps!Return(s) = [s EXCEPT !.mark = m, !.path = p]
  BY <1>1, <1>3 DEF Deps!Return, Searches
<1>6. /\ [s EXCEPT !.mark = m, !.path = p] \in Searches
      /\ [s EXCEPT !.mark = m, !.path = p].ok = s.ok
      /\ [s EXCEPT !.mark = m, !.path = p].left = s.left
      /\ [s EXCEPT !.mark = m, !.path = p].path = p
      /\ [s EXCEPT !.mark = m, !.path = p].mark = m
  BY <1>2, <1>4 DEF Searches
<1> QED BY <1>2, <1>3, <1>5, <1>6

\* A call of visit that has followed all its edges: they end at complete assets,
\* so that its asset closes no cycle with them.
LEMMA Returned ==
  ASSUME NEW g \in Graphs, NEW s \in Searches, Sound(g, s), s.path # <<>>, Deps!Ahead(s) = {}
  PROVE  Sound(g, Deps!Return(s))
<1>0. PICK n \in Nat : n = Len(s.path)
  BY LenProperties DEF Searches
<1>1. /\ n \in 1..n /\ \A k \in 1..n : s.path[k] \in Nodes
      /\ s.path \in Seq(Nodes)
  BY <1>0, EmptySeq, ElementOfSeq DEF Searches
<1>2. PICK id \in Nodes : id = s.path[n]
  BY <1>1
<1>3. PICK t \in Searches :
        /\ t = Deps!Return(s) /\ t.left = s.left /\ t.mark[id] = "complete"
        /\ \A j \in Nodes : j # id => t.mark[j] = s.mark[j]
        /\ Len(t.path) = n - 1 /\ t.path \in Seq(Nodes) /\ \A k \in 1..(n - 1) : t.path[k] = s.path[k]
  <2>1. PICK t : t = Deps!Return(s)
    OBVIOUS
  <2>2. /\ t \in Searches /\ t.left = s.left /\ t.path = SubSeq(s.path, 1, n - 1)
        /\ t.mark[id] = "complete" /\ \A j \in Nodes : j # id => t.mark[j] = s.mark[j]
    BY <1>0, <1>2, <2>1, ReturnFields
  <2>3. /\ Len(t.path) = n - 1 /\ t.path \in Seq(Nodes)
        /\ \A k \in 1..(n - 1) : t.path[k] = s.path[k]
    BY <1>0, <1>1, <2>2, Shorter
  <2> QED BY <2>1, <2>2, <2>3
<1>4. /\ s.mark[id] = "visiting"
      /\ \A k \in 1..(n - 1) : s.mark[s.path[k]] = "visiting" /\ s.path[k] # id
  <2>1. \A k \in 1..(n - 1) : k \in 1..n /\ k # n
    OBVIOUS
  <2> QED BY <1>0, <1>1, <1>2, <2>1 DEF Sound, PathMarked, Distinct
<1>5. \A j \in g[id] : j \in Nodes /\ j # id /\ s.mark[j] = "complete" /\ t.mark[j] = "complete"
  <2> TAKE j \in g[id]
  <2>1. j \in Nodes
    BY DEF Graphs
  <2>2. <<id, j>> \notin s.left
    BY <1>0, <1>2 DEF Deps!Ahead
  <2>3. s.mark[j] = "complete"
    BY <1>0, <1>1, <1>2, <2>2 DEF Sound, PathFollowed, Followed
  <2> QED BY <1>3, <1>4, <2>1, <2>3
<1>6. PathMarked(t)
  <2>1. \A k \in 1..(n - 1) : k \in 1..n
    OBVIOUS
  <2>2. \A k \in 1..(n - 1) : t.mark[t.path[k]] = "visiting"
    <3> TAKE k \in 1..(n - 1)
    <3>1. s.path[k] \in Nodes /\ s.mark[s.path[k]] = "visiting" /\ s.path[k] # id
      BY <1>1, <1>4, <2>1
    <3>2. t.mark[s.path[k]] = s.mark[s.path[k]] /\ t.path[k] = s.path[k]
      BY <1>3, <3>1
    <3> QED BY <3>1, <3>2
  <2>3. ASSUME NEW i \in Nodes, t.mark[i] = "visiting" PROVE \E k \in 1..(n - 1) : t.path[k] = i
    <3>1. i # id /\ s.mark[i] = "visiting"
      BY <1>3, <2>3
    <3>2. PICK k \in 1..n : s.path[k] = i
      BY <1>0, <3>1 DEF Sound, PathMarked
    <3>3. k \in 1..(n - 1)
      BY <1>2, <3>1, <3>2
    <3> QED BY <1>3, <3>2, <3>3
  <2>4. Distinct(t.path)
    <3>1. \A j, k \in 1..n : s.path[j] = s.path[k] => j = k
      BY <1>0 DEF Sound, PathMarked, Distinct
    <3>2. \A j, k \in 1..(n - 1) : t.path[j] = t.path[k] => j = k
      BY <1>3, <2>1, <3>1
    <3> QED BY <1>3, <3>2 DEF Distinct
  <2> QED BY <1>3, <2>2, <2>3, <2>4 DEF PathMarked
<1>7. PathLinked(g, t)
  <2>1. \A k \in 1..((n - 1) - 1) : k \in 1..(n - 1) /\ k + 1 \in 1..(n - 1)
    OBVIOUS
  <2> QED BY <1>0, <1>3, <2>1 DEF Sound, PathLinked
<1>8. NewUntouched(g, t)
  BY <1>3 DEF Sound, NewUntouched
<1>9. PathFollowed(g, t)
  <2> SUFFICES ASSUME NEW k \in 1..(n - 1), NEW j \in g[t.path[k]] PROVE Followed(g, t, k, j)
    BY <1>3 DEF PathFollowed
  <2>1. k \in 1..n /\ t.path[k] = s.path[k]
    BY <1>3
  <2>2. Followed(g, s, k, j) /\ j \in Nodes
    BY <1>0, <1>1, <2>1 DEF Sound, PathFollowed, Graphs
  <2>3. CASE <<s.path[k], j>> \in s.left
    BY <1>3, <2>1, <2>3 DEF Followed
  <2>4. CASE s.mark[j] = "complete"
    BY <1>3, <1>4, <2>2, <2>4 DEF Followed
  <2>5. CASE k < n /\ j = s.path[k + 1]
    <3>1. CASE k + 1 = n
      BY <1>2, <1>3, <2>5, <3>1 DEF Followed
    <3>2. CASE k + 1 # n
      <4>1. k + 1 \in 1..(n - 1) /\ k < n - 1
        BY <3>2
      <4> QED BY <1>3, <2>5, <4>1 DEF Followed
    <3> QED BY <3>1, <3>2
  <2> QED BY <1>0, <2>2, <2>3, <2>4, <2>5 DEF Followed
<1>10. CompleteClosed(g, t)
  <2> SUFFICES ASSUME NEW i \in Nodes, t.mark[i] = "complete", NEW j \in g[i] PROVE t.mark[j] = "complete"
    BY DEF CompleteClosed
  <2>1. CASE i = id
    BY <1>5, <2>1
  <2>2. CASE i # id
    <3>1. s.mark[j] = "complete" /\ j \in Nodes
      BY <1>3, <2>2 DEF Sound, CompleteClosed, Graphs
    <3> QED BY <1>3, <1>4, <3>1
  <2> QED BY <2>1, <2>2
<1>11. NoKnot(g, t)
  <2> SUFFICES ASSUME NEW ids \in SUBSET Nodes, NEW i \in ids,
                      \A k \in ids : t.mark[k] = "complete" /\ g[k] \cap ids # {}
               PROVE  FALSE
    BY DEF NoKnot
  <2>1. \A k \in ids \ {id} : s.mark[k] = "complete" /\ g[k] \cap (ids \ {id}) # {}
    <3> TAKE k \in ids \ {id}
    <3>1. s.mark[k] = "complete"
      BY <1>3
    <3>2. PICK j \in ids : j \in g[k]
      OBVIOUS
    <3>3. s.mark[j] = "complete"
      BY <3>1, <3>2 DEF Sound, CompleteClosed
    <3>4. j # id
      BY <1>4, <3>3
    <3> QED BY <3>1, <3>2, <3>4
  <2>2. ids \ {id} = {}
    BY <2>1 DEF Sound, NoKnot
  <2>3. i = id
    BY <2>2
  <2>4. PICK j \in ids : j \in g[id]
    BY <2>3
  <2> QED BY <1>5, <2>2, <2>4
<1>12. LeftAreEdges(g, t)
  BY <1>3 DEF Sound, LeftAreEdges
<1> QED BY <1>3, <1>6, <1>7, <1>8, <1>9, <1>10, <1>11, <1>12 DEF Sound

\* An edge to a complete asset is followed and done with.
LEMMA Passed ==
  ASSUME NEW g \in Graphs, NEW s \in Searches, NEW t \in Searches, NEW id \in Nodes, Sound(g, s),
         s.path # <<>>, s.mark[id] = "complete", t.mark = s.mark, t.path = s.path,
         t.left = s.left \ {<<s.path[Len(s.path)], id>>}
  PROVE  Sound(g, t)
<1>1. PathMarked(t) /\ PathLinked(g, t) /\ CompleteClosed(g, t) /\ NoKnot(g, t) /\ LeftAreEdges(g, t)
  BY DEF Sound, PathMarked, PathLinked, CompleteClosed, NoKnot, LeftAreEdges
<1>2. NewUntouched(g, t)
  <2>1. s.mark[s.path[Len(s.path)]] = "visiting"
    <3>1. Len(s.path) \in 1..Len(s.path)
      BY EmptySeq, LenProperties DEF Searches
    <3> QED BY <3>1 DEF Sound, PathMarked
  <2> QED BY <2>1 DEF Sound, NewUntouched
<1>3. PathFollowed(g, t)
  <2> SUFFICES ASSUME NEW k \in 1..Len(s.path), NEW j \in g[s.path[k]] PROVE Followed(g, t, k, j)
    BY DEF PathFollowed
  <2>1. Followed(g, s, k, j)
    BY DEF Sound, PathFollowed
  <2>2. CASE <<s.path[k], j>> \in s.left
    <3>1. <<s.path[k], j>> \in t.left \/ j = id
      BY <2>2
    <3> QED BY <3>1 DEF Followed
  <2>3. CASE ~(<<s.path[k], j>> \in s.left)
    BY <2>1, <2>3 DEF Followed
  <2> QED BY <2>2, <2>3
<1> QED BY <1>1, <1>2, <1>3 DEF Sound

\* An edge to an asset that is being visited closes the path to a cycle.
LEMMA Closed ==
  ASSUME NEW g \in Graphs, NEW s \in Searches, NEW id \in Nodes, Sound(g, s),
         s.path # <<>>, s.mark[id] = "visiting", id \in g[s.path[Len(s.path)]]
  PROVE  Deps!Cyclic(g)
<1>0. PICK n \in Nat : n = Len(s.path)
  BY LenProperties DEF Searches
<1>1. /\ n \in 1..n /\ \A k \in 1..n : s.path[k] \in Nodes
  BY <1>0, EmptySeq, ElementOfSeq DEF Searches
<1>2. PICK ids \in SUBSET Nodes : ids = {s.path[k] : k \in 1..n}
  BY <1>1
<1>3. id \in ids
  BY <1>0, <1>2 DEF Sound, PathMarked
<1>4. ASSUME NEW i \in ids PROVE g[i] \cap ids # {}
  <2>1. PICK k \in 1..n : i = s.path[k]
    BY <1>2
  <2>2. CASE k = n
    BY <1>0, <1>3, <2>1, <2>2
  <2>3. CASE k # n
    <3>1. k \in 1..(n - 1) /\ k + 1 \in 1..n
      BY <2>3
    <3>2. s.path[k + 1] \in g[i] /\ s.path[k + 1] \in ids
      BY <1>0, <1>2, <2>1, <3>1 DEF Sound, PathLinked
    <3> QED BY <3>2
  <2> QED BY <2>2, <2>3
<1> QED BY <1>3, <1>4 DEF Deps!Cyclic

-----------------------------------------------------------------------------
(* The search ends: each turn leaves less to do.                               *)
Measure(s) == Cardinality(s.left) + 2 * Cardinality(Deps!New(s)) + Len(s.path)

LEMMA SearchesFinite ==
  ASSUME Deps!GraphAssumption, NEW s \in Searches
  PROVE  /\ IsFiniteSet(s.left) /\ IsFiniteSet(Deps!New(s)) /\ s.path \in Seq(Nodes)
         /\ Cardinality(s.left) \in Nat /\ Cardinality(Deps!New(s)) \in Nat /\ Len(s.path) \in Nat
         /\ Cardinality(Nodes) \in Nat /\ Measure(s) \in Nat
<1>1. s.left \in SUBSET (Nodes \X Nodes) /\ Deps!New(s) \in SUBSET Nodes /\ s.path \in Seq(Nodes)
  BY DEF Searches, Deps!New
<1>2. IsFiniteSet(Nodes \X Nodes)
  BY FS_Product, NodesFinite
<1>3. IsFiniteSet(s.left) /\ IsFiniteSet(Deps!New(s))
  BY <1>1, <1>2, FS_Subset, NodesFinite
<1>4. Cardinality(s.left) \in Nat /\ Cardinality(Deps!New(s)) \in Nat /\ Cardinality(Nodes) \in Nat
  BY <1>3, FS_CardinalityType, NodesFinite
<1>5. Len(s.path) \in Nat
  BY <1>1, LenProperties
<1> QED BY <1>1, <1>3, <1>4, <1>5 DEF Measure

\* What a turn adds to its measure is less than what it takes from it.
LEMMA LessToDo ==
  ASSUME NEW a \in Nat, NEW b \in Nat, NEW c \in Nat, NEW x \in Nat, NEW y \in Nat, NEW z \in Nat
  PROVE  /\ x <= a /\ y = b - 1 /\ z = c + 1 => (x + 2 * y + z) + 1 <= a + 2 * b + c
         /\ x = a - 1 /\ y = b /\ z = c => (x + 2 * y + z) + 1 <= a + 2 * b + c
OBVIOUS

\* Entering a new asset takes it out of the new ones and puts it on the path.
LEMMA EnteredMeasure ==
  ASSUME Deps!GraphAssumption, NEW s \in Searches, NEW t \in Searches, NEW id \in Nodes, s.mark[id] = "new",
         t.mark[id] = "visiting", \A j \in Nodes : j # id => t.mark[j] = s.mark[j],
         t.path = Append(s.path, id), Cardinality(t.left) <= Cardinality(s.left)
  PROVE  Measure(t) + 1 <= Measure(s)
<1>1. Deps!New(t) = Deps!New(s) \ {id} /\ id \in Deps!New(s)
  BY DEF Deps!New
<1>2. Cardinality(Deps!New(t)) = Cardinality(Deps!New(s)) - 1
  BY <1>1, SearchesFinite, FS_RemoveElement
<1>3. Len(t.path) = Len(s.path) + 1
  BY SearchesFinite, AppendProperties
<1>4. /\ Cardinality(s.left) \in Nat /\ Cardinality(Deps!New(s)) \in Nat /\ Len(s.path) \in Nat
      /\ Cardinality(t.left) \in Nat /\ Cardinality(Deps!New(t)) \in Nat /\ Len(t.path) \in Nat
  BY SearchesFinite
<1>5. (Cardinality(t.left) + 2 * Cardinality(Deps!New(t)) + Len(t.path)) + 1
        <= Cardinality(s.left) + 2 * Cardinality(Deps!New(s)) + Len(s.path)
  BY <1>2, <1>3, <1>4, LessToDo
<1> QED BY <1>5 DEF Measure

LEMMA TurnStep ==
  ASSUME Deps!GraphAssumption, NEW g \in Graphs, NEW s, SearchInv(g, s)
  PROVE  /\ SearchInv(g, Deps!Turn(s))
         /\ IF Deps!AtRest(s) THEN Deps!Turn(s) = s ELSE Measure(Deps!Turn(s)) + 1 <= Measure(s)
<1>0. s \in Searches
  BY DEF SearchInv
<1>1. CASE Deps!AtRest(s)
  BY <1>1 DEF Deps!Turn
<1>2. ASSUME ~Deps!AtRest(s) PROVE s.ok /\ Sound(g, s) /\ (s.path = <<>> => Deps!New(s) # {})
  BY <1>2 DEF Deps!AtRest, SearchInv
<1>3. CASE ~Deps!AtRest(s) /\ s.path = <<>>
  <2>1. PICK id \in Nodes : id = (CHOOSE i \in Deps!New(s) : TRUE) /\ s.mark[id] = "new"
    BY <1>2, <1>3 DEF Deps!New
  <2>2. Deps!Turn(s) = Deps!Visit(s, id)
    BY <1>3, <2>1 DEF Deps!Turn
  <2>3. Sound(g, Deps!Visit(s, id))
    BY <1>0, <1>2, <1>3, <2>1, VisitNew, Entered
  <2>4. Measure(Deps!Visit(s, id)) + 1 <= Measure(s)
    <3>1. Cardinality(Deps!Visit(s, id).left) <= Cardinality(s.left)
      BY <1>0, <2>1, VisitNew, SearchesFinite
    <3> QED BY <1>0, <2>1, <3>1, VisitNew, EnteredMeasure
  <2> QED BY <1>0, <1>2, <1>3, <2>1, <2>2, <2>3, <2>4, VisitNew DEF SearchInv
<1>4. CASE ~Deps!AtRest(s) /\ s.path # <<>> /\ Deps!Ahead(s) = {}
  <2>1. Deps!Turn(s) = Deps!Return(s)
    BY <1>4 DEF Deps!Turn
  <2>2. Deps!Return(s) \in Searches /\ Deps!Return(s).ok = s.ok /\ Sound(g, Deps!Return(s))
    BY <1>0, <1>2, <1>4, ReturnFields, Returned
  <2>3. Deps!New(Deps!Return(s)) = Deps!New(s)
    <3>1. Len(s.path) \in 1..Len(s.path)
      BY <1>0, <1>4, EmptySeq, LenProperties DEF Searches
    <3>2. s.mark[s.path[Len(s.path)]] = "visiting"
      BY <1>2, <1>4, <3>1 DEF Sound, PathMarked
    <3> QED BY <1>0, <1>4, <3>2, ReturnFields DEF Deps!New
  <2>4. Len(Deps!Return(s).path) = Len(s.path) - 1 /\ Deps!Return(s).left = s.left
    BY <1>0, <1>4, ReturnFields, Shorter, SearchesFinite
  <2>5. Measure(Deps!Return(s)) + 1 <= Measure(s)
    BY <1>0, <2>3, <2>4, SearchesFinite DEF Measure
  <2> QED BY <1>2, <1>4, <2>1, <2>2, <2>5 DEF SearchInv
<1>5. CASE ~Deps!AtRest(s) /\ s.path # <<>> /\ Deps!Ahead(s) # {}
  <2>1. PICK e \in Deps!Ahead(s) : e = CHOOSE f \in Deps!Ahead(s) : TRUE
    BY <1>5
  <2>2. PICK id \in Nodes : /\ id = e[2] /\ e = <<s.path[Len(s.path)], id>> /\ e \in s.left
                            /\ id \in g[s.path[Len(s.path)]]
    <3>1. e \in s.left /\ e \in Nodes \X Nodes /\ e[1] = s.path[Len(s.path)]
      BY <1>0, <2>1 DEF Deps!Ahead, Searches
    <3>2. e[2] \in Nodes /\ e = <<e[1], e[2]>> /\ e[2] \in g[e[1]]
      BY <1>2, <1>5, <3>1 DEF Sound, LeftAreEdges
    <3> QED BY <3>1, <3>2
  <2>3. PICK u \in Searches :
          /\ u = [s EXCEPT !.left = @ \ {e}] /\ u.left = s.left \ {e} /\ u.mark = s.mark
          /\ u.path = s.path /\ u.ok = s.ok
    <3>1. PICK d \in SUBSET (Nodes \X Nodes) : d = s.left \ {e}
      BY <1>0 DEF Searches
    <3>2. PICK u : u = [s EXCEPT !.left = d]
      OBVIOUS
    <3>3. u \in Searches /\ u.left = d /\ u.mark = s.mark /\ u.path = s.path /\ u.ok = s.ok
      BY <1>0, <3>2 DEF Searches
    <3> QED BY <3>1, <3>2, <3>3
  <2>4. Deps!Turn(s) = Deps!Visit(u, id)
    BY <1>5, <2>1, <2>2, <2>3 DEF Deps!Turn
  <2>5. Cardinality(u.left) = Cardinality(s.left) - 1 /\ Deps!New(u) = Deps!New(s)
    <3>1. IsFiniteSet(s.left) /\ e \in s.left
      BY <1>0, <2>2, SearchesFinite
    <3>2. Cardinality(s.left \ {e}) = Cardinality(s.left) - 1
      BY <3>1, FS_RemoveElement
    <3>3. Deps!New(u) = Deps!New(s)
      BY <2>3 DEF Deps!New
    <3> QED BY <2>3, <3>2, <3>3
  <2>6. CASE s.mark[id] = "new"
    <3>2. /\ Deps!Visit(u, id) \in Searches /\ Deps!Visit(u, id).mark[id] = "visiting"
          /\ \A j \in Nodes : j # id => Deps!Visit(u, id).mark[j] = s.mark[j]
          /\ Deps!Visit(u, id).path = Append(s.path, id) /\ Deps!Visit(u, id).left = u.left
          /\ Deps!Visit(u, id).ok = s.ok
      <4>1. u.mark[id] = "new"
        BY <2>3, <2>6
      <4>2. /\ Deps!Visit(u, id) \in Searches /\ Deps!Visit(u, id).ok = u.ok /\ Deps!Visit(u, id).left = u.left
            /\ Deps!Visit(u, id).path = Append(u.path, id) /\ Deps!Visit(u, id).mark[id] = "visiting"
            /\ \A j \in Nodes : j # id => Deps!Visit(u, id).mark[j] = u.mark[j]
        BY <4>1, VisitNew
      <4> QED BY <2>3, <4>2
    <3>1. Sound(g, Deps!Visit(u, id))
      <4>1. PICK t \in Searches : t = Deps!Visit(u, id)
        BY <3>2
      <4>2. /\ t.mark[id] = "visiting" /\ t.path = Append(s.path, id)
            /\ \A j \in Nodes : j # id => t.mark[j] = s.mark[j]
            /\ t.left = s.left \ {<<s.path[Len(s.path)], id>>}
        BY <2>2, <2>3, <3>2, <4>1
      <4>3. Sound(g, s) /\ s.path # <<>> /\ id \in g[s.path[Len(s.path)]]
        BY <1>2, <1>5, <2>2
      <4>4. Sound(g, t)
        BY <1>0, <2>6, <4>2, <4>3, Entered
      <4> QED BY <4>1, <4>4
    <3>3. Cardinality(Deps!Visit(u, id).left) <= Cardinality(s.left)
      BY <1>0, <2>5, <3>2, SearchesFinite
    <3>4. Measure(Deps!Visit(u, id)) + 1 <= Measure(s)
      BY <1>0, <2>6, <3>2, <3>3, EnteredMeasure
    <3> QED BY <1>2, <1>5, <2>4, <3>1, <3>2, <3>4 DEF SearchInv
  <2>7. CASE s.mark[id] = "visiting"
    <3>1. Deps!Cyclic(g)
      BY <1>0, <1>2, <1>5, <2>2, <2>7, Closed
    <3>2. Deps!Visit(u, id) = [u EXCEPT !.ok = FALSE]
      BY <2>3, <2>7 DEF Deps!Visit
    <3>3. /\ [u EXCEPT !.ok = FALSE] \in Searches /\ ~[u EXCEPT !.ok = FALSE].ok
          /\ [u EXCEPT !.ok = FALSE].left = u.left /\ [u EXCEPT !.ok = FALSE].path = u.path
          /\ [u EXCEPT !.ok = FALSE].mark = u.mark
      BY DEF Searches
    <3>4. Measure(Deps!Visit(u, id)) + 1 <= Measure(s)
      <4>1. PICK t \in Searches : t = Deps!Visit(u, id) /\ t.left = u.left /\ t.path = s.path /\ t.mark = s.mark
        BY <2>3, <3>2, <3>3
      <4>2. Cardinality(t.left) = Cardinality(s.left) - 1 /\ Deps!New(t) = Deps!New(s)
        BY <2>5, <4>1 DEF Deps!New
      <4>3. /\ Cardinality(s.left) \in Nat /\ Cardinality(Deps!New(s)) \in Nat /\ Len(s.path) \in Nat
            /\ Len(t.path) = Len(s.path)
        BY <1>0, <2>3, <4>1, SearchesFinite
      <4>4. Cardinality(t.left) \in Nat /\ Cardinality(Deps!New(t)) \in Nat /\ Len(t.path) \in Nat
        BY SearchesFinite
      <4>5. (Cardinality(t.left) + 2 * Cardinality(Deps!New(t)) + Len(t.path)) + 1
              <= Cardinality(s.left) + 2 * Cardinality(Deps!New(s)) + Len(s.path)
        BY <4>2, <4>3, <4>4, LessToDo
      <4> QED BY <4>1, <4>5 DEF Measure
    <3> QED BY <1>5, <2>4, <3>1, <3>2, <3>3, <3>4 DEF SearchInv
  <2>8. CASE s.mark[id] = "complete"
    <3>1. Deps!Visit(u, id) = u
      BY <2>3, <2>8 DEF Deps!Visit
    <3>2. Sound(g, u)
      BY <1>0, <1>2, <1>5, <2>2, <2>3, <2>8, Passed
    <3>3. Measure(u) + 1 <= Measure(s)
      <4>1. PICK t \in Searches : t = u
        BY <2>3
      <4>2. /\ Cardinality(t.left) = Cardinality(s.left) - 1
            /\ Deps!New(t) = Deps!New(s) /\ t.path = s.path
        BY <2>3, <2>5, <4>1 DEF Deps!New
      <4>3. /\ Cardinality(s.left) \in Nat /\ Cardinality(Deps!New(s)) \in Nat /\ Len(s.path) \in Nat
            /\ Cardinality(t.left) \in Nat /\ Cardinality(Deps!New(t)) \in Nat /\ Len(t.path) \in Nat
        BY <1>0, SearchesFinite
      <4>4. Cardinality(Deps!New(t)) = Cardinality(Deps!New(s)) /\ Len(t.path) = Len(s.path)
        BY <4>2
      <4>5. (Cardinality(t.left) + 2 * Cardinality(Deps!New(t)) + Len(t.path)) + 1
              <= Cardinality(s.left) + 2 * Cardinality(Deps!New(s)) + Len(s.path)
        BY <4>2, <4>3, <4>4, LessToDo
      <4> QED BY <4>1, <4>5 DEF Measure
    <3> QED BY <1>2, <1>5, <2>3, <2>4, <3>1, <3>2, <3>3 DEF SearchInv
  <2>9. s.mark[id] \in {"new", "visiting", "complete"}
    BY <1>0 DEF Searches
  <2> QED BY <2>6, <2>7, <2>8, <2>9
<1> QED BY <1>1, <1>3, <1>4, <1>5

LEMMA SearchBegins ==
  ASSUME NEW g \in Graphs
  PROVE  SearchInv(g, Deps!Begin(g)) /\ Deps!Begin(g).path = <<>> /\ Deps!New(Deps!Begin(g)) = Nodes
<1>1. /\ Deps!Begin(g) \in Searches /\ Deps!Begin(g).ok /\ Deps!Begin(g).path = <<>>
      /\ Deps!Begin(g).left = {e \in Nodes \X Nodes : e[2] \in g[e[1]]}
      /\ \A i \in Nodes : Deps!Begin(g).mark[i] = "new"
  BY DEF Deps!Begin, Searches
<1>2. PathMarked(Deps!Begin(g))
  BY <1>1, FewElements DEF PathMarked
<1>3. PathLinked(g, Deps!Begin(g)) /\ PathFollowed(g, Deps!Begin(g))
  BY <1>1 DEF PathLinked, PathFollowed
<1>4. NewUntouched(g, Deps!Begin(g))
  BY <1>1 DEF NewUntouched, Graphs
<1>5. CompleteClosed(g, Deps!Begin(g)) /\ NoKnot(g, Deps!Begin(g)) /\ LeftAreEdges(g, Deps!Begin(g))
  BY <1>1 DEF CompleteClosed, NoKnot, LeftAreEdges
<1> QED BY <1>1, <1>2, <1>3, <1>4, <1>5 DEF SearchInv, Sound, Deps!New

\* A search at rest has the answer.
LEMMA RestAnswers ==
  ASSUME NEW g \in Graphs, NEW s, SearchInv(g, s), Deps!AtRest(s)
  PROVE  s.ok <=> ~Deps!Cyclic(g)
<1>0. s \in Searches
  BY DEF SearchInv
<1>1. CASE ~s.ok
  BY <1>1 DEF SearchInv
<1>2. CASE s.ok
  <2>1. Sound(g, s) /\ s.path = <<>> /\ Deps!New(s) = {}
    BY <1>2 DEF SearchInv, Deps!AtRest
  <2>2. ASSUME NEW i \in Nodes PROVE s.mark[i] = "complete"
    <3>1. s.mark[i] # "visiting"
      BY <2>1, EmptySeq DEF Sound, PathMarked
    <3> QED BY <1>0, <2>1, <3>1 DEF Searches, Deps!New
  <2>3. ASSUME NEW ids \in SUBSET Nodes, \A i \in ids : g[i] \cap ids # {} PROVE ids = {}
    BY <2>1, <2>2, <2>3 DEF Sound, NoKnot
  <2> QED BY <1>2, <2>3 DEF Deps!Cyclic
<1> QED BY <1>1, <1>2

\* After as many turns as Turns allows the search is at rest.
LEMMA SearchEnds ==
  ASSUME Deps!GraphAssumption, NEW g \in Graphs
  PROVE  SearchInv(g, Deps!Search(g)) /\ Deps!AtRest(Deps!Search(g))
<1>1. PICK n \in Nat : n = Deps!Turns(g)
  BY SearchBegins, SearchesFinite, NodesCounted DEF Deps!Turns, SearchInv
<1>2. Measure(Deps!Begin(g)) = n
  <2>1. Deps!Begin(g) \in Searches /\ Len(Deps!Begin(g).path) = 0 /\ Deps!New(Deps!Begin(g)) = Nodes
    BY SearchBegins, EmptySeq DEF SearchInv
  <2> QED BY <1>1, <2>1, SearchesFinite, NodesCounted DEF Measure, Deps!Turns
<1>3. PICK W : W = {s \in Searches : SearchInv(g, s)}
  OBVIOUS
<1>4. Deps!Begin(g) \in W /\ \A s \in W : Deps!Turn(s) \in W
  BY <1>3, SearchBegins, TurnStep DEF SearchInv
<1>5. PICK step : step = [i \in 1..n |-> [s \in W |-> Deps!Turn(s)]]
  OBVIOUS
<1>6. step \in Steps(n, W)
  BY <1>4, <1>5 DEF Steps
<1>7. PICK f : FoldOf(f, n, W, Deps!Begin(g), step)
  BY <1>4, <1>6, FoldExists
<1>8. f \in [0..n -> W] /\ f[0] = Deps!Begin(g) /\ \A i \in 1..n : f[i] = step[i][f[i - 1]]
  BY <1>7 DEF FoldOf
<1> DEFINE Runs(h) == h = [i \in 0..n |-> IF i = 0 THEN Deps!Begin(g) ELSE Deps!Turn(h[i - 1])]
<1>9. Runs(f)
  <2>1. ASSUME NEW i \in 0..n PROVE f[i] = IF i = 0 THEN Deps!Begin(g) ELSE Deps!Turn(f[i - 1])
    <3>1. CASE i # 0
      <4>1. i \in 1..n /\ i - 1 \in 0..n /\ f[i - 1] \in W
        BY <1>8, <3>1
      <4> QED BY <1>5, <1>8, <3>1, <4>1
    <3> QED BY <1>8, <2>1, <3>1
  <2> QED BY <1>8, <2>1
<1>10. PICK search : search = CHOOSE h : Runs(h)
  OBVIOUS
<1>11. Runs(search)
  BY <1>9, <1>10
<1>12. Deps!Search(g) = search[n]
  BY <1>1, <1>10 DEF Deps!Search
<1>13. search[0] = Deps!Begin(g) /\ \A i \in 1..n : search[i] = Deps!Turn(search[i - 1])
  BY <1>11
<1> HIDE DEF Runs
<1>14. PICK V : V = [i \in 0..n |-> {s \in W : Deps!AtRest(s) \/ Measure(s) + i <= n}]
  OBVIOUS
<1>15. search[0] \in V[0]
  BY <1>2, <1>4, <1>13, <1>14
<1>16. ASSUME NEW i \in 1..n, search[i - 1] \in V[i - 1] PROVE search[i] \in V[i]
  <2>1. i - 1 \in 0..n /\ i \in 0..n
    OBVIOUS
  <2>2. PICK s \in W : s = search[i - 1] /\ (Deps!AtRest(s) \/ Measure(s) + (i - 1) <= n)
    BY <1>14, <1>16, <2>1
  <2>3. SearchInv(g, s) /\ s \in Searches
    BY <1>3
  <2>4. search[i] = Deps!Turn(s) /\ Deps!Turn(s) \in W /\ Deps!Turn(s) \in Searches
    BY <1>3, <1>4, <1>13, <2>2
  <2>5. Deps!AtRest(Deps!Turn(s)) \/ Measure(Deps!Turn(s)) + i <= n
    <3>1. CASE Deps!AtRest(s)
      BY <2>3, <3>1, TurnStep
    <3>2. CASE ~Deps!AtRest(s)
      <4>1. Measure(Deps!Turn(s)) + 1 <= Measure(s) /\ Measure(s) + (i - 1) <= n
        BY <2>2, <2>3, <3>2, TurnStep
      <4>2. Measure(s) \in Nat /\ Measure(Deps!Turn(s)) \in Nat
        BY <2>3, <2>4, SearchesFinite
      <4> QED BY <4>1, <4>2
    <3> QED BY <3>1, <3>2
  <2> QED BY <1>14, <2>1, <2>4, <2>5
<1>17. search[n] \in V[n]
  <2>1. \A i \in 0..n : search[i] \in V[i]
    BY <1>15, <1>16, KeptAlongFold
  <2> QED BY <2>1
<1>18. PICK s \in Searches : s = search[n] /\ SearchInv(g, s) /\ (Deps!AtRest(s) \/ Measure(s) + n <= n)
  BY <1>3, <1>14, <1>17
<1>19. Deps!AtRest(s)
  <2>1. CASE Measure(s) + n <= n
    <3>1. Cardinality(Deps!New(s)) = 0 /\ Len(s.path) = 0
      BY <2>1, SearchesFinite DEF Measure
    <3> QED BY <3>1, SearchesFinite, FS_EmptySet, EmptySeq DEF Deps!AtRest
  <2> QED BY <1>18, <2>1
<1> QED BY <1>12, <1>18, <1>19

\* The graphs that Validate accepts are those without a cycle.
LEMMA ValidIsAcyclic ==
  ASSUME Deps!GraphAssumption, NEW g \in Graphs
  PROVE  Deps!Valid(g) <=> ~Deps!Cyclic(g)
BY SearchEnds, RestAnswers DEF Deps!Valid

-----------------------------------------------------------------------------
(* The worklist.  What it has found depends on the asset and is followed back  *)
(* to it; what was taken from it has its dependents among the result.          *)
Works == [pending : SUBSET Nodes, result : SUBSET Nodes]
Reaches(g, o, i) ==
    \A ids \in SUBSET Nodes : (o \in ids /\ \A k \in ids : g[k] \subseteq ids) => i \in ids
WorkInv(g, a, w) ==
    /\ w \in Works
    /\ w.pending \subseteq w.result \cup {a}
    /\ \A o \in w.result : Reaches(g, o, a)
    /\ \A o \in w.result : g[o] \cap (w.result \cup {a}) # {}
    /\ \A k \in (w.result \cup {a}) \ w.pending : \A o \in Nodes : k \in g[o] => o \in w.result
WorkLeft(w) == Cardinality(w.pending) + Cardinality(Nodes \ w.result)

LEMMA WorkFinite ==
  ASSUME Deps!GraphAssumption, NEW w \in Works
  PROVE  /\ IsFiniteSet(w.pending) /\ IsFiniteSet(Nodes \ w.result)
         /\ Cardinality(w.pending) \in Nat /\ Cardinality(Nodes \ w.result) \in Nat
<1>1. w.pending \in SUBSET Nodes /\ Nodes \ w.result \in SUBSET Nodes
  BY DEF Works
<1>2. IsFiniteSet(w.pending) /\ IsFiniteSet(Nodes \ w.result)
  BY <1>1, FS_Subset, NodesFinite
<1> QED BY <1>2, FS_CardinalityType

LEMMA CollectStep ==
  ASSUME Deps!GraphAssumption, NEW g \in Graphs, back = Deps!Reversed(g), NEW a \in Nodes,
         NEW w, WorkInv(g, a, w)
  PROVE  /\ WorkInv(g, a, Deps!Collect(w))
         /\ IF w.pending = {} THEN Deps!Collect(w) = w ELSE WorkLeft(Deps!Collect(w)) + 1 <= WorkLeft(w)
<1>0. w \in Works /\ w.pending \subseteq w.result \cup {a} /\ w.pending \subseteq Nodes /\ w.result \subseteq Nodes
  BY DEF WorkInv, Works
<1>1. CASE w.pending = {}
  BY <1>1 DEF Deps!Collect
<1>2. CASE w.pending # {}
  <2>1. PICK current \in w.pending : current = CHOOSE i \in w.pending : TRUE
    BY <1>2
  <2>2. current \in Nodes /\ Deps!DirectDependents(current) = {o \in Nodes : current \in g[o]}
    BY <1>0 DEF Deps!DirectDependents, Deps!Reversed
  <2>3. PICK inserted \in SUBSET Nodes : inserted = {o \in Nodes : current \in g[o]} \ w.result
    OBVIOUS
  <2>4. PICK v \in Works : /\ v = Deps!Collect(w) /\ v.pending = (w.pending \ {current}) \cup inserted
                           /\ v.result = w.result \cup inserted
    <3>1. Deps!Collect(w) = [pending |-> (w.pending \ {current}) \cup inserted,
                        result |-> w.result \cup inserted]
      BY <1>2, <2>1, <2>2, <2>3 DEF Deps!Collect
    <3>2. (w.pending \ {current}) \cup inserted \in SUBSET Nodes /\ w.result \cup inserted \in SUBSET Nodes
      BY <1>0
    <3>3. Deps!Collect(w) \in Works
      BY <3>1, <3>2 DEF Works
    <3> QED BY <3>1, <3>3
  <2>5. \A o \in inserted : o \in Nodes /\ current \in g[o]
    BY <2>3
  <2>6. ASSUME NEW o \in v.result PROVE Reaches(g, o, a)
    <3>1. CASE o \in w.result
      BY <3>1 DEF WorkInv
    <3>2. CASE o \in inserted
      <4>1. current = a \/ Reaches(g, current, a)
        BY <1>0 DEF WorkInv
      <4> SUFFICES ASSUME NEW ids \in SUBSET Nodes, o \in ids, \A k \in ids : g[k] \subseteq ids
                   PROVE  a \in ids
        BY DEF Reaches
      <4>2. current \in ids
        BY <2>5, <3>2
      <4> QED BY <4>1, <4>2 DEF Reaches
    <3> QED BY <2>4, <3>1, <3>2
  <2>7. ASSUME NEW o \in v.result PROVE g[o] \cap (v.result \cup {a}) # {}
    <3>1. CASE o \in w.result
      BY <2>4, <3>1 DEF WorkInv
    <3>2. CASE o \in inserted
      BY <1>0, <2>4, <2>5, <3>2
    <3> QED BY <2>4, <3>1, <3>2
  <2>8. ASSUME NEW k \in (v.result \cup {a}) \ v.pending, NEW o \in Nodes, k \in g[o] PROVE o \in v.result
    <3>1. CASE k = current
      BY <2>3, <2>4, <2>8, <3>1
    <3>2. CASE k # current
      <4>1. k \in (w.result \cup {a}) \ w.pending
        BY <2>4, <3>2
      <4> QED BY <2>4, <2>8, <4>1 DEF WorkInv
    <3> QED BY <3>1, <3>2
  <2>9. v.pending \subseteq v.result \cup {a}
    BY <1>0, <2>4
  <2>10. WorkLeft(v) + 1 <= WorkLeft(w)
    <3>1. /\ IsFiniteSet(w.pending) /\ IsFiniteSet(Nodes \ w.result)
          /\ Cardinality(w.pending) \in Nat /\ Cardinality(Nodes \ w.result) \in Nat
      BY <1>0, WorkFinite
    <3>2. IsFiniteSet(inserted) /\ Cardinality(inserted) \in Nat
      BY FS_Subset, FS_CardinalityType, NodesFinite
    <3>3. IsFiniteSet(w.pending \ {current}) /\ Cardinality(w.pending \ {current}) = Cardinality(w.pending) - 1
      BY <3>1, FS_RemoveElement
    <3>4. Cardinality(v.pending) <= Cardinality(w.pending) - 1 + Cardinality(inserted)
      <4>1. /\ Cardinality((w.pending \ {current}) \cup inserted)
                  = Cardinality(w.pending \ {current}) + Cardinality(inserted)
                      - Cardinality((w.pending \ {current}) \cap inserted)
            /\ IsFiniteSet((w.pending \ {current}) \cup inserted)
        BY <3>2, <3>3, FS_Union
      <4>2. Cardinality((w.pending \ {current}) \cap inserted) \in Nat
        <5>1. (w.pending \ {current}) \cap inserted \in SUBSET inserted
          OBVIOUS
        <5>2. IsFiniteSet((w.pending \ {current}) \cap inserted)
          BY <3>2, <5>1, FS_Subset
        <5> QED BY <5>2, FS_CardinalityType
      <4> QED BY <2>4, <3>1, <3>2, <3>3, <4>1, <4>2
    <3>5. Cardinality(Nodes \ v.result) = Cardinality(Nodes \ w.result) - Cardinality(inserted)
      <4>1. Nodes \ v.result = (Nodes \ w.result) \ inserted /\ (Nodes \ w.result) \cap inserted = inserted
        BY <2>3, <2>4
      <4>2. Cardinality((Nodes \ w.result) \ inserted)
               = Cardinality(Nodes \ w.result) - Cardinality((Nodes \ w.result) \cap inserted)
        BY <3>1, FS_Difference
      <4> QED BY <4>1, <4>2
    <3>6. Cardinality(v.pending) \in Nat /\ Cardinality(Nodes \ v.result) \in Nat
      BY <2>4, WorkFinite
    <3> QED BY <3>1, <3>2, <3>4, <3>5, <3>6 DEF WorkLeft
  <2> QED BY <1>2, <2>4, <2>6, <2>7, <2>8, <2>9, <2>10 DEF WorkInv
<1> QED BY <1>1, <1>2

\* When nothing is pending the result is the assets that depend on this one.
LEMMA WorkAnswers ==
  ASSUME NEW g \in Graphs, ~Deps!Cyclic(g), NEW a \in Nodes, NEW w, WorkInv(g, a, w), w.pending = {}
  PROVE  w.result = {o \in Nodes \ {a} : Reaches(g, o, a)}
<1>0. w.result \in SUBSET Nodes
  BY DEF WorkInv, Works
<1>1. a \notin w.result
  <2> SUFFICES ASSUME a \in w.result PROVE FALSE
    OBVIOUS
  <2>1. \A o \in w.result : g[o] \cap w.result # {}
    BY DEF WorkInv
  <2> QED BY <1>0, <2>1 DEF Deps!Cyclic
<1>2. ASSUME NEW o \in Nodes \ {a}, Reaches(g, o, a) PROVE o \in w.result
  <2> SUFFICES ASSUME o \notin w.result PROVE FALSE
    OBVIOUS
  <2>1. PICK ids \in SUBSET Nodes : ids = Nodes \ (w.result \cup {a})
    OBVIOUS
  <2>2. ASSUME NEW k \in ids PROVE g[k] \subseteq ids
    <3>1. ASSUME NEW j \in g[k] PROVE j \in ids
      <4>1. j \in Nodes /\ k \in Nodes /\ k \notin w.result
        BY <2>1 DEF Graphs
      <4>2. j \notin w.result \cup {a}
        BY <3>1, <4>1 DEF WorkInv
      <4> QED BY <2>1, <4>1, <4>2
    <3> QED BY <3>1
  <2> QED BY <1>2, <2>1, <2>2 DEF Reaches
<1> QED BY <1>0, <1>1, <1>2 DEF WorkInv

LEMMA WorkEnds ==
  ASSUME Deps!GraphAssumption, NEW g \in Graphs, back = Deps!Reversed(g), ~Deps!Cyclic(g), NEW a \in Nodes
  PROVE  Deps!TransitiveDependents(a) = {o \in Nodes \ {a} : Reaches(g, o, a)}
<1>1. PICK n \in Nat : n = Cardinality(Nodes) + 1
  BY FS_CardinalityType, NodesFinite
<1>2. PICK W : W = {w \in Works : WorkInv(g, a, w)}
  OBVIOUS
<1>3. PICK b : b = [pending |-> {a}, result |-> {}]
  OBVIOUS
<1>4. b \in W /\ WorkLeft(b) = n
  <2>1. b \in Works /\ b.pending = {a} /\ b.result = {}
    BY <1>3 DEF Works
  <2>2. WorkInv(g, a, b)
    BY <2>1 DEF WorkInv
  <2>3. Cardinality({a}) = 1 /\ Nodes \ {} = Nodes
    BY FS_Singleton
  <2>4. Cardinality(Nodes) \in Nat
    BY FS_CardinalityType, NodesFinite
  <2> QED BY <1>1, <1>2, <2>1, <2>2, <2>3, <2>4 DEF WorkLeft
<1>5. \A w \in W : Deps!Collect(w) \in W
  BY <1>2, CollectStep DEF WorkInv
<1>6. PICK step : step = [i \in 1..n |-> [w \in W |-> Deps!Collect(w)]]
  OBVIOUS
<1>7. step \in Steps(n, W)
  BY <1>5, <1>6 DEF Steps
<1>8. PICK f : FoldOf(f, n, W, b, step)
  BY <1>4, <1>7, FoldExists
<1>9. f \in [0..n -> W] /\ f[0] = b /\ \A i \in 1..n : f[i] = step[i][f[i - 1]]
  BY <1>8 DEF FoldOf
<1> DEFINE Runs(h) == h = [i \in 0..n |-> IF i = 0 THEN [pending |-> {a}, result |-> {}] ELSE Deps!Collect(h[i - 1])]
<1>10. Runs(f)
  <2>1. ASSUME NEW i \in 0..n PROVE f[i] = IF i = 0 THEN b ELSE Deps!Collect(f[i - 1])
    <3>1. CASE i # 0
      <4>1. i \in 1..n /\ i - 1 \in 0..n /\ f[i - 1] \in W
        BY <1>9, <3>1
      <4> QED BY <1>6, <1>9, <3>1, <4>1
    <3> QED BY <1>9, <2>1, <3>1
  <2> QED BY <1>3, <1>9, <2>1
<1>11. PICK work : work = CHOOSE h : Runs(h)
  OBVIOUS
<1>12. Runs(work)
  BY <1>10, <1>11
<1>13. Deps!TransitiveDependents(a) = work[n].result
  BY <1>1, <1>11, NodesCounted DEF Deps!TransitiveDependents
<1>14. work[0] = b /\ \A i \in 1..n : work[i] = Deps!Collect(work[i - 1])
  <2>1. ASSUME NEW i \in 0..n PROVE work[i] = IF i = 0 THEN b ELSE Deps!Collect(work[i - 1])
    BY <1>3, <1>12
  <2>2. 0 \in 0..n /\ work[0] = b
    BY <2>1
  <2>3. ASSUME NEW i \in 1..n PROVE work[i] = Deps!Collect(work[i - 1])
    <3>1. i \in 0..n /\ i # 0
      OBVIOUS
    <3> QED BY <2>1, <3>1
  <2> QED BY <2>2, <2>3
<1> HIDE DEF Runs
<1>15. PICK V : V = [i \in 0..n |-> {w \in W : w.pending = {} \/ WorkLeft(w) + i <= n}]
  OBVIOUS
<1>16. work[0] \in V[0]
  BY <1>4, <1>14, <1>15
<1>17. ASSUME NEW i \in 1..n, work[i - 1] \in V[i - 1] PROVE work[i] \in V[i]
  <2>1. i - 1 \in 0..n /\ i \in 0..n
    OBVIOUS
  <2>2. PICK w \in W : w = work[i - 1] /\ (w.pending = {} \/ WorkLeft(w) + (i - 1) <= n)
    BY <1>15, <1>17, <2>1
  <2>3. WorkInv(g, a, w) /\ w \in Works
    BY <1>2
  <2>4. work[i] = Deps!Collect(w) /\ Deps!Collect(w) \in W /\ Deps!Collect(w) \in Works
    BY <1>2, <1>5, <1>14, <2>2
  <2>5. Deps!Collect(w).pending = {} \/ WorkLeft(Deps!Collect(w)) + i <= n
    <3>1. CASE w.pending = {}
      BY <2>3, <3>1, CollectStep
    <3>2. CASE w.pending # {}
      <4>1. WorkLeft(Deps!Collect(w)) + 1 <= WorkLeft(w) /\ WorkLeft(w) + (i - 1) <= n
        BY <2>2, <2>3, <3>2, CollectStep
      <4>2. WorkLeft(w) \in Nat /\ WorkLeft(Deps!Collect(w)) \in Nat
        BY <2>3, <2>4, WorkFinite DEF WorkLeft
      <4> QED BY <4>1, <4>2
    <3> QED BY <3>1, <3>2
  <2> QED BY <1>15, <2>1, <2>4, <2>5
<1>18. work[n] \in V[n]
  <2>1. \A i \in 0..n : work[i] \in V[i]
    BY <1>16, <1>17, KeptAlongFold
  <2> QED BY <2>1
<1>19. PICK w \in Works : w = work[n] /\ WorkInv(g, a, w) /\ (w.pending = {} \/ WorkLeft(w) + n <= n)
  BY <1>2, <1>15, <1>18
<1>20. w.pending = {}
  <2>1. CASE WorkLeft(w) + n <= n
    <3>1. /\ IsFiniteSet(w.pending) /\ Cardinality(w.pending) \in Nat
          /\ Cardinality(Nodes \ w.result) \in Nat
      BY WorkFinite
    <3>2. Cardinality(w.pending) + Cardinality(Nodes \ w.result) + n <= n
      BY <2>1 DEF WorkLeft
    <3>3. Cardinality(w.pending) = 0
      BY <3>1, <3>2
    <3> QED BY <3>1, <3>3, FS_EmptySet
  <2> QED BY <1>19, <2>1
<1> QED BY <1>13, <1>19, <1>20, WorkAnswers

-----------------------------------------------------------------------------
(* The graph as publications change it.                                        *)
GraphInv == edges \in Graphs /\ back = Deps!Reversed(edges) /\ ~Deps!Cyclic(edges)

LEMMA GraphInit == Deps!InitGraph => GraphInv
<1> SUFFICES ASSUME Deps!InitGraph PROVE GraphInv
  OBVIOUS
<1>1. edges \in Graphs /\ \A i \in Nodes : edges[i] = {}
  BY DEF Deps!InitGraph, Graphs
<1>2. Deps!Reversed(edges) = [i \in Nodes |-> {}]
  BY <1>1 DEF Deps!Reversed
<1>3. ~Deps!Cyclic(edges)
  BY <1>1 DEF Deps!Cyclic
<1> QED BY <1>1, <1>2, <1>3 DEF GraphInv, Deps!InitGraph

LEMMA GraphMoves ==
  ASSUME NEW g \in Graphs, edges' = g, back' = Deps!Reversed(g), ~Deps!Cyclic(g)
  PROVE  GraphInv'
<1>1. edges' \in Graphs
  OBVIOUS
<1>2. back' = Deps!Reversed(edges)'
  BY DEF Deps!Reversed
<1>3. ~Deps!Cyclic(edges)'
  BY DEF Deps!Cyclic
<1> QED BY <1>1, <1>2, <1>3 DEF GraphInv

LEMMA GraphNext ==
  ASSUME Deps!GraphAssumption, GraphInv, [Deps!NextGraph]_(Deps!graph) PROVE GraphInv'
<1>1. CASE UNCHANGED Deps!graph
  BY <1>1 DEF Deps!graph, GraphInv, Deps!Reversed, Deps!Cyclic
<1>2. ASSUME NEW i \in Nodes, Deps!RemoveAsset(i) PROVE GraphInv'
  <2>1. PICK g \in Graphs : g = [edges EXCEPT ![i] = {}]
    BY DEF GraphInv, Graphs
  <2>2. edges' = g /\ back' = Deps!Reversed(g)
    BY <1>2, <2>1 DEF Deps!RemoveAsset
  <2>3. \A j \in Nodes : g[j] \subseteq edges[j]
    BY <2>1 DEF GraphInv, Graphs
  <2>4. ~Deps!Cyclic(g)
    <3>1. ASSUME NEW ids \in (SUBSET Nodes) \ {{}}, \A j \in ids : g[j] \cap ids # {} PROVE FALSE
      <4>1. \A j \in ids : edges[j] \cap ids # {}
        BY <2>3, <3>1
      <4> QED BY <4>1 DEF GraphInv, Deps!Cyclic
    <3> QED BY <3>1 DEF Deps!Cyclic
  <2> QED BY <2>2, <2>4, GraphMoves
<1>3. ASSUME NEW i \in Nodes, NEW ids \in SUBSET Nodes, Deps!ReplaceDependencies(i, ids) PROVE GraphInv'
  <2>1. PICK g \in Graphs : g = [edges EXCEPT ![i] = ids]
    BY DEF GraphInv, Graphs
  <2>2. CASE Deps!Valid(g)
    <3>1. edges' = g /\ back' = Deps!Reversed(g)
      BY <1>3, <2>1, <2>2 DEF Deps!ReplaceDependencies
    <3>2. ~Deps!Cyclic(g)
      BY <2>2, ValidIsAcyclic
    <3> QED BY <3>1, <3>2, GraphMoves
  <2>3. CASE ~Deps!Valid(g)
    <3>1. UNCHANGED Deps!graph
      BY <1>3, <2>1, <2>3 DEF Deps!ReplaceDependencies
    <3> QED BY <1>1, <3>1
  <2> QED BY <2>2, <2>3
<1> QED BY <1>1, <1>2, <1>3 DEF Deps!NextGraph

LEMMA GraphAnswers ==
  ASSUME Deps!GraphAssumption, GraphInv
  PROVE  Deps!OnlyCyclesRefused /\ Deps!DependentsExact
<1>1. Deps!OnlyCyclesRefused
  <2> SUFFICES ASSUME NEW i \in Nodes, NEW ids \in SUBSET Nodes
               PROVE  Deps!Valid([edges EXCEPT ![i] = ids]) <=> ~Deps!Cyclic([edges EXCEPT ![i] = ids])
    BY DEF Deps!OnlyCyclesRefused
  <2>1. PICK g \in Graphs : g = [edges EXCEPT ![i] = ids]
    BY DEF GraphInv, Graphs
  <2>2. Deps!Valid(g) <=> ~Deps!Cyclic(g)
    BY ValidIsAcyclic
  <2> QED BY <2>1, <2>2
<1>2. Deps!DependentsExact
  <2> SUFFICES ASSUME NEW i \in Nodes
               PROVE  Deps!TransitiveDependents(i) = {o \in Nodes \ {i} : Deps!DependsOn(o, i)}
    BY DEF Deps!DependentsExact
  <2>1. Deps!TransitiveDependents(i) = {o \in Nodes \ {i} : Reaches(edges, o, i)}
    BY WorkEnds DEF GraphInv
  <2> QED BY <2>1 DEF Deps!DependsOn, Reaches
<1> QED BY <1>1, <1>2

-----------------------------------------------------------------------------
(* The watcher.  What the owner does not know of the tree is with it, in the   *)
(* list of events, or in an event of the kernel that will tell it or raise an  *)
(* alarm; while the watches are rebuilt, only the first two count.             *)
Unhandled == buffer \o notices
EntryNames == Names \cup {"", "file", "inner"}
NoticeKinds == {"create", "modify", "delete", "moved", "move_self", "delete_self", "ignored",
                "overflow"}
NoticeType == [watch : Nat, kind : NoticeKinds, name : EntryNames, directory : BOOLEAN]
Ending == place \in {"exit", "done"} \/ (place = "loop" /\ stopRequested)
Handling == place \in {"handle", "watch", "scan", "entry"}
Adding == place \in {"watch", "scan", "entry"}

OfRoot(e, live) ==
    /\ e.watch = live[Watcher!Root]
    /\ \/ e.kind \in {"create", "delete"} /\ e.directory /\ e.name \in Names
       \/ e.kind \in {"create", "modify", "delete"} /\ ~e.directory /\ e.name = "file"
       \/ e.kind = "moved" /\ e.directory
       \/ e.kind = "move_self" /\ ~e.directory
OfDirectory(e, live, last) ==
    /\ e.watch # live[Watcher!Root] /\ e.watch \in 1..last
    /\ ~e.directory
    /\ \/ e.kind \in {"create", "modify", "delete"} /\ e.name = "inner"
       \/ e.kind \in {"move_self", "delete_self"}
       \/ e.kind = "ignored" /\ \A i \in DOMAIN live : e.watch # live[i]
SoundNotice(e, live, last) ==
    (e.kind = "overflow" /\ e.watch = 0) \/ OfRoot(e, live) \/ OfDirectory(e, live, last)
\* After the event that says a watch is gone there is none of that watch.
GoneIsLast(s) == \A i, j \in 1..Len(s) : i < j /\ s[i].kind = "ignored" => s[j].watch # s[i].watch
SoundNotices(s, live, last) == (\A i \in 1..Len(s) : SoundNotice(s[i], live, last)) /\ GoneIsLast(s)
Alarming(s) == \E i \in 1..Len(s) : s[i].kind \in {"overflow", "moved"}

TreeTyped ==
    /\ leaf \in Nat /\ inner \in Nat /\ changes \in Nat
    /\ dir \in [name : EntryNames, id : Nat]
    /\ dir.id <= changes
    /\ dir = Watcher!Absent \/ (dir.id # 0 /\ dir.name \in Names)
    /\ dir = Watcher!Absent => inner = 0
WatchTyped ==
    /\ lastWatch \in Nat
    /\ DOMAIN watched \subseteq {Watcher!Root, dir.id}
    /\ \A i \in DOMAIN watched : watched[i] \in 1..lastWatch
    /\ \A i, j \in DOMAIN watched : watched[i] = watched[j] => i = j
    /\ DOMAIN watches \subseteq 1..lastWatch
    /\ \A w \in DOMAIN watches : watches[w] = << >> \/ \E n \in Names : watches[w] = <<n>>
    /\ Watcher!Root \in DOMAIN watched =>
          \A w \in DOMAIN watches : w # watched[Watcher!Root] => watches[w] # << >>
ThreadTyped ==
    /\ notices \in Seq(NoticeType) /\ buffer \in Seq(NoticeType)
    /\ ~Handling => buffer = << >>
    /\ rebuildRequested => Handling
    /\ rescanPending => Watcher!Rescan \in Watcher!Functions!Range(events)
    /\ events \in Seq(Seq(EntryNames))
    /\ Adding => buffer # << >> /\ Head(buffer).kind = "create" /\ Head(buffer).directory
    /\ place = "tree" => visit \subseteq Names \cup {"file"}
RootWatched ==
    /\ Unhandled # << >> \/ DOMAIN watched # {} => Watcher!Root \in DOMAIN watched
    /\ place # "root" /\ ~Ending => Watcher!Root \in DOMAIN watched
    /\ place = "root" => DOMAIN watched = {} /\ DOMAIN watches = {} /\ notices = << >>
    /\ Watcher!Root \in DOMAIN watched => watched[Watcher!Root] \in DOMAIN watches
         /\ watches[watched[Watcher!Root]] = << >>
UnhandledSound == SoundNotices(Unhandled, watched, lastWatch)
WatcherShape == TreeTyped /\ WatchTyped /\ ThreadTyped /\ RootWatched /\ UnhandledSound

Alarm == Alarming(Unhandled)
Creates(e, n) == e.kind = "create" /\ e.directory /\ e.name = n
\* Where a new directory is still to be watched, and where it is still to be searched.
ToWatch(i) == i = 1 => place \notin {"scan", "entry"}
ToSearch(i) == i = 1 /\ place = "entry" => visit # {}
WatchesTree ==
    /\ dir # Watcher!Absent /\ dir.id \in DOMAIN watched =>
          watched[dir.id] \in DOMAIN watches /\ watches[watched[dir.id]] = <<dir.name>>
    /\ dir # Watcher!Absent /\ dir.id \notin DOMAIN watched =>
          \/ place = "tree" /\ dir.name \in visit
          \/ \E i \in 1..Len(Unhandled) : Creates(Unhandled[i], dir.name) /\ ToWatch(i)
    /\ \A w \in DOMAIN watches :
          \/ \E i \in DOMAIN watched : w = watched[i]
          \/ \E i \in 1..Len(Unhandled) : Unhandled[i].kind = "ignored" /\ Unhandled[i].watch = w
Loose == Ending \/ place \in {"rebuild", "root"} \/ rebuildRequested \/ Alarm
WatchesSound == Loose \/ WatchesTree

ToldOf(p) == p \in batch \/ Watcher!Rescan \in batch
             \/ p \in Watcher!Functions!Range(events)
                  \/ Watcher!Rescan \in Watcher!Functions!Range(events)
Reports(e, p) ==
    /\ e.kind \in {"create", "modify", "delete"} /\ e.watch \in DOMAIN watches
    /\ p = watches[e.watch] \o <<e.name>>
Finds(i, e, p) == Creates(e, dir.name) /\ p = Watcher!Inner(dir.name) /\ inner # 0 /\ ToSearch(i)
IsUnderWay(p) == \E i \in 1..Len(Unhandled) : Reports(Unhandled[i], p) \/ Finds(i, Unhandled[i], p)
WillBeTold(p) == ~Watcher!Rebuilding /\ (Alarm \/ IsUnderWay(p))
ChangesKnown == Ending \/ \A p \in Watcher!Paths \ blind : seen[p] = Watcher!Current[p]
                  \/ ToldOf(p) \/ WillBeTold(p)
StopSound ==
    /\ place = "done" => ~running
    /\ stopRequested /\ stopper = "none" => ~running
WatcherInv == WatcherShape /\ WatchesSound /\ ChangesKnown /\ StopSound

-----------------------------------------------------------------------------
LEMMA ShortPaths ==
  ASSUME NEW S, NEW n \in S, NEW m \in S
  PROVE  /\ <<n>> \in Seq(S) /\ <<n>> # << >> /\ << >> \o <<n>> = <<n>>
         /\ <<n>> \o <<m>> \in Seq(S) /\ <<n>> \o <<m>> = <<n, m>> /\ <<n, m>> # << >>
<1>1. /\ <<n>> \in Seq(S) /\ <<m>> \in Seq(S) /\ <<n, m>> \in Seq(S)
      /\ Len(<<n, m>>) = 2 /\ <<n, m>>[1] = n /\ <<n, m>>[2] = m
  OBVIOUS
<1>2. /\ <<n>> \o <<m>> \in Seq(S) /\ Len(<<n>> \o <<m>>) = 2
      /\ (<<n>> \o <<m>>)[1] = n /\ (<<n>> \o <<m>>)[2] = m
  BY <1>1, ConcatProperties
<1>3. \A i \in 1..2 : (<<n>> \o <<m>>)[i] = <<n, m>>[i]
  <2>1. \A i \in 1..2 : i = 1 \/ i = 2
    OBVIOUS
  <2> QED BY <1>1, <1>2, <2>1
<1>4. <<n>> \o <<m>> = <<n, m>>
  BY <1>1, <1>2, <1>3, SeqEqual
<1>5. << >> \o <<n>> = <<n>>
  BY <1>1, ConcatEmptySeq
<1> QED BY <1>1, <1>2, <1>4, <1>5

\* What each path of the tree has.
LEMMA PathsDiffer ==
  ASSUME NEW n \in EntryNames, NEW m \in EntryNames
  PROVE  /\ <<n>> = <<m>> <=> n = m
         /\ Watcher!Inner(n) = Watcher!Inner(m) <=> n = m
         /\ <<n>> # Watcher!Inner(m) /\ Watcher!File # Watcher!Inner(m)
              /\ (n # "file" => <<n>> # Watcher!File)
<1>1. Watcher!Inner(n) = <<n, "inner">> /\ Watcher!Inner(m) = <<m, "inner">>
        /\ Watcher!File = <<"file">>
  BY DEF Watcher!Inner, Watcher!File
<1>2. <<n>> = <<m>> => n = m
  OBVIOUS
<1>3. <<n, "inner">> = <<m, "inner">> => n = m
  OBVIOUS
<1>4. \A k : <<k>> # <<m, "inner">>
  OBVIOUS
<1>5. <<n>> = <<"file">> => n = "file"
  OBVIOUS
<1> QED BY <1>1, <1>2, <1>3, <1>4, <1>5

LEMMA AbsentIs == Watcher!Absent.name = "" /\ Watcher!Absent.id = 0
        /\ Watcher!Absent \in [name : EntryNames, id : Nat]
<1>1. Watcher!Absent = [name |-> "", id |-> 0] /\ "" \in EntryNames
  BY DEF Watcher!Absent, EntryNames
<1> QED BY <1>1

LEMMA PathsApart ==
  ASSUME Watcher!WatcherAssumption, NEW d \in [name : EntryNames, id : Nat],
         d = Watcher!Absent \/ d.name \in Names,
         NEW n \in Names
  PROVE  /\ Watcher!File \in Watcher!Paths /\ <<n>> \in Watcher!Paths
              /\ Watcher!Inner(n) \in Watcher!Paths
         /\ <<d.name>> # Watcher!File /\ Watcher!Inner(d.name) # Watcher!File
              /\ <<n>> # Watcher!File /\ Watcher!Inner(n) # Watcher!File
         /\ <<n>> = <<d.name>> <=> n = d.name
         /\ Watcher!Inner(n) = Watcher!Inner(d.name) <=> n = d.name
         /\ <<n>> # Watcher!Inner(d.name) /\ Watcher!Inner(n) # <<d.name>>
<1>1. n # "file" /\ d.name # "file" /\ n \in EntryNames /\ d.name \in EntryNames
  <2>1. \A m \in Names : m # "file"
    BY DEF Watcher!WatcherAssumption
  <2>2. d = Watcher!Absent => d.name = ""
    BY AbsentIs
  <2> QED BY <2>1, <2>2 DEF EntryNames
<1>2. Watcher!File \in Watcher!Paths /\ <<n>> \in Watcher!Paths
        /\ Watcher!Inner(n) \in Watcher!Paths
  BY DEF Watcher!Paths
<1>3. <<d.name>> # Watcher!File /\ Watcher!Inner(d.name) # Watcher!File /\ <<n>> # Watcher!File
        /\ Watcher!Inner(n) # Watcher!File
  BY <1>1, PathsDiffer
<1>4. /\ <<n>> = <<d.name>> <=> n = d.name
      /\ Watcher!Inner(n) = Watcher!Inner(d.name) <=> n = d.name
      /\ <<n>> # Watcher!Inner(d.name) /\ Watcher!Inner(n) # <<d.name>>
  BY <1>1, PathsDiffer
<1> QED BY <1>2, <1>3, <1>4

LEMMA CurrentIs ==
  ASSUME Watcher!WatcherAssumption, dir \in [name : EntryNames, id : Nat],
         dir = Watcher!Absent \/ dir.name \in Names,
         NEW n \in Names
  PROVE  /\ Watcher!Current[Watcher!File] = leaf
         /\ Watcher!Current[<<n>>] = IF n = dir.name THEN dir.id ELSE 0
         /\ Watcher!Current[Watcher!Inner(n)] = IF n = dir.name THEN inner ELSE 0
BY PathsApart DEF Watcher!Current

LEMMA CurrentNext ==
  ASSUME Watcher!WatcherAssumption, dir' \in [name : EntryNames, id : Nat],
         dir' = Watcher!Absent \/ dir'.name \in Names,
         NEW n \in Names
  PROVE  /\ Watcher!Current'[Watcher!File] = leaf'
         /\ Watcher!Current'[<<n>>] = IF n = dir'.name THEN dir'.id ELSE 0
         /\ Watcher!Current'[Watcher!Inner(n)] = IF n = dir'.name THEN inner' ELSE 0
<1>1. PICK d : d = dir'
  OBVIOUS
<1>2. d \in [name : EntryNames, id : Nat] /\ (d = Watcher!Absent \/ d.name \in Names)
  BY <1>1
<1> QED BY <1>1, <1>2, PathsApart DEF Watcher!Current

\* What was pending and an event more, or an overflow.
Grows(s, t, e) ==
    /\ t \in Seq(NoticeType) /\ Len(t) \in {Len(s), Len(s) + 1}
    /\ \A i \in 1..Len(s) : i \in 1..Len(t) /\ t[i] = s[i]
    /\ \A i \in 1..Len(t) : i \in 1..Len(s) \/ t[i] = e
         \/ (t[i].kind = "overflow" /\ t[i].watch = 0)
    /\ \/ \E i \in 1..Len(t) : t[i].kind = "overflow"
       \/ \E i \in 1..Len(t) : t[i] = e /\ i = Len(s) + 1

LEMMA OverflowIs == Watcher!Overflow \in NoticeType /\ Watcher!Overflow.kind = "overflow"
        /\ Watcher!Overflow.watch = 0
<1>1. /\ Watcher!Overflow = [watch |-> 0, kind |-> "overflow", name |-> "", directory |-> FALSE]
      /\ "" \in EntryNames /\ "overflow" \in NoticeKinds
  BY DEF Watcher!Overflow, Watcher!Event, EntryNames, NoticeKinds
<1> QED BY <1>1 DEF NoticeType

LEMMA EventIs ==
  ASSUME NEW w \in Nat, NEW k \in NoticeKinds, NEW n \in EntryNames, NEW d \in BOOLEAN
  PROVE  /\ Watcher!Event(w, k, n, d) \in NoticeType /\ Watcher!Event(w, k, n, d).watch = w
         /\ Watcher!Event(w, k, n, d).kind = k /\ Watcher!Event(w, k, n, d).name = n
         /\ Watcher!Event(w, k, n, d).directory = d
BY DEF Watcher!Event, NoticeType

LEMMA EnqueueGrows ==
  ASSUME NEW b \in Seq(NoticeType), NEW q \in Seq(NoticeType), NEW e \in NoticeType
  PROVE  Watcher!Enqueue(q, e) \in Seq(NoticeType) /\ Grows(b \o q, b \o Watcher!Enqueue(q, e), e)
<1>1. PICK s \in Seq(NoticeType) : s = b \o q
  BY ConcatProperties
<1>2. CASE q # << >> /\ q[Len(q)] = Watcher!Overflow
  <2>1. Watcher!Enqueue(q, e) = q
    BY <1>2 DEF Watcher!Enqueue
  <2>2. Len(q) \in 1..Len(q) /\ Len(q) \in Nat /\ Len(s) = Len(b) + Len(q)
        /\ Len(b) \in Nat /\ Len(s) \in Nat
    BY <1>1, <1>2, ConcatProperties, LenProperties, EmptySeq
  <2>3. s[Len(b) + Len(q)] = q[Len(q)] /\ Len(b) + Len(q) \in 1..Len(s)
    BY <1>1, <2>2, ConcatProperties
  <2>4. \E i \in 1..Len(s) : s[i].kind = "overflow"
    BY <1>2, <2>3, OverflowIs
  <2>5. Grows(s, s, e)
    BY <2>2, <2>4 DEF Grows
  <2> QED BY <1>1, <2>1, <2>5
<1>3. CASE ~(q # << >> /\ q[Len(q)] = Watcher!Overflow)
  <2>1. PICK x \in NoticeType : x \in {e, Watcher!Overflow} /\ Watcher!Enqueue(q, e) = Append(q, x)
    <3>1. Watcher!Enqueue(q, e) = Append(q, IF Len(q) < KernelQueue THEN e ELSE Watcher!Overflow)
      BY <1>3 DEF Watcher!Enqueue
    <3> QED BY <3>1, OverflowIs
  <2>2. Append(q, x) \in Seq(NoticeType) /\ b \o Append(q, x) = Append(s, x)
    BY <1>1, AppendConcat, AppendProperties
  <2>3. PICK t \in Seq(NoticeType) : t = Append(s, x)
    BY AppendProperties
  <2>6. Len(t) = Len(s) + 1 /\ t[Len(s) + 1] = x /\ \A i \in 1..Len(s) : t[i] = s[i]
    BY <2>3, AppendProperties
  <2>4. Len(s) \in Nat
    BY LenProperties
  <2>5. Grows(s, t, e)
    <3>1. \A i \in 1..Len(t) : i \in 1..Len(s) \/ i = Len(s) + 1
      BY <2>4, <2>6
    <3>2. Len(s) + 1 \in 1..Len(t) /\ \A i \in 1..Len(s) : i \in 1..Len(t)
      BY <2>4, <2>6
    <3>3. x = e \/ (x.kind = "overflow" /\ x.watch = 0)
      BY <2>1, OverflowIs
    <3> QED BY <2>6, <3>1, <3>2, <3>3 DEF Grows
  <2> QED BY <1>1, <2>1, <2>2, <2>3, <2>5
<1> QED BY <1>2, <1>3

\* What sound pending events become when a watched inode is told of.
LEMMA GrowsSound ==
  ASSUME NEW live, NEW last \in Nat, NEW s \in Seq(NoticeType), NEW t, NEW e, Grows(s, t, e),
         SoundNotices(s, live, last), SoundNotice(e, live, last),
         \A i \in 1..Len(s) : s[i].kind = "ignored" => s[i].watch # e.watch
  PROVE  SoundNotices(t, live, last)
<1>0. Len(s) \in Nat /\ t \in Seq(NoticeType) /\ Len(t) \in Nat
  BY LenProperties DEF Grows
<1>1. \A i \in 1..Len(t) : SoundNotice(t[i], live, last)
  BY DEF Grows, SoundNotices, SoundNotice
<1>2. ASSUME NEW i \in 1..Len(t), NEW j \in 1..Len(t), i < j, t[i].kind = "ignored"
      PROVE  t[j].watch # t[i].watch
  <2>0. j \in 1..Len(s) => i \in 1..Len(s)
    BY <1>0, <1>2
  <2>1. i \in 1..Len(s) /\ t[i] = s[i]
    <3>1. \A k \in 1..Len(t) : k \in 1..Len(s) \/ k = Len(s) + 1
      BY <1>0 DEF Grows
    <3>2. i # Len(s) + 1
      BY <1>0, <1>2, <3>1
    <3> QED BY <3>1, <3>2 DEF Grows
  <2>2. CASE j \in 1..Len(s)
    <3>1. t[j] = s[j]
      BY <2>2 DEF Grows
    <3> QED BY <1>2, <2>1, <2>2, <3>1 DEF SoundNotices, GoneIsLast
  <2>3. CASE t[j] = e
    BY <1>2, <2>1, <2>3
  <2>4. CASE t[j].watch = 0
    <3>1. SoundNotice(s[i], live, last) /\ s[i].kind = "ignored"
      BY <1>2, <2>1 DEF SoundNotices
    <3>2. s[i].watch \in 1..last
      BY <3>1 DEF SoundNotice, OfRoot, OfDirectory
    <3> QED BY <2>1, <2>4, <3>2
  <2> QED BY <2>2, <2>3, <2>4 DEF Grows
<1> QED BY <1>1, <1>2 DEF SoundNotices, GoneIsLast

LEMMA GrowsAlarm ==
  ASSUME NEW s \in Seq(NoticeType), NEW t, NEW e, Grows(s, t, e)
  PROVE  /\ Alarming(s) => Alarming(t)
         /\ Alarming(t) \/ \E i \in 1..Len(t) : t[i] = e /\ i = Len(s) + 1
         /\ Len(t) > 0
<1>0. Len(s) \in Nat /\ Len(t) \in Nat
  BY LenProperties DEF Grows
<1>1. \A i \in 1..Len(s) : i \in 1..Len(t) /\ t[i] = s[i]
  BY DEF Grows
<1> QED BY <1>0, <1>1 DEF Grows, Alarming

\* The first pending event is handled, or everything pending is read.
LEMMA TailUnhandled ==
  ASSUME NEW b \in Seq(NoticeType), NEW q \in Seq(NoticeType), b # << >>
  PROVE  /\ Tail(b) \in Seq(NoticeType) /\ b \o q \in Seq(NoticeType)
              /\ Tail(b) \o q \in Seq(NoticeType)
         /\ Len(b \o q) = Len(Tail(b) \o q) + 1 /\ Len(Tail(b) \o q) \in Nat
         /\ 1 \in 1..Len(b \o q) /\ (b \o q)[1] = Head(b) /\ Head(b) \in NoticeType
         /\ \A i \in 1..Len(Tail(b) \o q) :
               i + 1 \in 1..Len(b \o q) /\ (Tail(b) \o q)[i] = (b \o q)[i + 1]
<1>1. /\ Tail(b) \in Seq(NoticeType) /\ Len(Tail(b)) = Len(b) - 1 /\ Head(b) = b[1]
      /\ Head(b) \in NoticeType /\ \A i \in 1..Len(Tail(b)) : Tail(b)[i] = b[i + 1]
  BY HeadTailProperties
<1>2. Len(b) \in Nat /\ Len(q) \in Nat /\ Len(b) # 0
  BY LenProperties, EmptySeq
<1>3. PICK t : t = Tail(b) \o q
  OBVIOUS
<1>4. PICK s : s = b \o q
  OBVIOUS
<1>7. /\ t \in Seq(NoticeType) /\ Len(t) = Len(b) - 1 + Len(q)
      /\ \A i \in 1..Len(t) : t[i] = IF i <= Len(b) - 1 THEN Tail(b)[i] ELSE q[i - (Len(b) - 1)]
  BY <1>1, <1>3, ConcatProperties
<1>8. /\ s \in Seq(NoticeType) /\ Len(s) = Len(b) + Len(q)
      /\ \A i \in 1..Len(s) : s[i] = IF i <= Len(b) THEN b[i] ELSE q[i - Len(b)]
  BY <1>4, ConcatProperties
<1>5. Len(s) = Len(t) + 1 /\ Len(t) \in Nat /\ 1 \in 1..Len(s) /\ s[1] = b[1]
  BY <1>2, <1>7, <1>8
<1>6. ASSUME NEW i \in 1..Len(t) PROVE i + 1 \in 1..Len(s) /\ t[i] = s[i + 1]
  <2>1. i + 1 \in 1..Len(s) /\ i \in Nat
    BY <1>5
  <2>2. CASE i <= Len(b) - 1
    BY <1>1, <1>2, <1>7, <1>8, <2>1, <2>2
  <2>3. CASE ~(i <= Len(b) - 1)
    BY <1>2, <1>7, <1>8, <2>1, <2>3
  <2> QED BY <2>1, <2>2, <2>3
<1> QED BY <1>1, <1>3, <1>4, <1>5, <1>6, <1>7, <1>8

LEMMA TailSound ==
  ASSUME NEW s \in Seq(NoticeType), NEW t \in Seq(NoticeType), Len(s) = Len(t) + 1, Len(t) \in Nat,
         \A i \in 1..Len(t) : i + 1 \in 1..Len(s) /\ t[i] = s[i + 1],
         NEW live, NEW last, SoundNotices(s, live, last)
  PROVE  SoundNotices(t, live, last)
           /\ \A i \in 1..Len(t) : s[1].kind = "ignored" => t[i].watch # s[1].watch
<1>1. \A i \in 1..Len(t) : SoundNotice(t[i], live, last)
  BY DEF SoundNotices
<1>2. ASSUME NEW i \in 1..Len(t), NEW j \in 1..Len(t), i < j, t[i].kind = "ignored"
      PROVE  t[j].watch # t[i].watch
  <2>1. i + 1 < j + 1
    BY <1>2
  <2> QED BY <1>2, <2>1 DEF SoundNotices, GoneIsLast
<1>3. ASSUME NEW i \in 1..Len(t), s[1].kind = "ignored" PROVE t[i].watch # s[1].watch
  <2>1. 1 \in 1..Len(s) /\ 1 < i + 1
    OBVIOUS
  <2> QED BY <1>3, <2>1 DEF SoundNotices, GoneIsLast
<1> QED BY <1>1, <1>2, <1>3 DEF SoundNotices, GoneIsLast

LEMMA ShrinkSound ==
  ASSUME NEW s, NEW f, NEW g, NEW last, DOMAIN g \subseteq DOMAIN f,
         g[Watcher!Root] = f[Watcher!Root],
         \A i \in DOMAIN g : g[i] = f[i], SoundNotices(s, f, last)
  PROVE  SoundNotices(s, g, last)
BY DEF SoundNotices, SoundNotice, OfRoot, OfDirectory

-----------------------------------------------------------------------------
(* The tree changes *)

LEMMA WatcherFacts ==
  ASSUME WatcherShape
  PROVE  /\ Unhandled \in Seq(NoticeType) /\ notices \in Seq(NoticeType)
              /\ buffer \in Seq(NoticeType)
         /\ SoundNotices(Unhandled, watched, lastWatch) /\ lastWatch \in Nat
              /\ Len(Unhandled) \in Nat
         /\ \A i \in DOMAIN watched : watched[i] \in 1..lastWatch /\ watched[i] \in Nat
         /\ \A i, j \in DOMAIN watched : watched[i] = watched[j] => i = j
         /\ \A j \in 1..Len(Unhandled) : Unhandled[j].kind = "ignored" =>
               \A i \in DOMAIN watched : Unhandled[j].watch # watched[i]
<1>1. notices \in Seq(NoticeType) /\ buffer \in Seq(NoticeType)
  BY DEF WatcherShape, ThreadTyped
<1>2. Unhandled \in Seq(NoticeType) /\ Len(Unhandled) \in Nat
  BY <1>1, ConcatProperties, LenProperties DEF Unhandled
<1>3. SoundNotices(Unhandled, watched, lastWatch)
  BY DEF WatcherShape, UnhandledSound
<1>4. /\ lastWatch \in Nat /\ \A i \in DOMAIN watched : watched[i] \in 1..lastWatch
      /\ \A i, j \in DOMAIN watched : watched[i] = watched[j] => i = j
  BY DEF WatcherShape, WatchTyped
<1>5. \A i \in DOMAIN watched : watched[i] \in Nat
  BY <1>4
<1>6. ASSUME NEW j \in 1..Len(Unhandled), Unhandled[j].kind = "ignored", NEW i \in DOMAIN watched
      PROVE  Unhandled[j].watch # watched[i]
  <2>1. SoundNotice(Unhandled[j], watched, lastWatch)
    BY <1>3 DEF SoundNotices
  <2> QED BY <1>6, <2>1 DEF SoundNotice, OfRoot, OfDirectory
<1> QED BY <1>1, <1>2, <1>3, <1>4, <1>5, <1>6

\* An inode that is watched is told of: one pending event more.
LEMMA ToldGrows ==
  ASSUME WatcherShape, NEW inode \in DOMAIN watched, NEW k \in NoticeKinds, NEW n \in EntryNames,
         NEW d \in BOOLEAN,
         NEW q \in Seq(NoticeType)
  PROVE  /\ Watcher!Event(watched[inode], k, n, d) \in NoticeType
         /\ Watcher!Told(q, inode, k, n, d) \in Seq(NoticeType)
         /\ Grows(buffer \o q, buffer \o Watcher!Told(q, inode, k, n, d), Watcher!Event(watched[inode], k, n, d))
<1>1. Watcher!Event(watched[inode], k, n, d) \in NoticeType
  BY WatcherFacts, EventIs
<1>2. Watcher!Told(q, inode, k, n, d) = Watcher!Enqueue(q, Watcher!Event(watched[inode], k, n, d))
  BY DEF Watcher!Told
<1> QED BY <1>1, <1>2, WatcherFacts, EnqueueGrows

LEMMA OneTold ==
  ASSUME WatcherShape, NEW inode \in DOMAIN watched, NEW k \in NoticeKinds, NEW n \in EntryNames,
         NEW d \in BOOLEAN,
         NEW e, e = Watcher!Event(watched[inode], k, n, d), SoundNotice(e, watched, lastWatch),
         notices' = Watcher!Told(notices, inode, k, n, d), buffer' = buffer
  PROVE  /\ notices' \in Seq(NoticeType) /\ Grows(Unhandled, Unhandled', e)
         /\ SoundNotices(Unhandled', watched, lastWatch)
         /\ e.watch = watched[inode] /\ e.kind = k /\ e.name = n /\ e.directory = d
<1>0. notices \in Seq(NoticeType)
  BY WatcherFacts
<1>1. notices' \in Seq(NoticeType) /\ Grows(Unhandled, Unhandled', e)
  <2>1. /\ Watcher!Told(notices, inode, k, n, d) \in Seq(NoticeType)
        /\ Grows(buffer \o notices, buffer \o Watcher!Told(notices, inode, k, n, d), e)
    BY <1>0, ToldGrows
  <2> QED BY <2>1 DEF Unhandled
<1>2. e.watch = watched[inode] /\ e.kind = k /\ e.name = n /\ e.directory = d
  BY WatcherFacts, EventIs
<1>3. SoundNotices(Unhandled', watched, lastWatch)
  BY <1>1, <1>2, WatcherFacts, GrowsSound
<1> QED BY <1>1, <1>2, <1>3

TreeFrame == UNCHANGED <<lastWatch, Watcher!state, Watcher!flags, Watcher!thread, stopper,
               Watcher!client>>

\* What stays when the tree changes.
LEMMA TreeStays ==
  ASSUME TreeFrame
  PROVE  /\ UNCHANGED <<lastWatch, events, rescanPending, running, stopRequested, place, buffer,
              visit,
                        rebuildRequested, watches, stopper, batch, seen>>
         /\ Ending' = Ending /\ Watcher!Rebuilding' = Watcher!Rebuilding
         /\ \A p : ToldOf(p)' = ToldOf(p)
         /\ StopSound => StopSound'
<1>1. UNCHANGED <<lastWatch, events, rescanPending, running, stopRequested, place, buffer, visit,
                  rebuildRequested, watches, stopper, batch, seen>>
  BY DEF TreeFrame, Watcher!state, Watcher!flags, Watcher!thread, Watcher!client
<1> QED BY <1>1 DEF Ending, Watcher!Rebuilding, ToldOf, StopSound

LEMMA TreeShape ==
  ASSUME WatcherShape, TreeFrame, TreeTyped', notices' \in Seq(NoticeType),
         DOMAIN watched' \subseteq DOMAIN watched,
           DOMAIN watched' \subseteq {Watcher!Root, dir'.id},
         \A i \in DOMAIN watched' : watched'[i] = watched[i],
         Watcher!Root \in DOMAIN watched => Watcher!Root \in DOMAIN watched',
         Watcher!Root \notin DOMAIN watched => notices' = notices,
         SoundNotices(Unhandled', watched', lastWatch)
  PROVE  WatcherShape'
<1>1. UNCHANGED <<lastWatch, events, rescanPending, place, buffer, visit, rebuildRequested,
        watches>>
      /\ Ending' = Ending
  BY TreeStays
<1>2. WatchTyped'
  BY <1>1 DEF WatcherShape, WatchTyped
<1>3. ThreadTyped'
  BY <1>1 DEF WatcherShape, ThreadTyped, Handling, Adding
<1>4. RootWatched'
  <2>1. CASE Watcher!Root \in DOMAIN watched
    BY <1>1, <2>1 DEF WatcherShape, RootWatched
  <2>2. CASE Watcher!Root \notin DOMAIN watched
    <3>1. Unhandled' = Unhandled
      BY <1>1, <2>2 DEF Unhandled
    <3> QED BY <1>1, <2>2, <3>1 DEF WatcherShape, RootWatched
  <2> QED BY <2>1, <2>2
<1>5. UnhandledSound'
  BY <1>1 DEF UnhandledSound
<1> QED BY <1>2, <1>3, <1>4, <1>5 DEF WatcherShape

\* A change of the tree is known or told when the events it is told by are pending.
LEMMA TreeKnown ==
  ASSUME ChangesKnown, TreeFrame, NEW paths, blind \subseteq blind',
         Watcher!Rebuilding => paths \subseteq blind',
         \A p \in Watcher!Paths \ paths : Watcher!Current'[p] = Watcher!Current[p],
         ~Ending /\ Alarm => Alarm',
         ~Ending /\ ~Watcher!Rebuilding /\ ~Alarm' =>
             /\ \A p \in Watcher!Paths \ blind' : p \notin paths /\ IsUnderWay(p) => IsUnderWay(p)'
             /\ \A p \in paths \ blind' : IsUnderWay(p)'
  PROVE  ChangesKnown'
<1>1. /\ Ending' = Ending /\ Watcher!Rebuilding' = Watcher!Rebuilding
           /\ \A p : ToldOf(p)' = ToldOf(p)
      /\ seen' = seen
  BY TreeStays
<1>2. SUFFICES ASSUME ~Ending, NEW p \in Watcher!Paths \ blind'
               PROVE  seen'[p] = Watcher!Current'[p] \/ ToldOf(p)' \/ WillBeTold(p)'
  BY <1>1 DEF ChangesKnown
<1>3. seen[p] = Watcher!Current[p] \/ ToldOf(p) \/ WillBeTold(p)
  BY <1>2 DEF ChangesKnown
<1>4. CASE p \in paths
  BY <1>1, <1>2, <1>4 DEF WillBeTold
<1>5. CASE p \notin paths
  BY <1>1, <1>2, <1>3, <1>5 DEF WillBeTold
<1> QED BY <1>4, <1>5

\* Events that are added take away no other, and leave the watches as they were.
LEMMA GrowsKeeps ==
  ASSUME WatcherShape, TreeFrame, NEW e, Grows(Unhandled, Unhandled', e)
  PROVE  /\ Alarm => Alarm'
         /\ Alarm' \/ \E i \in 1..Len(Unhandled') : Unhandled'[i] = e /\ i = Len(Unhandled) + 1
         /\ \A i \in 1..Len(Unhandled) : i \in 1..Len(Unhandled') /\ Unhandled'[i] = Unhandled[i]
         /\ Unhandled' # << >>
<1>1. Unhandled \in Seq(NoticeType) /\ Unhandled' \in Seq(NoticeType)
  BY WatcherFacts DEF Grows
<1>2. Len(Unhandled') > 0
  BY <1>1, GrowsAlarm
<1>3. Unhandled' # << >>
  BY <1>1, <1>2, EmptySeq
<1> QED BY <1>1, <1>3, GrowsAlarm DEF Grows, Alarm

LEMMA WatchesStay ==
  ASSUME WatcherShape, TreeFrame, UNCHANGED <<dir, watched>>, WatchesSound,
         Alarm => Alarm',
         \A i \in 1..Len(Unhandled) : i \in 1..Len(Unhandled') /\ Unhandled'[i] = Unhandled[i]
  PROVE  WatchesSound'
<1>1. UNCHANGED <<place, visit, watches, rebuildRequested>> /\ Ending' = Ending
  BY TreeStays
<1>2. CASE Loose
  BY <1>1, <1>2 DEF Loose, WatchesSound
<1>3. CASE WatchesTree
  <2>1. \A n : \A i \in 1..Len(Unhandled) : Creates(Unhandled[i], n) /\ ToWatch(i) =>
           i \in 1..Len(Unhandled') /\ Creates(Unhandled'[i], n) /\ ToWatch(i)'
    BY <1>1 DEF Creates, ToWatch
  <2>2. WatchesTree'
    BY <1>1, <1>3, <2>1 DEF WatchesTree
  <2> QED BY <2>2 DEF WatchesSound
<1> QED BY <1>2, <1>3 DEF WatchesSound

\* What an event of before tells, it still tells.
LEMMA ReportsStay ==
  ASSUME WatcherShape, TreeFrame, NEW p, IsUnderWay(p),
         \A i \in 1..Len(Unhandled) : i \in 1..Len(Unhandled') /\ Unhandled'[i] = Unhandled[i]
  PROVE  \/ IsUnderWay(p)'
         \/ /\ p = Watcher!Inner(dir.name) /\ inner # 0
            /\ dir' = dir /\ inner' # 0 => IsUnderWay(p)'
<1>1. UNCHANGED <<place, visit, watches>>
  BY TreeStays
<1>2. PICK i \in 1..Len(Unhandled) : Reports(Unhandled[i], p) \/ Finds(i, Unhandled[i], p)
  BY DEF IsUnderWay
<1>3. i \in 1..Len(Unhandled') /\ Unhandled'[i] = Unhandled[i]
  OBVIOUS
<1>4. CASE Reports(Unhandled[i], p)
  <2>1. Reports(Unhandled[i], p)'
    BY <1>1, <1>3, <1>4 DEF Reports
  <2> QED BY <1>3, <2>1 DEF IsUnderWay
<1>5. CASE Finds(i, Unhandled[i], p)
  <2>1. dir' = dir /\ inner' # 0 => Finds(i, Unhandled[i], p)'
    BY <1>1, <1>3, <1>5 DEF Finds, Creates, ToSearch
  <2> QED BY <1>3, <1>5, <2>1 DEF IsUnderWay, Finds
<1> QED BY <1>2, <1>4, <1>5

LEMMA OneEvent ==
  ASSUME WatcherInv, TreeFrame, TreeTyped', UNCHANGED <<dir, watched>>,
         NEW inode, NEW k \in NoticeKinds, NEW n \in EntryNames, NEW d \in BOOLEAN,
         notices' = Watcher!Told(notices, inode, k, n, d),
         NEW e, e = Watcher!Event(watched[inode], k, n, d),
         inode \in DOMAIN watched => SoundNotice(e, watched, lastWatch),
         NEW paths, blind \subseteq blind', Watcher!Rebuilding => paths \subseteq blind',
         \A p \in Watcher!Paths \ paths : Watcher!Current'[p] = Watcher!Current[p],
         inner # 0 /\ inner' = 0 => Watcher!Inner(dir.name) \in paths,
         ~Loose /\ inode \in DOMAIN watched =>
             \A p \in paths : /\ k \in {"create", "modify", "delete"}
                              /\ watched[inode] \in DOMAIN watches
                              /\ p = watches[watched[inode]] \o <<n>>,
         ~Loose /\ ~Watcher!Rebuilding /\ inode \notin DOMAIN watched =>
             \A p \in paths \ blind' : IsUnderWay(p)'
  PROVE  WatcherInv'
<1>0. WatcherShape /\ WatchesSound /\ ChangesKnown /\ StopSound
  BY DEF WatcherInv
<1>1. UNCHANGED <<buffer, watches, place, visit, rebuildRequested, lastWatch>> /\ Ending' = Ending
  BY TreeStays
<1>2. /\ notices' \in Seq(NoticeType) /\ SoundNotices(Unhandled', watched, lastWatch)
      /\ Alarm => Alarm'
      /\ \A i \in 1..Len(Unhandled) : i \in 1..Len(Unhandled') /\ Unhandled'[i] = Unhandled[i]
      /\ inode \notin DOMAIN watched => notices' = notices
      /\ inode \in DOMAIN watched => Alarm' \/ \E i \in 1..Len(Unhandled') : Unhandled'[i] = e
  <2>1. CASE inode \in DOMAIN watched
    <3>1. notices' \in Seq(NoticeType) /\ Grows(Unhandled, Unhandled', e)
            /\ SoundNotices(Unhandled', watched, lastWatch)
      BY <1>0, <1>1, <2>1, OneTold
    <3> QED BY <1>0, <2>1, <3>1, GrowsKeeps
  <2>2. CASE inode \notin DOMAIN watched
    <3>1. notices' = notices /\ Unhandled' = Unhandled
      BY <1>1, <2>2 DEF Watcher!Told, Unhandled
    <3> QED BY <1>0, <2>2, <3>1, WatcherFacts DEF Alarm
  <2> QED BY <2>1, <2>2
<1>3. Watcher!Root \notin DOMAIN watched => inode \notin DOMAIN watched
  BY <1>0 DEF WatcherShape, RootWatched
<1>4. WatcherShape'
  <2>1. DOMAIN watched \subseteq {Watcher!Root, dir.id}
    BY <1>0 DEF WatcherShape, WatchTyped
  <2> QED BY <1>0, <1>2, <1>3, <2>1, TreeShape
<1>5. WatchesSound'
  BY <1>0, <1>2, WatchesStay
<1>6. ChangesKnown'
  <2>1. SUFFICES ASSUME ~Ending, ~Watcher!Rebuilding, ~Alarm'
                 PROVE  /\ \A p \in Watcher!Paths \ blind' : p \notin paths
                             /\ IsUnderWay(p) => IsUnderWay(p)'
                        /\ \A p \in paths \ blind' : IsUnderWay(p)'
    BY <1>0, <1>2, TreeKnown
  <2>2. ~Loose
    BY <1>2, <2>1 DEF Loose, Watcher!Rebuilding
  <2>3. ASSUME NEW p \in Watcher!Paths \ blind', p \notin paths, IsUnderWay(p) PROVE IsUnderWay(p)'
    BY <1>0, <1>2, <2>3, ReportsStay
  <2>4. ASSUME NEW p \in paths \ blind' PROVE IsUnderWay(p)'
    <3>1. CASE inode \in DOMAIN watched
      <4>1. PICK i \in 1..Len(Unhandled') : Unhandled'[i] = e
        BY <1>2, <2>1, <3>1
      <4>2. e.watch = watched[inode] /\ e.kind = k /\ e.name = n
        BY <1>0, <3>1, WatcherFacts, EventIs
      <4>3. Reports(Unhandled[i], p)'
        BY <1>1, <2>2, <2>4, <3>1, <4>1, <4>2 DEF Reports
      <4> QED BY <4>1, <4>3 DEF IsUnderWay
    <3>2. CASE inode \notin DOMAIN watched
      BY <2>1, <2>2, <2>4, <3>2
    <3> QED BY <3>1, <3>2
  <2> QED BY <2>3, <2>4
<1>7. StopSound'
  BY <1>0, TreeStays
<1> QED BY <1>4, <1>5, <1>6, <1>7 DEF WatcherInv

\* What Changed says of a change that is told of by one event or more.
LEMMA ChangedIs ==
  ASSUME NEW paths, Watcher!Changed(paths), lastWatch' = lastWatch
  PROVE  /\ TreeFrame /\ changes' = changes + 1 /\ gone' = gone
         /\ blind \subseteq blind' /\ (Watcher!Rebuilding => paths \subseteq blind')
BY DEF Watcher!Changed, TreeFrame

LEMMA FileChanges ==
  ASSUME Watcher!WatcherAssumption, WatcherInv,
         Watcher!WriteFile \/ Watcher!RemoveFile PROVE WatcherInv'
<1>0. WatcherShape /\ TreeTyped
  BY DEF WatcherInv, WatcherShape
<1>1. /\ Watcher!Changed({Watcher!File}) /\ UNCHANGED <<dir, inner, watched, lastWatch>>
      /\ leaf' = changes + 1 \/ leaf' = 0
      /\ \E k \in {"create", "modify", "delete"} :
           notices' = Watcher!Told(notices, Watcher!Root, k, "file", FALSE)
  BY DEF Watcher!WriteFile, Watcher!RemoveFile
<1>2. PICK k \in {"create", "modify", "delete"} : notices'
                                                    =
                                                      Watcher!Told(notices, Watcher!Root, k, "file", FALSE)
  BY <1>1
<1>3. PICK e : e = Watcher!Event(watched[Watcher!Root], k, "file", FALSE)
  OBVIOUS
<1>4. /\ TreeFrame /\ changes' = changes + 1
      /\ blind \subseteq blind' /\ (Watcher!Rebuilding => {Watcher!File} \subseteq blind')
  BY <1>1, ChangedIs
<1>5. k \in NoticeKinds /\ "file" \in EntryNames
  BY DEF NoticeKinds, EntryNames
<1>6. TreeTyped'
  BY <1>0, <1>1, <1>4 DEF TreeTyped
<1>7. Watcher!Root \in DOMAIN watched => SoundNotice(e, watched, lastWatch)
  <2>1. SUFFICES ASSUME Watcher!Root \in DOMAIN watched PROVE SoundNotice(e, watched, lastWatch)
    OBVIOUS
  <2>2. e.watch = watched[Watcher!Root] /\ e.kind = k /\ e.name = "file" /\ ~e.directory
    BY <1>3 DEF Watcher!Event
  <2> QED BY <2>2 DEF SoundNotice, OfRoot
<1>8. \A p \in Watcher!Paths \ {Watcher!File} : Watcher!Current'[p] = Watcher!Current[p]
  BY <1>1 DEF Watcher!Current
<1>9. ~Loose => Watcher!Root \in DOMAIN watched
  BY <1>0 DEF Loose, WatcherShape, RootWatched
<1>10. Watcher!Root \in DOMAIN watched =>
          watched[Watcher!Root] \in DOMAIN watches
            /\ Watcher!File = watches[watched[Watcher!Root]] \o <<"file">>
  BY <1>0, <1>5, ShortPaths DEF WatcherShape, RootWatched, Watcher!File
<1>11. PICK inode, paths : inode = Watcher!Root /\ paths = {Watcher!File}
  OBVIOUS
<1>12. PICK n \in EntryNames, d \in BOOLEAN : n = "file" /\ d = FALSE
  BY <1>5
<1>13. /\ notices' = Watcher!Told(notices, inode, k, n, d)
            /\ e = Watcher!Event(watched[inode], k, n, d)
       /\ inode \in DOMAIN watched => SoundNotice(e, watched, lastWatch)
       /\ blind \subseteq blind' /\ (Watcher!Rebuilding => paths \subseteq blind')
       /\ \A p \in Watcher!Paths \ paths : Watcher!Current'[p] = Watcher!Current[p]
       /\ ~Loose => inode \in DOMAIN watched
  BY <1>2, <1>3, <1>4, <1>7, <1>8, <1>9, <1>11, <1>12
<1>14. inode \in DOMAIN watched =>
           \A p \in paths : /\ k \in {"create", "modify", "delete"}
                            /\ watched[inode] \in DOMAIN watches
                            /\ p = watches[watched[inode]] \o <<n>>
  BY <1>2, <1>10, <1>11, <1>12
<1>15. UNCHANGED <<dir, watched>> /\ inner' = inner
  BY <1>1
<1> QED BY <1>4, <1>5, <1>6, <1>13, <1>14, <1>15, OneEvent

LEMMA RootMoves ==
  ASSUME WatcherInv, Watcher!MoveRoot PROVE WatcherInv'
<1>0. WatcherShape /\ TreeTyped
  BY DEF WatcherInv, WatcherShape
<1>1. /\ notices' = Watcher!Told(notices, Watcher!Root, "move_self", "", FALSE)
      /\ UNCHANGED <<leaf, dir, inner, changes, watched, lastWatch, blind>> /\ TreeFrame
  BY DEF Watcher!MoveRoot, TreeFrame
<1>2. PICK e : e = Watcher!Event(watched[Watcher!Root], "move_self", "", FALSE)
  OBVIOUS
<1>3. "move_self" \in NoticeKinds /\ "" \in EntryNames
  BY DEF NoticeKinds, EntryNames
<1>4. TreeTyped'
  BY <1>0, <1>1 DEF TreeTyped
<1>5. Watcher!Root \in DOMAIN watched => SoundNotice(e, watched, lastWatch)
  <2>1. SUFFICES ASSUME Watcher!Root \in DOMAIN watched PROVE SoundNotice(e, watched, lastWatch)
    OBVIOUS
  <2>2. e.watch = watched[Watcher!Root] /\ e.kind = "move_self" /\ ~e.directory
    BY <1>2 DEF Watcher!Event
  <2> QED BY <2>2 DEF SoundNotice, OfRoot
<1>6. \A p \in Watcher!Paths \ {} : Watcher!Current'[p] = Watcher!Current[p]
  BY <1>1 DEF Watcher!Current
<1>7. PICK paths : paths = {}
  OBVIOUS
<1>8. /\ UNCHANGED <<dir, watched>> /\ blind \subseteq blind' /\ ~(inner # 0 /\ inner' = 0)
      /\ Watcher!Rebuilding => paths \subseteq blind'
      /\ \A p : p \notin paths
  BY <1>1, <1>7
<1> QED BY <1>1, <1>2, <1>3, <1>4, <1>5, <1>6, <1>7, <1>8, OneEvent

\* The event of a directory that is watched.
LEMMA DirectoryEvent ==
  ASSUME WatcherShape, dir # Watcher!Absent, dir.id \in DOMAIN watched, NEW k \in NoticeKinds,
         NEW n \in EntryNames,
         NEW e, e = Watcher!Event(watched[dir.id], k, n, FALSE),
         (k \in {"create", "modify", "delete"} /\ n = "inner") \/ k \in {"move_self", "delete_self"}
  PROVE  SoundNotice(e, watched, lastWatch)
<1>1. /\ e.watch = watched[dir.id] /\ e.kind = k /\ e.name = n /\ ~e.directory
      /\ watched[dir.id] \in 1..lastWatch
  BY WatcherFacts DEF Watcher!Event
<1>2. Watcher!Root \in DOMAIN watched /\ dir.id # Watcher!Root
  BY DEF WatcherShape, RootWatched, TreeTyped, Watcher!Root
<1>3. watched[dir.id] # watched[Watcher!Root]
  BY <1>2, WatcherFacts
<1> QED BY <1>1, <1>3 DEF SoundNotice, OfDirectory

LEMMA InnerChanges ==
  ASSUME Watcher!WatcherAssumption, WatcherInv,
         Watcher!WriteInner \/ Watcher!RemoveInner PROVE WatcherInv'
<1>0. WatcherShape /\ TreeTyped /\ WatchesSound
  BY DEF WatcherInv, WatcherShape
<1>1. /\ TreeFrame /\ UNCHANGED <<leaf, dir, watched, lastWatch>> /\ changes' = changes + 1
      /\ inner' = changes + 1 \/ inner' = 0
      /\ dir # Watcher!Absent
      /\ blind \subseteq blind'
           /\ (Watcher!Rebuilding => {Watcher!Inner(dir.name)} \subseteq blind')
      /\ inner' = 0 /\ dir.id \notin DOMAIN watched => Watcher!Inner(dir.name) \in blind'
  <2>1. CASE Watcher!WriteInner
    <3>1. /\ Watcher!Changed({Watcher!Inner(dir.name)})
               /\ UNCHANGED <<leaf, dir, watched, lastWatch>>
          /\ inner' = changes + 1 /\ dir # Watcher!Absent
      BY <2>1 DEF Watcher!WriteInner
    <3>2. inner' # 0
      BY <1>0, <3>1 DEF TreeTyped
    <3> QED BY <3>1, <3>2, ChangedIs
  <2>2. CASE Watcher!RemoveInner
    BY <1>0, <2>2 DEF Watcher!RemoveInner, TreeFrame, TreeTyped
  <2> QED BY <2>1, <2>2
<1>2. PICK k \in {"create", "modify", "delete"} : notices'
                                                    =
                                                      Watcher!Told(notices, dir.id, k, "inner", FALSE)
  BY DEF Watcher!WriteInner, Watcher!RemoveInner
<1>3. PICK e : e = Watcher!Event(watched[dir.id], k, "inner", FALSE)
  OBVIOUS
<1>4. k \in NoticeKinds /\ "inner" \in EntryNames
  BY DEF NoticeKinds, EntryNames
<1>5. TreeTyped'
  BY <1>0, <1>1 DEF TreeTyped
<1>6. dir.id \in DOMAIN watched => SoundNotice(e, watched, lastWatch)
  BY <1>0, <1>1, <1>3, <1>4, DirectoryEvent
<1>7. \A p \in Watcher!Paths \ {Watcher!Inner(dir.name)} : Watcher!Current'[p] = Watcher!Current[p]
  BY <1>1 DEF Watcher!Current
<1>8. ~Loose => WatchesTree
  BY <1>0 DEF WatchesSound
<1>9. ~Loose /\ dir.id \in DOMAIN watched =>
         /\ watched[dir.id] \in DOMAIN watches
         /\ Watcher!Inner(dir.name) = watches[watched[dir.id]] \o <<"inner">>
  <2>1. SUFFICES ASSUME ~Loose, dir.id \in DOMAIN watched
                 PROVE  /\ watched[dir.id] \in DOMAIN watches
                        /\ Watcher!Inner(dir.name) = watches[watched[dir.id]] \o <<"inner">>
    OBVIOUS
  <2>2. watched[dir.id] \in DOMAIN watches /\ watches[watched[dir.id]] = <<dir.name>>
    BY <1>1, <1>8, <2>1 DEF WatchesTree
  <2>3. dir.name \in EntryNames
    BY <1>0 DEF TreeTyped
  <2> QED BY <1>4, <2>2, <2>3, ShortPaths DEF Watcher!Inner
<1>10. ~Loose /\ ~Watcher!Rebuilding /\ dir.id \notin DOMAIN watched =>
          \A p \in {Watcher!Inner(dir.name)} \ blind' : IsUnderWay(p)'
  <2>1. SUFFICES ASSUME ~Loose, ~Watcher!Rebuilding, dir.id \notin DOMAIN watched,
                        Watcher!Inner(dir.name) \notin blind'
                 PROVE  IsUnderWay(Watcher!Inner(dir.name))'
    BY <1>1
  <2>2. inner' # 0
    BY <1>0, <1>1, <2>1 DEF TreeTyped
  <2>3. PICK i \in 1..Len(Unhandled) : Creates(Unhandled[i], dir.name) /\ ToWatch(i)
    BY <1>1, <1>8, <2>1 DEF WatchesTree, Watcher!Rebuilding
  <2>4. UNCHANGED <<place, visit, buffer>>
    BY <1>1, TreeStays
  <2>5. Unhandled' = Unhandled
    BY <1>2, <2>1, <2>4 DEF Watcher!Told, Unhandled
  <2>6. Finds(i, Unhandled[i], Watcher!Inner(dir.name))'
    BY <1>1, <2>2, <2>3, <2>4, <2>5 DEF Finds, Creates, ToWatch, ToSearch
  <2> QED BY <2>3, <2>5, <2>6 DEF IsUnderWay
<1>11. PICK paths : paths = {Watcher!Inner(dir.name)}
  OBVIOUS
<1>12. PICK inode : inode = dir.id
  OBVIOUS
<1>13. /\ UNCHANGED <<dir, watched>> /\ TreeFrame /\ blind \subseteq blind'
       /\ Watcher!Rebuilding => paths \subseteq blind'
       /\ \A p \in Watcher!Paths \ paths : Watcher!Current'[p] = Watcher!Current[p]
       /\ notices' = Watcher!Told(notices, inode, k, "inner", FALSE)
       /\ inode \in DOMAIN watched => SoundNotice(e, watched, lastWatch)
       /\ e = Watcher!Event(watched[inode], k, "inner", FALSE)
       /\ inner # 0 /\ inner' = 0 => Watcher!Inner(dir.name) \in paths
  BY <1>1, <1>2, <1>3, <1>6, <1>7, <1>11, <1>12
<1>14. ~Loose /\ inode \in DOMAIN watched =>
          \A p \in paths : /\ k \in {"create", "modify", "delete"}
                           /\ watched[inode] \in DOMAIN watches
                           /\ p = watches[watched[inode]] \o <<"inner">>
  BY <1>9, <1>11, <1>12
<1>15. ~Loose /\ ~Watcher!Rebuilding /\ inode \notin DOMAIN watched =>
          \A p \in paths \ blind' : IsUnderWay(p)'
  BY <1>10, <1>11, <1>12
<1> QED BY <1>4, <1>5, <1>13, <1>14, <1>15, OneEvent

\* One call more of the kernel, for an inode that may be watched.
Keeps(s, u) ==
    /\ \A i \in 1..Len(s) : i \in 1..Len(u) /\ u[i] = s[i]
    /\ Alarming(s) => Alarming(u)

LEMMA KeepsOn ==
  ASSUME NEW s, NEW u, NEW v, Keeps(s, u), Keeps(u, v) PROVE Keeps(s, v)
BY DEF Keeps

Tells(s, e) == Alarming(s) \/ \E i \in 1..Len(s) : s[i] = e
NotGone(s, watch) == \A i \in 1..Len(s) : s[i].kind = "ignored" => s[i].watch # watch

LEMMA ToldMore ==
  ASSUME WatcherShape, NEW q \in Seq(NoticeType), NEW live, NEW e \in NoticeType,
         NEW s, s = buffer \o q, NEW t, t = Watcher!Enqueue(q, e), NEW u, u = buffer \o t,
         SoundNotices(s, live, lastWatch), SoundNotice(e, live, lastWatch), NotGone(s, e.watch)
  PROVE  t \in Seq(NoticeType) /\ SoundNotices(u, live, lastWatch) /\ Keeps(s, u) /\ Tells(u, e)
<1>0. s \in Seq(NoticeType) /\ lastWatch \in Nat /\ buffer \in Seq(NoticeType)
  BY WatcherFacts, ConcatProperties
<1>1. t \in Seq(NoticeType) /\ Grows(s, u, e)
  BY <1>0, EnqueueGrows
<1>2. SoundNotices(u, live, lastWatch)
  BY <1>0, <1>1, GrowsSound DEF NotGone
<1>3. Alarming(s) => Alarming(u)
  BY <1>0, <1>1, GrowsAlarm
<1>4. Tells(u, e)
  BY <1>1 DEF Grows, Alarming, Tells
<1>5. \A i \in 1..Len(s) : i \in 1..Len(u) /\ u[i] = s[i]
  BY <1>1 DEF Grows
<1> QED BY <1>1, <1>2, <1>3, <1>4, <1>5 DEF Keeps

\* What the kernel tells of the root.
LEMMA RootEvent ==
  ASSUME NEW live, NEW last, NEW k, NEW n, NEW e, e = Watcher!Event(live[Watcher!Root], k, n, TRUE),
         k = "moved" \/ (k \in {"create", "delete"} /\ n \in Names)
  PROVE  SoundNotice(e, live, last) /\ e.watch = live[Watcher!Root]
<1>1. e.watch = live[Watcher!Root] /\ e.kind = k /\ e.name = n /\ e.directory
  BY DEF Watcher!Event
<1> QED BY <1>1 DEF SoundNotice, OfRoot

LEMMA NoneGone ==
  ASSUME NEW s, NEW live, NEW last, SoundNotices(s, live, last)
  PROVE  NotGone(s, live[Watcher!Root]) /\ \A i \in DOMAIN live : NotGone(s, live[i])
<1>1. ASSUME NEW j \in 1..Len(s), s[j].kind = "ignored"
      PROVE  s[j].watch # live[Watcher!Root] /\ \A i \in DOMAIN live : s[j].watch # live[i]
  <2>1. SoundNotice(s[j], live, last)
    BY DEF SoundNotices
  <2> QED BY <1>1, <2>1 DEF SoundNotice, OfRoot, OfDirectory
<1> QED BY <1>1 DEF NotGone

LEMMA DirectoryIs ==
  ASSUME Watcher!WatcherAssumption, WatcherShape
  PROVE  /\ dir \in [name : EntryNames, id : Nat] /\ (dir = Watcher!Absent \/ dir.name \in Names)
         /\ dir # Watcher!Absent => dir.id # Watcher!Root /\ dir.name \in Names
         /\ dir = Watcher!Absent => inner = 0 /\ dir.id = Watcher!Root /\ dir.name = ""
              /\ dir.name \notin Names
         /\ ~Loose => Watcher!Root \in DOMAIN watched
         /\ Watcher!Root \in DOMAIN watched => watched[Watcher!Root] \in DOMAIN watches
              /\ watches[watched[Watcher!Root]] = << >>
         /\ DOMAIN watched # {} => Watcher!Root \in DOMAIN watched
<1>1. TreeTyped /\ RootWatched
  BY DEF WatcherShape
<1>2. ~Loose => Watcher!Root \in DOMAIN watched
  BY <1>1 DEF Loose, RootWatched
<1> QED BY <1>1, <1>2, AbsentIs DEF TreeTyped, RootWatched, Watcher!Root, Watcher!WatcherAssumption

\* A directory of a name that is none of another's is told as that name.
LEMMA DirectoryReports ==
  ASSUME NEW e, NEW n \in EntryNames, e.kind \in {"create", "delete"}, e.name = n,
         e.watch \in DOMAIN watches', watches'[e.watch] = << >>
  PROVE  Reports(e, <<n>>)'
<1>1. << >> \o <<n>> = <<n>>
  BY ShortPaths
<1> QED BY <1>1 DEF Reports

LEMMA DirectoryMade ==
  ASSUME Watcher!WatcherAssumption, WatcherInv, NEW m \in Names,
         Watcher!MakeDirectory(m) PROVE WatcherInv'
<1>0. WatcherShape /\ TreeTyped /\ WatchesSound /\ ChangesKnown /\ StopSound /\ WatchTyped
  BY DEF WatcherInv, WatcherShape
<1>1. /\ Watcher!Changed({<<m>>}) /\ UNCHANGED <<leaf, inner, watched, lastWatch>>
      /\ dir = Watcher!Absent /\ dir' = [name |-> m, id |-> changes + 1]
      /\ notices' = Watcher!Told(notices, Watcher!Root, "create", m, TRUE)
  BY DEF Watcher!MakeDirectory
<1>2. /\ TreeFrame /\ changes' = changes + 1
      /\ blind \subseteq blind' /\ (Watcher!Rebuilding => {<<m>>} \subseteq blind')
  BY <1>1, ChangedIs
<1>3. /\ UNCHANGED <<buffer, watches, place, visit, rebuildRequested>>
      /\ Ending' = Ending /\ Watcher!Rebuilding' = Watcher!Rebuilding
  BY <1>2, TreeStays
<1>4. /\ inner = 0 /\ dir.id = Watcher!Root /\ dir.name = "" /\ dir.name \notin Names
      /\ dir \in [name : EntryNames, id : Nat]
      /\ ~Loose => Watcher!Root \in DOMAIN watched
      /\ Watcher!Root \in DOMAIN watched => watched[Watcher!Root] \in DOMAIN watches
           /\ watches[watched[Watcher!Root]] = << >>
  BY <1>0, <1>1, DirectoryIs
<1>5. /\ m \in EntryNames /\ "create" \in NoticeKinds
      /\ dir'.name = m /\ dir'.id = changes + 1 /\ dir'.id # Watcher!Root /\ dir' # Watcher!Absent
      /\ dir' \in [name : EntryNames, id : Nat] /\ DOMAIN watched \subseteq {Watcher!Root}
  <2>1. m \in EntryNames /\ "create" \in NoticeKinds
    BY DEF EntryNames, NoticeKinds
  <2>2. PICK c : c = changes + 1
    OBVIOUS
  <2>3. c \in Nat /\ c # 0
    BY <1>0, <2>2 DEF TreeTyped
  <2>4. PICK d : d = [name |-> m, id |-> c]
    OBVIOUS
  <2>5. d.name = m /\ d.id = c /\ d \in [name : EntryNames, id : Nat]
    BY <2>1, <2>3, <2>4
  <2>6. d # Watcher!Absent /\ c # Watcher!Root
    BY <2>3, <2>5, AbsentIs DEF Watcher!Root
  <2>7. dir' = d
    BY <1>1, <2>2, <2>4
  <2>8. DOMAIN watched \subseteq {Watcher!Root}
    BY <1>0, <1>4 DEF WatchTyped
  <2> QED BY <2>1, <2>2, <2>5, <2>6, <2>7, <2>8
<1>6. TreeTyped'
  <2>0. leaf \in Nat /\ inner \in Nat /\ changes \in Nat
    BY <1>0 DEF TreeTyped
  <2>a. leaf' = leaf /\ inner' = inner /\ inner' = 0 /\ changes' = changes + 1
    BY <1>1, <1>2, <1>4
  <2>1. /\ leaf' \in Nat /\ inner' \in Nat /\ changes' \in Nat /\ changes' = changes + 1
        /\ inner' = 0
    BY <2>0, <2>a
  <2>2. dir'.id <= changes'
    BY <1>5, <2>1
  <2>3. dir'.name \in Names /\ dir'.id # 0
    BY <1>5 DEF Watcher!Root
  <2> QED BY <1>5, <2>1, <2>2, <2>3 DEF TreeTyped
<1>7. PICK e : e = Watcher!Event(watched[Watcher!Root], "create", m, TRUE)
  OBVIOUS
<1>8. SoundNotice(e, watched, lastWatch)
  BY <1>7, RootEvent
<1>9. /\ notices' \in Seq(NoticeType) /\ SoundNotices(Unhandled', watched, lastWatch)
      /\ Alarm => Alarm'
      /\ \A i \in 1..Len(Unhandled) : i \in 1..Len(Unhandled') /\ Unhandled'[i] = Unhandled[i]
      /\ Watcher!Root \notin DOMAIN watched => notices' = notices
      /\ Watcher!Root \in DOMAIN watched =>
            Alarm' \/ \E i \in 1..Len(Unhandled') : Unhandled'[i] = e /\ i = Len(Unhandled) + 1
  <2>1. CASE Watcher!Root \in DOMAIN watched
    <3>1. PICK d \in BOOLEAN : d = TRUE
      OBVIOUS
    <3>2. /\ e = Watcher!Event(watched[Watcher!Root], "create", m, d)
          /\ notices' = Watcher!Told(notices, Watcher!Root, "create", m, d)
      BY <1>1, <1>7, <3>1
    <3>3. notices' \in Seq(NoticeType) /\ Grows(Unhandled, Unhandled', e)
            /\ SoundNotices(Unhandled', watched, lastWatch)
      BY <1>0, <1>3, <1>5, <1>8, <2>1, <3>2, OneTold
    <3> QED BY <1>0, <1>2, <2>1, <3>3, GrowsKeeps
  <2>2. CASE Watcher!Root \notin DOMAIN watched
    <3>1. notices' = notices /\ Unhandled' = Unhandled
      BY <1>1, <1>3, <2>2 DEF Watcher!Told, Unhandled
    <3> QED BY <1>0, <2>2, <3>1, WatcherFacts DEF Alarm
  <2> QED BY <2>1, <2>2
<1>10. WatcherShape'
  BY <1>0, <1>1, <1>2, <1>5, <1>6, <1>9, TreeShape
<1>11. e.kind = "create" /\ e.directory /\ e.name = m /\ e.watch = watched[Watcher!Root]
  BY <1>7 DEF Watcher!Event
<1>12. WatchesSound'
  <2>1. CASE Loose
    BY <1>3, <1>9, <2>1 DEF Loose, WatchesSound
  <2>2. CASE Alarm'
    BY <2>2 DEF Loose, WatchesSound
  <2>3. CASE ~Loose /\ ~Alarm'
    <3>1. PICK i \in 1..Len(Unhandled') : Unhandled'[i] = e /\ i = Len(Unhandled) + 1
      BY <1>4, <1>9, <2>3
    <3>2. ToWatch(i)'
      <4>1. SUFFICES ASSUME i = 1, place \in {"scan", "entry"} PROVE FALSE
        BY <1>3 DEF ToWatch
      <4>2. Len(Unhandled) = 0
        BY <1>0, <3>1, <4>1, WatcherFacts
      <4>3. Len(Unhandled) = Len(buffer) + Len(notices) /\ Len(buffer) \in Nat
              /\ Len(notices) \in Nat
        BY <1>0, WatcherFacts, ConcatProperties, LenProperties DEF Unhandled
      <4>4. Len(buffer) = 0 /\ buffer \in Seq(NoticeType)
        <5>1. buffer \in Seq(NoticeType)
          BY <1>0, WatcherFacts
        <5>2. Len(buffer) \in Nat /\ Len(notices) \in Nat /\ Len(buffer) + Len(notices) = 0
          BY <4>2, <4>3
        <5> QED BY <5>1, <5>2
      <4>5. buffer = << >>
        BY <4>4, EmptySeq
      <4> QED BY <1>0, <4>1, <4>5 DEF WatcherShape, ThreadTyped, Adding
    <3>3. Creates(Unhandled'[i], m)
      BY <1>11, <3>1 DEF Creates
    <3>4. WatchesTree
      BY <1>0, <2>3 DEF WatchesSound
    <3>5. \A w \in DOMAIN watches' :
             \/ \E j \in DOMAIN watched' : w = watched'[j]
             \/ \E j \in 1..Len(Unhandled') : Unhandled'[j].kind = "ignored"
                  /\ Unhandled'[j].watch = w
      BY <1>1, <1>3, <1>9, <3>4 DEF WatchesTree
    <3>6. dir'.id \notin DOMAIN watched'
      BY <1>1, <1>5
    <3>7. \E j \in 1..Len(Unhandled') : Creates(Unhandled'[j], dir'.name) /\ ToWatch(j)'
      BY <1>5, <3>1, <3>2, <3>3
    <3> QED BY <3>5, <3>6, <3>7 DEF WatchesTree, WatchesSound
  <2> QED BY <2>1, <2>2, <2>3
<1>13. ChangesKnown'
  <2>1. PICK paths : paths = {<<m>>}
    OBVIOUS
  <2>2. \A p \in Watcher!Paths \ paths : Watcher!Current'[p] = Watcher!Current[p]
    <3>1. SUFFICES ASSUME NEW p \in Watcher!Paths,
                          p # <<m>> PROVE Watcher!Current'[p] = Watcher!Current[p]
      BY <2>1
    <3>2. CASE p = Watcher!File
      BY <1>1, <3>2 DEF Watcher!Current
    <3>3. CASE \E n \in Names : p = <<n>>
      <4>1. PICK n \in Names : p = <<n>>
        BY <3>3
      <4>2. Watcher!Current[<<n>>] = 0
        BY <1>1, <1>4, CurrentIs
      <4>3. Watcher!Current'[<<n>>] = IF n = dir'.name THEN dir'.id ELSE 0
        BY <1>5, CurrentNext
      <4> QED BY <1>5, <3>1, <4>1, <4>2, <4>3
    <3>4. CASE \E n \in Names : p = Watcher!Inner(n)
      <4>1. PICK n \in Names : p = Watcher!Inner(n)
        BY <3>4
      <4>2. Watcher!Current[Watcher!Inner(n)] = 0
        BY <1>1, <1>4, CurrentIs
      <4>3. Watcher!Current'[Watcher!Inner(n)] = IF n = dir'.name THEN inner' ELSE 0
        BY <1>5, CurrentNext
      <4> QED BY <1>1, <1>4, <4>1, <4>2, <4>3
    <3> QED BY <3>2, <3>3, <3>4 DEF Watcher!Paths
  <2>3. SUFFICES ASSUME ~Ending, ~Watcher!Rebuilding, ~Alarm'
                 PROVE  /\ \A p \in Watcher!Paths \ blind' : p \notin paths
                             /\ IsUnderWay(p) => IsUnderWay(p)'
                        /\ \A p \in paths \ blind' : IsUnderWay(p)'
    BY <1>0, <1>2, <1>9, <2>1, <2>2, TreeKnown
  <2>4. ~Loose
    BY <1>9, <2>3 DEF Loose, Watcher!Rebuilding
  <2>5. \A p : IsUnderWay(p) => IsUnderWay(p)'
    BY <1>0, <1>2, <1>4, <1>9, ReportsStay
  <2>6. IsUnderWay(<<m>>)'
    <3>1. PICK i \in 1..Len(Unhandled') : Unhandled'[i] = e
      BY <1>4, <1>9, <2>3, <2>4
    <3>2. Reports(e, <<m>>)'
      BY <1>3, <1>4, <1>5, <1>11, <2>4, DirectoryReports
    <3>3. Reports(Unhandled[i], <<m>>)'
      BY <3>1, <3>2 DEF Reports
    <3> QED BY <3>1, <3>3 DEF IsUnderWay
  <2> QED BY <2>1, <2>5, <2>6
<1>14. StopSound'
  BY <1>0, <1>2, TreeStays
<1> QED BY <1>10, <1>12, <1>13, <1>14 DEF WatcherInv

LEMMA DirectoryRenamed ==
  ASSUME Watcher!WatcherAssumption, WatcherInv, NEW m \in Names,
         Watcher!RenameDirectory(m) PROVE WatcherInv'
<1>0. WatcherShape /\ TreeTyped /\ WatchesSound /\ ChangesKnown /\ StopSound /\ WatchTyped
  BY DEF WatcherInv, WatcherShape
<1>1. PICK old : old = dir.name
  OBVIOUS
<1>2. PICK paths : paths = {<<old>>, <<m>>, Watcher!Inner(old), Watcher!Inner(m)}
  OBVIOUS
<1>3. /\ Watcher!Changed(paths) /\ UNCHANGED <<leaf, inner, watched, lastWatch>>
      /\ dir # Watcher!Absent /\ m # old /\ dir' = [dir EXCEPT !.name = m]
  BY <1>1, <1>2 DEF Watcher!RenameDirectory
<1>4. /\ TreeFrame /\ changes' = changes + 1
      /\ blind \subseteq blind' /\ (Watcher!Rebuilding => paths \subseteq blind')
  BY <1>3, ChangedIs
<1>5. UNCHANGED <<buffer, watches, place, visit, rebuildRequested>> /\ Ending' = Ending
  BY <1>4, TreeStays
<1>6. /\ dir \in [name : EntryNames, id : Nat] /\ dir.id # Watcher!Root /\ dir.name \in Names
      /\ ~Loose => Watcher!Root \in DOMAIN watched
      /\ DOMAIN watched # {} => Watcher!Root \in DOMAIN watched
  BY <1>0, <1>3, DirectoryIs
<1>7. /\ old \in EntryNames /\ m \in EntryNames /\ "" \in EntryNames /\ "moved" \in NoticeKinds
           /\ "move_self" \in NoticeKinds
      /\ dir'.name = m /\ dir'.id = dir.id /\ dir' \in [name : EntryNames, id : Nat]
           /\ dir' # Watcher!Absent
  BY <1>1, <1>3, <1>6, AbsentIs DEF EntryNames, NoticeKinds, Watcher!Root
<1>8. TreeTyped'
  <2>1. /\ leaf' \in Nat /\ inner' \in Nat /\ changes' \in Nat
        /\ dir.id <= changes /\ changes \in Nat /\ dir.id \in Nat /\ dir.id # 0
    BY <1>0, <1>3, <1>4, <1>6 DEF TreeTyped, Watcher!Root
  <2>2. PICK k : k = dir.id
    OBVIOUS
  <2>3. PICK c : c = changes
    OBVIOUS
  <2>4. k \in Nat /\ c \in Nat /\ k <= c /\ k # 0
    BY <2>1, <2>2, <2>3
  <2>5. k <= c + 1
    BY <2>4
  <2>6. changes' = c + 1 /\ dir'.id = k /\ dir'.name \in Names
    BY <1>4, <1>7, <2>2, <2>3
  <2>7. dir'.id <= changes' /\ dir'.id # 0
    BY <2>4, <2>5, <2>6
  <2> QED BY <1>7, <2>1, <2>6, <2>7 DEF TreeTyped
<1>9. PICK yes \in BOOLEAN : yes = TRUE
  OBVIOUS
<1>10. PICK no \in BOOLEAN : no = FALSE
  OBVIOUS
<1>11. PICK q1 : q1 = Watcher!Told(notices, Watcher!Root, "moved", old, yes)
  OBVIOUS
<1>12. PICK q2 : q2 = Watcher!Told(q1, Watcher!Root, "moved", m, yes)
  OBVIOUS
<1>20. PICK inode : inode = dir.id
  OBVIOUS
<1>21. PICK q3 : q3 = Watcher!Told(q2, inode, "move_self", "", no)
  OBVIOUS
<1>22. notices' = q3
  BY <1>1, <1>9, <1>10, <1>11, <1>12, <1>20, <1>21 DEF Watcher!RenameDirectory
<1>23. Watcher!Root \in DOMAIN watched => notices' \in Seq(NoticeType)
         /\ SoundNotices(Unhandled', watched, lastWatch) /\ Alarm'
  <2>1. SUFFICES ASSUME Watcher!Root \in DOMAIN watched
                 PROVE  notices' \in Seq(NoticeType)
                          /\ SoundNotices(Unhandled', watched, lastWatch) /\ Alarm'
    OBVIOUS
  <2>2. PICK e1 : e1 = Watcher!Event(watched[Watcher!Root], "moved", old, yes)
    OBVIOUS
  <2>3. PICK e2 : e2 = Watcher!Event(watched[Watcher!Root], "moved", m, yes)
    OBVIOUS
  <2>4. PICK e3 : e3 = Watcher!Event(watched[inode], "move_self", "", no)
    OBVIOUS
  <2>5. PICK s0 : s0 = buffer \o notices
    OBVIOUS
  <2>6. PICK s1 : s1 = buffer \o q1
    OBVIOUS
  <2>7. PICK s2 : s2 = buffer \o q2
    OBVIOUS
  <2>8. PICK s3 : s3 = buffer \o q3
    OBVIOUS
  <2>9. /\ SoundNotice(e1, watched, lastWatch) /\ SoundNotice(e2, watched, lastWatch)
        /\ e1.watch = watched[Watcher!Root] /\ e2.watch = watched[Watcher!Root]
    BY <1>9, <2>2, <2>3, RootEvent
  <2>10. SoundNotices(s0, watched, lastWatch) /\ notices \in Seq(NoticeType)
    BY <1>0, <2>5, WatcherFacts DEF Unhandled
  <2>11. /\ q1 \in Seq(NoticeType) /\ SoundNotices(s1, watched, lastWatch)
         /\ Tells(s1, e1)
    <3>1. NotGone(s0, e1.watch)
      BY <2>9, <2>10, NoneGone
    <3>2. q1 = Watcher!Enqueue(notices, e1) /\ e1 \in NoticeType
      <4>1. q1 = Watcher!Enqueue(notices, e1)
        BY <1>0, <1>7, <1>11, <2>1, <2>2 DEF Watcher!Told
      <4>2. e1 \in NoticeType
        BY <1>0, <1>7, <1>11, <2>1, <2>2, WatcherFacts, EventIs
      <4> QED BY <4>1, <4>2
    <3> QED BY <1>0, <2>5, <2>6, <2>9, <2>10, <3>1, <3>2, ToldMore
  <2>12. Alarming(s1)
    <3>1. e1.kind = "moved"
      BY <2>2 DEF Watcher!Event
    <3> QED BY <2>11, <3>1 DEF Alarming, Tells
  <2>13. q2 \in Seq(NoticeType) /\ SoundNotices(s2, watched, lastWatch) /\ Alarming(s2)
    <3>1. NotGone(s1, e2.watch)
      BY <2>9, <2>11, NoneGone
    <3>2. q2 \in Seq(NoticeType) /\ SoundNotices(s2, watched, lastWatch) /\ Keeps(s1, s2)
      <4>1. q2 = Watcher!Enqueue(q1, e2) /\ e2 \in NoticeType
        <5>1. q2 = Watcher!Enqueue(q1, e2)
          BY <1>0, <1>7, <1>12, <2>1, <2>3 DEF Watcher!Told
        <5>2. e2 \in NoticeType
          BY <1>0, <1>7, <1>12, <2>1, <2>3, WatcherFacts, EventIs
        <5> QED BY <5>1, <5>2
      <4> QED BY <1>0, <2>6, <2>7, <2>9, <2>11, <3>1, <4>1, ToldMore
    <3> QED BY <2>12, <3>2 DEF Keeps
  <2>14. e3.watch = watched[inode]
           /\ (inode \in DOMAIN watched => SoundNotice(e3, watched, lastWatch))
    <3>1. e3.watch = watched[inode]
      BY <2>4 DEF Watcher!Event
    <3>2. e3 = Watcher!Event(watched[dir.id], "move_self", "", FALSE)
      BY <1>10, <1>20, <2>4
    <3> QED BY <1>0, <1>3, <1>7, <1>20, <3>1, <3>2, DirectoryEvent
  <2>15. inode \in DOMAIN watched => NotGone(s2, e3.watch)
    BY <2>13, <2>14, NoneGone
  <2>16. q3 \in Seq(NoticeType) /\ SoundNotices(s3, watched, lastWatch) /\ Keeps(s2, s3)
    <3>1. CASE inode \in DOMAIN watched
      <4>1. q3 = Watcher!Enqueue(q2, e3) /\ e3 \in NoticeType
        <5>1. q3 = Watcher!Enqueue(q2, e3)
          BY <1>0, <1>7, <1>21, <2>4, <3>1 DEF Watcher!Told
        <5>2. e3 \in NoticeType
          BY <1>0, <1>7, <1>21, <2>4, <3>1, WatcherFacts, EventIs
        <5> QED BY <5>1, <5>2
      <4> QED BY <1>0, <2>7, <2>8, <2>13, <2>14, <2>15, <3>1, <4>1, ToldMore
    <3>2. CASE inode \notin DOMAIN watched
      <4>1. q3 = q2
        BY <1>21, <3>2 DEF Watcher!Told
      <4> QED BY <2>7, <2>8, <2>13, <4>1 DEF Keeps
    <3> QED BY <3>1, <3>2
  <2>17. Alarming(s3)
    BY <2>13, <2>16 DEF Keeps
  <2> QED BY <1>5, <1>22, <2>8, <2>16, <2>17 DEF Unhandled, Alarm
<1>13. Watcher!Root \notin DOMAIN watched => notices' = notices /\ Unhandled' = Unhandled
  <2>1. SUFFICES ASSUME Watcher!Root \notin DOMAIN watched PROVE notices' = notices
                        /\ Unhandled' = Unhandled
    OBVIOUS
  <2>2. dir.id \notin DOMAIN watched
    BY <1>6, <2>1
  <2> QED BY <1>5, <1>11, <1>12, <1>20, <1>21, <1>22, <2>1, <2>2 DEF Watcher!Told, Unhandled
<1>14. WatcherShape'
  <2>1. notices' \in Seq(NoticeType) /\ SoundNotices(Unhandled', watched, lastWatch)
    BY <1>0, <1>23, <1>13, WatcherFacts
  <2>2. DOMAIN watched \subseteq {Watcher!Root, dir'.id}
    BY <1>0, <1>7 DEF WatchTyped
  <2> QED BY <1>0, <1>3, <1>4, <1>8, <1>13, <2>1, <2>2, TreeShape
<1>15. ~Loose => Alarm'
  BY <1>6, <1>23
<1>16. Alarm => Alarm'
  BY <1>23, <1>13 DEF Alarm
<1>17. WatchesSound'
  BY <1>5, <1>15, <1>16 DEF Loose, WatchesSound
<1>18. ChangesKnown'
  <2>1. \A p \in Watcher!Paths \ paths : Watcher!Current'[p] = Watcher!Current[p]
    <3>1. SUFFICES ASSUME NEW p \in Watcher!Paths,
                          p \notin paths PROVE Watcher!Current'[p] = Watcher!Current[p]
      OBVIOUS
    <3>2. CASE p = Watcher!File
      BY <1>3, <3>2 DEF Watcher!Current
    <3>3. CASE \E n \in Names : p = <<n>>
      <4>1. PICK n \in Names : p = <<n>>
        BY <3>3
      <4>2. n # old /\ n # m
        BY <1>2, <3>1, <4>1
      <4>3. Watcher!Current[<<n>>] = 0
        BY <1>1, <1>6, <4>2, CurrentIs
      <4>4. Watcher!Current'[<<n>>] = 0
        BY <1>7, <4>2, CurrentNext
      <4> QED BY <4>1, <4>3, <4>4
    <3>4. CASE \E n \in Names : p = Watcher!Inner(n)
      <4>1. PICK n \in Names : p = Watcher!Inner(n)
        BY <3>4
      <4>2. n # old /\ n # m
        BY <1>2, <3>1, <4>1
      <4>3. Watcher!Current[Watcher!Inner(n)] = 0
        BY <1>1, <1>6, <4>2, CurrentIs
      <4>4. Watcher!Current'[Watcher!Inner(n)] = 0
        BY <1>7, <4>2, CurrentNext
      <4> QED BY <4>1, <4>3, <4>4
    <3> QED BY <3>2, <3>3, <3>4 DEF Watcher!Paths
  <2>2. ~Ending /\ ~Watcher!Rebuilding => Alarm'
    BY <1>15, <1>16 DEF Loose, Watcher!Rebuilding
  <2> QED BY <1>0, <1>4, <1>16, <2>1, <2>2, TreeKnown
<1>19. StopSound'
  BY <1>0, <1>4, TreeStays
<1> QED BY <1>14, <1>17, <1>18, <1>19 DEF WatcherInv

\* The events of a directory that goes: its watch goes with the second.
LEMMA RemovedTold ==
  ASSUME Watcher!WatcherAssumption, WatcherShape, Watcher!RemoveDirectory,
         Watcher!Root \in DOMAIN watched, buffer' = buffer
  PROVE  /\ notices' \in Seq(NoticeType) /\ SoundNotices(Unhandled', watched', lastWatch)
         /\ \A i \in 1..Len(Unhandled) : i \in 1..Len(Unhandled') /\ Unhandled'[i] = Unhandled[i]
         /\ Alarm => Alarm'
         /\ Alarm' \/ \E i \in 1..Len(Unhandled') :
                         /\ Unhandled'[i].kind = "delete" /\ Unhandled'[i].name = dir.name
                         /\ Unhandled'[i].watch = watched[Watcher!Root]
         /\ dir.id \in DOMAIN watched =>
               Alarm' \/ \E i \in 1..Len(Unhandled') :
                            Unhandled'[i].kind = "ignored" /\ Unhandled'[i].watch = watched[dir.id]
<1>1. PICK inode : inode = dir.id
  OBVIOUS
<1>2. PICK n : n = dir.name
  OBVIOUS
<1>3. dir # Watcher!Absent /\ watched' = [i \in DOMAIN watched \ {inode} |-> watched[i]]
  BY <1>1 DEF Watcher!RemoveDirectory
<1>4. inode # Watcher!Root /\ n \in Names
  BY <1>1, <1>2, <1>3, DirectoryIs
<1>5. PICK live : live = watched'
  OBVIOUS
<1>6. /\ live[Watcher!Root] = watched[Watcher!Root] /\ DOMAIN live \subseteq DOMAIN watched
      /\ \A i \in DOMAIN live : live[i] = watched[i] /\ i # inode
  BY <1>3, <1>4, <1>5
<1>7. PICK yes \in BOOLEAN : yes = TRUE
  OBVIOUS
<1>8. PICK no \in BOOLEAN : no = FALSE
  OBVIOUS
<1>9. PICK q1 : q1 = Watcher!Told(notices, inode, "delete_self", "", no)
  OBVIOUS
<1>10. PICK q2 : q2 = Watcher!Told(q1, inode, "ignored", "", no)
  OBVIOUS
<1>11. PICK q3 : q3 = Watcher!Told(q2, Watcher!Root, "delete", n, yes)
  OBVIOUS
<1>12. notices' = q3
  BY <1>1, <1>2, <1>7, <1>8, <1>9, <1>10, <1>11 DEF Watcher!RemoveDirectory
<1>13. PICK e1 : e1 = Watcher!Event(watched[inode], "delete_self", "", no)
  OBVIOUS
<1>14. PICK e2 : e2 = Watcher!Event(watched[inode], "ignored", "", no)
  OBVIOUS
<1>15. PICK e3 : e3 = Watcher!Event(watched[Watcher!Root], "delete", n, yes)
  OBVIOUS
<1>16. /\ n \in EntryNames /\ "" \in EntryNames
       /\ "delete" \in NoticeKinds /\ "delete_self" \in NoticeKinds /\ "ignored" \in NoticeKinds
  BY <1>4 DEF EntryNames, NoticeKinds
<1>17. PICK s0 : s0 = buffer \o notices
  OBVIOUS
<1>18. PICK s1 : s1 = buffer \o q1
  OBVIOUS
<1>19. PICK s2 : s2 = buffer \o q2
  OBVIOUS
<1>20. PICK s3 : s3 = buffer \o q3
  OBVIOUS
<1>21. SoundNotices(s0, watched, lastWatch) /\ notices \in Seq(NoticeType)
  BY <1>17, WatcherFacts DEF Unhandled
<1>22. q1 \in Seq(NoticeType) /\ SoundNotices(s1, watched, lastWatch) /\ Keeps(s0, s1)
  <2>1. e1.watch = watched[inode]
    BY <1>13 DEF Watcher!Event
  <2>2. inode \in DOMAIN watched => SoundNotice(e1, watched, lastWatch)
    <3>1. e1 = Watcher!Event(watched[dir.id], "delete_self", "", FALSE)
      BY <1>1, <1>8, <1>13
    <3> QED BY <1>1, <1>3, <1>16, <3>1, DirectoryEvent
  <2>3. inode \in DOMAIN watched => NotGone(s0, e1.watch)
    BY <1>21, <2>1, NoneGone
  <2>4. CASE inode \in DOMAIN watched
    <3>1. q1 = Watcher!Enqueue(notices, e1) /\ e1 \in NoticeType
      <4>1. q1 = Watcher!Enqueue(notices, e1)
        BY <1>9, <1>13, <1>16, <2>4 DEF Watcher!Told
      <4>2. e1 \in NoticeType
        BY <1>9, <1>13, <1>16, <2>4, WatcherFacts, EventIs
      <4> QED BY <4>1, <4>2
    <3> QED BY <1>17, <1>18, <1>21, <2>2, <2>3, <2>4, <3>1, ToldMore
  <2>5. CASE inode \notin DOMAIN watched
    <3>1. q1 = notices
      BY <1>9, <2>5 DEF Watcher!Told
    <3> QED BY <1>17, <1>18, <1>21, <3>1 DEF Keeps
  <2> QED BY <2>4, <2>5
<1>23. SoundNotices(s1, live, lastWatch)
  BY <1>6, <1>22, ShrinkSound
<1>24. /\ q2 \in Seq(NoticeType) /\ SoundNotices(s2, live, lastWatch) /\ Keeps(s1, s2)
       /\ inode \in DOMAIN watched => Tells(s2, e2)
  <2>1. e2.watch = watched[inode] /\ e2.kind = "ignored" /\ ~e2.directory
    BY <1>8, <1>14 DEF Watcher!Event
  <2>2. ASSUME inode \in DOMAIN watched PROVE SoundNotice(e2, live, lastWatch)
    <3>1. /\ watched[inode] \in 1..lastWatch
          /\ \A i \in DOMAIN live : live[i] # watched[inode]
          /\ live[Watcher!Root] # watched[inode]
      BY <1>4, <1>6, <2>2, WatcherFacts
    <3> QED BY <2>1, <3>1 DEF SoundNotice, OfDirectory
  <2>3. inode \in DOMAIN watched => NotGone(s1, e2.watch)
    BY <1>22, <2>1, NoneGone
  <2>4. CASE inode \in DOMAIN watched
    <3>1. q2 = Watcher!Enqueue(q1, e2) /\ e2 \in NoticeType
      <4>1. q2 = Watcher!Enqueue(q1, e2)
        BY <1>10, <1>14, <1>16, <2>4 DEF Watcher!Told
      <4>2. e2 \in NoticeType
        BY <1>10, <1>14, <1>16, <2>4, WatcherFacts, EventIs
      <4> QED BY <4>1, <4>2
    <3> QED BY <1>18, <1>19, <1>22, <1>23, <2>2, <2>3, <2>4, <3>1, ToldMore
  <2>5. CASE inode \notin DOMAIN watched
    <3>1. q2 = q1
      BY <1>10, <2>5 DEF Watcher!Told
    <3> QED BY <1>18, <1>19, <1>22, <1>23, <2>5, <3>1 DEF Keeps
  <2> QED BY <2>4, <2>5
<1>25. /\ q3 \in Seq(NoticeType) /\ SoundNotices(s3, live, lastWatch) /\ Keeps(s2, s3)
       /\ Tells(s3, e3)
  <2>1. e3 = Watcher!Event(live[Watcher!Root], "delete", n, TRUE)
    BY <1>6, <1>7, <1>15
  <2>2. SoundNotice(e3, live, lastWatch) /\ e3.watch = live[Watcher!Root]
    BY <1>4, <2>1, RootEvent
  <2>3. NotGone(s2, e3.watch)
    BY <1>24, <2>2, NoneGone
  <2>4. q3 = Watcher!Enqueue(q2, e3) /\ e3 \in NoticeType
    <3>1. q3 = Watcher!Enqueue(q2, e3)
      BY <1>11, <1>15, <1>16 DEF Watcher!Told
    <3>2. e3 \in NoticeType
      BY <1>11, <1>15, <1>16, WatcherFacts, EventIs
    <3> QED BY <3>1, <3>2
  <2> QED BY <1>19, <1>20, <1>24, <2>2, <2>3, <2>4, ToldMore
<1>26. /\ e2.watch = watched[inode] /\ e2.kind = "ignored"
       /\ e3.watch = watched[Watcher!Root] /\ e3.kind = "delete" /\ e3.name = n
  BY <1>14, <1>15 DEF Watcher!Event
<1>27. Unhandled' = s3 /\ Unhandled = s0
  BY <1>12, <1>17, <1>20 DEF Unhandled
<1>28. Keeps(s0, s3)
  BY <1>22, <1>24, <1>25, KeepsOn
<1>29. SoundNotices(Unhandled', watched', lastWatch) /\ notices' \in Seq(NoticeType)
  BY <1>5, <1>12, <1>25, <1>27
<1>30. /\ \A i \in 1..Len(Unhandled) : i \in 1..Len(Unhandled') /\ Unhandled'[i] = Unhandled[i]
       /\ Alarm => Alarm'
  BY <1>27, <1>28 DEF Keeps, Alarm
<1>31. Alarm' \/ \E i \in 1..Len(Unhandled') :
                    /\ Unhandled'[i].kind = "delete" /\ Unhandled'[i].name = dir.name
                    /\ Unhandled'[i].watch = watched[Watcher!Root]
  BY <1>2, <1>25, <1>26, <1>27 DEF Alarm, Tells
<1>32. dir.id \in DOMAIN watched =>
          Alarm' \/ \E i \in 1..Len(Unhandled') :
                       Unhandled'[i].kind = "ignored" /\ Unhandled'[i].watch = watched[dir.id]
  BY <1>1, <1>24, <1>25, <1>26, <1>27 DEF Alarm, Keeps, Tells
<1> QED BY <1>29, <1>30, <1>31, <1>32

LEMMA DirectoryRemoved ==
  ASSUME Watcher!WatcherAssumption, WatcherInv, Watcher!RemoveDirectory PROVE WatcherInv'
<1>0. WatcherShape /\ TreeTyped /\ WatchesSound /\ ChangesKnown /\ StopSound /\ WatchTyped
  BY DEF WatcherInv, WatcherShape
<1>1. PICK n : n = dir.name
  OBVIOUS
<1>2. /\ Watcher!Changed({<<n>>}) /\ UNCHANGED <<leaf, inner, lastWatch>>
      /\ dir # Watcher!Absent /\ inner = 0 /\ dir' = Watcher!Absent
      /\ watched' = [i \in DOMAIN watched \ {dir.id} |-> watched[i]]
  BY <1>1 DEF Watcher!RemoveDirectory
<1>3. PICK paths : paths = {<<n>>}
  OBVIOUS
<1>4. /\ TreeFrame /\ changes' = changes + 1
      /\ blind \subseteq blind' /\ (Watcher!Rebuilding => paths \subseteq blind')
  BY <1>2, <1>3, ChangedIs
<1>5. UNCHANGED <<buffer, watches, place, visit, rebuildRequested>> /\ Ending' = Ending
  BY <1>4, TreeStays
<1>6. /\ dir \in [name : EntryNames, id : Nat] /\ dir.id # Watcher!Root /\ dir.name \in Names
      /\ ~Loose => Watcher!Root \in DOMAIN watched
      /\ DOMAIN watched # {} => Watcher!Root \in DOMAIN watched
      /\ Watcher!Root \in DOMAIN watched => watched[Watcher!Root] \in DOMAIN watches
           /\ watches[watched[Watcher!Root]] = << >>
  BY <1>0, <1>2, DirectoryIs
<1>7. TreeTyped'
  <2>1. leaf' \in Nat /\ inner' = 0 /\ changes \in Nat
    BY <1>0, <1>2 DEF TreeTyped
  <2>2. changes' \in Nat /\ 0 <= changes'
    BY <1>4, <2>1
  <2> QED BY <1>2, <2>1, <2>2, AbsentIs DEF TreeTyped
<1>8. /\ notices' \in Seq(NoticeType) /\ SoundNotices(Unhandled', watched', lastWatch)
      /\ \A i \in 1..Len(Unhandled) : i \in 1..Len(Unhandled') /\ Unhandled'[i] = Unhandled[i]
      /\ Alarm => Alarm'
      /\ Watcher!Root \notin DOMAIN watched => notices' = notices
  <2>1. CASE Watcher!Root \in DOMAIN watched
    BY <1>0, <1>5, <2>1, RemovedTold
  <2>2. CASE Watcher!Root \notin DOMAIN watched
    <3>1. dir.id \notin DOMAIN watched
      BY <1>6, <2>2
    <3>2. notices' = notices /\ Unhandled' = Unhandled
      BY <1>5, <2>2, <3>1 DEF Watcher!RemoveDirectory, Watcher!Told, Unhandled
    <3>3. DOMAIN watched = {} /\ DOMAIN watched' = {}
      BY <1>2, <1>6, <2>2
    <3>4. Unhandled = << >>
      BY <1>0, <2>2 DEF WatcherShape, RootWatched
    <3>5. Len(Unhandled) = 0
      BY <3>4
    <3>6. SoundNotices(Unhandled, watched', lastWatch)
      BY <3>5 DEF SoundNotices, GoneIsLast
    <3> QED BY <1>0, <2>2, <3>2, <3>6, WatcherFacts DEF Alarm
  <2> QED BY <2>1, <2>2
<1>9. WatcherShape'
  <2>1. /\ DOMAIN watched' \subseteq DOMAIN watched
             /\ DOMAIN watched' \subseteq {Watcher!Root, dir'.id}
        /\ \A i \in DOMAIN watched' : watched'[i] = watched[i]
        /\ Watcher!Root \in DOMAIN watched => Watcher!Root \in DOMAIN watched'
    BY <1>0, <1>2, <1>6 DEF WatchTyped
  <2>2. SoundNotices(Unhandled', watched', lastWatch)
    BY <1>8
  <2> QED BY <1>0, <1>4, <1>7, <1>8, <2>1, <2>2, TreeShape
<1>10. WatchesSound'
  <2>1. CASE Loose
    BY <1>5, <1>8, <2>1 DEF Loose, WatchesSound
  <2>2. CASE Alarm'
    BY <2>2 DEF Loose, WatchesSound
  <2>3. CASE ~Loose /\ ~Alarm'
    <3>1. WatchesTree /\ Watcher!Root \in DOMAIN watched
      BY <1>0, <1>6, <2>3 DEF WatchesSound
    <3>2. ASSUME NEW w \in DOMAIN watches'
          PROVE  \/ \E i \in DOMAIN watched' : w = watched'[i]
                 \/ \E i \in 1..Len(Unhandled') : Unhandled'[i].kind = "ignored"
                      /\ Unhandled'[i].watch = w
      <4>1. \/ \E i \in DOMAIN watched : w = watched[i]
            \/ \E i \in 1..Len(Unhandled) : Unhandled[i].kind = "ignored" /\ Unhandled[i].watch = w
        BY <1>5, <3>1 DEF WatchesTree
      <4>2. CASE \E i \in DOMAIN watched : w = watched[i]
        <5>1. PICK i \in DOMAIN watched : w = watched[i]
          BY <4>2
        <5>2. CASE i = dir.id
          BY <1>0, <1>5, <2>3, <3>1, <5>1, <5>2, RemovedTold
        <5>3. CASE i # dir.id
          BY <1>2, <5>1, <5>3
        <5> QED BY <5>2, <5>3
      <4>3. CASE \E i \in 1..Len(Unhandled) : Unhandled[i].kind = "ignored"
                 /\ Unhandled[i].watch = w
        BY <1>8, <4>3
      <4> QED BY <4>1, <4>2, <4>3
    <3> QED BY <1>2, <3>2 DEF WatchesTree, WatchesSound
  <2> QED BY <2>1, <2>2, <2>3
<1>11. ChangesKnown'
  <2>1. \A p \in Watcher!Paths \ paths : Watcher!Current'[p] = Watcher!Current[p]
    <3>1. SUFFICES ASSUME NEW p \in Watcher!Paths,
                          p \notin paths PROVE Watcher!Current'[p] = Watcher!Current[p]
      OBVIOUS
    <3>2. dir' \in [name : EntryNames, id : Nat] /\ dir'.id = 0
      BY <1>2, AbsentIs
    <3>3. CASE p = Watcher!File
      BY <1>2, <3>3 DEF Watcher!Current
    <3>4. CASE \E k \in Names : p = <<k>>
      <4>1. PICK k \in Names : p = <<k>>
        BY <3>4
      <4>2. Watcher!Current[<<k>>] = 0
        BY <1>1, <1>3, <1>6, <3>1, <4>1, CurrentIs
      <4>3. Watcher!Current'[<<k>>] = 0
        BY <1>2, <3>2, CurrentNext
      <4> QED BY <4>1, <4>2, <4>3
    <3>5. CASE \E k \in Names : p = Watcher!Inner(k)
      <4>1. PICK k \in Names : p = Watcher!Inner(k)
        BY <3>5
      <4>2. Watcher!Current[Watcher!Inner(k)] = 0
        BY <1>2, <1>6, CurrentIs
      <4>3. Watcher!Current'[Watcher!Inner(k)] = 0
        BY <1>2, <3>2, CurrentNext
      <4> QED BY <4>1, <4>2, <4>3
    <3> QED BY <3>3, <3>4, <3>5 DEF Watcher!Paths
  <2>2. SUFFICES ASSUME ~Ending, ~Watcher!Rebuilding, ~Alarm'
                 PROVE  /\ \A p \in Watcher!Paths \ blind' : p \notin paths
                             /\ IsUnderWay(p) => IsUnderWay(p)'
                        /\ \A p \in paths \ blind' : IsUnderWay(p)'
    BY <1>0, <1>4, <1>8, <2>1, TreeKnown
  <2>3. Watcher!Root \in DOMAIN watched
    BY <1>6, <1>8, <2>2 DEF Loose, Watcher!Rebuilding
  <2>4. \A p : IsUnderWay(p) => IsUnderWay(p)'
    BY <1>0, <1>2, <1>4, <1>8, ReportsStay
  <2>5. IsUnderWay(<<n>>)'
    <3>1. PICK i \in 1..Len(Unhandled') : /\ Unhandled'[i].kind = "delete"
                                               /\ Unhandled'[i].name = dir.name
                                          /\ Unhandled'[i].watch = watched[Watcher!Root]
      BY <1>0, <1>5, <2>2, <2>3, RemovedTold
    <3>2. PICK e : e = Unhandled'[i]
      OBVIOUS
    <3>3. Reports(e, <<n>>)'
      <4>1. n \in EntryNames
        BY <1>1, <1>6 DEF EntryNames
      <4>2. e.watch \in DOMAIN watches' /\ watches'[e.watch] = << >>
        BY <1>5, <1>6, <2>3, <3>1, <3>2
      <4> QED BY <1>1, <3>1, <3>2, <4>1, <4>2, DirectoryReports
    <3>4. Reports(Unhandled[i], <<n>>)'
      BY <3>2, <3>3 DEF Reports
    <3> QED BY <3>1, <3>4 DEF IsUnderWay
  <2> QED BY <1>3, <2>4, <2>5
<1>12. StopSound'
  BY <1>0, <1>4, TreeStays
<1> QED BY <1>9, <1>10, <1>11, <1>12 DEF WatcherInv

-----------------------------------------------------------------------------
(* The owner drains and looks; the thread's steps that handle no event; Stop *)

LEMMA ViewStays ==
  ASSUME UNCHANGED <<Watcher!tree, Watcher!kernel, Watcher!thread, stopRequested>>
  PROVE  /\ UNCHANGED <<leaf, dir, inner, gone, changes, notices, watched, lastWatch, place, buffer,
                        visit, rebuildRequested, watches>>
         /\ Watcher!Current' = Watcher!Current /\ Ending' = Ending
         /\ TreeTyped => TreeTyped'
         /\ WatchTyped => WatchTyped'
         /\ RootWatched => RootWatched'
         /\ UnhandledSound => UnhandledSound'
         /\ WatchesSound => WatchesSound'
         /\ \A p : WillBeTold(p) => WillBeTold(p)'
<1>1. /\ UNCHANGED <<leaf, dir, inner, gone, changes, notices, watched, lastWatch, place, buffer,
                     visit, rebuildRequested, watches>>
  BY DEF Watcher!tree, Watcher!kernel, Watcher!thread
<1>2. /\ Watcher!Current' = Watcher!Current /\ Ending' = Ending /\ Unhandled' = Unhandled
           /\ Alarm' = Alarm
      /\ Watcher!Rebuilding' = Watcher!Rebuilding
  BY <1>1 DEF Watcher!Current, Ending, Unhandled, Alarm, Watcher!Rebuilding
<1>3. /\ TreeTyped => TreeTyped'
      /\ WatchTyped => WatchTyped'
      /\ RootWatched => RootWatched'
      /\ UnhandledSound => UnhandledSound'
  BY <1>1, <1>2 DEF TreeTyped, WatchTyped, RootWatched, UnhandledSound
<1>4. WatchesSound => WatchesSound'
  BY <1>1, <1>2 DEF WatchesSound, Loose, WatchesTree, ToWatch
<1>5. ASSUME NEW p, WillBeTold(p) PROVE WillBeTold(p)'
  <2>1. ~Watcher!Rebuilding' /\ (Alarm' \/ IsUnderWay(p))
    BY <1>2, <1>5 DEF WillBeTold
  <2>2. ASSUME IsUnderWay(p) PROVE IsUnderWay(p)'
    <3>1. PICK i \in 1..Len(Unhandled) : Reports(Unhandled[i], p) \/ Finds(i, Unhandled[i], p)
      BY <2>2 DEF IsUnderWay
    <3>2. Reports(Unhandled[i], p)' \/ Finds(i, Unhandled[i], p)'
      BY <1>1, <1>2, <3>1 DEF Reports, Finds, Creates, ToSearch
    <3> QED BY <1>2, <3>1, <3>2 DEF IsUnderWay
  <2> QED BY <2>1, <2>2 DEF WillBeTold
<1> QED BY <1>1, <1>2, <1>3, <1>4, <1>5

LEMMA OwnerActs ==
  ASSUME WatcherInv, Watcher!Drain \/ Watcher!Refresh PROVE WatcherInv'
<1>0. WatcherShape /\ WatchesSound /\ ChangesKnown /\ StopSound
  BY DEF WatcherInv
<1>1. UNCHANGED <<Watcher!tree, Watcher!kernel, Watcher!flags, Watcher!thread, stopper>>
  BY DEF Watcher!Drain, Watcher!Refresh
<1>2. UNCHANGED <<Watcher!tree, Watcher!kernel, Watcher!thread, stopRequested, running, stopper>>
  BY <1>1 DEF Watcher!flags
<1>3. /\ UNCHANGED <<notices, place, buffer, visit, rebuildRequested>>
      /\ Watcher!Current' = Watcher!Current /\ Ending' = Ending
      /\ TreeTyped' /\ WatchTyped' /\ RootWatched' /\ UnhandledSound' /\ WatchesSound'
      /\ \A p : WillBeTold(p) => WillBeTold(p)'
  BY <1>0, <1>2, ViewStays DEF WatcherShape
<1>4. /\ events' \in Seq(Seq(EntryNames))
      /\ rescanPending' => Watcher!Rescan \in Watcher!Functions!Range(events')
  <2>1. CASE Watcher!Drain
    <3>1. << >> \in Seq(Seq(EntryNames))
      OBVIOUS
    <3> QED BY <2>1, <3>1 DEF Watcher!Drain
  <2>2. CASE Watcher!Refresh
    BY <1>0, <2>2 DEF Watcher!Refresh, Watcher!state, WatcherShape, ThreadTyped
  <2> QED BY <2>1, <2>2
<1>5. ThreadTyped'
  BY <1>0, <1>3, <1>4 DEF WatcherShape, ThreadTyped, Handling, Adding
<1>6. ChangesKnown'
  <2>1. SUFFICES ASSUME ~Ending, NEW p \in Watcher!Paths \ blind'
                 PROVE  seen'[p] = Watcher!Current'[p] \/ ToldOf(p)' \/ WillBeTold(p)'
    BY <1>3 DEF ChangesKnown
  <2>2. CASE Watcher!Drain
    <3>1. /\ batch' = Watcher!Functions!Range(events) /\ batch = {} /\ UNCHANGED <<seen, blind>>
      BY <2>2 DEF Watcher!Drain
    <3>2. ToldOf(p) => ToldOf(p)'
      BY <3>1 DEF ToldOf
    <3> QED BY <1>0, <1>3, <2>1, <3>1, <3>2 DEF ChangesKnown
  <2>3. CASE Watcher!Refresh
    <3>1. PICK fresh : fresh = IF Watcher!Rescan \in batch THEN Watcher!Paths ELSE batch
      OBVIOUS
    <3>2. /\ seen' = [q \in Watcher!Paths |-> IF q \in fresh THEN Watcher!Current[q] ELSE seen[q]]
          /\ blind' = blind \ fresh /\ events' = events
      BY <2>3, <3>1 DEF Watcher!Refresh, Watcher!state
    <3>3. CASE p \in fresh
      BY <1>3, <2>1, <3>2, <3>3
    <3>4. CASE p \notin fresh
      <4>1. p \notin batch /\ Watcher!Rescan \notin batch
        BY <2>1, <3>1, <3>4
      <4>2. ToldOf(p) => ToldOf(p)'
        BY <3>2, <4>1 DEF ToldOf
      <4>3. p \notin blind /\ seen'[p] = seen[p]
        BY <2>1, <3>2, <3>4
      <4> QED BY <1>0, <1>3, <2>1, <4>2, <4>3 DEF ChangesKnown
    <3> QED BY <3>3, <3>4
  <2> QED BY <2>2, <2>3
<1>7. StopSound'
  BY <1>0, <1>2, <1>3 DEF StopSound
<1> QED BY <1>3, <1>5, <1>6, <1>7 DEF WatcherInv, WatcherShape

\* What a step of the thread must leave of what the owner does not know.
LEMMA WorkerKnown ==
  ASSUME ChangesKnown, UNCHANGED <<Watcher!tree, seen, blind>>, Ending => Ending',
         \A p : ToldOf(p) => ToldOf(p)',
         ~Ending /\ ~Ending' /\ ~Watcher!Rebuilding =>
             \A p \in Watcher!Paths : Alarm \/ IsUnderWay(p) => ToldOf(p)' \/ WillBeTold(p)'
  PROVE  ChangesKnown'
<1>1. Watcher!Current' = Watcher!Current
  BY DEF Watcher!tree, Watcher!Current
<1>2. SUFFICES ASSUME ~Ending', NEW p \in Watcher!Paths \ blind
               PROVE  seen'[p] = Watcher!Current'[p] \/ ToldOf(p)' \/ WillBeTold(p)'
  BY DEF ChangesKnown
<1>3. seen[p] = Watcher!Current[p] \/ ToldOf(p) \/ WillBeTold(p)
  BY <1>2 DEF ChangesKnown
<1> QED BY <1>1, <1>2, <1>3 DEF WillBeTold

LEMMA StopActs ==
  ASSUME WatcherInv,
         Watcher!StopRequests \/ Watcher!StopWakes \/ Watcher!StopJoins PROVE WatcherInv'
<1>0. WatcherShape /\ WatchesSound /\ ChangesKnown /\ StopSound
  BY DEF WatcherInv
<1>1. /\ UNCHANGED <<Watcher!tree, Watcher!kernel, Watcher!state, Watcher!thread, Watcher!client,
           blind>>
      /\ stopRequested => stopRequested'
      /\ StopSound'
  BY <1>0 DEF Watcher!StopRequests, Watcher!StopWakes, Watcher!StopJoins, StopSound, Watcher!thread
<1>2. /\ UNCHANGED <<leaf, dir, inner, gone, changes, notices, watched, lastWatch, place, buffer,
                     visit, rebuildRequested, watches, events, rescanPending, batch, seen>>
  BY <1>1 DEF Watcher!tree, Watcher!kernel, Watcher!state, Watcher!thread, Watcher!client
<1>3. Unhandled' = Unhandled /\ Alarm' = Alarm /\ Watcher!Rebuilding' = Watcher!Rebuilding
        /\ (Ending => Ending')
  BY <1>1, <1>2 DEF Unhandled, Alarm, Watcher!Rebuilding, Ending
<1>4. WatcherShape'
  BY <1>0, <1>2, <1>3 DEF WatcherShape, TreeTyped, WatchTyped, ThreadTyped, RootWatched,
     UnhandledSound,
                          Handling, Adding
<1>5. WatchesSound'
  BY <1>0, <1>2, <1>3 DEF WatchesSound, Loose, WatchesTree, ToWatch
<1>6. \A p : ToldOf(p) => ToldOf(p)'
  BY <1>2 DEF ToldOf
<1>7. ASSUME NEW p, IsUnderWay(p) PROVE IsUnderWay(p)'
  <2>1. PICK i \in 1..Len(Unhandled) : Reports(Unhandled[i], p) \/ Finds(i, Unhandled[i], p)
    BY <1>7 DEF IsUnderWay
  <2>2. Reports(Unhandled[i], p)' \/ Finds(i, Unhandled[i], p)'
    BY <1>2, <1>3, <2>1 DEF Reports, Finds, Creates, ToSearch
  <2> QED BY <1>3, <2>1, <2>2 DEF IsUnderWay
<1>8. ChangesKnown'
  BY <1>0, <1>1, <1>2, <1>3, <1>6, <1>7, WorkerKnown DEF WillBeTold
<1> QED BY <1>1, <1>4, <1>5, <1>8 DEF WatcherInv

\* The thread goes on, and nothing that is pending is touched.
LEMMA GoesOn ==
  ASSUME WatcherInv, place \in {"loop", "poll", "read", "tree", "exit"},
         place' \in {"loop", "poll", "read", "exit", "done"}
           \/ (place' = "handle" /\ place = "read"),
         place = "tree" => visit = {}, Ending => Ending',
         UNCHANGED <<Watcher!tree, watched, lastWatch, Watcher!state, stopRequested, visit,
           rebuildRequested,
                     watches, Watcher!client, blind>>,
         notices' \in Seq(NoticeType), buffer' \in Seq(NoticeType), Unhandled' = Unhandled,
         place' # "handle" => buffer' = << >>
  PROVE  WatcherShape' /\ WatchesSound' /\ ChangesKnown'
<1>0. WatcherShape /\ WatchesSound /\ ChangesKnown
  BY DEF WatcherInv
<1>1. /\ UNCHANGED <<leaf, dir, inner, gone, changes, events, rescanPending, batch, seen>>
  BY DEF Watcher!tree, Watcher!state, Watcher!client
<1>2. Alarm' = Alarm /\ ~Handling /\ place' \notin {"watch", "scan", "entry"} /\ ~rebuildRequested
  BY <1>0 DEF Alarm, Handling, WatcherShape, ThreadTyped
<1>3. WatcherShape'
  <2>1. ThreadTyped'
    BY <1>0, <1>1, <1>2 DEF WatcherShape, ThreadTyped, Handling, Adding
  <2>2. RootWatched'
    BY <1>0, <1>1, <1>2 DEF WatcherShape, RootWatched
  <2> QED BY <1>0, <1>1, <2>1, <2>2 DEF WatcherShape, TreeTyped, WatchTyped, UnhandledSound
<1>4. WatchesSound'
  <2>1. CASE Loose
    BY <1>2, <2>1 DEF WatchesSound, Loose
  <2>2. CASE WatchesTree
    <3>1. WatchesTree'
      BY <1>1, <1>2, <2>2 DEF WatchesTree, ToWatch
    <3> QED BY <3>1 DEF WatchesSound
  <2> QED BY <1>0, <2>1, <2>2 DEF WatchesSound
<1>5. \A p : ToldOf(p) => ToldOf(p)'
  BY <1>1 DEF ToldOf
<1>6. ASSUME NEW p, IsUnderWay(p) PROVE IsUnderWay(p)'
  <2>1. PICK i \in 1..Len(Unhandled) : Reports(Unhandled[i], p) \/ Finds(i, Unhandled[i], p)
    BY <1>6 DEF IsUnderWay
  <2>2. Reports(Unhandled[i], p)' \/ Finds(i, Unhandled[i], p)'
    BY <1>1, <1>2, <2>1 DEF Reports, Finds, Creates, ToSearch
  <2> QED BY <2>1, <2>2 DEF IsUnderWay
<1>7. ~Watcher!Rebuilding'
  BY <1>2 DEF Watcher!Rebuilding
<1>8. ChangesKnown'
  BY <1>0, <1>1, <1>2, <1>5, <1>6, <1>7, WorkerKnown DEF WillBeTold
<1> QED BY <1>3, <1>4, <1>8

LEMMA ThreadGoesOn ==
  ASSUME WatcherInv,
         Watcher!Loop \/ Watcher!PollReturns \/ Watcher!Read \/ Watcher!Rebuilt
           \/ Watcher!Exit PROVE WatcherInv'
<1>0. WatcherShape /\ WatchesSound /\ ChangesKnown /\ StopSound
  BY DEF WatcherInv
<1>1. /\ notices \in Seq(NoticeType) /\ buffer \in Seq(NoticeType)
      /\ ~Handling => buffer = << >>
  BY <1>0 DEF WatcherShape, ThreadTyped
<1>2. CASE Watcher!Read
  <2>1. place = "read" /\ buffer = << >> /\ buffer' = notices /\ notices' = << >>
        /\ place' = (IF notices = << >> THEN "loop" ELSE "handle")
        /\ UNCHANGED <<Watcher!tree, watched, lastWatch, Watcher!state, Watcher!flags, visit,
             rebuildRequested, watches,
                       stopper, Watcher!client, blind>>
    BY <1>1, <1>2 DEF Watcher!Read, Watcher!Goto, Handling
  <2>2. Unhandled' = Unhandled /\ notices' \in Seq(NoticeType) /\ buffer' \in Seq(NoticeType)
    BY <1>1, <2>1, ConcatEmptySeq DEF Unhandled
  <2>3. ~Ending /\ (place' # "handle" => buffer' = << >>) /\ place' # "done"
        /\ UNCHANGED <<stopRequested, running, stopper>>
    BY <2>1 DEF Ending, Watcher!flags
  <2>4. WatcherShape' /\ WatchesSound' /\ ChangesKnown'
    BY <2>1, <2>2, <2>3, GoesOn
  <2> QED BY <1>0, <2>3, <2>4 DEF WatcherInv, StopSound
<1>3. CASE Watcher!Loop \/ Watcher!PollReturns \/ Watcher!Rebuilt \/ Watcher!Exit
  <2>1. /\ place \in {"loop", "poll", "tree", "exit"}
             /\ place' \in {"loop", "poll", "read", "exit", "done"}
        /\ place = "tree" => visit = {}
        /\ UNCHANGED <<Watcher!tree, Watcher!kernel, Watcher!state, stopRequested, buffer, visit,
             rebuildRequested,
                       watches, Watcher!client, stopper, blind>>
        /\ place = "loop" /\ stopRequested => place' = "exit"
        /\ place = "exit" => place' = "done"
        /\ place' = "done" => running' = FALSE
        /\ running' = running \/ running' = FALSE
    BY <1>3 DEF Watcher!Loop, Watcher!PollReturns, Watcher!Rebuilt, Watcher!Exit, Watcher!Goto,
       Watcher!flags
  <2>2. Ending => Ending'
    BY <2>1 DEF Ending
  <2>3. buffer' = << >> /\ UNCHANGED <<notices, watched, lastWatch>>
    BY <1>1, <2>1 DEF Handling, Watcher!kernel
  <2>4. Unhandled' = Unhandled
    BY <2>1, <2>3 DEF Unhandled
  <2>5. WatcherShape' /\ WatchesSound' /\ ChangesKnown'
    BY <1>1, <2>1, <2>2, <2>3, <2>4, GoesOn
  <2>6. StopSound'
    BY <1>0, <2>1 DEF StopSound
  <2> QED BY <2>5, <2>6 DEF WatcherInv
<1> QED BY <1>2, <1>3

LEMMA HandledAll ==
  ASSUME WatcherInv, Watcher!BufferHandled PROVE WatcherInv'
<1>0. WatcherShape /\ WatchesSound /\ ChangesKnown /\ StopSound
  BY DEF WatcherInv
<1>1. /\ place = "handle" /\ buffer = << >>
      /\ place' = IF rebuildRequested THEN "rebuild" ELSE "read"
      /\ rebuildRequested' = FALSE
      /\ UNCHANGED <<leaf, dir, inner, gone, changes, notices, watched, lastWatch, buffer, visit,
                     watches, events, rescanPending, batch, seen, blind, stopper, running,
                     stopRequested>>
  BY DEF Watcher!BufferHandled, Watcher!tree, Watcher!kernel, Watcher!state, Watcher!flags,
     Watcher!client
<1>2. /\ Unhandled' = Unhandled /\ Alarm' = Alarm /\ Watcher!Rebuilding' = Watcher!Rebuilding
      /\ ~Ending /\ ~Ending' /\ ~Handling'
  BY <1>1 DEF Unhandled, Alarm, Watcher!Rebuilding, Ending, Handling
<1>3. WatcherShape'
  <2>1. ThreadTyped'
    BY <1>0, <1>1, <1>2 DEF WatcherShape, ThreadTyped, Handling, Adding
  <2>2. RootWatched'
    BY <1>0, <1>1, <1>2 DEF WatcherShape, RootWatched
  <2> QED BY <1>0, <1>1, <1>2, <2>1, <2>2 DEF WatcherShape, TreeTyped, WatchTyped, UnhandledSound
<1>4. WatchesSound'
  <2>1. CASE Loose
    BY <1>1, <1>2, <2>1 DEF WatchesSound, Loose
  <2>2. CASE WatchesTree
    <3>1. WatchesTree'
      BY <1>1, <1>2, <2>2 DEF WatchesTree, ToWatch
    <3> QED BY <3>1 DEF WatchesSound
  <2> QED BY <1>0, <2>1, <2>2 DEF WatchesSound
<1>5. \A p : ToldOf(p) => ToldOf(p)'
  BY <1>1 DEF ToldOf
<1>6. ASSUME NEW p, IsUnderWay(p) PROVE IsUnderWay(p)'
  <2>1. PICK i \in 1..Len(Unhandled) : Reports(Unhandled[i], p) \/ Finds(i, Unhandled[i], p)
    BY <1>6 DEF IsUnderWay
  <2>2. Reports(Unhandled[i], p)' \/ Finds(i, Unhandled[i], p)'
    BY <1>1, <1>2, <2>1 DEF Reports, Finds, Creates, ToSearch
  <2> QED BY <1>2, <2>1, <2>2 DEF IsUnderWay
<1>7. UNCHANGED Watcher!tree
  BY <1>1 DEF Watcher!tree
<1>8. ChangesKnown'
  BY <1>0, <1>1, <1>2, <1>5, <1>6, <1>7, WorkerKnown DEF WillBeTold
<1>9. StopSound'
  BY <1>0, <1>1 DEF StopSound
<1> QED BY <1>3, <1>4, <1>8, <1>9 DEF WatcherInv

-----------------------------------------------------------------------------
(* The thread handles what it has read *)

LEMMA PushTells ==
  ASSUME NEW path \in Seq(EntryNames), events \in Seq(Seq(EntryNames)),
         rescanPending => Watcher!Rescan \in Watcher!Functions!Range(events), Watcher!Push(path),
           batch' = batch
  PROVE  /\ events' \in Seq(Seq(EntryNames))
         /\ rescanPending' => Watcher!Rescan \in Watcher!Functions!Range(events')
         /\ \A p : ToldOf(p) => ToldOf(p)'
         /\ ToldOf(path)'
<1>1. << >> \in Seq(EntryNames) /\ Watcher!Rescan = << >>
  BY DEF Watcher!Rescan
<1>2. CASE ~rescanPending /\ Len(events) < Capacity
  <2>1. events' = Append(events, path) /\ rescanPending' = rescanPending
    BY <1>2 DEF Watcher!Push
  <2>2. /\ Append(events, path) \in Seq(Seq(EntryNames))
        /\ Len(Append(events, path)) = Len(events) + 1
        /\ Append(events, path)[Len(events) + 1] = path
        /\ \A i \in 1..Len(events) : Append(events, path)[i] = events[i]
        /\ Len(events) \in Nat
    BY AppendProperties, LenProperties
  <2>3. PICK ev \in Seq(Seq(EntryNames)) : ev = Append(events, path)
    BY <2>2
  <2>4. DOMAIN ev = 1..Len(ev) /\ DOMAIN events = 1..Len(events)
    BY <2>3, LenProperties
  <2>5. /\ Len(events) + 1 \in DOMAIN ev /\ ev[Len(events) + 1] = path
        /\ \A i \in DOMAIN events : i \in DOMAIN ev /\ ev[i] = events[i]
    BY <2>2, <2>3, <2>4
  <2>6. /\ path \in Watcher!Functions!Range(ev)
        /\ \A p : p \in Watcher!Functions!Range(events) => p \in Watcher!Functions!Range(ev)
    BY <2>5 DEF Watcher!Functions!Range
  <2> QED BY <1>2, <2>1, <2>2, <2>3, <2>6 DEF ToldOf
<1>3. CASE ~(~rescanPending /\ Len(events) < Capacity)
  <2>1. Watcher!PushRescan
    BY <1>3 DEF Watcher!Push
  <2>2. events' \in Seq(Seq(EntryNames)) /\ Watcher!Rescan \in Watcher!Functions!Range(events')
    <3>1. CASE rescanPending
      BY <2>1, <3>1 DEF Watcher!PushRescan
    <3>2. CASE ~rescanPending
      <4>1. events' = <<Watcher!Rescan>>
        BY <2>1, <3>2 DEF Watcher!PushRescan
      <4>2. <<Watcher!Rescan>> \in Seq(Seq(EntryNames)) /\ 1 \in DOMAIN <<Watcher!Rescan>>
              /\ <<Watcher!Rescan>>[1] = Watcher!Rescan
        BY <1>1
      <4>3. Watcher!Rescan \in Watcher!Functions!Range(<<Watcher!Rescan>>)
        BY <4>2 DEF Watcher!Functions!Range
      <4> QED BY <4>1, <4>2, <4>3
    <3> QED BY <3>1, <3>2
  <2> QED BY <2>2 DEF ToldOf
<1> QED BY <1>2, <1>3

LEMMA RescanTells ==
  ASSUME events \in Seq(Seq(EntryNames)),
         rescanPending => Watcher!Rescan \in Watcher!Functions!Range(events), Watcher!PushRescan,
           batch' = batch
  PROVE  /\ events' \in Seq(Seq(EntryNames))
         /\ rescanPending' => Watcher!Rescan \in Watcher!Functions!Range(events')
         /\ \A p : ToldOf(p)'
<1>1. events' \in Seq(Seq(EntryNames)) /\ Watcher!Rescan \in Watcher!Functions!Range(events')
  <2>1. CASE rescanPending
    BY <2>1 DEF Watcher!PushRescan
  <2>2. CASE ~rescanPending
    <3>1. events' = <<Watcher!Rescan>> /\ << >> \in Seq(EntryNames) /\ Watcher!Rescan = << >>
      BY <2>2 DEF Watcher!PushRescan, Watcher!Rescan
    <3>2. <<Watcher!Rescan>> \in Seq(Seq(EntryNames)) /\ 1 \in DOMAIN <<Watcher!Rescan>>
            /\ <<Watcher!Rescan>>[1] = Watcher!Rescan
      BY <3>1
    <3>3. Watcher!Rescan \in Watcher!Functions!Range(<<Watcher!Rescan>>)
      BY <3>2 DEF Watcher!Functions!Range
    <3> QED BY <3>1, <3>2, <3>3
  <2> QED BY <2>1, <2>2
<1> QED BY <1>1 DEF ToldOf

\* What the thread owes the first pending event, when it asks for no rebuild.
FirstSettled(e) ==
    /\ e.kind \notin {"overflow", "moved"}
    /\ \A p : Reports(e, p) \/ Finds(1, e, p) => ToldOf(p)'
    /\ dir # Watcher!Absent /\ dir.id \notin DOMAIN watched /\ Creates(e, dir.name) => ~ToWatch(1)

LEMMA EventHandled ==
  ASSUME WatcherInv, Handling, buffer # << >>, place' = "handle", buffer' = Tail(buffer),
         UNCHANGED <<Watcher!tree, Watcher!kernel, Watcher!client, blind>>, NEW e, e = Head(buffer),
         events' \in Seq(Seq(EntryNames)),
           rescanPending' => Watcher!Rescan \in Watcher!Functions!Range(events'),
         \A p : ToldOf(p) => ToldOf(p)',
         rebuildRequested => rebuildRequested',
         rebuildRequested' /\ ~rebuildRequested => \A p : ToldOf(p)',
         ~rebuildRequested' => FirstSettled(e),
         \/ watches' = watches
         \/ e.kind = "ignored" /\ watches' = [w \in DOMAIN watches \ {e.watch} |-> watches[w]],
         e.kind = "ignored" => e.watch \notin DOMAIN watches'
  PROVE  WatcherShape' /\ WatchesSound' /\ ChangesKnown'
<1>0. WatcherShape /\ WatchesSound /\ ChangesKnown
  BY DEF WatcherInv
<1>1. /\ UNCHANGED <<leaf, dir, inner, gone, changes, notices, watched, lastWatch, batch, seen>>
      /\ ~Ending /\ ~Ending' /\ place \notin {"root", "rebuild", "tree"}
  BY DEF Watcher!tree, Watcher!kernel, Watcher!client, Handling, Ending
<1>2. PICK s \in Seq(NoticeType) : s = Unhandled
  BY <1>0, WatcherFacts
<1>3. PICK t \in Seq(NoticeType) : t = Tail(buffer) \o notices
  BY <1>0, WatcherFacts, TailUnhandled
<1>4. Unhandled' = t
  BY <1>1, <1>3 DEF Unhandled
<1>5. /\ Tail(buffer) \in Seq(NoticeType) /\ Len(s) = Len(t) + 1 /\ Len(t) \in Nat
      /\ 1 \in 1..Len(s) /\ s[1] = e
      /\ \A i \in 1..Len(t) : i + 1 \in 1..Len(s) /\ t[i] = s[i + 1]
  <2>1. buffer \in Seq(NoticeType) /\ notices \in Seq(NoticeType) /\ buffer \o notices = s
    BY <1>0, <1>2, WatcherFacts DEF Unhandled
  <2>2. /\ Tail(buffer) \in Seq(NoticeType)
        /\ Len(buffer \o notices) = Len(Tail(buffer) \o notices) + 1
        /\ Len(Tail(buffer) \o notices) \in Nat
        /\ 1 \in 1..Len(buffer \o notices) /\ (buffer \o notices)[1] = Head(buffer)
        /\ \A i \in 1..Len(Tail(buffer) \o notices) :
              /\ i + 1 \in 1..Len(buffer \o notices)
              /\ (Tail(buffer) \o notices)[i] = (buffer \o notices)[i + 1]
    BY <2>1, TailUnhandled
  <2> QED BY <1>3, <2>1, <2>2
<1>6. SoundNotices(s, watched, lastWatch)
  BY <1>0, <1>2, WatcherFacts
<1>7. SoundNotices(t, watched, lastWatch)
        /\ \A i \in 1..Len(t) : e.kind = "ignored" => t[i].watch # e.watch
  <2>1. \A i \in 1..Len(t) : i + 1 \in 1..Len(s) /\ t[i] = s[i + 1]
    BY <1>5
  <2>2. /\ SoundNotices(t, watched, lastWatch)
        /\ \A i \in 1..Len(t) : s[1].kind = "ignored" => t[i].watch # s[1].watch
    BY <1>5, <1>6, <2>1, TailSound
  <2> QED BY <1>5, <2>2
<1>8. Watcher!Root \in DOMAIN watched
  BY <1>0, <1>1 DEF WatcherShape, RootWatched
<1>9. e.kind = "ignored" => \A i \in DOMAIN watched : e.watch # watched[i]
  <2>1. SoundNotice(e, watched, lastWatch)
    BY <1>5, <1>6 DEF SoundNotices
  <2> QED BY <2>1 DEF SoundNotice, OfRoot, OfDirectory
<1>10. /\ DOMAIN watches' \subseteq DOMAIN watches
            /\ \A w \in DOMAIN watches' : watches'[w] = watches[w]
       /\ \A w \in DOMAIN watches : w \in DOMAIN watches' \/ (e.kind = "ignored" /\ w = e.watch)
  OBVIOUS
<1>11. WatcherShape'
  <2>1. TreeTyped'
    BY <1>0, <1>1 DEF WatcherShape, TreeTyped
  <2>2. WatchTyped'
    BY <1>0, <1>1, <1>10 DEF WatcherShape, WatchTyped
  <2>3. ThreadTyped'
    BY <1>0, <1>1, <1>5 DEF WatcherShape, ThreadTyped, Handling, Adding
  <2>4. RootWatched'
    <3>1. watched[Watcher!Root] \in DOMAIN watches /\ watches[watched[Watcher!Root]] = << >>
      BY <1>0, <1>8 DEF WatcherShape, RootWatched
    <3>2. watched[Watcher!Root] \in DOMAIN watches' /\ watches'[watched[Watcher!Root]] = << >>
      BY <1>8, <1>9, <1>10, <3>1
    <3> QED BY <1>1, <1>8, <3>2 DEF RootWatched
  <2>5. UnhandledSound'
    BY <1>1, <1>4, <1>7 DEF UnhandledSound
  <2> QED BY <2>1, <2>2, <2>3, <2>4, <2>5 DEF WatcherShape
<1>12. \A i \in 1..Len(s) : i = 1 \/ \E j \in 1..Len(t) : i = j + 1 /\ t[j] = s[i]
  <2>1. ASSUME NEW i \in 1..Len(s), i # 1 PROVE \E j \in 1..Len(t) : i = j + 1 /\ t[j] = s[i]
    <3>1. i - 1 \in 1..Len(t) /\ i = (i - 1) + 1
      BY <1>5, <2>1
    <3>2. t[i - 1] = s[i]
      BY <1>5, <3>1
    <3> QED BY <3>1, <3>2
  <2> QED BY <2>1
<1>13. Alarming(s) /\ ~rebuildRequested' => Alarming(t)
  <2>1. SUFFICES ASSUME Alarming(s), ~rebuildRequested' PROVE Alarming(t)
    OBVIOUS
  <2>2. PICK i \in 1..Len(s) : s[i].kind \in {"overflow", "moved"}
    BY <2>1 DEF Alarming
  <2>3. i # 1
    BY <1>5, <2>1, <2>2 DEF FirstSettled
  <2> QED BY <1>12, <2>2, <2>3 DEF Alarming
<1>14. WatchesSound'
  <2>1. CASE rebuildRequested'
    BY <2>1 DEF WatchesSound, Loose
  <2>2. CASE ~rebuildRequested' /\ Loose
    <3>1. Alarming(t)
      BY <1>1, <1>2, <1>13, <2>2 DEF Loose, Alarm
    <3> QED BY <1>4, <3>1 DEF WatchesSound, Loose, Alarm
  <2>3. CASE ~rebuildRequested' /\ WatchesTree
    <3>1. dir # Watcher!Absent /\ dir.id \in DOMAIN watched =>
             watched[dir.id] \in DOMAIN watches' /\ watches'[watched[dir.id]] = <<dir.name>>
      BY <1>9, <1>10, <2>3 DEF WatchesTree
    <3>2. ASSUME dir # Watcher!Absent, dir.id \notin DOMAIN watched
          PROVE  \E i \in 1..Len(t) : Creates(t[i], dir.name)
      <4>1. PICK i \in 1..Len(s) : Creates(s[i], dir.name) /\ ToWatch(i)
        BY <1>1, <1>2, <2>3, <3>2 DEF WatchesTree
      <4>2. i # 1
        BY <1>5, <2>3, <3>2, <4>1 DEF FirstSettled
      <4> QED BY <1>12, <4>1, <4>2
    <3>3. \A i : ToWatch(i)'
      BY DEF ToWatch
    <3>4. ASSUME NEW w \in DOMAIN watches'
          PROVE  \/ \E i \in DOMAIN watched : w = watched[i]
                 \/ \E i \in 1..Len(t) : t[i].kind = "ignored" /\ t[i].watch = w
      <4>1. \/ \E i \in DOMAIN watched : w = watched[i]
            \/ \E i \in 1..Len(s) : s[i].kind = "ignored" /\ s[i].watch = w
        BY <1>2, <1>10, <2>3, <3>4 DEF WatchesTree
      <4>2. ASSUME NEW i \in 1..Len(s), s[i].kind = "ignored", s[i].watch = w PROVE i # 1
        BY <1>5, <3>4, <4>2
      <4> QED BY <1>12, <4>1, <4>2
    <3>5. WatchesTree'
      BY <1>1, <1>4, <3>1, <3>2, <3>3, <3>4 DEF WatchesTree
    <3> QED BY <3>5 DEF WatchesSound
  <2> QED BY <1>0, <2>1, <2>2, <2>3 DEF WatchesSound
<1>15. ChangesKnown'
  <2>1. SUFFICES ASSUME ~Watcher!Rebuilding, NEW p,
                        Alarm \/ IsUnderWay(p) PROVE ToldOf(p)' \/ WillBeTold(p)'
    BY <1>0, <1>1, WorkerKnown DEF Watcher!client
  <2>2. CASE rebuildRequested'
    BY <2>1, <2>2 DEF Watcher!Rebuilding
  <2>3. CASE ~rebuildRequested'
    <3>1. ~Watcher!Rebuilding'
      BY <2>3 DEF Watcher!Rebuilding
    <3>2. CASE Alarm
      BY <1>2, <1>4, <1>13, <2>3, <3>1, <3>2 DEF Alarm, WillBeTold
    <3>3. CASE IsUnderWay(p)
      <4>1. PICK i \in 1..Len(s) : Reports(s[i], p) \/ Finds(i, s[i], p)
        BY <1>2, <3>3 DEF IsUnderWay
      <4>2. CASE i = 1
        BY <1>5, <2>3, <4>1, <4>2 DEF FirstSettled
      <4>3. CASE i # 1
        <5>1. PICK j \in 1..Len(t) : t[j] = s[i]
          BY <1>12, <4>3
        <5>2. CASE Reports(s[i], p)
          <6>1. s[i].watch \in DOMAIN watches'
            BY <1>7, <1>10, <5>1, <5>2 DEF Reports
          <6>2. Reports(Unhandled[j], p)'
            BY <1>4, <1>10, <5>1, <5>2, <6>1 DEF Reports
          <6> QED BY <1>4, <3>1, <6>2 DEF IsUnderWay, WillBeTold
        <5>3. CASE Finds(i, s[i], p)
          <6>1. Finds(j, Unhandled[j], p)'
            BY <1>1, <1>4, <5>1, <5>3 DEF Finds, Creates, ToSearch
          <6> QED BY <1>4, <3>1, <6>1 DEF IsUnderWay, WillBeTold
        <5> QED BY <4>1, <5>2, <5>3
      <4> QED BY <4>2, <4>3
    <3> QED BY <2>1, <3>2, <3>3
  <2> QED BY <2>2, <2>3
<1> QED BY <1>11, <1>14, <1>15

LEMMA FirstNotice ==
  ASSUME Watcher!WatcherAssumption, WatcherInv, Handling, buffer # << >>, NEW e, e = Head(buffer)
  PROVE  /\ e \in NoticeType /\ SoundNotice(e, watched, lastWatch)
         /\ Watcher!Root \in DOMAIN watched /\ watched[Watcher!Root] \in DOMAIN watches
         /\ watches[watched[Watcher!Root]] = << >>
         /\ e.kind = "moved" => e.directory /\ e.watch = watched[Watcher!Root]
         /\ e.kind = "create" /\ e.directory => e.watch = watched[Watcher!Root] /\ e.name \in Names
         /\ e.watch \in DOMAIN watches => watches[e.watch] \o <<e.name>> \in Seq(EntryNames)
         /\ events \in Seq(Seq(EntryNames))
         /\ rescanPending => Watcher!Rescan \in Watcher!Functions!Range(events)
         /\ ~Ending /\ place \notin {"root", "rebuild", "tree", "loop", "done", "exit"}
<1>0. WatcherShape
  BY DEF WatcherInv
<1>1. ~Ending /\ place \notin {"root", "rebuild", "tree", "loop", "done", "exit"}
  BY DEF Handling, Ending
<1>2. PICK s : s = buffer \o notices
  OBVIOUS
<1>3. e \in NoticeType /\ 1 \in 1..Len(s) /\ s[1] = e
  BY <1>0, <1>2, WatcherFacts, TailUnhandled
<1>4. SoundNotices(s, watched, lastWatch)
  BY <1>0, <1>2, WatcherFacts DEF Unhandled
<1>5. SoundNotice(e, watched, lastWatch)
  BY <1>3, <1>4 DEF SoundNotices
<1>6. /\ Watcher!Root \in DOMAIN watched /\ watched[Watcher!Root] \in DOMAIN watches
      /\ watches[watched[Watcher!Root]] = << >>
  BY <1>0, <1>1 DEF WatcherShape, RootWatched
<1>7. /\ e.kind = "moved" => e.directory /\ e.watch = watched[Watcher!Root]
      /\ e.kind = "create" /\ e.directory => e.watch = watched[Watcher!Root] /\ e.name \in Names
  BY <1>5 DEF SoundNotice, OfRoot, OfDirectory
<1>8. ASSUME e.watch \in DOMAIN watches PROVE watches[e.watch] \o <<e.name>> \in Seq(EntryNames)
  <2>1. e.name \in EntryNames
    BY <1>3 DEF NoticeType
  <2>2. watches[e.watch] = << >> \/ \E n \in Names : watches[e.watch] = <<n>>
    BY <1>0, <1>8 DEF WatcherShape, WatchTyped
  <2>3. Names \subseteq EntryNames
    BY DEF EntryNames
  <2> QED BY <2>1, <2>2, <2>3, ShortPaths
<1>9. /\ events \in Seq(Seq(EntryNames))
      /\ rescanPending => Watcher!Rescan \in Watcher!Functions!Range(events)
  BY <1>0 DEF WatcherShape, ThreadTyped
<1> QED BY <1>1, <1>3, <1>5, <1>6, <1>7, <1>8, <1>9

LEMMA Handled ==
  ASSUME Watcher!WatcherAssumption, WatcherInv, Watcher!Handle PROVE WatcherInv'
<1>0. PICK e : e = Head(buffer)
  OBVIOUS
<1>1. /\ place = "handle" /\ place' = "handle" /\ buffer # << >> /\ buffer' = Tail(buffer)
           /\ Handling
      /\ UNCHANGED <<Watcher!tree, Watcher!kernel, Watcher!client, blind, stopper>>
  BY DEF Watcher!Handle, Handling
<1>2. /\ e \in NoticeType /\ SoundNotice(e, watched, lastWatch)
      /\ Watcher!Root \in DOMAIN watched /\ watched[Watcher!Root] \in DOMAIN watches
      /\ watches[watched[Watcher!Root]] = << >>
      /\ e.kind = "moved" => e.directory /\ e.watch = watched[Watcher!Root]
      /\ e.kind = "create" /\ e.directory => e.watch = watched[Watcher!Root] /\ e.name \in Names
      /\ e.watch \in DOMAIN watches => watches[e.watch] \o <<e.name>> \in Seq(EntryNames)
      /\ events \in Seq(Seq(EntryNames))
      /\ rescanPending => Watcher!Rescan \in Watcher!Functions!Range(events)
  BY <1>0, <1>1, FirstNotice
<1>3. batch' = batch /\ Watcher!event = e /\ Watcher!relative = watches[e.watch] \o <<e.name>>
      /\ (Watcher!Known <=> e.watch \in DOMAIN watches)
  BY <1>0, <1>1 DEF Watcher!client, Watcher!event, Watcher!relative, Watcher!Known
<1>4. \A p : Reports(e, p) => Watcher!Known /\ Watcher!Reported /\ p = Watcher!relative
  BY <1>3 DEF Reports, Watcher!Reported
<1>5. Creates(e, dir.name) => Watcher!Known /\ Watcher!NewDirectory
  BY <1>2, <1>3 DEF Creates, Watcher!NewDirectory
<1>6. PICK flagsKept \in BOOLEAN : flagsKept <=>
                                     (running' = running /\ stopRequested' = stopRequested)
  OBVIOUS
<1>7. /\ events' \in Seq(Seq(EntryNames))
           /\ (rescanPending' => Watcher!Rescan \in Watcher!Functions!Range(events'))
      /\ \A p : ToldOf(p) => ToldOf(p)'
      /\ rebuildRequested => rebuildRequested'
      /\ rebuildRequested' /\ ~rebuildRequested => \A p : ToldOf(p)'
      /\ ~rebuildRequested' => FirstSettled(e)
      /\ \/ watches' = watches
         \/ e.kind = "ignored" /\ watches' = [w \in DOMAIN watches \ {e.watch} |-> watches[w]]
      /\ e.kind = "ignored" => e.watch \notin DOMAIN watches'
      /\ flagsKept \/ running' = FALSE
  <2>1. CASE Watcher!event.kind = "overflow" /\ Watcher!RebuildLater
             /\ UNCHANGED <<watches, Watcher!flags>>
    BY <1>2, <1>3, <1>6, <2>1, RescanTells DEF Watcher!RebuildLater, Watcher!flags
  <2>2. CASE Watcher!event.kind # "overflow" /\ ~Watcher!Known
             /\ UNCHANGED <<Watcher!state, rebuildRequested, watches, Watcher!flags>>
    <3>1. FirstSettled(e)
      BY <1>2, <1>3, <1>4, <1>5, <2>2 DEF FirstSettled, Finds
    <3> QED BY <1>2, <1>3, <1>6, <2>2, <3>1 DEF Watcher!state, Watcher!flags, ToldOf
  <2>3. CASE Watcher!Known /\ Watcher!RootMoved /\ Watcher!GiveUp
             /\ UNCHANGED <<rebuildRequested, watches>>
    <3>1. FirstSettled(e)
      BY <1>3, <1>4, <1>5, <2>3 DEF FirstSettled, Finds, Watcher!RootMoved, Watcher!Reported,
         Watcher!NewDirectory
    <3>2. e.kind # "ignored"
      BY <1>3, <2>3 DEF Watcher!RootMoved
    <3> QED BY <1>2, <1>3, <2>3, <3>1, <3>2, RescanTells DEF Watcher!GiveUp
  <2>4. CASE /\ Watcher!Known /\ Watcher!event.kind = "ignored"
             /\ watches' = [w \in DOMAIN watches \ {Watcher!event.watch} |-> watches[w]]
             /\ UNCHANGED <<Watcher!state, rebuildRequested, Watcher!flags>>
    <3>1. FirstSettled(e)
      BY <1>3, <1>4, <1>5, <2>4 DEF FirstSettled, Finds, Watcher!Reported, Watcher!NewDirectory
    <3> QED BY <1>2, <1>3, <1>6, <2>4, <3>1 DEF Watcher!state, Watcher!flags, ToldOf
  <2>5. CASE Watcher!Known /\ Watcher!DirectoryMoved /\ Watcher!RebuildLater
             /\ UNCHANGED <<watches, Watcher!flags>>
    <3>1. e.kind # "ignored"
      BY <1>3, <2>5 DEF Watcher!DirectoryMoved
    <3> QED BY <1>2, <1>3, <1>6, <2>5, <3>1, RescanTells DEF Watcher!RebuildLater, Watcher!flags
  <2>6. CASE /\ Watcher!Known /\ Watcher!Reported /\ ~Watcher!NewDirectory
                  /\ Watcher!Push(Watcher!relative)
             /\ UNCHANGED <<rebuildRequested, watches, Watcher!flags>>
    <3>1. PICK path \in Seq(EntryNames) : path = Watcher!relative
      BY <1>2, <1>3, <2>6
    <3>2. /\ events' \in Seq(Seq(EntryNames))
               /\ (rescanPending' => Watcher!Rescan \in Watcher!Functions!Range(events'))
          /\ \A p : ToldOf(p) => ToldOf(p)'
          /\ ToldOf(path)'
      BY <1>2, <1>3, <2>6, <3>1, PushTells
    <3>3. e.kind \in {"create", "modify", "delete"}
      BY <1>3, <2>6 DEF Watcher!Reported
    <3>4. ~Creates(e, dir.name)
      BY <1>5, <2>6
    <3>5. ASSUME NEW p, Reports(e, p) \/ Finds(1, e, p) PROVE ToldOf(p)'
      <4>1. p = path
        BY <1>4, <3>1, <3>4, <3>5 DEF Finds
      <4> QED BY <3>2, <4>1
    <3>6. FirstSettled(e)
      BY <3>3, <3>4, <3>5 DEF FirstSettled
    <3> QED BY <1>6, <2>6, <3>2, <3>3, <3>6 DEF Watcher!flags
  <2>7. CASE /\ Watcher!Known /\ ~Watcher!Reported /\ ~Watcher!RootMoved
                  /\ ~Watcher!DirectoryMoved /\ Watcher!event.kind # "ignored"
             /\ UNCHANGED <<Watcher!state, rebuildRequested, watches, Watcher!flags>>
                  /\ Watcher!event.kind # "overflow"
    <3>1. e.kind # "moved"
      BY <1>2, <1>3, <2>7 DEF Watcher!DirectoryMoved
    <3>2. FirstSettled(e)
      BY <1>3, <1>4, <1>5, <2>7, <3>1 DEF FirstSettled, Finds, Watcher!Reported,
         Watcher!NewDirectory
    <3> QED BY <1>2, <1>3, <1>6, <2>7, <3>2 DEF Watcher!state, Watcher!flags, ToldOf
  <2>8. ~(Watcher!event.kind = "overflow" /\ Watcher!Known)
    <3>1. SUFFICES ASSUME e.kind = "overflow", Watcher!Known PROVE FALSE
      BY <1>3
    <3>2. e.watch = 0
      BY <1>2, <3>1 DEF SoundNotice, OfRoot, OfDirectory
    <3>3. DOMAIN watches \subseteq 1..lastWatch /\ lastWatch \in Nat
      BY DEF WatcherInv, WatcherShape, WatchTyped
    <3> QED BY <1>3, <3>1, <3>2, <3>3
  <2> QED BY <2>1, <2>2, <2>3, <2>4, <2>5, <2>6, <2>7, <2>8 DEF Watcher!Handle
<1>8. WatcherShape' /\ WatchesSound' /\ ChangesKnown'
  BY <1>0, <1>1, <1>7, EventHandled
<1>9. StopSound'
  BY <1>1, <1>6, <1>7 DEF WatcherInv, StopSound
<1> QED BY <1>8, <1>9 DEF WatcherInv

\* A failure while a new directory is searched: everything is told, and the watches rebuilt.
LEMMA DirectoryFails ==
  ASSUME Watcher!WatcherAssumption, WatcherInv, Adding, Watcher!AddTreeFails,
         UNCHANGED <<Watcher!tree, Watcher!flags, stopper, Watcher!client, blind>>
  PROVE  WatcherInv'
<1>0. PICK e : e = Head(buffer)
  OBVIOUS
<1>1. /\ Handling /\ buffer # << >> /\ e.kind = "create" /\ e.directory
  BY <1>0 DEF WatcherInv, WatcherShape, ThreadTyped, Handling, Adding
<1>2. /\ place' = "handle" /\ buffer' = Tail(buffer) /\ Watcher!PushRescan
           /\ rebuildRequested' = TRUE
      /\ UNCHANGED <<Watcher!kernel, watches, stopper, running, stopRequested, batch>>
  BY DEF Watcher!AddTreeFails, Watcher!RebuildLater, Watcher!flags, Watcher!client
<1>3. /\ events \in Seq(Seq(EntryNames))
      /\ rescanPending => Watcher!Rescan \in Watcher!Functions!Range(events)
  BY <1>0, <1>1, FirstNotice
<1>4. /\ events' \in Seq(Seq(EntryNames))
           /\ (rescanPending' => Watcher!Rescan \in Watcher!Functions!Range(events'))
      /\ \A p : ToldOf(p)'
  BY <1>2, <1>3, RescanTells
<1>5. WatcherShape' /\ WatchesSound' /\ ChangesKnown'
  BY <1>0, <1>1, <1>2, <1>4, EventHandled
<1>6. StopSound'
  BY <1>2 DEF WatcherInv, StopSound
<1> QED BY <1>5, <1>6 DEF WatcherInv

\* While a new directory is added, its event is the first, and under its own name.
LEMMA AddingIs ==
  ASSUME Watcher!WatcherAssumption, WatcherInv, Handling, buffer # << >>, NEW e, e = Head(buffer),
         e.kind = "create", e.directory
  PROVE  /\ Watcher!relative = <<e.name>> /\ e.name \in Names /\ e.name \in EntryNames
         /\ e.watch = watched[Watcher!Root] /\ e.watch \in DOMAIN watches /\ Watcher!event = e
         /\ dir.name = e.name => dir # Watcher!Absent /\ dir.id # Watcher!Root
         /\ dir \in [name : EntryNames, id : Nat]
<1>1. /\ e.watch = watched[Watcher!Root] /\ e.name \in Names
      /\ watched[Watcher!Root] \in DOMAIN watches /\ watches[watched[Watcher!Root]] = << >>
  BY FirstNotice
<1>2. e.name \in EntryNames
  BY <1>1 DEF EntryNames
<1>3. << >> \o <<e.name>> = <<e.name>>
  BY <1>2, ShortPaths
<1>4. Watcher!event = e /\ Watcher!relative = <<e.name>>
  BY <1>1, <1>3 DEF Watcher!event, Watcher!relative
<1>5. /\ dir.name = e.name => dir # Watcher!Absent /\ dir.id # Watcher!Root
      /\ dir \in [name : EntryNames, id : Nat]
  BY <1>1, DirectoryIs DEF WatcherInv
<1> QED BY <1>1, <1>2, <1>4, <1>5

\* A step inside the handling of one event that leaves what is pending.
LEMMA AddingStays ==
  ASSUME WatcherInv, Handling, place' \in {"watch", "scan", "entry"},
         UNCHANGED <<Watcher!tree, Watcher!kernel, watches, buffer, rebuildRequested,
           Watcher!flags, stopper, Watcher!client, blind>>,
         buffer # << >>, Head(buffer).kind = "create", Head(buffer).directory,
         events' \in Seq(Seq(EntryNames)),
           rescanPending' => Watcher!Rescan \in Watcher!Functions!Range(events'),
         \A p : ToldOf(p) => ToldOf(p)',
         ToWatch(1) => ToWatch(1)' \/ dir = Watcher!Absent \/ dir.id \in DOMAIN watched
                       \/ Head(buffer).name # dir.name,
         inner # 0 /\ ToSearch(1) /\ Head(buffer).name = dir.name =>
             ToSearch(1)' \/ ToldOf(Watcher!Inner(dir.name))'
  PROVE  WatcherInv'
<1>0. WatcherShape /\ WatchesSound /\ ChangesKnown /\ StopSound
  BY DEF WatcherInv
<1>1. /\ UNCHANGED <<leaf, dir, inner, gone, changes, notices, watched, lastWatch, batch, seen,
                     running, stopRequested>>
      /\ ~Ending /\ ~Ending' /\ place \notin {"root", "rebuild", "tree", "done"} /\ Handling'
  BY DEF Watcher!tree, Watcher!kernel, Watcher!client, Watcher!flags, Handling, Ending
<1>2. Unhandled' = Unhandled /\ Alarm' = Alarm /\ Watcher!Rebuilding' = Watcher!Rebuilding
  BY <1>1 DEF Unhandled, Alarm, Watcher!Rebuilding
<1>3. PICK s \in Seq(NoticeType) : s = Unhandled
  BY <1>0, WatcherFacts
<1>4. s[1] = Head(buffer)
  BY <1>0, <1>3, WatcherFacts, TailUnhandled DEF Unhandled
<1>5. \A i : i # 1 => ToWatch(i)' /\ ToSearch(i)'
  BY DEF ToWatch, ToSearch
<1>6. WatcherShape'
  BY <1>0, <1>1, <1>2 DEF WatcherShape, TreeTyped, WatchTyped, ThreadTyped, RootWatched,
     UnhandledSound,
                          Handling, Adding
<1>7. WatchesSound'
  <2>1. CASE Loose
    BY <1>1, <1>2, <2>1 DEF WatchesSound, Loose
  <2>2. CASE WatchesTree
    <3>1. ASSUME dir # Watcher!Absent, dir.id \notin DOMAIN watched
          PROVE  \E i \in 1..Len(s) : Creates(s[i], dir.name) /\ ToWatch(i)'
      <4>1. PICK i \in 1..Len(s) : Creates(s[i], dir.name) /\ ToWatch(i)
        BY <1>1, <1>3, <2>2, <3>1 DEF WatchesTree
      <4>2. CASE i = 1
        BY <1>4, <3>1, <4>1, <4>2 DEF Creates
      <4>3. CASE i # 1
        BY <1>5, <4>1, <4>3
      <4> QED BY <4>2, <4>3
    <3>2. WatchesTree'
      BY <1>1, <1>2, <1>3, <2>2, <3>1 DEF WatchesTree
    <3> QED BY <3>2 DEF WatchesSound
  <2> QED BY <1>0, <2>1, <2>2 DEF WatchesSound
<1>8. ChangesKnown'
  <2>1. SUFFICES ASSUME ~Watcher!Rebuilding, NEW p,
                        Alarm \/ IsUnderWay(p) PROVE ToldOf(p)' \/ WillBeTold(p)'
    BY <1>0, <1>1, WorkerKnown DEF Watcher!client
  <2>2. CASE Alarm
    BY <1>2, <2>1, <2>2 DEF WillBeTold
  <2>3. CASE IsUnderWay(p)
    <3>1. PICK i \in 1..Len(s) : Reports(s[i], p) \/ Finds(i, s[i], p)
      BY <1>3, <2>3 DEF IsUnderWay
    <3>2. CASE Reports(s[i], p)
      <4>1. Reports(Unhandled[i], p)'
        BY <1>2, <1>3, <3>2 DEF Reports
      <4> QED BY <1>2, <1>3, <2>1, <4>1 DEF IsUnderWay, WillBeTold
    <3>3. CASE Finds(i, s[i], p)
      <4>0. ToSearch(i)' \/ ToldOf(p)'
        <5>1. p = Watcher!Inner(dir.name) /\ inner # 0 /\ ToSearch(i) /\ s[i].name = dir.name
          BY <3>3 DEF Finds, Creates
        <5>2. CASE i = 1
          <6>1. ToSearch(1)' \/ ToldOf(Watcher!Inner(dir.name))'
            BY <1>4, <5>1, <5>2
          <6>2. dir' = dir
            BY <1>1
          <6>3. ToldOf(Watcher!Inner(dir.name))' => ToldOf(p)'
            BY <5>1, <6>2 DEF ToldOf
          <6> QED BY <5>2, <6>1, <6>3
        <5> QED BY <1>5, <5>2
      <4>1. ToSearch(i)' \/ ToldOf(p)'
        BY <4>0
      <4>2. CASE ToSearch(i)'
        <5>1. Finds(i, Unhandled[i], p)'
          BY <1>1, <1>2, <1>3, <3>3, <4>2 DEF Finds, Creates
        <5> QED BY <1>2, <1>3, <2>1, <5>1 DEF IsUnderWay, WillBeTold
      <4> QED BY <4>1, <4>2
    <3> QED BY <3>1, <3>2, <3>3
  <2> QED BY <2>1, <2>2, <2>3
<1>9. StopSound'
  BY <1>0, <1>1 DEF StopSound
<1> QED BY <1>6, <1>7, <1>8, <1>9 DEF WatcherInv

LEMMA DirectoryBegun ==
  ASSUME Watcher!WatcherAssumption, WatcherInv, Watcher!HandleNewDirectory PROVE WatcherInv'
<1>0. PICK e : e = Head(buffer)
  OBVIOUS
<1>1. /\ place = "handle" /\ place' = "watch" /\ buffer # << >> /\ Handling
      /\ e.kind = "create" /\ e.directory
      /\ UNCHANGED <<Watcher!tree, Watcher!kernel, Watcher!state, Watcher!flags, buffer, visit,
           rebuildRequested, watches, stopper,
                     Watcher!client, blind>>
  BY <1>0 DEF Watcher!HandleNewDirectory, Watcher!NewDirectory, Watcher!event, Watcher!Goto,
     Handling
<1>2. /\ events \in Seq(Seq(EntryNames))
      /\ rescanPending => Watcher!Rescan \in Watcher!Functions!Range(events)
  BY <1>0, <1>1, FirstNotice
<1>3. UNCHANGED <<events, rescanPending, batch>>
  BY <1>1 DEF Watcher!state, Watcher!client
<1>4. (\A p : ToldOf(p) => ToldOf(p)') /\ ToWatch(1)' /\ ToSearch(1)'
  BY <1>1, <1>3 DEF ToldOf, ToWatch, ToSearch
<1> QED BY <1>0, <1>1, <1>2, <1>3, <1>4, AddingStays

LEMMA DirectoryListed ==
  ASSUME Watcher!WatcherAssumption, WatcherInv, Watcher!ListDirectory PROVE WatcherInv'
<1>0. PICK e : e = Head(buffer)
  OBVIOUS
<1>1. /\ place = "scan" /\ Handling /\ Adding
      /\ buffer # << >> /\ e.kind = "create" /\ e.directory
      /\ UNCHANGED <<Watcher!tree, Watcher!flags, stopper, Watcher!client, blind>>
  BY <1>0 DEF Watcher!ListDirectory, WatcherInv, WatcherShape, ThreadTyped, Handling, Adding
<1>2. CASE Watcher!AddTreeFails
  BY <1>1, <1>2, DirectoryFails
<1>3. CASE ~Watcher!AddTreeFails
  <2>1. /\ visit' = (IF inner # 0 THEN {"inner"} ELSE {}) /\ place' = "entry"
        /\ UNCHANGED <<Watcher!kernel, watches, buffer, rebuildRequested, Watcher!state>>
    BY <1>3 DEF Watcher!ListDirectory
  <2>2. /\ events \in Seq(Seq(EntryNames))
        /\ rescanPending => Watcher!Rescan \in Watcher!Functions!Range(events)
    BY <1>0, <1>1, FirstNotice
  <2>3. UNCHANGED <<events, rescanPending, batch>>
    BY <1>1, <2>1 DEF Watcher!state, Watcher!client
  <2>4. \A p : ToldOf(p) => ToldOf(p)'
    BY <2>3 DEF ToldOf
  <2>5. ~ToWatch(1) /\ (inner # 0 => ToSearch(1)')
    BY <1>1, <2>1 DEF ToWatch, ToSearch
  <2> QED BY <1>0, <1>1, <2>1, <2>2, <2>3, <2>4, <2>5, AddingStays
<1> QED BY <1>2, <1>3

LEMMA EntryScanned ==
  ASSUME Watcher!WatcherAssumption, WatcherInv, Watcher!ScanEntry PROVE WatcherInv'
<1>0. PICK e : e = Head(buffer)
  OBVIOUS
<1>1. /\ place = "entry" /\ visit # {} /\ Handling /\ Adding
      /\ buffer # << >> /\ e.kind = "create" /\ e.directory
      /\ UNCHANGED <<Watcher!tree, Watcher!flags, stopper, Watcher!client, blind>>
  BY <1>0 DEF Watcher!ScanEntry, WatcherInv, WatcherShape, ThreadTyped, Handling, Adding
<1>2. CASE Watcher!AddTreeFails
  BY <1>1, <1>2, DirectoryFails
<1>3. CASE ~Watcher!AddTreeFails
  <2>1. /\ dir.name = Watcher!event.name /\ Watcher!Push(Watcher!Inner(Watcher!event.name))
        /\ UNCHANGED <<place, Watcher!kernel, watches, buffer, rebuildRequested>>
    BY <1>3 DEF Watcher!ScanEntry
  <2>2. /\ events \in Seq(Seq(EntryNames))
        /\ rescanPending => Watcher!Rescan \in Watcher!Functions!Range(events)
    BY <1>0, <1>1, FirstNotice
  <2>3. Watcher!event = e /\ e.name \in EntryNames
    BY <1>0, <1>1, AddingIs
  <2>4. PICK path \in Seq(EntryNames) : path = Watcher!Inner(e.name)
    <3>1. "inner" \in EntryNames
      BY DEF EntryNames
    <3>2. <<e.name, "inner">> \in Seq(EntryNames)
      BY <2>3, <3>1
    <3> QED BY <3>2 DEF Watcher!Inner
  <2>5. batch' = batch
    BY <1>1 DEF Watcher!client
  <2>6. /\ events' \in Seq(Seq(EntryNames))
             /\ (rescanPending' => Watcher!Rescan \in Watcher!Functions!Range(events'))
        /\ \A p : ToldOf(p) => ToldOf(p)'
        /\ ToldOf(path)'
    BY <2>1, <2>2, <2>3, <2>4, <2>5, PushTells
  <2>7. ToldOf(Watcher!Inner(dir.name))' /\ ~ToWatch(1)
    <3>1. path = Watcher!Inner(dir'.name)
      BY <1>1, <2>1, <2>3, <2>4 DEF Watcher!tree
    <3> QED BY <1>1, <2>6, <3>1 DEF ToWatch
  <2>8. ToWatch(1) => FALSE
    BY <2>7
  <2> QED BY <1>0, <1>1, <2>1, <2>6, <2>7, AddingStays
<1> QED BY <1>2, <1>3

LEMMA DirectoryDone ==
  ASSUME Watcher!WatcherAssumption, WatcherInv, Watcher!DirectoryAdded PROVE WatcherInv'
<1>0. PICK e : e = Head(buffer)
  OBVIOUS
<1>1. /\ place = "entry" /\ visit = {} /\ Handling /\ Watcher!Push(Watcher!relative)
      /\ place' = "handle" /\ buffer' = Tail(buffer)
      /\ buffer # << >> /\ e.kind = "create" /\ e.directory
      /\ UNCHANGED <<Watcher!tree, Watcher!kernel, Watcher!flags, visit, rebuildRequested,
           watches, stopper, Watcher!client, blind>>
  BY <1>0 DEF Watcher!DirectoryAdded, WatcherInv, WatcherShape, ThreadTyped, Handling, Adding
<1>2. /\ events \in Seq(Seq(EntryNames))
      /\ rescanPending => Watcher!Rescan \in Watcher!Functions!Range(events)
  BY <1>0, <1>1, FirstNotice
<1>3. Watcher!relative = <<e.name>> /\ e.name \in EntryNames /\ Watcher!event = e
  BY <1>0, <1>1, AddingIs
<1>4. PICK path \in Seq(EntryNames) : path = Watcher!relative
  BY <1>3, ShortPaths
<1>5. batch' = batch /\ running' = running /\ stopRequested' = stopRequested
  BY <1>1 DEF Watcher!client, Watcher!flags
<1>6. /\ events' \in Seq(Seq(EntryNames))
           /\ (rescanPending' => Watcher!Rescan \in Watcher!Functions!Range(events'))
      /\ \A p : ToldOf(p) => ToldOf(p)'
      /\ ToldOf(path)'
  BY <1>1, <1>2, <1>4, <1>5, PushTells
<1>7. FirstSettled(e)
  <2>1. \A p : Reports(e, p) => p = path
    BY <1>3, <1>4 DEF Reports, Watcher!relative
  <2>2. ~ToWatch(1) /\ ~ToSearch(1)
    BY <1>1 DEF ToWatch, ToSearch
  <2>3. \A p : Reports(e, p) \/ Finds(1, e, p) => ToldOf(p)'
    BY <1>6, <2>1, <2>2 DEF Finds
  <2> QED BY <1>1, <2>2, <2>3 DEF FirstSettled
<1>8. WatcherShape' /\ WatchesSound' /\ ChangesKnown'
  BY <1>0, <1>1, <1>6, <1>7, EventHandled
<1>9. StopSound'
  BY <1>1, <1>5 DEF WatcherInv, StopSound
<1> QED BY <1>8, <1>9 DEF WatcherInv

-----------------------------------------------------------------------------
(* A watch is added *)

LEMMA WatchAdded ==
  ASSUME NEW inode, NEW path, Watcher!AddWatch(inode, path), lastWatch \in Nat,
         \A i \in DOMAIN watched : watched[i] \in 1..lastWatch,
         \A i, j \in DOMAIN watched : watched[i] = watched[j] => i = j,
         DOMAIN watches \subseteq 1..lastWatch
  PROVE  /\ lastWatch' \in Nat /\ lastWatch \in Nat /\ lastWatch <= lastWatch'
         /\ DOMAIN watched' = DOMAIN watched \cup {inode}
         /\ \A i \in DOMAIN watched : watched'[i] = watched[i]
         /\ inode \notin DOMAIN watched => watched'[inode] \notin 1..lastWatch
         /\ \A i \in DOMAIN watched' : watched'[i] \in 1..lastWatch'
         /\ \A i, j \in DOMAIN watched' : watched'[i] = watched'[j] => i = j
         /\ DOMAIN watches' = DOMAIN watches \cup {watched'[inode]}
         /\ DOMAIN watches' \subseteq 1..lastWatch'
         /\ watches'[watched'[inode]] = path
         /\ \A w \in DOMAIN watches : w # watched'[inode] => watches'[w] = watches[w]
<1>1. PICK watch : watch = IF inode \notin DOMAIN watched THEN lastWatch + 1 ELSE watched[inode]
  OBVIOUS
<1>2. /\ watched' = [i \in DOMAIN watched \cup {inode} |-> IF i = inode THEN watch ELSE watched[i]]
      /\ lastWatch' = IF inode \notin DOMAIN watched THEN watch ELSE lastWatch
      /\ watches' = [w \in DOMAIN watches \cup {watch} |-> IF w = watch THEN path ELSE watches[w]]
  BY <1>1 DEF Watcher!AddWatch
<1>3. /\ DOMAIN watched' = DOMAIN watched \cup {inode} /\ watched'[inode] = watch
      /\ \A i \in DOMAIN watched : i # inode => watched'[i] = watched[i]
  BY <1>2
<1>4. /\ DOMAIN watches' = DOMAIN watches \cup {watch} /\ watches'[watch] = path
      /\ \A w \in DOMAIN watches : w # watch => watches'[w] = watches[w]
  BY <1>2
<1>5. \A i \in DOMAIN watched : watched'[i] = watched[i]
  BY <1>1, <1>3
<1>6. CASE inode \in DOMAIN watched
  <2>1. lastWatch' = lastWatch /\ watch = watched[inode] /\ watch \in 1..lastWatch
    BY <1>1, <1>2, <1>6
  <2>2. \A i \in DOMAIN watched' : i \in DOMAIN watched /\ watched'[i] = watched[i]
    BY <1>3, <1>5, <1>6
  <2>3. /\ \A i \in DOMAIN watched' : watched'[i] \in 1..lastWatch'
        /\ \A i, j \in DOMAIN watched' : watched'[i] = watched'[j] => i = j
    BY <2>1, <2>2
  <2>4. DOMAIN watches' \subseteq 1..lastWatch'
    BY <1>4, <2>1
  <2>5. lastWatch' \in Nat /\ lastWatch <= lastWatch'
    BY <2>1
  <2> QED BY <1>3, <1>4, <1>5, <1>6, <2>3, <2>4, <2>5
<1>7. CASE inode \notin DOMAIN watched
  <2>1. lastWatch' = watch /\ watch = lastWatch + 1
    BY <1>1, <1>2, <1>7
  <2>2. lastWatch' \in Nat /\ lastWatch <= lastWatch' /\ watch \in 1..lastWatch'
        /\ watch \notin 1..lastWatch /\ \A w \in 1..lastWatch : w \in 1..lastWatch'
    BY <2>1
  <2>3. \A i \in DOMAIN watched' : i = inode \/ (i \in DOMAIN watched /\ watched'[i] = watched[i])
    BY <1>3, <1>5
  <2>4. \A i \in DOMAIN watched' : watched'[i] \in 1..lastWatch'
    BY <1>3, <2>2, <2>3
  <2>5. ASSUME NEW i \in DOMAIN watched', NEW j \in DOMAIN watched', watched'[i] = watched'[j]
        PROVE  i = j
    <3>1. \A k \in DOMAIN watched : watched'[k] # watch
      BY <1>5, <2>2
    <3> QED BY <1>3, <1>5, <2>3, <2>5, <3>1
  <2>6. DOMAIN watches' \subseteq 1..lastWatch'
    BY <1>4, <2>2
  <2> QED BY <1>3, <1>4, <1>5, <1>7, <2>2, <2>4, <2>5, <2>6
<1> QED BY <1>6, <1>7

\* The directory is watched, under the name it has.
LEMMA DirectoryWatched ==
  ASSUME Watcher!WatcherAssumption, WatcherShape, dir # Watcher!Absent,
         Watcher!AddWatch(dir.id, <<dir.name>>),
         Watcher!Root \in DOMAIN watched, UNCHANGED <<dir, Unhandled>>
  PROVE  /\ WatchTyped' /\ UnhandledSound' /\ DOMAIN watched' = DOMAIN watched \cup {dir.id}
         /\ Watcher!Root \in DOMAIN watched' /\ watched'[Watcher!Root] \in DOMAIN watches'
         /\ watches'[watched'[Watcher!Root]] = << >>
         /\ DOMAIN watches' = DOMAIN watches \cup {watched'[dir.id]}
         /\ watches'[watched'[dir.id]] = <<dir.name>>
         /\ \A i \in DOMAIN watched : watched'[i] = watched[i]
         /\ \A w \in DOMAIN watches : w # watched'[dir.id] => watches'[w] = watches[w]
         /\ dir.id \notin DOMAIN watched => watched'[dir.id] \notin DOMAIN watches
         /\ dir.name \in Names
<1>1. /\ dir.id # Watcher!Root /\ dir.name \in Names
      /\ watched[Watcher!Root] \in DOMAIN watches /\ watches[watched[Watcher!Root]] = << >>
  BY DirectoryIs
<1>2. /\ lastWatch \in Nat /\ \A i \in DOMAIN watched : watched[i] \in 1..lastWatch
      /\ \A i, j \in DOMAIN watched : watched[i] = watched[j] => i = j
      /\ DOMAIN watches \subseteq 1..lastWatch /\ DOMAIN watched \subseteq {Watcher!Root, dir.id}
      /\ \A w \in DOMAIN watches : watches[w] = << >> \/ \E n \in Names : watches[w] = <<n>>
      /\ \A w \in DOMAIN watches : w # watched[Watcher!Root] => watches[w] # << >>
  BY DEF WatcherShape, WatchTyped
<1>3. PICK inode : inode = dir.id
  OBVIOUS
<1>4. PICK path : path = <<dir.name>>
  OBVIOUS
<1>5. Watcher!AddWatch(inode, path)
  BY <1>3, <1>4
<1>6. /\ lastWatch' \in Nat /\ lastWatch <= lastWatch'
      /\ DOMAIN watched' = DOMAIN watched \cup {inode}
      /\ \A i \in DOMAIN watched : watched'[i] = watched[i]
      /\ inode \notin DOMAIN watched => watched'[inode] \notin 1..lastWatch
      /\ \A i \in DOMAIN watched' : watched'[i] \in 1..lastWatch'
      /\ \A i, j \in DOMAIN watched' : watched'[i] = watched'[j] => i = j
      /\ DOMAIN watches' = DOMAIN watches \cup {watched'[inode]}
      /\ DOMAIN watches' \subseteq 1..lastWatch'
      /\ watches'[watched'[inode]] = path
      /\ \A w \in DOMAIN watches : w # watched'[inode] => watches'[w] = watches[w]
  BY <1>2, <1>5, WatchAdded
<1>7. watched'[Watcher!Root] = watched[Watcher!Root] /\ watched'[inode] # watched'[Watcher!Root]
        /\ Watcher!Root \in DOMAIN watched'
  BY <1>1, <1>3, <1>6
<1>8. path # << >> /\ \E n \in Names : path = <<n>>
  BY <1>1, <1>4
<1>9. WatchTyped'
  <2>1. DOMAIN watched' \subseteq {Watcher!Root, dir'.id}
    BY <1>2, <1>3, <1>6
  <2>2. \A w \in DOMAIN watches' : watches'[w] = << >> \/ \E n \in Names : watches'[w] = <<n>>
    BY <1>2, <1>6, <1>8
  <2>3. \A w \in DOMAIN watches' : w # watched'[Watcher!Root] => watches'[w] # << >>
    BY <1>2, <1>6, <1>7, <1>8
  <2> QED BY <1>6, <2>1, <2>2, <2>3 DEF WatchTyped
<1>10. UnhandledSound'
  <2>1. SoundNotices(Unhandled, watched, lastWatch)
    BY DEF WatcherShape, UnhandledSound
  <2>2. ASSUME NEW i \in 1..Len(Unhandled) PROVE SoundNotice(Unhandled[i], watched', lastWatch')
    <3>1. SoundNotice(Unhandled[i], watched, lastWatch)
      BY <2>1 DEF SoundNotices
    <3>2. PICK e : e = Unhandled[i]
      OBVIOUS
    <3>3. OfRoot(e, watched) => OfRoot(e, watched')
      BY <1>7 DEF OfRoot
    <3>4. ASSUME OfDirectory(e, watched, lastWatch) PROVE OfDirectory(e, watched', lastWatch')
      <4>1. e.watch \in 1..lastWatch /\ e.watch # watched[Watcher!Root]
        BY <3>4 DEF OfDirectory
      <4>2. e.watch \in 1..lastWatch'
        BY <1>2, <1>6, <4>1
      <4>3. e.watch # watched'[Watcher!Root]
        BY <1>7, <4>1
      <4>4. ASSUME \A j \in DOMAIN watched : e.watch # watched[j],
                   NEW j \in DOMAIN watched'
            PROVE  e.watch # watched'[j]
        <5>1. CASE j \in DOMAIN watched
          BY <1>6, <4>4, <5>1
        <5>2. CASE j \notin DOMAIN watched
          BY <1>6, <4>1, <5>2
        <5> QED BY <5>1, <5>2
      <4> QED BY <3>4, <4>2, <4>3, <4>4 DEF OfDirectory
    <3> QED BY <3>1, <3>2, <3>3, <3>4 DEF SoundNotice
  <2>3. SoundNotices(Unhandled, watched', lastWatch')
    BY <2>1, <2>2 DEF SoundNotices
  <2> QED BY <2>3 DEF UnhandledSound
<1>11. watched'[Watcher!Root] \in DOMAIN watches' /\ watches'[watched'[Watcher!Root]] = << >>
  BY <1>1, <1>6, <1>7
<1>12. inode \notin DOMAIN watched => watched'[inode] \notin DOMAIN watches
  BY <1>2, <1>6
<1> QED BY <1>1, <1>3, <1>4, <1>6, <1>7, <1>9, <1>10, <1>11, <1>12

LEMMA DirectoryAddedToWatches ==
  ASSUME Watcher!WatcherAssumption, WatcherInv, Watcher!WatchDirectory PROVE WatcherInv'
<1>0. PICK e : e = Head(buffer)
  OBVIOUS
<1>1. /\ place = "watch" /\ Handling /\ Adding /\ buffer # << >> /\ e.kind = "create" /\ e.directory
      /\ UNCHANGED <<Watcher!tree, Watcher!flags, stopper, Watcher!client, blind>>
  BY <1>0 DEF Watcher!WatchDirectory, WatcherInv, WatcherShape, ThreadTyped, Handling, Adding
<1>2. CASE Watcher!AddTreeFails
  BY <1>1, <1>2, DirectoryFails
<1>3. CASE ~Watcher!AddTreeFails
  <2>0. WatcherShape /\ WatchesSound /\ ChangesKnown /\ StopSound
    BY DEF WatcherInv
  <2>1. /\ dir.name = Watcher!event.name /\ Watcher!AddWatch(dir.id, Watcher!relative)
             /\ place' = "scan"
        /\ UNCHANGED <<notices, buffer, visit, rebuildRequested, Watcher!state>>
    BY <1>3 DEF Watcher!WatchDirectory
  <2>2. Watcher!relative = <<e.name>> /\ dir.name = e.name /\ dir # Watcher!Absent
    BY <1>0, <1>1, <2>1, AddingIs
  <2>3. UNCHANGED <<leaf, dir, inner, gone, changes, events, rescanPending, batch, seen, running,
                    stopRequested>>
    BY <1>1, <2>1 DEF Watcher!tree, Watcher!client, Watcher!flags, Watcher!state
  <2>4. /\ Unhandled' = Unhandled /\ Alarm' = Alarm /\ Watcher!Rebuilding' = Watcher!Rebuilding
        /\ ~Ending /\ ~Ending' /\ Handling'
    BY <1>1, <2>1 DEF Unhandled, Alarm, Watcher!Rebuilding, Ending, Handling
  <2>5. Watcher!Root \in DOMAIN watched
    BY <1>1, <2>0, <2>4 DEF WatcherShape, RootWatched
  <2>6. Watcher!AddWatch(dir.id, <<dir.name>>)
    BY <2>1, <2>2
  <2>7. /\ WatchTyped' /\ UnhandledSound' /\ DOMAIN watched' = DOMAIN watched \cup {dir.id}
        /\ Watcher!Root \in DOMAIN watched' /\ watched'[Watcher!Root] \in DOMAIN watches'
        /\ watches'[watched'[Watcher!Root]] = << >>
        /\ DOMAIN watches' = DOMAIN watches \cup {watched'[dir.id]}
        /\ watches'[watched'[dir.id]] = <<dir.name>>
        /\ \A i \in DOMAIN watched : watched'[i] = watched[i]
        /\ \A w \in DOMAIN watches : w # watched'[dir.id] => watches'[w] = watches[w]
        /\ dir.id \notin DOMAIN watched => watched'[dir.id] \notin DOMAIN watches
    BY <2>0, <2>2, <2>3, <2>4, <2>5, <2>6, DirectoryWatched
  <2>8. WatcherShape'
    <3>1. TreeTyped'
      BY <2>0, <2>3 DEF WatcherShape, TreeTyped
    <3>2. ThreadTyped'
      BY <1>1, <2>0, <2>1, <2>3, <2>4 DEF WatcherShape, ThreadTyped, Handling, Adding
    <3>3. RootWatched'
      BY <2>1, <2>7 DEF RootWatched
    <3> QED BY <2>7, <3>1, <3>2, <3>3 DEF WatcherShape
  <2>9. WatchesSound'
    <3>1. CASE Loose
      BY <1>1, <2>1, <2>4, <3>1 DEF WatchesSound, Loose
    <3>2. CASE WatchesTree
      <4>1. ASSUME NEW w \in DOMAIN watches'
            PROVE  \/ \E i \in DOMAIN watched' : w = watched'[i]
                   \/ \E i \in 1..Len(Unhandled) : Unhandled[i].kind = "ignored"
                        /\ Unhandled[i].watch = w
        <5>1. CASE w = watched'[dir.id]
          BY <2>7, <5>1
        <5>2. CASE w \in DOMAIN watches
          BY <2>7, <3>2, <5>2 DEF WatchesTree
        <5> QED BY <2>7, <4>1, <5>1, <5>2
      <4>2. dir.id \in DOMAIN watched' /\ watched'[dir.id] \in DOMAIN watches'
        BY <2>7
      <4>3. WatchesTree'
        BY <2>3, <2>4, <2>7, <4>1, <4>2 DEF WatchesTree
      <4> QED BY <4>3 DEF WatchesSound
    <3> QED BY <2>0, <3>1, <3>2 DEF WatchesSound
  <2>10. \A p : ToldOf(p) => ToldOf(p)'
    BY <2>3 DEF ToldOf
  <2>11. ChangesKnown'
    <3>1. SUFFICES ASSUME ~Watcher!Rebuilding, NEW p,
                          Alarm \/ IsUnderWay(p) PROVE ToldOf(p)' \/ WillBeTold(p)'
      BY <1>1, <2>0, <2>3, <2>4, <2>10, WorkerKnown
    <3>2. CASE Alarm
      BY <2>4, <3>1, <3>2 DEF WillBeTold
    <3>3. CASE ~Alarm /\ IsUnderWay(p)
      <4>1. WatchesTree
        BY <1>1, <2>0, <2>4, <3>1, <3>3 DEF WatchesSound, Loose, Watcher!Rebuilding
      <4>2. \A w \in DOMAIN watches : w \in DOMAIN watches' /\ watches'[w] = watches[w]
        BY <2>2, <2>7, <4>1 DEF WatchesTree
      <4>3. PICK i \in 1..Len(Unhandled) : Reports(Unhandled[i], p) \/ Finds(i, Unhandled[i], p)
        BY <3>3 DEF IsUnderWay
      <4>4. CASE Reports(Unhandled[i], p)
        <5>1. Reports(Unhandled[i], p)'
          BY <2>4, <4>2, <4>4 DEF Reports
        <5> QED BY <2>4, <3>1, <4>3, <5>1 DEF IsUnderWay, WillBeTold
      <4>5. CASE Finds(i, Unhandled[i], p)
        <5>1. Finds(i, Unhandled[i], p)'
          BY <2>1, <2>3, <2>4, <4>5 DEF Finds, Creates, ToSearch
        <5> QED BY <2>4, <3>1, <4>3, <5>1 DEF IsUnderWay, WillBeTold
      <4> QED BY <4>3, <4>4, <4>5
    <3> QED BY <3>1, <3>2, <3>3
  <2>12. StopSound'
    BY <1>1, <2>0, <2>1, <2>3 DEF StopSound
  <2> QED BY <2>8, <2>9, <2>11, <2>12 DEF WatcherInv
<1> QED BY <1>2, <1>3

-----------------------------------------------------------------------------
(* The watches are rebuilt *)

\* While they are, what is not known is with the owner or in the list of events.
LEMMA RebuildKnown ==
  ASSUME ChangesKnown, Watcher!Rebuilding, ~Ending, UNCHANGED <<Watcher!tree, seen, blind>>,
         \A p : ToldOf(p) => ToldOf(p)'
  PROVE  ChangesKnown'
BY WorkerKnown

\* The root has gone, or an entry of it: the owner is told, and the watching ends.
LEMMA RebuildGivesUp ==
  ASSUME WatcherInv, place \in {"root", "tree"}, Watcher!RebuildFails,
         UNCHANGED <<Watcher!tree, buffer, rebuildRequested, stopper, Watcher!client, blind>>
  PROVE  WatcherInv'
<1>0. WatcherShape /\ WatchesSound /\ ChangesKnown /\ StopSound
  BY DEF WatcherInv
<1>1. /\ Watcher!PushRescan /\ running' = FALSE /\ stopRequested' = TRUE /\ place' = "loop"
           /\ visit' = {}
      /\ UNCHANGED <<leaf, dir, inner, gone, changes, notices, watched, lastWatch, watches, buffer,
                     batch, seen, stopper>>
  BY DEF Watcher!RebuildFails, Watcher!GiveUp, Watcher!tree, Watcher!kernel, Watcher!client
<1>2. /\ Ending' /\ ~Ending /\ Unhandled' = Unhandled /\ ~Handling /\ ~Handling'
           /\ Watcher!Rebuilding
  BY <1>1 DEF Ending, Unhandled, Handling, Watcher!Rebuilding
<1>3. events \in Seq(Seq(EntryNames))
        /\ (rescanPending => Watcher!Rescan \in Watcher!Functions!Range(events))
  BY <1>0 DEF WatcherShape, ThreadTyped
<1>4. /\ events' \in Seq(Seq(EntryNames))
           /\ (rescanPending' => Watcher!Rescan \in Watcher!Functions!Range(events'))
      /\ \A p : ToldOf(p)'
  BY <1>1, <1>3, RescanTells
<1>5. ThreadTyped'
  BY <1>0, <1>1, <1>2, <1>4 DEF WatcherShape, ThreadTyped, Handling, Adding
<1>6. TreeTyped' /\ WatchTyped' /\ UnhandledSound'
  BY <1>0, <1>1, <1>2 DEF WatcherShape, TreeTyped, WatchTyped, UnhandledSound
<1>7. RootWatched'
  BY <1>0, <1>1, <1>2 DEF WatcherShape, RootWatched
<1>8. WatchesSound' /\ ChangesKnown'
  BY <1>2 DEF WatchesSound, Loose, ChangesKnown
<1>9. StopSound'
  BY <1>1 DEF StopSound
<1> QED BY <1>5, <1>6, <1>7, <1>8, <1>9 DEF WatcherInv, WatcherShape

LEMMA RebuildBegins ==
  ASSUME WatcherInv, Watcher!Rebuild PROVE WatcherInv'
<1>0. WatcherShape /\ WatchesSound /\ ChangesKnown /\ StopSound
  BY DEF WatcherInv
<1>1. /\ place = "rebuild" /\ place' = "root" /\ watched' = Watcher!Nothing
           /\ watches' = Watcher!Nothing
      /\ notices' = << >>
      /\ UNCHANGED <<leaf, dir, inner, gone, changes, lastWatch, events, rescanPending, visit,
                     rebuildRequested, buffer, stopper, running, stopRequested, batch, seen, blind>>
  BY DEF Watcher!Rebuild, Watcher!Goto, Watcher!tree, Watcher!state, Watcher!flags, Watcher!client
<1>2. ~Handling /\ ~Handling' /\ ~Ending /\ ~Ending' /\ Watcher!Rebuilding
  BY <1>1 DEF Handling, Ending, Watcher!Rebuilding
<1>3. DOMAIN watched' = {} /\ DOMAIN watches' = {}
  BY <1>1 DEF Watcher!Nothing
<1>4. buffer = << >> /\ buffer' = << >> /\ << >> \in Seq(NoticeType)
  BY <1>0, <1>1, <1>2 DEF WatcherShape, ThreadTyped
<1>5. Unhandled' = << >> /\ Len(Unhandled') = 0
  <2>1. Unhandled' = << >> \o << >>
    BY <1>1, <1>4 DEF Unhandled
  <2>2. << >> \o << >> = << >> /\ Len(<< >>) = 0
    BY <1>4, ConcatEmptySeq
  <2> QED BY <2>1, <2>2
<1>6. ThreadTyped'
  BY <1>0, <1>1, <1>2, <1>4 DEF WatcherShape, ThreadTyped, Handling, Adding
<1>7. TreeTyped' /\ WatchTyped'
  BY <1>0, <1>1, <1>3 DEF WatcherShape, TreeTyped, WatchTyped
<1>8. RootWatched'
  BY <1>1, <1>3, <1>5 DEF RootWatched
<1>9. UnhandledSound'
  <2>1. 1..Len(Unhandled') = {}
    BY <1>5
  <2> QED BY <2>1 DEF UnhandledSound, SoundNotices, GoneIsLast
<1>10. \A p : ToldOf(p) => ToldOf(p)'
  BY <1>1 DEF ToldOf
<1>11. UNCHANGED Watcher!tree
  BY <1>1 DEF Watcher!tree
<1>12. ChangesKnown'
  BY <1>0, <1>1, <1>2, <1>10, <1>11, RebuildKnown
<1>13. WatchesSound' /\ StopSound'
  BY <1>0, <1>1 DEF WatchesSound, Loose, StopSound
<1> QED BY <1>6, <1>7, <1>8, <1>9, <1>12, <1>13 DEF WatcherInv, WatcherShape

\* A step of the rebuilding that adds a watch, or none.
LEMMA RebuildGoesOn ==
  ASSUME WatcherInv, place \in {"root", "tree"}, place' = "tree",
         UNCHANGED <<Watcher!tree, notices, buffer, Watcher!state, Watcher!flags,
           rebuildRequested, stopper, Watcher!client, blind>>,
         visit' \subseteq Names \cup {"file"}, WatchTyped', UnhandledSound',
         Watcher!Root \in DOMAIN watched' /\ watched'[Watcher!Root] \in DOMAIN watches',
         watches'[watched'[Watcher!Root]] = << >>, Alarm \/ WatchesTree'
  PROVE  WatcherInv'
<1>0. WatcherShape /\ ChangesKnown /\ StopSound
  BY DEF WatcherInv
<1>1. /\ UNCHANGED <<leaf, dir, inner, gone, changes, events, rescanPending, batch, seen, running,
                     stopRequested>>
      /\ Unhandled' = Unhandled /\ Alarm' = Alarm /\ ~Handling /\ ~Handling' /\ ~Ending /\ ~Ending'
      /\ Watcher!Rebuilding
  BY DEF Watcher!tree, Watcher!state, Watcher!client, Watcher!flags, Unhandled, Alarm, Handling,
     Ending, Watcher!Rebuilding
<1>2. ThreadTyped'
  BY <1>0, <1>1 DEF WatcherShape, ThreadTyped, Handling, Adding
<1>3. TreeTyped'
  BY <1>0, <1>1 DEF WatcherShape, TreeTyped
<1>4. RootWatched'
  BY DEF RootWatched
<1>5. WatchesSound'
  BY <1>1 DEF WatchesSound, Loose
<1>6. \A p : ToldOf(p) => ToldOf(p)'
  BY <1>1 DEF ToldOf
<1>7. ChangesKnown'
  BY <1>0, <1>1, <1>6, RebuildKnown
<1>8. StopSound'
  BY <1>0, <1>1 DEF StopSound
<1> QED BY <1>2, <1>3, <1>4, <1>5, <1>7, <1>8 DEF WatcherInv, WatcherShape

LEMMA RootWatchedAgain ==
  ASSUME Watcher!WatcherAssumption, WatcherInv, Watcher!WatchRoot PROVE WatcherInv'
<1>0. WatcherShape
  BY DEF WatcherInv
<1>1. place = "root"
        /\ UNCHANGED <<Watcher!tree, buffer, rebuildRequested, stopper, Watcher!client, blind>>
  BY DEF Watcher!WatchRoot
<1>2. CASE gone
  <2>1. Watcher!RebuildFails
    BY <1>2 DEF Watcher!WatchRoot
  <2> QED BY <1>1, <2>1, RebuildGivesUp
<1>3. CASE ~gone
  <2>1. /\ Watcher!AddWatch(Watcher!Root, << >>) /\ place' = "tree"
             /\ UNCHANGED <<notices, Watcher!state, Watcher!flags>>
        /\ visit'
             = (IF leaf # 0 THEN {"file"} ELSE {}) \cup
               (IF dir # Watcher!Absent THEN {dir.name} ELSE {})
    BY <1>3 DEF Watcher!WatchRoot
  <2>2. DOMAIN watched = {} /\ DOMAIN watches = {} /\ notices = << >> /\ lastWatch \in Nat
    BY <1>0, <1>1 DEF WatcherShape, RootWatched, WatchTyped
  <2>3. buffer = << >> /\ Unhandled = << >> \o << >> /\ Unhandled' = << >> \o << >>
    BY <1>0, <1>1, <2>1, <2>2 DEF WatcherShape, ThreadTyped, Handling, Unhandled
  <2>4. << >> \o << >> = << >> /\ Len(<< >>) = 0 /\ << >> \in Seq(NoticeType)
    <3>1. << >> \in Seq(NoticeType)
      OBVIOUS
    <3> QED BY <3>1, ConcatEmptySeq
  <2>5. Unhandled' = << >> /\ 1..Len(Unhandled') = {}
    BY <2>3, <2>4
  <2>6. /\ lastWatch' \in Nat /\ DOMAIN watched' = {Watcher!Root}
        /\ \A i \in DOMAIN watched' : watched'[i] \in 1..lastWatch'
        /\ DOMAIN watches' = {watched'[Watcher!Root]} /\ DOMAIN watches' \subseteq 1..lastWatch'
        /\ watches'[watched'[Watcher!Root]] = << >>
    <3>1. PICK path : path = << >>
      OBVIOUS
    <3>2. PICK inode : inode = Watcher!Root
      OBVIOUS
    <3>3. Watcher!AddWatch(inode, path)
      BY <2>1, <3>1, <3>2
    <3>4. /\ DOMAIN watches \subseteq 1..lastWatch
          /\ \A i \in DOMAIN watched : watched[i] \in 1..lastWatch
          /\ \A i, j \in DOMAIN watched : watched[i] = watched[j] => i = j
      BY <2>2
    <3>5. /\ lastWatch' \in Nat /\ DOMAIN watched' = DOMAIN watched \cup {inode}
          /\ \A i \in DOMAIN watched' : watched'[i] \in 1..lastWatch'
          /\ DOMAIN watches' = DOMAIN watches \cup {watched'[inode]}
          /\ DOMAIN watches' \subseteq 1..lastWatch'
          /\ watches'[watched'[inode]] = path
      BY <2>2, <3>3, <3>4, WatchAdded
    <3> QED BY <2>2, <3>1, <3>2, <3>5
  <2>7. WatchTyped'
    BY <2>6 DEF WatchTyped
  <2>8. UnhandledSound'
    BY <2>5 DEF UnhandledSound, SoundNotices, GoneIsLast
  <2>9. dir' = dir /\ (dir = Watcher!Absent \/ dir.name \in Names)
          /\ (dir # Watcher!Absent => dir.id # Watcher!Root)
    BY <1>0, <1>1, DirectoryIs DEF Watcher!tree
  <2>10. visit' \subseteq Names \cup {"file"} /\ (dir # Watcher!Absent => dir.name \in visit')
    BY <2>1, <2>9
  <2>11. WatchesTree'
    BY <2>1, <2>6, <2>9, <2>10 DEF WatchesTree
  <2> QED BY <1>1, <2>1, <2>6, <2>7, <2>8, <2>10, <2>11, RebuildGoesOn
<1> QED BY <1>2, <1>3

LEMMA EntryOfRoot ==
  ASSUME Watcher!WatcherAssumption, WatcherInv, NEW n, Watcher!TreeEntry(n) PROVE WatcherInv'
<1>0. WatcherShape /\ WatchesSound
  BY DEF WatcherInv
<1>1. /\ place = "tree" /\ place' = "tree" /\ n \in visit /\ visit' = visit \ {n}
      /\ UNCHANGED <<Watcher!tree, notices, buffer, Watcher!state, Watcher!flags,
           rebuildRequested, stopper, Watcher!client, blind>>
  BY DEF Watcher!TreeEntry, Watcher!kernel
<1>2. /\ visit \subseteq Names \cup {"file"} /\ ~Handling /\ ~Ending /\ ~rebuildRequested
      /\ UNCHANGED <<dir, Unhandled>>
  BY <1>0, <1>1 DEF WatcherShape, ThreadTyped, Handling, Ending, Unhandled, Watcher!tree
<1>3. visit' \subseteq Names \cup {"file"}
  BY <1>1, <1>2
<1>4. /\ Watcher!Root \in DOMAIN watched /\ watched[Watcher!Root] \in DOMAIN watches
      /\ watches[watched[Watcher!Root]] = << >>
  BY <1>0, <1>1, <1>2 DEF WatcherShape, RootWatched
<1>5. Alarm \/ WatchesTree
  BY <1>0, <1>1, <1>2 DEF WatchesSound, Loose
<1>6. dir # Watcher!Absent => dir.name \in Names /\ dir.name # "file"
  BY <1>0, DirectoryIs DEF Watcher!WatcherAssumption
<1>7. CASE n = "file" /\ UNCHANGED <<place, Watcher!kernel, watches, Watcher!state, Watcher!flags>>
  <2>1. UNCHANGED <<watched, lastWatch, watches>>
    BY <1>7 DEF Watcher!kernel
  <2>2. WatchTyped' /\ UnhandledSound'
    BY <1>0, <1>2, <2>1 DEF WatcherShape, WatchTyped, UnhandledSound
  <2>3. Alarm \/ WatchesTree'
    BY <1>1, <1>2, <1>5, <1>6, <1>7, <2>1 DEF WatchesTree, ToWatch
  <2> QED BY <1>1, <1>3, <1>4, <2>1, <2>2, <2>3, RebuildGoesOn
<1>8. CASE n = dir.name /\ Watcher!AddWatch(dir.id, <<n>>)
  <2>1. dir # Watcher!Absent
    <3>1. "" \notin Names \cup {"file"}
      BY DEF Watcher!WatcherAssumption
    <3>2. dir = Watcher!Absent => dir.name = ""
      BY AbsentIs
    <3> QED BY <1>1, <1>2, <1>8, <3>1, <3>2
  <2>2. Watcher!AddWatch(dir.id, <<dir.name>>)
    BY <1>8
  <2>3. /\ WatchTyped' /\ UnhandledSound' /\ DOMAIN watched' = DOMAIN watched \cup {dir.id}
        /\ Watcher!Root \in DOMAIN watched' /\ watched'[Watcher!Root] \in DOMAIN watches'
        /\ watches'[watched'[Watcher!Root]] = << >>
        /\ DOMAIN watches' = DOMAIN watches \cup {watched'[dir.id]}
        /\ watches'[watched'[dir.id]] = <<dir.name>>
        /\ \A i \in DOMAIN watched : watched'[i] = watched[i]
    BY <1>0, <1>2, <1>4, <2>1, <2>2, DirectoryWatched
  <2>4. ASSUME WatchesTree PROVE WatchesTree'
    <3>1. ASSUME NEW w \in DOMAIN watches'
          PROVE  \/ \E i \in DOMAIN watched' : w = watched'[i]
                 \/ \E i \in 1..Len(Unhandled) : Unhandled[i].kind = "ignored"
                      /\ Unhandled[i].watch = w
      <4>1. CASE w = watched'[dir.id]
        BY <2>3, <4>1
      <4>2. CASE w \in DOMAIN watches
        BY <2>3, <2>4, <4>2 DEF WatchesTree
      <4> QED BY <2>3, <3>1, <4>1, <4>2
    <3>2. dir.id \in DOMAIN watched' /\ watched'[dir.id] \in DOMAIN watches'
      BY <2>3
    <3> QED BY <1>2, <2>3, <3>1, <3>2 DEF WatchesTree
  <2> QED BY <1>1, <1>3, <1>5, <2>3, <2>4, RebuildGoesOn
<1> QED BY <1>7, <1>8 DEF Watcher!TreeEntry

LEMMA EntryOfRootGone ==
  ASSUME WatcherInv, Watcher!TreeEntryGone PROVE WatcherInv'
BY RebuildGivesUp DEF Watcher!TreeEntryGone

-----------------------------------------------------------------------------
(* Everything together *)

LEMMA WatcherBegins ==
  ASSUME Watcher!WatcherAssumption, Watcher!Init PROVE WatcherInv
<1>0. PICK seq : seq = << >>
  OBVIOUS
<1>1. /\ leaf = 0 /\ inner = 0 /\ changes = 0 /\ dir = Watcher!Absent /\ notices = << >>
           /\ lastWatch = 1
      /\ watched = [i \in {Watcher!Root} |-> 1] /\ watches = [w \in {1} |-> << >>]
      /\ events = << >> /\ rescanPending = FALSE /\ stopRequested = FALSE /\ place = "loop"
      /\ buffer = << >> /\ rebuildRequested = FALSE /\ stopper = "none" /\ seen = Watcher!Current
  BY DEF Watcher!Init
<1>2. TreeTyped
  <2>1. dir = Watcher!Absent /\ dir \in [name : EntryNames, id : Nat] /\ dir.id = 0
    BY <1>1, AbsentIs
  <2>2. dir.id <= changes
    BY <1>1, <2>1
  <2> QED BY <1>1, <2>1, <2>2 DEF TreeTyped
<1>3. DOMAIN watched = {Watcher!Root} /\ watched[Watcher!Root] = 1 /\ DOMAIN watches = {1}
        /\ watches[1] = << >>
  BY <1>1
<1>4. WatchTyped
  <2>1. lastWatch \in Nat /\ 1 \in 1..lastWatch
    BY <1>1
  <2> QED BY <1>3, <2>1 DEF WatchTyped
<1>5. << >> \in Seq(NoticeType) /\ << >> \in Seq(Seq(EntryNames)) /\ Len(<< >>) = 0
  OBVIOUS
<1>6. Unhandled = << >> /\ 1..Len(Unhandled) = {}
  <2>1. << >> \o << >> = << >>
    BY <1>5, ConcatEmptySeq
  <2>2. Unhandled = << >>
    BY <1>1, <2>1 DEF Unhandled
  <2> QED BY <1>5, <2>2
<1>7. ThreadTyped
  BY <1>1, <1>5 DEF ThreadTyped, Handling, Adding
<1>8. RootWatched
  BY <1>1, <1>3 DEF RootWatched
<1>9. UnhandledSound
  BY <1>6 DEF UnhandledSound, SoundNotices, GoneIsLast
<1>10. WatchesSound
  <2>1. WatchesTree
    BY <1>1, <1>3 DEF WatchesTree
  <2> QED BY <2>1 DEF WatchesSound
<1>11. ChangesKnown /\ StopSound
  BY <1>1 DEF ChangesKnown, StopSound
<1> QED BY <1>2, <1>4, <1>7, <1>8, <1>9, <1>10, <1>11 DEF WatcherInv, WatcherShape

LEMMA WatcherStays ==
  ASSUME WatcherInv, UNCHANGED Watcher!vars PROVE WatcherInv'
<1>1. UNCHANGED <<Watcher!tree, Watcher!kernel, Watcher!state, Watcher!flags, Watcher!thread,
        stopper, Watcher!client, blind>>
  BY DEF Watcher!vars
<1>2. /\ UNCHANGED <<leaf, dir, inner, gone, changes, notices, watched, lastWatch, events,
                     rescanPending, running, stopRequested, place, buffer, visit, rebuildRequested,
                     watches, stopper, batch, seen, blind>>
  BY <1>1 DEF Watcher!tree, Watcher!kernel, Watcher!state, Watcher!flags, Watcher!thread,
     Watcher!client
<1>3. Watcher!Current' = Watcher!Current
  BY <1>2 DEF Watcher!Current
<1>4. WatcherShape' = WatcherShape
  BY <1>2 DEF WatcherShape, TreeTyped, WatchTyped, ThreadTyped, RootWatched, UnhandledSound,
     Unhandled,
              Handling, Adding, Ending
<1>5. WatchesSound' = WatchesSound
  BY <1>2 DEF WatchesSound, Loose, WatchesTree, Alarm, Unhandled, Ending, ToWatch
<1>6. ChangesKnown' = ChangesKnown
  BY <1>2, <1>3 DEF ChangesKnown, Ending, ToldOf, WillBeTold, Watcher!Rebuilding, Alarm,
     IsUnderWay, Unhandled,
                    Reports, Finds, Creates, ToSearch
<1>7. StopSound' = StopSound
  BY <1>2 DEF StopSound
<1> QED BY <1>4, <1>5, <1>6, <1>7 DEF WatcherInv

LEMMA WatcherGoesOn ==
  ASSUME Watcher!WatcherAssumption, WatcherInv, Watcher!Next PROVE WatcherInv'
<1>1. CASE Watcher!TreeChanges
  BY <1>1, FileChanges, RootMoves, InnerChanges, DirectoryMade, DirectoryRenamed, DirectoryRemoved
     DEF Watcher!TreeChanges
<1>2. CASE Watcher!Drain \/ Watcher!Refresh
  BY <1>2, OwnerActs
<1>3. CASE Watcher!Worker
  BY <1>3, ThreadGoesOn, HandledAll, Handled, DirectoryBegun, DirectoryAddedToWatches,
     DirectoryListed, EntryScanned, DirectoryDone, RebuildBegins, RootWatchedAgain, EntryOfRoot,
     EntryOfRootGone DEF Watcher!Worker
<1>4. CASE Watcher!StopRequests \/ Watcher!Stop
  BY <1>4, StopActs DEF Watcher!Stop
<1> QED BY <1>1, <1>2, <1>3, <1>4 DEF Watcher!Next

\* With nothing under way, what is not known is nowhere.
LEMMA WatcherKnows ==
  ASSUME Watcher!WatcherAssumption, WatcherInv PROVE Watcher!NothingMissed /\ Watcher!StopIsTold
<1>0. WatcherShape /\ WatchesSound /\ ChangesKnown /\ StopSound
  BY DEF WatcherInv
<1>1. ASSUME Watcher!Idle
      PROVE  /\ ~Ending /\ ~Loose
             /\ \A p \in Watcher!Paths : ~ToldOf(p) /\ ~WillBeTold(p)
             /\ 1..Len(Unhandled) = {} /\ place = "poll"
  <2>1. place = "poll" /\ notices = << >> /\ events = << >> /\ batch = {}
    BY <1>1 DEF Watcher!Idle
  <2>2. buffer = << >> /\ ~rebuildRequested /\ ~Ending
    BY <1>0, <2>1 DEF WatcherShape, ThreadTyped, Handling, Ending
  <2>3. Unhandled = << >> \o << >>
    BY <2>1, <2>2 DEF Unhandled
  <2>4. << >> \in Seq(NoticeType) /\ Len(<< >>) = 0
    OBVIOUS
  <2>5. 1..Len(Unhandled) = {}
    BY <2>3, <2>4, ConcatEmptySeq
  <2>6. ~Alarm /\ \A p : ~IsUnderWay(p)
    BY <2>5 DEF Alarm, Alarming, IsUnderWay
  <2>7. Watcher!Functions!Range(events) = {}
    BY <2>1 DEF Watcher!Functions!Range
  <2> QED BY <2>1, <2>2, <2>5, <2>6, <2>7 DEF Loose, ToldOf, WillBeTold
<1>2. Watcher!NothingMissed
  BY <1>0, <1>1 DEF Watcher!NothingMissed, ChangesKnown
<1>3. ASSUME Watcher!Idle
      PROVE  Watcher!Functions!Range(watches)
               = {<< >>} \cup (IF dir = Watcher!Absent THEN {} ELSE {<<dir.name>>})
  <2>1. WatchesTree /\ Watcher!Root \in DOMAIN watched /\ place = "poll" /\ 1..Len(Unhandled) = {}
    BY <1>0, <1>1, <1>3, DirectoryIs DEF WatchesSound
  <2>2. watched[Watcher!Root] \in DOMAIN watches /\ watches[watched[Watcher!Root]] = << >>
    BY <1>0, <2>1, DirectoryIs
  <2>3. dir # Watcher!Absent => dir.id \in DOMAIN watched
    BY <2>1 DEF WatchesTree
  <2>4. dir # Watcher!Absent => watched[dir.id] \in DOMAIN watches
          /\ watches[watched[dir.id]] = <<dir.name>>
    BY <2>1, <2>3 DEF WatchesTree
  <2>5. ASSUME NEW w \in DOMAIN watches
        PROVE  watches[w] = << >> \/ (dir # Watcher!Absent /\ watches[w] = <<dir.name>>)
    <3>1. PICK i \in DOMAIN watched : w = watched[i]
      BY <2>1 DEF WatchesTree
    <3>2. i = Watcher!Root \/ i = dir.id
      BY <1>0 DEF WatcherShape, WatchTyped
    <3>3. dir = Watcher!Absent => dir.id = Watcher!Root
      BY <1>0, DirectoryIs
    <3> QED BY <2>2, <2>4, <3>1, <3>2, <3>3
  <2>6. Watcher!Functions!Range(watches) \subseteq {<< >>} \cup
          (IF dir = Watcher!Absent THEN {} ELSE {<<dir.name>>})
    BY <2>5 DEF Watcher!Functions!Range
  <2>7. {<< >>} \cup (IF dir = Watcher!Absent THEN {} ELSE {<<dir.name>>}) \subseteq
          Watcher!Functions!Range(watches)
    BY <2>2, <2>4 DEF Watcher!Functions!Range
  <2> QED BY <2>6, <2>7
<1>4. Watcher!StopIsTold
  BY <1>0, <1>3 DEF Watcher!StopIsTold, StopSound
<1> QED BY <1>2, <1>4

-----------------------------------------------------------------------------
(* The manager with its owner as the only caller.  What AssetManagerProofs     *)
(* shows of any manager it shows of this one.                                  *)
Fresh == INSTANCE AssetManagerProofs WITH
    Assets <- {a1}, Threads <- {owner}, Owner <- owner, Sizes <- {1}, MaxBytes <- 1,
    MaxWaiters <- 2, MaxPrefetch <- 1, Refusing <- {"lane"}, Batches <- {},
    MaxSource <- 1, source <- content, other <- owner, a2 <- a1,
    BudgetAssets <- {a1}, BudgetThreads <- {owner}, BudgetSizes <- {1}, BudgetBytes <- 1,
    BudgetPrefetch <- 1, BudgetRefusing <- {"lane"}, BudgetBatches <- {}, BudgetSource <- 1

LEMMA ManagersAlike ==
  /\ Fresh!ManagerAssumption /\ Fresh!BudgetAssumption /\ None \notin Requests /\ None # a1
  /\ Fresh!NoGeneration = Manager!NoGeneration /\ Fresh!FreshRecord = Manager!FreshRecord
<1>1. Manager!ManagerAssumption
  BY AssetsAssumption
<1>2. \A S : Fresh!Budget!IsFiniteSet(S) = Manager!IsFiniteSet(S)
             /\ Fresh!IsFiniteSet(S) = Manager!IsFiniteSet(S)
  BY DEF Fresh!Budget!IsFiniteSet, Manager!IsFiniteSet, Fresh!IsFiniteSet
<1> QED BY Zenon, <1>1, <1>2
      DEF Fresh!ManagerAssumption, Fresh!BudgetAssumption, Fresh!Budget!ManagerAssumption,
          Manager!ManagerAssumption, Fresh!NoGeneration, Manager!NoGeneration,
          Fresh!FreshRecord, Manager!FreshRecord

LEMMA TotalsAlike ==
  ASSUME NEW f
  PROVE  Manager!Total(f) = Fresh!Total(f) /\ Manager!Total(f) = Fresh!Budget!Total(f)
<1>1. /\ Manager!Cardinality({a1}) = Fresh!Cardinality({a1})
      /\ Manager!Cardinality({a1}) = Fresh!Budget!Cardinality({a1})
  BY DEF Manager!Cardinality, Fresh!Cardinality, Fresh!Budget!Cardinality
<1>2. Manager!Order = Fresh!Order /\ Manager!Order = Fresh!Budget!Order
  BY Zenon, <1>1
     DEF Manager!Order, Fresh!Order, Fresh!Budget!Order,
         Manager!Bijection, Fresh!Bijection, Fresh!Budget!Bijection,
         Manager!Injection, Fresh!Injection, Fresh!Budget!Injection,
         Manager!Surjection, Fresh!Surjection, Fresh!Budget!Surjection,
         Manager!IsInjective, Fresh!IsInjective, Fresh!Budget!IsInjective
<1> QED BY Zenon, <1>1, <1>2 DEF Manager!Total, Fresh!Total, Fresh!Budget!Total

LEMMA TotalOfOne == ASSUME NEW f \in [{a1} -> Int] PROVE Manager!Total(f) = f[a1]
<1>1. f[a1] \in Int /\ \A b \in {a1} : f[b] = IF b = a1 THEN f[a1] ELSE 0
  OBVIOUS
<1>2. Fresh!Budget!Total(f) = f[a1]
  BY <1>1, ManagersAlike, Fresh!TotalSingle
<1> QED BY <1>2, TotalsAlike

\* Each action of the one is the same action of the other.
LEMMA ManagersStep == Manager!Next => Fresh!Next
<1> USE DEF Manager!recordVars, Fresh!recordVars, Manager!loadVars, Fresh!loadVars,
           Manager!futureVars, Fresh!futureVars, Manager!pumpVars, Fresh!pumpVars,
           Manager!Idle, Fresh!Idle, Manager!Resident, Fresh!Resident, Manager!Accepted,
           Fresh!Accepted, Manager!Answers, Fresh!Answers, Manager!SubmitAnswers,
           Fresh!SubmitAnswers, Manager!Range, Fresh!Range, Manager!Cardinality,
           Fresh!Cardinality, Manager!SlotsAfter, Fresh!SlotsAfter, Manager!Registered,
           Fresh!Registered, Manager!Published, Fresh!Published, Manager!FailedRecord,
           Fresh!FailedRecord, Manager!Invalidated, Fresh!Invalidated, Manager!Stale,
           Fresh!Stale, Manager!Bytes, Fresh!Bytes, Manager!Continuations,
           Fresh!Continuations, Manager!Begin, Fresh!Begin, Manager!FreshRecord,
           Fresh!FreshRecord, Manager!NoGeneration, Fresh!NoGeneration, Manager!Leased,
           Fresh!Leased
<1>1. ASSUME NEW t, NEW r, NEW a, NEW p, Manager!Refused(t, r, a, p) PROVE Fresh!Refused(t, r, a, p)
  BY Zenon, <1>1 DEF Manager!Refused, Fresh!Refused
<1>2. ASSUME NEW t, NEW r, NEW a, NEW p, Manager!Join(t, r, a, p) PROVE Fresh!Join(t, r, a, p)
  BY Zenon, <1>2 DEF Manager!Join, Fresh!Join
<1>3. ASSUME NEW t, NEW r, NEW a, NEW p, Manager!UseResident(t, r, a, p) PROVE Fresh!UseResident(t, r, a, p)
  BY Zenon, <1>3 DEF Manager!UseResident, Fresh!UseResident
<1>4. ASSUME NEW t, NEW r, NEW a, NEW p, Manager!StartRequest(t, r, a, p) PROVE Fresh!StartRequest(t, r, a, p)
  BY Zenon, <1>4 DEF Manager!StartRequest, Fresh!StartRequest
<1>5. ASSUME NEW t, NEW a, Manager!Invalidate(t, a) PROVE Fresh!Invalidate(t, a)
  BY Zenon, <1>5 DEF Manager!Invalidate, Fresh!Invalidate
<1>6. ASSUME NEW t, Manager!ReleaseUnused(t) PROVE Fresh!ReleaseUnused(t)
  BY Zenon, <1>6, TotalsAlike DEF Manager!ReleaseUnused, Fresh!ReleaseUnused
<1>7. ASSUME NEW t, NEW r, Manager!ScheduleLoad(t, r) PROVE Fresh!ScheduleLoad(t, r)
  BY Zenon, <1>7 DEF Manager!ScheduleLoad, Fresh!ScheduleLoad
<1>8. ASSUME NEW t, NEW r, Manager!RecordRefusal(t, r) PROVE Fresh!RecordRefusal(t, r)
  BY Zenon, <1>8 DEF Manager!RecordRefusal, Fresh!RecordRefusal
<1>9. ASSUME NEW t, NEW r, Manager!Register(t, r) PROVE Fresh!Register(t, r)
  BY Zenon, <1>9 DEF Manager!Register, Fresh!Register
<1>10. ASSUME NEW r, Manager!StartLoad(r) PROVE Fresh!StartLoad(r)
  BY Zenon, <1>10 DEF Manager!StartLoad, Fresh!StartLoad
<1>11. ASSUME NEW r, Manager!EndLoad(r) PROVE Fresh!EndLoad(r)
  BY Zenon, <1>11 DEF Manager!EndLoad, Fresh!EndLoad
<1>12. ASSUME NEW r, Manager!SubmitPublication(r) PROVE Fresh!SubmitPublication(r)
  BY Zenon, <1>12 DEF Manager!SubmitPublication, Fresh!SubmitPublication
<1>13. ASSUME NEW r, Manager!Cancel(r) PROVE Fresh!Cancel(r)
  BY Zenon, <1>13 DEF Manager!Cancel, Fresh!Cancel
<1>14. ASSUME NEW r, Manager!Drop(r) PROVE Fresh!Drop(r)
  BY Zenon, <1>14 DEF Manager!Drop, Fresh!Drop
<1>15. Manager!Publish => Fresh!Publish
  BY Zenon DEF Manager!Publish, Fresh!Publish
<1>16. Manager!Settle => Fresh!Settle
  BY Zenon DEF Manager!Settle, Fresh!Settle
<1>17. Manager!Answer => Fresh!Answer
  BY Zenon DEF Manager!Answer, Fresh!Answer
<1> QED
  BY Zenon, <1>1, <1>2, <1>3, <1>4, <1>5, <1>6, <1>7, <1>8, <1>9, <1>10, <1>11, <1>12, <1>13, <1>14, <1>15, <1>16, <1>17
  DEF Manager!Next, Fresh!Next, Manager!Calls, Fresh!Calls, Manager!Goes, Fresh!Goes,
      Manager!Loading, Fresh!Loading, Manager!Pump, Fresh!Pump

-----------------------------------------------------------------------------
(* One caller at a time: a load whose caller goes on is the one the record     *)
(* waits for, or its caller is about to register it.                           *)
Alive(r) == stage[r] \in {"lane", "loading", "loaded"} \/ (stage[r] = "queued" /\ setting # r)

ManagerTyped ==
    /\ known \subseteq {a1} /\ (a1 \notin known => rec[a1] = Manager!FreshRecord)
    /\ calling \in [{owner} -> Requests \cup {None}]
    /\ cancelled \subseteq Requests /\ revoked \subseteq Requests
    /\ resident = rec[a1].current.size

ReadyHolds ==
    /\ \A r \in Requests : read[r].stamp <= content[a1]
    /\ rec[a1].state = "Ready" =>
          rec[a1].current.number # 0 /\ rec[a1].current.stamp <= content[a1]

CallerOwns == \A r \in Requests : at[r] \in {"schedule", "refused", "register"} =>
    /\ calling[owner] = r
    /\ rec[a1].in_flight = None /\ rec[a1].load = r
    /\ call[r].revision = content[a1]

OneLoad == \A r \in Requests :
    /\ stage[r] \in {"lane", "loading"} /\ r \notin revoked =>
          call[r].revision = content[a1] /\ rec[a1].load = r
    /\ Alive(r) /\ call[r].revision = content[a1] =>
          rec[a1].in_flight = r \/ at[r] = "register"

OneCaller == ManagerTyped /\ ReadyHolds /\ CallerOwns /\ OneLoad
ManagerInv == Fresh!FreshInv /\ Fresh!BoundsInv /\ OneCaller

\* What the freshness of answers rests on, of this manager.
LEMMA ManagerFacts ==
  ASSUME Fresh!FreshInv
  PROVE  /\ rec \in [{a1} -> Fresh!Records] /\ content \in [{a1} -> 0..1]
         /\ call \in [Requests -> Fresh!CallFacts]
         /\ at \in [Requests -> Fresh!Places] /\ stage \in [Requests -> Fresh!Stages]
         /\ read \in [Requests -> Fresh!Generations]
         /\ content[a1] \in Nat
         /\ rec[a1].revision = content[a1]
         /\ \A r \in Requests :
               /\ call[r].revision = call[r].born /\ call[r].revision \in Nat
               /\ at[r] # "new" => call[r].asset = a1 /\ call[r].born <= content[a1]
               /\ at[r] \in {"new", "schedule", "refused"} => stage[r] = "none"
         /\ queue \in Seq(Fresh!Publications)
         /\ setting \in Requests \cup {None} /\ (setting # None => stage[setting] = "queued")
<1>1. /\ rec \in [{a1} -> Fresh!Records] /\ content \in [{a1} -> 0..1]
      /\ call \in [Requests -> Fresh!CallFacts]
      /\ at \in [Requests -> Fresh!Places] /\ stage \in [Requests -> Fresh!Stages]
      /\ read \in [Requests -> Fresh!Generations]
      /\ queue \in Seq(Fresh!Publications) /\ setting \in Requests \cup {None}
  BY DEF Fresh!FreshInv, Fresh!Typed
<1>2. content[a1] \in Nat /\ rec[a1].revision = content[a1]
  BY <1>1 DEF Fresh!FreshInv, Fresh!RecordsSound
<1>3. setting # None => stage[setting] = "queued"
  BY DEF Fresh!FreshInv, Fresh!SettingSound
<1>4. ASSUME NEW r \in Requests
      PROVE  /\ call[r].revision = call[r].born /\ call[r].revision \in Nat
             /\ at[r] # "new" => call[r].asset = a1 /\ call[r].born <= content[a1]
             /\ at[r] \in {"new", "schedule", "refused"} => stage[r] = "none"
  <2>1. call[r].revision \in 0..1
    BY <1>1 DEF Fresh!CallFacts
  <2> QED BY <2>1 DEF Fresh!FreshInv, Fresh!CallsSound
<1> QED BY <1>1, <1>2, <1>3, <1>4

LEMMA ManagerBegins == Manager!Init => ManagerInv
<1> SUFFICES ASSUME Manager!Init PROVE ManagerInv
  OBVIOUS
<1>1. Fresh!Init
  BY ManagersAlike DEF Manager!Init, Fresh!Init
<1>2. Fresh!FreshInv /\ Fresh!BoundsInv
  BY <1>1, ManagersAlike, Fresh!FreshBegins, Fresh!BoundsBegin
<1>3. /\ known = {} /\ rec[a1] = Manager!FreshRecord /\ content[a1] = 0 /\ resident = 0
      /\ cancelled = {} /\ revoked = {} /\ calling = [t \in {owner} |-> None]
      /\ \A r \in Requests : at[r] = "new" /\ stage[r] = "none" /\ read[r].stamp = 0
  BY DEF Manager!Init, Manager!NoGeneration
<1>4. rec[a1].state = "Unloaded" /\ rec[a1].current.size = 0
  BY <1>3 DEF Manager!FreshRecord, Manager!NoGeneration
<1>5. ManagerTyped
  BY <1>3, <1>4 DEF ManagerTyped
<1>6. ReadyHolds
  BY <1>3, <1>4 DEF ReadyHolds
<1>7. CallerOwns /\ OneLoad
  BY <1>3 DEF CallerOwns, OneLoad, Alive
<1> QED BY <1>2, <1>5, <1>6, <1>7 DEF ManagerInv, OneCaller

\* What was read and published is of a change the manager was told of.
LEMMA ManagerShows == ManagerInv => Manager!TypeOK /\ Manager!LoadsCoalesce /\ Manager!ReadyIsCurrent
<1> SUFFICES ASSUME ManagerInv PROVE Manager!TypeOK /\ Manager!LoadsCoalesce /\ Manager!ReadyIsCurrent
  OBVIOUS
<1>0. Fresh!FreshInv /\ OneCaller
  BY DEF ManagerInv
<1>1. Manager!TypeOK
  <2>1. rec[a1] \in Fresh!Records
    BY <1>0, ManagerFacts
  <2>2. resident \in Nat
    BY <1>0, <2>1 DEF OneCaller, ManagerTyped, Fresh!Records, Fresh!Generations
  <2>3. prefetches \in Nat
    BY DEF ManagerInv, Fresh!BoundsInv
  <2>4. /\ known \in SUBSET {a1} /\ \A a \in {a1} \ known : rec[a] = Manager!FreshRecord
        /\ calling \in [{owner} -> Requests \cup {None}]
        /\ cancelled \in SUBSET Requests /\ revoked \in SUBSET Requests
    BY <1>0 DEF OneCaller, ManagerTyped
  <2>5. Fresh!Typed
    BY <1>0 DEF Fresh!FreshInv
  <2> QED BY <2>2, <2>3, <2>4, <2>5
          DEF Manager!TypeOK, Fresh!Typed, Manager!Records, Fresh!Records, Manager!States,
              Fresh!States, Manager!Generations, Fresh!Generations, Manager!Outcomes,
              Fresh!Outcomes, Fresh!CallFacts, Fresh!Places, Fresh!Stages, Fresh!Publications
<1>2. Manager!LoadsCoalesce
  BY <1>0 DEF OneCaller, OneLoad, Manager!LoadsCoalesce
<1>3. Manager!ReadyIsCurrent
  <2>1. rec[a1].current.stamp \in Nat /\ content[a1] \in Nat
    BY <1>0, ManagerFacts DEF Fresh!Records, Fresh!Generations
  <2>2. rec[a1].state = "Ready" => rec[a1].current.stamp >= content[a1]
    BY <1>0 DEF Fresh!FreshInv, Fresh!RecordsSound
  <2> QED BY <1>0, <2>1, <2>2
          DEF OneCaller, ReadyHolds, Manager!ReadyIsCurrent, Manager!Resident
<1> QED BY <1>1, <1>2, <1>3

-----------------------------------------------------------------------------
\* A load that goes on changes nothing of what its caller and its record say.
LEMMA LoadMoves ==
  ASSUME OneCaller, UNCHANGED <<known, rec, content, resident, call, at, calling>>,
         revoked \subseteq revoked', revoked' \subseteq Requests, cancelled' \subseteq Requests,
         \A r \in Requests : read'[r].stamp <= content[a1],
         \A r \in Requests : /\ stage'[r] \in {"lane", "loading"} => stage[r] \in {"lane", "loading"}
                             /\ Alive(r)' => Alive(r)
  PROVE  OneCaller'
<1>1. ManagerTyped' /\ ReadyHolds' /\ CallerOwns'
  BY DEF OneCaller, ManagerTyped, ReadyHolds, CallerOwns
<1>2. OneLoad'
  BY DEF OneCaller, OneLoad
<1> QED BY <1>1, <1>2 DEF OneCaller

LEMMA LoadsMove ==
  ASSUME Fresh!FreshInv, OneCaller, NEW r \in Requests, Manager!Loading(r) PROVE OneCaller'
<1>0. /\ stage \in [Requests -> Fresh!Stages] /\ read \in [Requests -> Fresh!Generations]
      /\ content[a1] \in Nat
      /\ \A s \in Requests : /\ at[s] # "new" => call[s].asset = a1
                             /\ at[s] = "new" => stage[s] = "none"
                             /\ read[s].stamp <= content[a1]
  BY ManagerFacts DEF OneCaller, ReadyHolds
<1>1. cancelled \subseteq Requests /\ revoked \subseteq Requests
  BY DEF OneCaller, ManagerTyped
<1>2. rec[a1].load \in Requests \cup {None}
  BY ManagerFacts DEF Fresh!Records
<1>3. CASE Manager!StartLoad(r)
  <2>1. /\ stage[r] = "lane" /\ UNCHANGED <<known, rec, content, resident, call, at, calling>>
        /\ UNCHANGED <<cancelled, setting>>
    BY <1>3 DEF Manager!StartLoad, Manager!recordVars, Manager!pumpVars
  <2>2. call[r].asset = a1
    BY <1>0, <2>1
  <2>3. \/ /\ stage' = [stage EXCEPT ![r] = "loaded"] /\ read' = read
           /\ revoked' = revoked \/ revoked' = revoked \cup ({rec[a1].load} \ {None})
        \/ /\ stage' = [stage EXCEPT ![r] = "loading"] /\ revoked' = revoked
           /\ read' = [read EXCEPT ![r].stamp = content[a1]]
    BY <1>3, <2>2 DEF Manager!StartLoad
  <2>4. \A s \in Requests : stage'[s] = stage[s]
                            \/ (stage[s] = "lane" /\ stage'[s] \in {"loaded", "loading"})
    BY <1>0, <2>1, <2>3
  <2>5. \A s \in Requests : read'[s].stamp = read[s].stamp \/ read'[s].stamp = content[a1]
    BY <1>0, <2>3 DEF Fresh!Generations
  <2>6. revoked \subseteq revoked' /\ revoked' \subseteq Requests
    BY <1>1, <1>2, <2>3
  <2>7. \A s \in Requests : read'[s].stamp <= content[a1]
    BY <1>0, <2>5
  <2>8. \A s \in Requests : /\ stage'[s] \in {"lane", "loading"} => stage[s] \in {"lane", "loading"}
                            /\ Alive(s)' => Alive(s)
    BY <2>1, <2>4 DEF Alive
  <2> QED BY <1>1, <2>1, <2>6, <2>7, <2>8, LoadMoves
<1>4. CASE Manager!EndLoad(r)
  <2>1. /\ stage[r] = "loading" /\ stage' = [stage EXCEPT ![r] = "loaded"]
        /\ UNCHANGED <<known, rec, content, resident, call, at, calling>>
        /\ UNCHANGED <<cancelled, revoked, setting>>
        /\ read' = read \/ \E n \in {1} : read' = [read EXCEPT ![r].size = n]
    BY <1>4 DEF Manager!EndLoad, Manager!recordVars, Manager!pumpVars
  <2>2. \A s \in Requests : read'[s].stamp = read[s].stamp
    BY <1>0, <2>1 DEF Fresh!Generations
  <2>3. \A s \in Requests : stage'[s] = IF s = r THEN "loaded" ELSE stage[s]
    BY <1>0, <2>1
  <2>4. \A s \in Requests : /\ stage'[s] \in {"lane", "loading"} => stage[s] \in {"lane", "loading"}
                            /\ Alive(s)' => Alive(s)
    BY <2>1, <2>3 DEF Alive
  <2>5. \A s \in Requests : read'[s].stamp <= content[a1]
    BY <1>0, <2>2
  <2> QED BY <1>1, <2>1, <2>4, <2>5, LoadMoves
<1>5. CASE Manager!SubmitPublication(r)
  <2>1. /\ stage[r] = "loaded" /\ stage' = [stage EXCEPT ![r] = "queued"]
        /\ UNCHANGED <<known, rec, content, resident, call, at, calling>>
        /\ UNCHANGED <<cancelled, revoked, setting, read>>
    BY <1>5 DEF Manager!SubmitPublication, Manager!recordVars
  <2>2. \A s \in Requests : stage'[s] = IF s = r THEN "queued" ELSE stage[s]
    BY <1>0, <2>1
  <2>3. \A s \in Requests : /\ stage'[s] \in {"lane", "loading"} => stage[s] \in {"lane", "loading"}
                            /\ Alive(s)' => Alive(s)
    BY <2>1, <2>2 DEF Alive
  <2>4. \A s \in Requests : read'[s].stamp <= content[a1]
    BY <1>0, <2>1
  <2> QED BY <1>1, <2>1, <2>3, <2>4, LoadMoves
<1> QED BY <1>3, <1>4, <1>5 DEF Manager!Loading

LEMMA PumpMoves ==
  ASSUME Fresh!FreshInv, OneCaller,
         \/ Manager!Settle \/ Manager!Answer
         \/ \E r \in Requests : Manager!Cancel(r) \/ Manager!Drop(r)
  PROVE  OneCaller'
<1>0. /\ stage \in [Requests -> Fresh!Stages] /\ setting \in Requests \cup {None}
      /\ cancelled \subseteq Requests /\ revoked \subseteq Requests
      /\ \A s \in Requests : read[s].stamp <= content[a1]
  BY ManagerFacts DEF OneCaller, ManagerTyped, ReadyHolds
<1>1. /\ UNCHANGED <<known, rec, content, resident, call, at, calling, revoked, read>>
      /\ cancelled' \subseteq Requests
  BY <1>0 DEF Manager!Settle, Manager!Answer, Manager!Cancel, Manager!Drop,
              Manager!recordVars, Manager!loadVars
<1>2. \/ UNCHANGED <<stage, setting>>
      \/ /\ setting # None /\ setting' = None
         /\ stage' = [stage EXCEPT ![setting] = "settled"]
  BY DEF Manager!Settle, Manager!Answer, Manager!Cancel, Manager!Drop,
         Manager!recordVars, Manager!loadVars, Manager!pumpVars
<1>3. \A s \in Requests : /\ stage'[s] \in {"lane", "loading"} => stage[s] \in {"lane", "loading"}
                          /\ Alive(s)' => Alive(s)
  BY <1>0, <1>2 DEF Alive
<1> QED BY <1>0, <1>1, <1>3, LoadMoves

\* The first section of a request: its caller made no other.
LEMMA RequestBegins ==
  ASSUME Fresh!FreshInv, OneCaller, NEW r \in Requests, NEW p \in BOOLEAN,
         Manager!Begin(owner, r, a1, p)
  PROVE  /\ calling[owner] = None /\ at[r] = "new" /\ stage[r] = "none"
         /\ known' = {a1}
         /\ UNCHANGED <<resident, content, cancelled, setting, stage, read, revoked>>
         /\ call'[r].revision = content[a1]
         /\ \A s \in Requests : s # r => call'[s] = call[s]
         /\ \A s \in Requests : at[s] \notin {"schedule", "refused", "register"}
         /\ \A s \in Requests : (Alive(s)' <=> Alive(s)) /\ ~Alive(r)
<1>0. /\ call \in [Requests -> Fresh!CallFacts] /\ rec[a1].revision = content[a1]
      /\ at[r] = "new" => stage[r] = "none"
  BY ManagerFacts
<1>1. /\ calling[owner] = None /\ at[r] = "new" /\ known' = known \cup {a1}
      /\ call' = [call EXCEPT ![r] = [asset |-> a1, prefetch |-> p,
                                      revision |-> rec[a1].revision, born |-> content[a1]]]
      /\ UNCHANGED <<resident, content, cancelled, setting, stage, read, revoked>>
  BY DEF Manager!Begin, Manager!Idle, Manager!loadVars
<1>2. known' = {a1}
  BY <1>1 DEF OneCaller, ManagerTyped
<1>3. call'[r].revision = content[a1] /\ \A s \in Requests : s # r => call'[s] = call[s]
  BY <1>0, <1>1
<1>4. \A s \in Requests : at[s] \notin {"schedule", "refused", "register"}
  BY <1>1, ManagersAlike DEF OneCaller, CallerOwns
<1>5. \A s \in Requests : (Alive(s)' <=> Alive(s)) /\ ~Alive(r)
  BY <1>0, <1>1 DEF Alive
<1> QED BY <1>0, <1>1, <1>2, <1>3, <1>4, <1>5

LEMMA RequestsEnd ==
  ASSUME Fresh!FreshInv, OneCaller, NEW r \in Requests, NEW p \in BOOLEAN,
         \/ Manager!Refused(owner, r, a1, p) \/ Manager!Join(owner, r, a1, p)
         \/ Manager!UseResident(owner, r, a1, p)
  PROVE  OneCaller'
<1>1. Manager!Begin(owner, r, a1, p)
  BY DEF Manager!Refused, Manager!Join, Manager!UseResident
<1>2. /\ calling[owner] = None /\ at[r] = "new" /\ stage[r] = "none"
      /\ known' = {a1}
      /\ UNCHANGED <<resident, content, cancelled, setting, stage, read, revoked>>
      /\ \A s \in Requests : s # r => call'[s] = call[s]
      /\ \A s \in Requests : at[s] \notin {"schedule", "refused", "register"}
      /\ \A s \in Requests : (Alive(s)' <=> Alive(s)) /\ ~Alive(r)
  BY <1>1, RequestBegins
<1>3. calling' = calling /\ at' = [at EXCEPT ![r] = "returned"]
  BY DEF Manager!Refused, Manager!Join, Manager!UseResident
<1>4. rec' = rec \/ rec' = [rec EXCEPT ![a1].waiters = @ \cup {r}]
  BY DEF Manager!Refused, Manager!Join, Manager!UseResident
<1>5. rec \in [{a1} -> Fresh!Records] /\ at \in [Requests -> Fresh!Places]
  BY ManagerFacts
<1>6. /\ rec'[a1].state = rec[a1].state /\ rec'[a1].current = rec[a1].current
      /\ rec'[a1].in_flight = rec[a1].in_flight /\ rec'[a1].load = rec[a1].load
  <2>1. CASE rec' = rec
    BY <2>1
  <2>2. CASE rec' = [rec EXCEPT ![a1].waiters = @ \cup {r}]
    <3>1. rec'[a1] = [rec[a1] EXCEPT !.waiters = @ \cup {r}]
      BY <1>5, <2>2
    <3> QED BY <1>5, <3>1 DEF Fresh!Records
  <2> QED BY <1>4, <2>1, <2>2
<1>7. \A s \in Requests : at'[s] = IF s = r THEN "returned" ELSE at[s]
  BY <1>3, <1>5
<1>8. ManagerTyped' /\ ReadyHolds'
  BY <1>2, <1>3, <1>6 DEF OneCaller, ManagerTyped, ReadyHolds
<1>9. CallerOwns'
  BY <1>2, <1>7 DEF CallerOwns
<1>10. OneLoad'
  BY <1>2, <1>6, <1>7 DEF OneCaller, OneLoad
<1> QED BY <1>8, <1>9, <1>10 DEF OneCaller

LEMMA RequestStarts ==
  ASSUME Fresh!FreshInv, OneCaller, NEW r \in Requests, NEW p \in BOOLEAN,
         Manager!StartRequest(owner, r, a1, p)
  PROVE  OneCaller'
<1>1. Manager!Begin(owner, r, a1, p)
  BY DEF Manager!StartRequest
<1>2. /\ calling[owner] = None /\ at[r] = "new" /\ stage[r] = "none"
      /\ known' = {a1}
      /\ UNCHANGED <<resident, content, cancelled, setting, stage, read, revoked>>
      /\ call'[r].revision = content[a1]
      /\ \A s \in Requests : s # r => call'[s] = call[s]
      /\ \A s \in Requests : at[s] \notin {"schedule", "refused", "register"}
      /\ \A s \in Requests : (Alive(s)' <=> Alive(s)) /\ ~Alive(r)
  BY <1>1, RequestBegins
<1>3. /\ rec[a1].in_flight = None
      /\ rec' = [rec EXCEPT ![a1].state = "Queued", ![a1].load = r,
                            ![a1].waiters = {r}, ![a1].prefetch = p]
      /\ at' = [at EXCEPT ![r] = "schedule"] /\ calling' = [calling EXCEPT ![owner] = r]
  BY DEF Manager!StartRequest
<1>4. /\ rec \in [{a1} -> Fresh!Records] /\ at \in [Requests -> Fresh!Places]
      /\ calling \in [{owner} -> Requests \cup {None}]
  BY ManagerFacts DEF OneCaller, ManagerTyped
<1>5. /\ rec'[a1].state = "Queued" /\ rec'[a1].current = rec[a1].current
      /\ rec'[a1].in_flight = None /\ rec'[a1].load = r
  <2>1. rec'[a1] = [rec[a1] EXCEPT !.state = "Queued", !.load = r, !.waiters = {r}, !.prefetch = p]
    BY <1>3, <1>4
  <2> QED BY <1>3, <1>4, <2>1 DEF Fresh!Records
<1>6. /\ \A s \in Requests : at'[s] = IF s = r THEN "schedule" ELSE at[s]
      /\ calling'[owner] = r /\ calling' \in [{owner} -> Requests \cup {None}]
  BY <1>3, <1>4
<1>7. ManagerTyped' /\ ReadyHolds'
  BY <1>2, <1>5, <1>6 DEF OneCaller, ManagerTyped, ReadyHolds
<1>8. CallerOwns'
  BY <1>2, <1>5, <1>6 DEF CallerOwns
\* A load at the current revision would be in flight.
<1>9. \A s \in Requests : Alive(s) => call[s].revision # content[a1]
  BY <1>2, <1>3, ManagersAlike DEF OneCaller, OneLoad
<1>10. OneLoad'
  <2> SUFFICES ASSUME NEW s \in Requests
        PROVE  /\ stage'[s] \in {"lane", "loading"} /\ s \notin revoked' =>
                     call'[s].revision = content'[a1] /\ rec'[a1].load = s
               /\ Alive(s)' /\ call'[s].revision = content'[a1] =>
                     rec'[a1].in_flight = s \/ at'[s] = "register"
    BY DEF OneLoad
  <2>1. CASE s = r
    BY <1>2, <2>1
  <2>2. CASE s # r
    <3>1. stage[s] \in {"lane", "loading"} /\ s \notin revoked => Alive(s) /\ call[s].revision = content[a1]
      BY DEF OneCaller, OneLoad, Alive
    <3> QED BY <1>2, <1>9, <2>2, <3>1
  <2> QED BY <2>1, <2>2
<1> QED BY <1>7, <1>8, <1>10 DEF OneCaller

\* The rest of a request, while its caller calls nothing else.
LEMMA RequestGoesOn ==
  ASSUME Fresh!FreshInv, OneCaller, NEW r \in Requests,
         \/ Manager!ScheduleLoad(owner, r) \/ Manager!RecordRefusal(owner, r)
         \/ Manager!Register(owner, r)
  PROVE  OneCaller'
<1>0. /\ rec \in [{a1} -> Fresh!Records] /\ at \in [Requests -> Fresh!Places]
      /\ stage \in [Requests -> Fresh!Stages] /\ rec[a1].revision = content[a1]
      /\ calling \in [{owner} -> Requests \cup {None}]
      /\ \A s \in Requests : at[s] \in {"new", "schedule", "refused"} => stage[s] = "none"
      /\ at[r] # "new" => call[r].asset = a1
      /\ None \notin Requests /\ known \subseteq {a1}
  BY ManagerFacts, ManagersAlike DEF OneCaller, ManagerTyped
<1>1. calling[owner] = r /\ at[r] \in {"schedule", "refused", "register"} /\ call[r].asset = a1
  BY <1>0 DEF Manager!ScheduleLoad, Manager!RecordRefusal, Manager!Register
<1>2. /\ rec[a1].in_flight = None /\ rec[a1].load = r /\ call[r].revision = content[a1]
      /\ \A s \in Requests : s # r => at[s] \notin {"schedule", "refused", "register"}
  BY <1>1 DEF OneCaller, CallerOwns
<1>3. \A s \in Requests : s # r => ~Alive(s) \/ call[s].revision # content[a1]
  BY <1>0, <1>2 DEF OneCaller, OneLoad
<1>4. \A s \in Requests : s # r /\ stage[s] \in {"lane", "loading"} => s \in revoked
  BY <1>2 DEF OneCaller, OneLoad
<1>5. UNCHANGED <<resident, content, call, read, revoked, cancelled, setting>>
  BY DEF Manager!ScheduleLoad, Manager!RecordRefusal, Manager!Register, Manager!recordVars,
         Manager!pumpVars, Manager!loadVars
<1>6. CASE Manager!ScheduleLoad(owner, r)
  <2>1. /\ UNCHANGED <<known, rec, calling>> /\ at[r] = "schedule"
        /\ \/ stage' = [stage EXCEPT ![r] = "lane"] /\ at' = [at EXCEPT ![r] = "register"]
           \/ stage' = stage /\ at' = [at EXCEPT ![r] = "refused"]
    BY <1>6 DEF Manager!ScheduleLoad, Manager!recordVars
  <2>2. /\ \A s \in Requests : s # r => at'[s] = at[s] /\ stage'[s] = stage[s]
        /\ \/ at'[r] = "register" /\ stage'[r] = "lane"
           \/ at'[r] = "refused" /\ stage'[r] = "none"
    BY <1>0, <2>1
  <2>3. \A s \in Requests : s # r => (Alive(s)' <=> Alive(s))
    BY <1>5, <2>2 DEF Alive
  <2>4. ManagerTyped' /\ ReadyHolds'
    BY <1>5, <2>1 DEF OneCaller, ManagerTyped, ReadyHolds
  <2>5. CallerOwns'
    BY <1>1, <1>2, <1>5, <2>1, <2>2 DEF CallerOwns
  <2>6. OneLoad'
    <3> SUFFICES ASSUME NEW s \in Requests
          PROVE  /\ stage'[s] \in {"lane", "loading"} /\ s \notin revoked' =>
                       call'[s].revision = content'[a1] /\ rec'[a1].load = s
                 /\ Alive(s)' /\ call'[s].revision = content'[a1] =>
                       rec'[a1].in_flight = s \/ at'[s] = "register"
      BY DEF OneLoad
    <3>1. CASE s = r
      BY <1>2, <1>5, <2>1, <2>2, <3>1 DEF Alive
    <3>2. CASE s # r
      BY <1>3, <1>4, <1>5, <2>2, <2>3, <3>2
    <3> QED BY <3>1, <3>2
  <2> QED BY <2>4, <2>5, <2>6 DEF OneCaller
<1>7. CASE Manager!RecordRefusal(owner, r) \/ Manager!Register(owner, r)
  <2>1. /\ known' = {a1} /\ stage' = stage /\ at' = [at EXCEPT ![r] = "returned"]
        /\ calling' = [calling EXCEPT ![owner] = None]
        /\ \/ /\ at[r] = "refused"
              /\ rec' = [rec EXCEPT ![a1].prefetch = FALSE, ![a1].state = "Failed"]
           \/ rec' = [rec EXCEPT ![a1] = Manager!Registered(a1, r)]
    BY <1>0, <1>1, <1>2, <1>7 DEF Manager!RecordRefusal, Manager!Register, Manager!loadVars
  <2>2. /\ rec'[a1].state # "Ready" /\ rec'[a1].current = rec[a1].current /\ rec'[a1].load = r
        /\ (at[r] = "refused" \/ rec'[a1].in_flight = r)
    <3>1. CASE rec' = [rec EXCEPT ![a1].prefetch = FALSE, ![a1].state = "Failed"] /\ at[r] = "refused"
      <4>1. rec'[a1] = [rec[a1] EXCEPT !.prefetch = FALSE, !.state = "Failed"]
        BY <1>0, <3>1
      <4> QED BY <1>0, <1>2, <3>1, <4>1 DEF Fresh!Records
    <3>2. CASE rec' = [rec EXCEPT ![a1] = Manager!Registered(a1, r)]
      <4>1. rec'[a1] = [rec[a1] EXCEPT !.state = "Loading", !.in_flight = r]
        BY <1>0, <3>2 DEF Manager!Registered
      <4> QED BY <1>0, <1>2, <4>1 DEF Fresh!Records
    <3> QED BY <2>1, <3>1, <3>2
  <2>3. /\ \A s \in Requests : at'[s] = IF s = r THEN "returned" ELSE at[s]
        /\ calling'[owner] = None /\ calling' \in [{owner} -> Requests \cup {None}]
    BY <1>0, <2>1
  <2>4. \A s \in Requests : Alive(s)' <=> Alive(s)
    BY <1>5, <2>1 DEF Alive
  <2>5. ManagerTyped' /\ ReadyHolds'
    BY <1>5, <2>1, <2>2, <2>3 DEF OneCaller, ManagerTyped, ReadyHolds
  <2>6. CallerOwns'
    BY <1>2, <2>3 DEF CallerOwns
  <2>7. at[r] = "refused" => ~Alive(r) /\ stage[r] = "none"
    BY <1>0 DEF Alive
  <2>8. OneLoad'
    <3> SUFFICES ASSUME NEW s \in Requests
          PROVE  /\ stage'[s] \in {"lane", "loading"} /\ s \notin revoked' =>
                       call'[s].revision = content'[a1] /\ rec'[a1].load = s
                 /\ Alive(s)' /\ call'[s].revision = content'[a1] =>
                       rec'[a1].in_flight = s \/ at'[s] = "register"
      BY DEF OneLoad
    <3>1. CASE s = r
      BY <1>2, <1>5, <2>1, <2>2, <2>4, <2>7, <3>1
    <3>2. CASE s # r
      BY <1>3, <1>4, <1>5, <2>1, <2>4, <3>2
    <3> QED BY <3>1, <3>2
  <2> QED BY <2>5, <2>6, <2>8 DEF OneCaller
<1> QED BY <1>6, <1>7

\* The owner calls nothing else while it pumps, invalidates or releases.
LEMMA NobodyCalls ==
  ASSUME OneCaller, calling[owner] = None
  PROVE  \A s \in Requests : at[s] \notin {"schedule", "refused", "register"}
BY ManagersAlike DEF OneCaller, CallerOwns

\* What is published was the load in flight, unless it came too late.
LEMMA PublishMoves == ASSUME Fresh!FreshInv, OneCaller, Manager!Publish PROVE OneCaller'
<1> PICK r : r = Head(queue).of
  OBVIOUS
<1>0. /\ rec \in [{a1} -> Fresh!Records] /\ call \in [Requests -> Fresh!CallFacts]
      /\ stage \in [Requests -> Fresh!Stages] /\ read \in [Requests -> Fresh!Generations]
      /\ queue \in Seq(Fresh!Publications) /\ rec[a1].revision = content[a1]
      /\ None \notin Requests /\ content[a1] \in Nat
  BY ManagerFacts, ManagersAlike
<1>1. /\ calling[owner] = None /\ setting = None /\ queue # <<>> /\ Head(queue).kind = "publish"
      /\ setting' = r
      /\ UNCHANGED <<known, content, call, at, stage, calling, cancelled, revoked>>
  BY DEF Manager!Publish, Manager!Idle
<1>2. r \in Requests /\ stage[r] = "queued"
  <2>1. 1 \in 1..Len(queue) /\ Head(queue) = queue[1] /\ queue[1] \in Fresh!Publications
    BY <1>0, <1>1, HeadTailProperties, EmptySeq, LenProperties, ElementOfSeq
  <2>2. queue[1].kind = "publish" => stage[queue[1].of] = "queued"
    BY <2>1 DEF Fresh!FreshInv, Fresh!QueueSound
  <2> QED BY <1>1, <2>1, <2>2 DEF Fresh!Publications
<1>3. at[r] # "new" /\ call[r].asset = a1
  BY <1>2, ManagerFacts
<1>4. \A s \in Requests : at[s] \notin {"schedule", "refused", "register"}
  BY <1>1, NobodyCalls
<1>5. ~Alive(r)' /\ Alive(r) /\ \A s \in Requests : s # r => (Alive(s)' <=> Alive(s))
  BY <1>0, <1>1, <1>2 DEF Alive
<1>6. CallerOwns'
  BY <1>1, <1>4 DEF CallerOwns
<1>7. CASE Manager!Stale(r)
  <2>1. UNCHANGED <<rec, resident, read>>
    BY <1>7 DEF Manager!Publish
  <2>2. ManagerTyped' /\ ReadyHolds'
    BY <1>1, <2>1 DEF OneCaller, ManagerTyped, ReadyHolds
  <2>3. OneLoad'
    BY <1>1, <1>5, <2>1 DEF OneCaller, OneLoad
  <2> QED BY <1>6, <2>2, <2>3 DEF OneCaller
<1>8. CASE ~Manager!Stale(r)
  <2>1. a1 \in known /\ call[r].revision = content[a1]
    BY <1>0, <1>3, <1>8 DEF Manager!Stale
  <2>2. rec[a1].in_flight = r
    BY <1>2, <1>4, <1>5, <2>1 DEF OneCaller, OneLoad
  <2>3. \A s \in Requests : s # r => ~Alive(s) \/ call[s].revision # content[a1]
    BY <1>4, <2>2 DEF OneCaller, OneLoad
  <2>4. PICK g : g = [read[r] EXCEPT !.number = rec[a1].generation + 1]
    OBVIOUS
  <2>5. /\ g.number # 0 /\ g.stamp = read[r].stamp /\ g.size = read[r].size
        /\ rec[a1].current.size \in Nat /\ read[r].size \in Nat
    BY <1>0, <1>2, <2>4 DEF Fresh!Records, Fresh!Generations
  <2>6. \/ /\ rec' = [rec EXCEPT ![a1] = [Manager!Published(a1) EXCEPT !.generation = @ + 1,
                                             !.current = g, !.state = "Ready"]]
           /\ resident' = resident - rec[a1].current.size + read[r].size
           /\ read' = [read EXCEPT ![r] = g]
        \/ /\ rec' = [rec EXCEPT ![a1] = Manager!FailedRecord(a1)]
           /\ UNCHANGED <<resident, read>>
    BY <1>3, <1>8, <2>4 DEF Manager!Publish, Manager!Bytes
  <2>7. PICK one : one = rec[a1]
    OBVIOUS
  <2>8. /\ one \in Fresh!Records /\ resident = one.current.size
        /\ [one EXCEPT !.in_flight = None, !.waiters = {}, !.prefetch = FALSE] \in Fresh!Records
    <3>1. one \in Fresh!Records
      BY <1>0, <2>7
    <3> QED BY <2>7, <3>1 DEF OneCaller, ManagerTyped, Fresh!Records
  <2>9. PICK over \in Fresh!Records :
            over = [one EXCEPT !.in_flight = None, !.waiters = {}, !.prefetch = FALSE]
    BY <2>8
  <2>10. over.current = one.current /\ over.load = one.load
    BY <2>8, <2>9 DEF Fresh!Records
  <2>11. /\ rec'[a1].load = rec[a1].load
         /\ \/ /\ rec'[a1].current = g /\ resident' = g.size /\ read' = [read EXCEPT ![r] = g]
            \/ /\ rec'[a1].current = rec[a1].current /\ rec'[a1].state = "Failed"
               /\ UNCHANGED <<resident, read>>
    <3>0. Manager!Published(a1) = over
      BY <2>7, <2>9 DEF Manager!Published
    <3>1. CASE /\ rec' = [rec EXCEPT ![a1] = [Manager!Published(a1) EXCEPT !.generation = @ + 1,
                                             !.current = g, !.state = "Ready"]]
               /\ resident' = resident - rec[a1].current.size + read[r].size
               /\ read' = [read EXCEPT ![r] = g]
      <4>1. rec'[a1] = [over EXCEPT !.generation = @ + 1, !.current = g, !.state = "Ready"]
        BY <1>0, <3>0, <3>1
      <4>2. rec'[a1].current = g /\ rec'[a1].load = over.load
        BY <2>9, <4>1 DEF Fresh!Records
      <4>3. resident' = g.size
        BY <2>5, <2>7, <2>8, <3>1
      <4> QED BY <2>7, <2>10, <3>1, <4>2, <4>3
    <3>2. CASE /\ rec' = [rec EXCEPT ![a1] = Manager!FailedRecord(a1)]
               /\ UNCHANGED <<resident, read>>
      <4>1. rec'[a1] = [over EXCEPT !.state = "Failed"]
        BY <1>0, <3>0, <3>2 DEF Manager!FailedRecord
      <4>2. /\ rec'[a1].state = "Failed" /\ rec'[a1].load = over.load
            /\ rec'[a1].current = over.current
        BY <2>9, <4>1 DEF Fresh!Records
      <4> QED BY <2>7, <2>10, <3>2, <4>2
    <3> QED BY <2>6, <3>1, <3>2
  <2>12. ManagerTyped'
    BY <1>1, <2>1, <2>11 DEF OneCaller, ManagerTyped
  <2>13. ReadyHolds'
    <3>1. \A s \in Requests : read'[s].stamp = read[s].stamp
      BY <1>0, <2>5, <2>11
    <3>2. read[r].stamp <= content[a1]
      BY <1>2 DEF OneCaller, ReadyHolds
    <3> QED BY <1>1, <2>5, <2>11, <3>1, <3>2 DEF OneCaller, ReadyHolds
  <2>14. OneLoad'
    <3>1. \A s \in Requests : ~Alive(s)' \/ call[s].revision # content[a1]
      BY <1>5, <2>3
    <3> QED BY <1>1, <2>11, <3>1 DEF OneCaller, OneLoad
  <2> QED BY <1>6, <2>12, <2>13, <2>14 DEF OneCaller
<1> QED BY <1>7, <1>8

LEMMA InvalidateMoves ==
  ASSUME Fresh!FreshInv, OneCaller, Manager!Invalidate(owner, a1) PROVE OneCaller'
<1>0. /\ rec \in [{a1} -> Fresh!Records] /\ content \in [{a1} -> 0..1] /\ content[a1] \in Nat
      /\ known \subseteq {a1} /\ revoked \subseteq Requests
      /\ \A s \in Requests : /\ at[s] # "new" => call[s].revision <= content[a1]
                             /\ at[s] = "new" => stage[s] = "none"
                             /\ call[s].revision \in Nat
                             /\ read[s].stamp <= content[a1] /\ read[s].stamp \in Nat
  <2>1. \A s \in Requests : read[s] \in Fresh!Generations
    BY ManagerFacts
  <2>2. \A s \in Requests : read[s].stamp \in Nat
    BY <2>1 DEF Fresh!Generations
  <2>3. known \subseteq {a1} /\ revoked \subseteq Requests
        /\ \A s \in Requests : read[s].stamp <= content[a1]
    BY DEF OneCaller, ManagerTyped, ReadyHolds
  <2> QED BY <2>2, <2>3, ManagerFacts
<1>1. /\ calling[owner] = None /\ content' = [content EXCEPT ![a1] = @ + 1]
      /\ known' = known \cup {a1} /\ rec' = [rec EXCEPT ![a1] = Manager!Invalidated(a1)]
      /\ revoked' = revoked \cup ({rec[a1].load} \ {None})
      /\ UNCHANGED <<resident, call, at, stage, read, calling, cancelled, setting>>
  BY DEF Manager!Invalidate, Manager!Idle, Manager!pumpVars
<1>2. content'[a1] = content[a1] + 1
  BY <1>0, <1>1
<1>3. /\ rec'[a1].state = "Unloaded" /\ rec'[a1].current = rec[a1].current
      /\ rec[a1].load \in Requests \cup {None}
  <2>1. rec'[a1] = [rec[a1] EXCEPT !.revision = @ + 1, !.in_flight = None, !.state = "Unloaded"]
    BY <1>0, <1>1 DEF Manager!Invalidated
  <2> QED BY <1>0, <2>1 DEF Fresh!Records
<1>4. ManagerTyped'
  BY <1>0, <1>1, <1>3 DEF OneCaller, ManagerTyped
<1>5. ReadyHolds'
  BY <1>0, <1>1, <1>2, <1>3 DEF ReadyHolds
<1>6. CallerOwns'
  BY <1>1, NobodyCalls DEF CallerOwns
<1>7. OneLoad'
  <2> SUFFICES ASSUME NEW s \in Requests
        PROVE  /\ ~(stage[s] \in {"lane", "loading"} /\ s \notin revoked')
               /\ ~(Alive(s)' /\ call[s].revision = content'[a1])
    BY <1>1 DEF OneLoad
  <2>1. stage[s] \in {"lane", "loading"} /\ s \notin revoked => rec[a1].load = s
    BY DEF OneCaller, OneLoad
  <2>2. Alive(s)' => Alive(s)
    BY <1>1 DEF Alive
  <2>3. Alive(s) => at[s] # "new"
    BY <1>0 DEF Alive
  <2> QED BY <1>0, <1>1, <1>2, <2>1, <2>2, <2>3, ManagersAlike
<1> QED BY <1>4, <1>5, <1>6, <1>7 DEF OneCaller

\* A record that is erased or let go has no load at its revision.
LEMMA ReleaseMoves ==
  ASSUME Fresh!FreshInv, OneCaller, Manager!ReleaseUnused(owner) PROVE OneCaller'
<1> PICK idle : idle = {a \in known : Manager!Resident(a) /\ ~Manager!Leased(a)
                                      /\ rec[a].in_flight = None}
  OBVIOUS
<1> PICK released : released = [a \in {a1} |->
        IF a \in idle THEN [rec[a] EXCEPT !.current = Manager!NoGeneration, !.state = "Unloaded"]
        ELSE rec[a]]
  OBVIOUS
<1> PICK erased : erased = {a \in known : released[a].current = Manager!NoGeneration
                                 /\ rec[a].in_flight = None /\ rec[a].revision = 0}
  OBVIOUS
<1> PICK sizes : sizes = [a \in {a1} |-> IF a \in idle THEN rec[a].current.size ELSE 0]
  OBVIOUS
<1>0. /\ rec \in [{a1} -> Fresh!Records] /\ known \subseteq {a1}
      /\ (a1 \notin known => rec[a1] = Manager!FreshRecord)
      /\ resident = rec[a1].current.size /\ resident \in Nat
      /\ rec[a1].state = "Ready" =>
            rec[a1].current.number # 0 /\ rec[a1].current.stamp <= content[a1]
  BY ManagerFacts DEF OneCaller, ManagerTyped, ReadyHolds, Fresh!Records, Fresh!Generations
<1>1. /\ calling[owner] = None
      /\ rec' = [a \in {a1} |-> IF a \in erased THEN Manager!FreshRecord ELSE released[a]]
      /\ known' = known \ erased /\ resident' = resident - Manager!Total(sizes)
      /\ UNCHANGED <<content, call, at, stage, read, calling, cancelled, revoked, setting>>
  BY DEF Manager!ReleaseUnused, Manager!Idle, Manager!loadVars, Manager!pumpVars
<1>2. Manager!Total(sizes) = IF a1 \in idle THEN resident ELSE 0
  <2>1. sizes \in [{a1} -> Int] /\ sizes[a1] = IF a1 \in idle THEN resident ELSE 0
    BY <1>0
  <2> QED BY <2>1, TotalOfOne
<1>3. Manager!FreshRecord.current = Manager!NoGeneration /\ Manager!FreshRecord.state = "Unloaded"
      /\ Manager!NoGeneration.size = 0 /\ Manager!FreshRecord.in_flight = None
  BY DEF Manager!FreshRecord, Manager!NoGeneration
<1>4. /\ a1 \in idle => released[a1].current = Manager!NoGeneration
                        /\ released[a1].state = "Unloaded"
      /\ a1 \notin idle => released[a1] = rec[a1]
      /\ released[a1].in_flight = rec[a1].in_flight /\ released[a1].load = rec[a1].load
  BY <1>0 DEF Fresh!Records
<1>5. /\ a1 \in erased => rec'[a1] = Manager!FreshRecord
      /\ a1 \notin erased => rec'[a1] = released[a1]
  BY <1>1
<1>6. resident' = rec'[a1].current.size
  <2>1. CASE a1 \in idle
    BY <1>0, <1>1, <1>2, <1>3, <1>4, <1>5, <2>1
  <2>2. CASE a1 \notin idle
    <3>1. a1 \in erased => rec[a1].current = Manager!NoGeneration
      BY <1>4, <2>2
    <3> QED BY <1>0, <1>1, <1>2, <1>3, <1>4, <1>5, <2>2, <3>1
  <2> QED BY <2>1, <2>2
<1>7. ManagerTyped'
  <2>1. known' \subseteq {a1}
    BY <1>0, <1>1
  <2>2. a1 \notin known' => rec'[a1] = Manager!FreshRecord
    <3>1. CASE a1 \in erased
      BY <1>5, <3>1
    <3>2. CASE a1 \notin erased
      <4>1. a1 \notin known' => a1 \notin known /\ a1 \notin idle
        BY <1>1, <3>2
      <4> QED BY <1>0, <1>4, <1>5, <3>2, <4>1
    <3> QED BY <3>1, <3>2
  <2> QED BY <1>1, <1>6, <2>1, <2>2 DEF OneCaller, ManagerTyped
<1>8. ReadyHolds'
  BY <1>0, <1>1, <1>3, <1>4, <1>5 DEF OneCaller, ReadyHolds
<1>9. CallerOwns'
  BY <1>1, NobodyCalls DEF CallerOwns
<1>10. OneLoad'
  <2>1. \A s \in Requests : at[s] \notin {"schedule", "refused", "register"}
    BY <1>1, NobodyCalls
  <2>2. a1 \in erased => rec[a1].in_flight = None
    OBVIOUS
  <2>3. \A s \in Requests : Alive(s)' <=> Alive(s)
    BY <1>1 DEF Alive
  <2> SUFFICES ASSUME NEW s \in Requests
        PROVE  /\ stage[s] \in {"lane", "loading"} /\ s \notin revoked =>
                     call[s].revision = content[a1] /\ rec'[a1].load = s
               /\ Alive(s) /\ call[s].revision = content[a1] => rec'[a1].in_flight = s
    BY <1>1, <2>3 DEF OneLoad
  <2>4. Alive(s) /\ call[s].revision = content[a1] => rec[a1].in_flight = s
    BY <2>1 DEF OneCaller, OneLoad
  <2>5. stage[s] \in {"lane", "loading"} /\ s \notin revoked =>
           call[s].revision = content[a1] /\ rec[a1].load = s /\ Alive(s)
    BY DEF OneCaller, OneLoad, Alive
  <2> QED BY <1>4, <1>5, <2>2, <2>4, <2>5, ManagersAlike
<1> QED BY <1>7, <1>8, <1>9, <1>10 DEF OneCaller

LEMMA ManagerSteps == ManagerInv /\ [Manager!Next]_(Manager!vars) => ManagerInv'
<1> SUFFICES ASSUME ManagerInv, [Manager!Next]_(Manager!vars) PROVE ManagerInv'
  OBVIOUS
<1>1. Fresh!FreshInv /\ Fresh!BoundsInv /\ OneCaller
  BY DEF ManagerInv
<1>2. [Fresh!Next]_(Fresh!vars)
  BY ManagersStep DEF Manager!vars, Fresh!vars
<1>3. Fresh!FreshInv' /\ Fresh!BoundsInv'
  BY <1>1, <1>2, ManagersAlike, Fresh!FreshSteps, Fresh!BoundsSteps
<1>4. ASSUME Manager!Calls(owner) PROVE OneCaller'
  <2>1. ASSUME NEW r \in Requests, NEW p \in BOOLEAN,
               \/ Manager!Refused(owner, r, a1, p) \/ Manager!Join(owner, r, a1, p)
               \/ Manager!UseResident(owner, r, a1, p) \/ Manager!StartRequest(owner, r, a1, p)
        PROVE  OneCaller'
    BY <1>1, <2>1, RequestsEnd, RequestStarts
  <2> QED BY <1>1, <1>4, <2>1, InvalidateMoves, ReleaseMoves DEF Manager!Calls
<1>5. ASSUME Manager!Goes(owner) PROVE OneCaller'
  BY <1>1, <1>5, RequestGoesOn DEF Manager!Goes
<1>6. ASSUME NEW r \in Requests, Manager!Loading(r) PROVE OneCaller'
  BY <1>1, <1>6, LoadsMove
<1>7. ASSUME Manager!Pump \/ \E r \in Requests : Manager!Cancel(r) \/ Manager!Drop(r)
      PROVE  OneCaller'
  BY <1>1, <1>7, PublishMoves, PumpMoves DEF Manager!Pump
<1>8. ASSUME UNCHANGED Manager!vars PROVE OneCaller'
  <2>1. UNCHANGED <<known, rec, content, resident, call, at, calling, stage, read, revoked,
                    cancelled, setting>>
    BY <1>8 DEF Manager!vars
  <2> QED BY <1>1, <2>1 DEF OneCaller, ManagerTyped, ReadyHolds, CallerOwns, OneLoad, Alive
<1>9. OneCaller'
  BY <1>4, <1>5, <1>6, <1>7, <1>8 DEF Manager!Next
<1> QED BY <1>3, <1>9 DEF ManagerInv

-----------------------------------------------------------------------------
(* The parts together: what one does leaves what the others know.        *)
TogetherInv == ReloadInv /\ CacheInv /\ GraphInv /\ ManagerInv /\ WatcherInv

LEMMA AssetsBegin == AssetsInit => TogetherInv
BY AssetsAssumption, ReloadInit, CacheInit, GraphInit, ManagerBegins, WatcherBegins
   DEF AssetsInit, TogetherInv

LEMMA OneAssetStep ==
  ASSUME TogetherInv, [AssetsNext]_<<part, managing, reloading, depending, caching, watching>>
  PROVE  /\ [Next]_vars /\ [Cache!NextCache]_(Cache!cache) /\ [Deps!NextGraph]_(Deps!graph)
         /\ TogetherInv'
<1>1. Cache!CacheAssumption /\ Deps!GraphAssumption
  BY AssetsAssumption
<1>2. [Next]_vars
  BY DEF AssetsNext, reloading
<1>3. [Cache!NextCache]_(Cache!cache)
  BY DEF AssetsNext, caching, Cache!cache
<1>4. [Deps!NextGraph]_(Deps!graph)
  BY DEF AssetsNext, depending, Deps!graph
<1>5. ReloadInv' /\ CacheInv' /\ GraphInv'
  BY <1>1, <1>2, <1>3, <1>4, ReloadNext, CacheNext, GraphNext DEF TogetherInv
<1>6. [Manager!Next]_(Manager!vars)
  BY DEF AssetsNext, managing, Manager!vars
<1>7. ManagerInv'
  BY <1>6, ManagerSteps DEF TogetherInv
<1>8. Watcher!Next \/ UNCHANGED Watcher!vars
  <2>1. UNCHANGED watching => UNCHANGED Watcher!vars
    BY DEF watching, Watcher!vars, Watcher!tree, Watcher!kernel, Watcher!state, Watcher!flags,
           Watcher!thread, Watcher!client
  <2> QED BY <2>1 DEF AssetsNext
<1>9. WatcherInv'
  BY <1>8, AssetsAssumption, WatcherGoesOn, WatcherStays DEF TogetherInv
<1> QED BY <1>2, <1>3, <1>4, <1>5, <1>7, <1>9 DEF TogetherInv

LEMMA AssetsInvariance == AssetsSpec => []TogetherInv
<1>1. TogetherInv /\ [AssetsNext]_<<part, managing, reloading, depending, caching, watching>>
        => TogetherInv'
  BY OneAssetStep
<1> QED BY AssetsBegin, <1>1, PTL DEF AssetsSpec

(* Whatever a load or a store answered Ok for is on disk while others load,    *)
(* store, quarantine and pump, whoever is refused a lock, fails or dies; and   *)
(* two processes never write one product at a time.                            *)
THEOREM AnswersAreKept == AssetsSpec => []AnsweredIsKept
<1>1. TogetherInv => AnsweredIsKept
  <2> SUFFICES ASSUME TogetherInv PROVE AnsweredIsKept
    OBVIOUS
  <2>1. TypeOK /\ AnsweredIsSaved
    BY DEF TogetherInv, ReloadInv, Saved, AnsweredIsSaved
  <2>2. Cache!TypeOK /\ Cache!OneWriter /\ Cache!AnsweredIsStored
    BY DEF TogetherInv, CacheInv, LockHeld, Cache!OneWriter, Cache!Writing
  <2> QED BY <2>1, <2>2 DEF AnsweredIsKept
<1> QED BY AssetsInvariance, <1>1, PTL

(* No transaction undoes the update of another, and a pump that answers has    *)
(* raised the revision of everything it noticed.                               *)
THEOREM TableIsFaithful == AssetsSpec => TableFaithful
<1>1. TogetherInv /\ [AssetsNext]_<<part, managing, reloading, depending, caching, watching>>
        => [\A i \in Ids : records'[i] # records[i] =>
              \/ i \in pump.noticed /\ pump'.at = "invalidate"
              \/ \E l \in Loaders : load[l].id = i /\ load'[l].at = "serialize"]_vars
  BY OneAssetStep, CommitsKeep DEF TogetherInv
<1>2. TogetherInv /\ [AssetsNext]_<<part, managing, reloading, depending, caching, watching>>
        => [pump.at = "scan" /\ pump'.at = "invalidate" =>
              \A i \in pump.noticed : records'[i] # None /\ records'[i].revision > records[i].revision]_vars
  BY OneAssetStep, NoticedIsRaised DEF TogetherInv
<1> QED BY AssetsInvariance, <1>1, <1>2, PTL
        DEF AssetsSpec, TableFaithful, CommitsKeepOthers, NoticedIsRevised

(* With one caller the requests for one asset share one load, lanes refuse what *)
(* they like, and a record that says Ready holds the content of the last change. *)
THEOREM ReadyRecordsAreCurrent == AssetsSpec => []ReadyIsCurrent
<1>1. TogetherInv => ReadyIsCurrent
  BY ManagerShows DEF TogetherInv, ReadyIsCurrent
<1> QED BY AssetsInvariance, <1>1, PTL

(* Once everything is read, drained and looked at, the owner knows every path  *)
(* but those it is blind to, whatever overflowed, was renamed, removed, or was *)
(* written while a new directory was searched; and a watcher that has stopped  *)
(* has said so.                                                                *)
THEOREM NothingIsMissed == AssetsSpec => []NothingMissed
<1>1. TogetherInv => NothingMissed
  BY AssetsAssumption, WatcherKnows DEF TogetherInv, NothingMissed
<1> QED BY AssetsInvariance, <1>1, PTL

(* Publications are refused for a cycle and for nothing else, and invalidation *)
(* reaches every asset that depends on the changed one, however far, and no    *)
(* other, whichever dependencies were replaced, removed and refused before.    *)
THEOREM GraphIsExact == AssetsSpec => []GraphExact
<1>1. TogetherInv => GraphExact
  BY AssetsAssumption, GraphAnswers DEF TogetherInv, GraphExact
<1> QED BY AssetsInvariance, <1>1, PTL
=============================================================================
