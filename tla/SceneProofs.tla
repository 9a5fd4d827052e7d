---------------------------- MODULE SceneProofs ----------------------------
(* What keeps what a frame draws, for any number of slots, generations,       *)
(* mutations, objects and entities: the handle of what was removed finds      *)
(* nothing again, an index is free once or in use, dense tables and their     *)
(* indices point at each other, and a view visits what it owes a visit.       *)
EXTENDS MCScene, SequenceFacts

-----------------------------------------------------------------------------
(* The slot map.                                                              *)

(* A handle whose value was removed is of an earlier generation than its slot, *)
(* or its slot is retired: it keeps its last generation, holds nothing, and is *)
(* not on the free list.                                                       *)
RemovedIsPast ==
    \A h \in removed :
        /\ h.index \in 1..count
        /\ \/ h.generation < generation[h.index]
           \/ /\ h.generation = generation[h.index]
              /\ h.index \notin filled
              /\ \A i \in DOMAIN free : free[i] # h.index

(* The inductive invariant.                                                    *)
SlotsInv == TypeOK /\ RemovedIsPast

\* The parts of the type invariant that do not count.
SlotsShape ==
    /\ count \in 0..MaxSlots
    /\ generation \in [Indices -> 1..MaxGeneration]
    /\ filled \subseteq 1..count
    /\ free \in Seq(1..count)
    /\ \A i \in DOMAIN free : free[i] \notin filled
    /\ \A i, j \in DOMAIN free : free[i] = free[j] => i = j
    /\ removed \subseteq Handle

\* A set of slots is finite.
LEMMA FilledFinite ==
  ASSUME NEW n \in Nat, NEW S \in SUBSET (1..n)
  PROVE  IsFiniteSet(S)
<1>1. IsFiniteSet(1..n)
  BY FS_Interval
<1> QED BY <1>1, FS_Subset

LEMMA SlotsInit == Init => SlotsInv
<1> SUFFICES ASSUME Init PROVE SlotsInv
  OBVIOUS
<1>1. SlotsShape /\ RemovedIsPast
  BY BoundsAssumption DEF Init, SlotsShape, RemovedIsPast, Indices
<1>2. size = Cardinality(filled)
  BY FS_EmptySet DEF Init
<1> QED BY <1>1, <1>2 DEF SlotsInv, TypeOK, SlotsShape

(* Each operation keeps the invariant.  Removing is where a handle joins those *)
(* that are past: its slot goes on to the next generation, or is retired.      *)
LEMMA SlotsStep == SlotsInv /\ [Next]_vars => SlotsInv'
<1> SUFFICES ASSUME SlotsInv, [Next]_vars PROVE SlotsInv'
  OBVIOUS
<1>0. /\ SlotsShape /\ size = Cardinality(filled) /\ RemovedIsPast
      /\ IsFiniteSet(filled) /\ Cardinality(filled) \in Nat /\ count \in Nat
      /\ DOMAIN free = 1..Len(free) /\ Len(free) \in Nat
  <2>1. SlotsShape /\ size = Cardinality(filled) /\ RemovedIsPast
    BY DEF SlotsInv, TypeOK, SlotsShape
  <2>2. count \in Nat
    BY <2>1, BoundsAssumption DEF SlotsShape
  <2>3. IsFiniteSet(filled)
    BY <2>1, <2>2, FilledFinite DEF SlotsShape
  <2>4. DOMAIN free = 1..Len(free) /\ Len(free) \in Nat
    BY <2>1 DEF SlotsShape
  <2> QED BY <2>1, <2>2, <2>3, <2>4, FS_CardinalityType
<1>1. CASE EmplaceNew
  <2>1. /\ count + 1 \notin filled /\ count + 1 \in 1..MaxSlots
    BY <1>0, <1>1, BoundsAssumption DEF EmplaceNew, SlotsShape
  <2>2. SlotsShape'
    BY <1>0, <1>1, <2>1, BoundsAssumption DEF EmplaceNew, SlotsShape
  <2>3. (size = Cardinality(filled))'
    BY <1>0, <1>1, <2>1, FS_AddElement DEF EmplaceNew
  <2>4. RemovedIsPast'
    BY <1>0, <1>1 DEF EmplaceNew, RemovedIsPast
  <2> QED BY <2>2, <2>3, <2>4 DEF SlotsInv, TypeOK, SlotsShape
<1>2. CASE EmplaceFreed
  <2> DEFINE n == Len(free)
  <2>0. free \in Seq(1..count) /\ n \in 1..n
    BY <1>0, <1>2, EmptySeq DEF EmplaceFreed, SlotsShape
  <2>1. n \in 1..n /\ Reused = free[n] /\ Reused \in 1..count /\ Reused \notin filled
    BY <1>0, <2>0 DEF SlotsShape, Reused
  <2>2. /\ free' \in Seq(1..count) /\ DOMAIN free' = 1..(n - 1)
        /\ \A i \in 1..(n - 1) : free'[i] = free[i] /\ free[i] # Reused
    <3>1. \A i \in 1..(n - 1) : free[i] \in 1..count /\ free[i] # Reused
      BY <1>0, <2>0, <2>1 DEF SlotsShape
    <3>2. free' = SubSeq(free, 1, n - 1) /\ n - 1 \in Nat
      BY <1>2, <2>0 DEF EmplaceFreed
    <3>3. /\ free' \in Seq(1..count) /\ Len(free') = n - 1
          /\ \A i \in 1..(n - 1) : free'[i] = free[i]
      <4>1. \A i \in 1 .. n - 1 : free[i] \in 1..count
        BY <3>1
      <4>2. /\ SubSeq(free, 1, n - 1) \in Seq(1..count)
            /\ Len(SubSeq(free, 1, n - 1)) = IF 1 <= n - 1 THEN (n - 1) - 1 + 1 ELSE 0
            /\ \A i \in 1 .. (n - 1) - 1 + 1 : SubSeq(free, 1, n - 1)[i] = free[1 + i - 1]
        BY <3>2, <4>1, SubSeqProperties
      <4>3. (n - 1) - 1 + 1 = n - 1 /\ (IF 1 <= n - 1 THEN n - 1 ELSE 0) = n - 1
        BY <1>0, <3>2
      <4>4. \A i \in 1 .. n - 1 : 1 + i - 1 = i
        OBVIOUS
      <4> HIDE DEF n
      <4> QED BY <3>2, <4>2, <4>3, <4>4
    <3> QED BY <3>1, <3>3, LenProperties
  <2>3. SlotsShape'
    <3>1. /\ filled' = filled \union {Reused} /\ count' = count
          /\ generation' = generation /\ removed' = removed
      BY <1>2 DEF EmplaceFreed
    <3>2. \A i \in DOMAIN free' : i \in DOMAIN free /\ free'[i] = free[i] /\ free[i] # Reused
      BY <1>0, <2>0, <2>2
    <3>3. /\ \A i \in DOMAIN free' : free'[i] \notin filled'
          /\ \A i, j \in DOMAIN free' : free'[i] = free'[j] => i = j
      BY <1>0, <3>1, <3>2 DEF SlotsShape
    <3> QED BY <1>0, <2>1, <2>2, <3>1, <3>3 DEF SlotsShape
  <2>4. (size = Cardinality(filled))'
    BY <1>0, <1>2, <2>1, FS_AddElement DEF EmplaceFreed
  <2>5. RemovedIsPast'
    BY <1>0, <1>2, <2>1, <2>2 DEF EmplaceFreed, RemovedIsPast
  <2> QED BY <2>3, <2>4, <2>5 DEF SlotsInv, TypeOK, SlotsShape
<1>3. ASSUME NEW h \in Handle, Remove(h) PROVE SlotsInv'
  <2>1. /\ h.index \in filled /\ h.index \in 1..count /\ h.index \in Indices
        /\ generation[h.index] = h.generation
        /\ \A i \in DOMAIN free : free[i] # h.index
    BY <1>0, <1>3, BoundsAssumption DEF Remove, Contains, SlotsShape, Handle, Indices
  <2>2. (size = Cardinality(filled))'
    BY <1>0, <1>3, <2>1, FS_RemoveElement DEF Remove
  <2>3. CASE Reusable(h.index)
    <3>1. /\ generation' = [generation EXCEPT ![h.index] = @ + 1]
          /\ h.generation + 1 \in 1..MaxGeneration
      <4>1. h.generation \in 1..MaxGeneration /\ h.generation # MaxGeneration
        BY <2>1, <2>3 DEF Handle, Reusable
      <4>2. h.generation % MaxGeneration = h.generation
        BY <4>1, BoundsAssumption
      <4> QED BY <1>3, <2>1, <2>3, <4>1, <4>2, BoundsAssumption DEF Remove
    <3>2. /\ free' = Append(free, h.index) /\ free' \in Seq(1..count)
          /\ DOMAIN free' = 1..(Len(free) + 1)
          /\ \A i \in 1..Len(free) : free'[i] = free[i]
          /\ free'[Len(free) + 1] = h.index
      <4>1. free \in Seq(1..count) /\ free' = Append(free, h.index)
        BY <1>0, <1>3, <2>3 DEF Remove, SlotsShape
      <4> QED BY <2>1, <4>1, AppendProperties, LenProperties
    <3>0. filled' = filled \ {h.index} /\ count' = count /\ removed' = removed \union {h}
      BY <1>3 DEF Remove
    <3>3. SlotsShape'
      <4>1. \A i \in DOMAIN free' : \/ i \in 1..Len(free) /\ free'[i] = free[i]
                                    \/ i = Len(free) + 1 /\ free'[i] = h.index
        BY <1>0, <3>2
      <4>2. /\ \A i \in DOMAIN free' : free'[i] \notin filled'
            /\ \A i, j \in DOMAIN free' : free'[i] = free'[j] => i = j
        BY <1>0, <2>1, <3>0, <4>1 DEF SlotsShape
      <4>3. generation' \in [Indices -> 1..MaxGeneration]
        BY <1>0, <2>1, <3>1 DEF SlotsShape
      <4>4. filled' \subseteq 1..count' /\ removed' \subseteq Handle /\ count' \in 0..MaxSlots
        BY <1>0, <3>0 DEF SlotsShape
      <4>5. (free \in Seq(1..count))'
        BY <3>0, <3>2
      <4> QED BY <4>2, <4>3, <4>4, <4>5 DEF SlotsShape
    <3>4. RemovedIsPast'
      <4> SUFFICES ASSUME NEW r \in removed'
                   PROVE  /\ r.index \in 1..count'
                          /\ \/ r.generation < generation'[r.index]
                             \/ /\ r.generation = generation'[r.index]
                                /\ r.index \notin filled'
                                /\ \A i \in DOMAIN free' : free'[i] # r.index
        BY DEF RemovedIsPast
      <4>1. r = h \/ r \in removed
        BY <1>3 DEF Remove
      <4>2. CASE r.index = h.index
        <5>1. r.generation <= generation[h.index] /\ generation[h.index] \in Nat
          BY <1>0, <2>1, <4>1, <4>2 DEF RemovedIsPast, SlotsShape, Handle
        <5>2. generation'[h.index] = generation[h.index] + 1
          BY <1>0, <2>1, <3>1 DEF SlotsShape
        <5>3. r.generation \in Nat
          BY <1>0, <4>1 DEF SlotsShape, Handle
        <5> QED BY <1>3, <2>1, <4>2, <5>1, <5>2, <5>3 DEF Remove
      <4>3. CASE r.index # h.index
        <5>1. r \in removed
          BY <4>1, <4>3
        <5>2. r.index \in Indices /\ generation'[r.index] = generation[r.index]
          BY <1>0, <3>1, <4>3, <5>1 DEF SlotsShape, Handle
        <5>3. ASSUME \A i \in DOMAIN free : free[i] # r.index
              PROVE  \A i \in DOMAIN free' : free'[i] # r.index
          BY <1>0, <3>2, <4>3, <5>3
        <5> QED BY <1>0, <3>0, <4>3, <5>1, <5>2, <5>3 DEF RemovedIsPast
      <4> QED BY <4>2, <4>3
    <3> QED BY <2>2, <3>3, <3>4 DEF SlotsInv, TypeOK, SlotsShape
  <2>4. CASE ~Reusable(h.index)
    <3>1. SlotsShape'
      BY <1>0, <1>3, <2>1, <2>4 DEF Remove, SlotsShape
    <3>2. RemovedIsPast'
      BY <1>0, <1>3, <2>1, <2>4 DEF Remove, RemovedIsPast
    <3> QED BY <2>2, <3>1, <3>2 DEF SlotsInv, TypeOK, SlotsShape
  <2> QED BY <2>3, <2>4
<1>4. CASE UNCHANGED vars
  BY <1>0, <1>4 DEF vars, SlotsInv, TypeOK, SlotsShape, RemovedIsPast
<1> QED BY <1>1, <1>2, <1>3, <1>4 DEF Next

LEMMA SlotsKeep == SlotsInv => TypeOK /\ RemovedStaysRemoved
<1> SUFFICES ASSUME SlotsInv, NEW h \in removed, Contains(h) PROVE FALSE
  BY DEF RemovedStaysRemoved, SlotsInv
<1>1. h.generation \in Nat /\ h.index \in Indices /\ generation[h.index] = h.generation
  BY DEF SlotsInv, TypeOK, Handle, Contains
<1> QED BY <1>1 DEF SlotsInv, RemovedIsPast, Contains

-----------------------------------------------------------------------------
(* The identifiers of a scene.                                                *)

Slot == [generation : Nat, live : BOOLEAN]
Issued(n) == [index : 1..n, generation : Nat]

\* An index is free once or in use.
Accounted(s, f) ==
    /\ s \in Seq(Slot) /\ f \in Seq(1..Len(s)) /\ Distinct(f)
    /\ \A i \in 1..Len(s) : s[i].live <=> \A j \in 1..Len(f) : f[j] # i

LEMMA AccountedTypes ==
  ASSUME NEW s, NEW f, Accounted(s, f)
  PROVE  /\ s \in Seq(Slot) /\ f \in Seq(1..Len(s)) /\ Len(s) \in Nat /\ Len(f) \in Nat
         /\ DOMAIN s = 1..Len(s) /\ DOMAIN f = 1..Len(f)
         /\ \A i \in 1..Len(s) : s[i] \in Slot /\ s[i].generation \in Nat /\ s[i].live \in BOOLEAN
         /\ \A i \in 1..Len(f) : f[i] \in 1..Len(s)
<1>1. s \in Seq(Slot) /\ f \in Seq(1..Len(s))
  BY DEF Accounted
<1>2. \A i \in 1..Len(s) : s[i] \in Slot
  BY <1>1, ElementOfSeq
<1>3. \A i \in 1..Len(f) : f[i] \in 1..Len(s)
  BY <1>1, ElementOfSeq
<1>4. \A x \in Slot : x.generation \in Nat /\ x.live \in BOOLEAN
  BY DEF Slot
<1> QED BY <1>1, <1>2, <1>3, <1>4, LenProperties

\* Giving an index back that is in use leaves each index accounted.
LEMMA ReleaseKeeps ==
  ASSUME NEW t, Accounted(t.slots, t.free), NEW id, id.index \in 1..Len(t.slots)
  PROVE  /\ Accounted(Scene!Release(t, id).slots, Scene!Release(t, id).free)
         /\ Len(Scene!Release(t, id).slots) = Len(t.slots)
<1>1. PICK s, f : s = t.slots /\ f = t.free
  OBVIOUS
<1>2. PICK x \in 1..Len(s) : x = id.index
  BY <1>1
<1>3. PICK u : u = Scene!Release(t, id)
  OBVIOUS
<1>4. CASE ~(s[x].live /\ s[x].generation = id.generation)
  BY <1>1, <1>2, <1>3, <1>4 DEF Scene!Release, Scene!InUse
<1>5. CASE s[x].live /\ s[x].generation = id.generation
  <2>1. PICK a : a = [generation |-> s[x].generation + 1, live |-> FALSE]
    OBVIOUS
  <2>2. a \in Slot /\ ~a.live
    <3>1. s[x].generation + 1 \in Nat
      BY <1>1, <1>2, AccountedTypes
    <3> QED BY <2>1, <3>1 DEF Slot
  <2>3. u.slots = [s EXCEPT ![x] = a] /\ u.free = Append(f, x)
    BY <1>1, <1>2, <1>3, <1>5, <2>1 DEF Scene!Release, Scene!InUse
  <2>4. PICK n \in Nat, k \in Nat : n = Len(s) /\ k = Len(f)
    BY <1>1, AccountedTypes
  <2>5. u.slots \in Seq(Slot) /\ Len(u.slots) = n /\ \A i \in 1..n : u.slots[i] = IF i = x THEN a ELSE s[i]
    <3>1. s \in Seq(Slot)
      BY <1>1, AccountedTypes
    <3> QED BY <1>2, <2>2, <2>3, <2>4, <3>1, ExceptSeq
  <2>6. /\ u.free \in Seq(1..n) /\ Len(u.free) = k + 1 /\ u.free[k + 1] = x
        /\ \A i \in 1..k : u.free[i] = f[i]
    <3>1. f \in Seq(1..n)
      BY <1>1, <2>4, AccountedTypes
    <3> QED BY <1>2, <2>3, <2>4, <3>1, AppendProperties
  <2>7. \A i \in 1..n : s[i].live <=> \A j \in 1..k : f[j] # i
    BY <1>1, <2>4 DEF Accounted
  <2>8. \A j \in 1..k : f[j] # x
    BY <1>2, <1>5, <2>4, <2>7
  <2>9. Distinct(u.free)
    <3>1. \A i, j \in 1..k : f[i] = f[j] => i = j
      BY <1>1, <2>4 DEF Accounted, Distinct
    <3>2. ASSUME NEW i \in 1..(k + 1), NEW j \in 1..(k + 1), u.free[i] = u.free[j]
          PROVE  i = j
      <4>1. CASE i \in 1..k /\ j \in 1..k
        BY <2>6, <3>1, <3>2, <4>1
      <4>2. CASE i = k + 1 /\ j \in 1..k
        BY <2>6, <2>8, <3>2, <4>2
      <4>3. CASE i \in 1..k /\ j = k + 1
        BY <2>6, <2>8, <3>2, <4>3
      <4> QED BY <4>1, <4>2, <4>3
    <3> QED BY <2>6, <3>2 DEF Distinct
  <2>10. ASSUME NEW i \in 1..n
         PROVE  u.slots[i].live <=> \A j \in 1..(k + 1) : u.free[j] # i
    <3>1. CASE i = x
      <4>1. ~u.slots[i].live
        BY <2>2, <2>5, <3>1
      <4>2. k + 1 \in 1..(k + 1) /\ u.free[k + 1] = i
        BY <2>6, <3>1
      <4> QED BY <4>1, <4>2
    <3>2. CASE i # x
      <4>1. u.slots[i].live <=> \A j \in 1..k : f[j] # i
        BY <2>5, <2>7, <3>2
      <4>2. (\A j \in 1..k : f[j] # i) <=> \A j \in 1..(k + 1) : u.free[j] # i
        <5>1. \A j \in 1..(k + 1) : j \in 1..k \/ j = k + 1
          OBVIOUS
        <5>2. ASSUME \A j \in 1..k : f[j] # i, NEW j \in 1..(k + 1) PROVE u.free[j] # i
          BY <2>6, <3>2, <5>1, <5>2
        <5>3. ASSUME \A j \in 1..(k + 1) : u.free[j] # i, NEW j \in 1..k PROVE f[j] # i
          <6>1. j \in 1..(k + 1) /\ u.free[j] = f[j]
            BY <2>6
          <6> QED BY <5>3, <6>1
        <5> QED BY <5>2, <5>3
      <4> QED BY <4>1, <4>2
    <3> QED BY <3>1, <3>2
  <2> QED BY <1>1, <1>3, <2>4, <2>5, <2>6, <2>9, <2>10 DEF Accounted
<1> QED BY <1>4, <1>5

\* What giving one index back keeps, giving back a list of them keeps.
LEMMA ReleaseFold ==
  ASSUME NEW W, NEW b \in W, NEW k \in Nat, NEW list, k = Len(list),
         \A u \in W, i \in 1..k : Scene!Release(u, list[i]) \in W
  PROVE  Scene!ReleaseAll(b, list) \in W
<1>1. PICK step : step = [i \in 1..k |-> [u \in W |-> Scene!Release(u, list[i])]]
  OBVIOUS
<1>2. step \in Steps(k, W)
  BY <1>1 DEF Steps
<1>11. PICK f : FoldOf(f, k, W, b, step)
  BY <1>2, FoldExists
<1>3. f \in [0..k -> W] /\ f[0] = b /\ \A i \in 1..k : f[i] = step[i][f[i - 1]]
  BY <1>11 DEF FoldOf
<1> DEFINE Folds(g) == g = [i \in 0..k |-> IF i = 0 THEN b ELSE Scene!Release(g[i - 1], list[i])]
<1>4. Folds(f)
  <2>1. ASSUME NEW i \in 0..k PROVE f[i] = IF i = 0 THEN b ELSE Scene!Release(f[i - 1], list[i])
    <3>1. CASE i # 0
      <4>1. i \in 1..k /\ i - 1 \in 0..k /\ f[i - 1] \in W
        BY <1>3, <3>1
      <4> QED BY <1>1, <1>3, <3>1, <4>1
    <3> QED BY <1>3, <3>1
  <2> QED BY <1>3, <2>1
<1>5. PICK g : g = CHOOSE h : Folds(h)
  OBVIOUS
<1>6. Folds(g)
  BY <1>4, <1>5
<1>7. Scene!ReleaseAll(b, list) = g[k]
  BY <1>5 DEF Scene!ReleaseAll
<1>8. \A i \in 1..k : g[i - 1] \in W => g[i] \in W
  <2>1. ASSUME NEW i \in 1..k, g[i - 1] \in W PROVE g[i] \in W
    <3>1. i \in 0..k /\ i # 0
      OBVIOUS
    <3>2. g[i] = Scene!Release(g[i - 1], list[i])
      BY <1>6, <3>1
    <3> QED BY <2>1, <3>2
  <2> QED BY <2>1
<1>9. g[0] \in W
  BY <1>6
<1> HIDE DEF Folds
<1>10. \A i \in 0..k : g[i] \in W
  BY <1>8, <1>9, KeptByFold
<1> QED BY <1>7, <1>10

\* So does giving back all indices of a list.
LEMMA ReleaseAllKeeps ==
  ASSUME NEW t \in [slots : Seq(Slot), free : Seq(Nat)], Accounted(t.slots, t.free),
         NEW list \in Seq(Issued(Len(t.slots)))
  PROVE  /\ Accounted(Scene!ReleaseAll(t, list).slots, Scene!ReleaseAll(t, list).free)
         /\ Len(Scene!ReleaseAll(t, list).slots) = Len(t.slots)
<1>0. PICK n \in Nat, k \in Nat : n = Len(t.slots) /\ k = Len(list)
  BY AccountedTypes, LenProperties
<1>1. PICK W : W = {u \in [slots : Seq(Slot), free : Seq(Nat)] : Accounted(u.slots, u.free) /\ Len(u.slots) = n}
  OBVIOUS
<1>2. t \in W
  BY <1>0, <1>1
<1>3. ASSUME NEW u \in W, NEW i \in 1..k PROVE Scene!Release(u, list[i]) \in W
  <2>1. list[i].index \in 1..n
    <3>1. list \in Seq(Issued(n)) /\ i \in 1..Len(list)
      BY <1>0
    <3>2. list[i] \in Issued(n)
      BY <3>1, ElementOfSeq
    <3> QED BY <3>2 DEF Issued
  <2>2. PICK v : v = Scene!Release(u, list[i])
    OBVIOUS
  <2>3. Accounted(v.slots, v.free) /\ Len(v.slots) = n
    BY <1>1, <2>1, <2>2, ReleaseKeeps
  <2>4. v = [slots |-> v.slots, free |-> v.free]
    BY <1>1, <2>2 DEF Scene!Release, Scene!InUse
  <2>5. v.slots \in Seq(Slot) /\ v.free \in Seq(Nat)
    <3>1. v.free \in Seq(1..n) /\ v.slots \in Seq(Slot)
      BY <2>3, AccountedTypes
    <3>2. \A j \in 1..Len(v.free) : v.free[j] \in Nat
      BY <2>3, AccountedTypes
    <3> QED BY <3>1, <3>2
  <2> QED BY <1>1, <2>2, <2>3, <2>4, <2>5
<1>4. Scene!ReleaseAll(t, list) \in W
  BY <1>0, <1>2, <1>3, ReleaseFold
<1> QED BY <1>0, <1>1, <1>4

IdType == [index : Nat, generation : Nat]
Changes == [kind : {"create", "update", "destroy"}, id : IdType, version : Nat, sequence : Nat,
            fields : SUBSET Fields]

\* What the scene may know: identifiers that were given out, with their versions.
Known(n) == UNION {[D -> Nat] : D \in SUBSET Issued(n)}

Journals(n) ==
    [open : BOOLEAN, epoch : Nat, buffer : SUBSET Changes, log : SUBSET Changes,
     initial : Known(n), created : Seq(Issued(n)), destroyed : Seq(Issued(n))]

\* Identifiers were given out, each index is free once or in use.
ScenesInv ==
    /\ Accounted(slots, spare)
    /\ known \in Known(Len(slots))
    /\ mutation \in [Mutators -> Journals(Len(slots))]
    /\ epoch \in Nat /\ sequence \in Nat

LEMMA KnownIs ==
  ASSUME NEW n \in Nat, NEW v
  PROVE  v \in Known(n) <=> v \in [DOMAIN v -> Nat] /\ DOMAIN v \subseteq Issued(n)
<1>1. ASSUME v \in Known(n) PROVE v \in [DOMAIN v -> Nat] /\ DOMAIN v \subseteq Issued(n)
  <2>1. PICK D \in SUBSET Issued(n) : v \in [D -> Nat]
    BY <1>1 DEF Known
  <2> QED BY <2>1
<1>2. ASSUME v \in [DOMAIN v -> Nat], DOMAIN v \subseteq Issued(n) PROVE v \in Known(n)
  BY <1>2, Zenon DEF Known
<1> QED BY <1>1, <1>2

LEMMA IssuedGrows ==
  ASSUME NEW n \in Nat, NEW k \in Nat, n <= k
  PROVE  /\ Issued(n) \subseteq Issued(k) /\ Seq(Issued(n)) \subseteq Seq(Issued(k))
         /\ Known(n) \subseteq Known(k) /\ Journals(n) \subseteq Journals(k)
<1>1. Issued(n) \subseteq Issued(k)
  BY DEF Issued
<1>2. ASSUME NEW s \in Seq(Issued(n)) PROVE s \in Seq(Issued(k))
  <2>1. Len(s) \in Nat /\ s \in [1..Len(s) -> Issued(n)]
    BY LenProperties
  <2>2. s \in [1..Len(s) -> Issued(k)]
    BY <1>1, <2>1
  <2> QED BY <2>1, <2>2
<1>3. Known(n) \subseteq Known(k)
  BY <1>1, KnownIs
<1>4. ASSUME NEW j \in Journals(n) PROVE j \in Journals(k)
  BY <1>2, <1>3 DEF Journals
<1> QED BY <1>1, <1>2, <1>3, <1>4

LEMMA ClosedJournal ==
  ASSUME NEW n \in Nat
  PROVE  Scene!Closed \in Journals(n)
<1>1. Scene!Nothing \in Known(n)
  <2>1. DOMAIN Scene!Nothing = {} /\ Scene!Nothing \in [{} -> Nat]
    BY DEF Scene!Nothing
  <2> QED BY <2>1, KnownIs
<1>2. << >> \in Seq(Issued(n))
  OBVIOUS
<1> QED BY <1>1, <1>2 DEF Journals, Scene!Closed

LEMMA ScenesInit == Scene!Init => ScenesInv
<1> SUFFICES ASSUME Scene!Init PROVE ScenesInv
  OBVIOUS
<1>1. slots = << >> /\ spare = << >> /\ Len(slots) = 0 /\ Len(spare) = 0
  BY DEF Scene!Init
<1>2. slots \in Seq(Slot) /\ spare \in Seq(1..Len(slots))
  BY <1>1
<1>3. Accounted(slots, spare)
  BY <1>1, <1>2 DEF Accounted, Distinct
<1>4. known \in Known(Len(slots))
  <2>1. DOMAIN known = {} /\ known \in [{} -> Nat]
    BY DEF Scene!Init, Scene!Nothing
  <2> QED BY <1>1, <2>1, KnownIs
<1>5. mutation \in [Mutators -> Journals(Len(slots))]
  <2>1. Scene!Closed \in Journals(Len(slots))
    BY <1>1, ClosedJournal
  <2> QED BY <2>1 DEF Scene!Init
<1> QED BY <1>3, <1>4, <1>5 DEF Scene!Init, ScenesInv

\* The table after an identifier was given out.
LEMMA AllocateKeeps ==
  ASSUME Accounted(slots, spare)
  PROVE  /\ Accounted(Scene!Allocated.slots, Scene!Allocated.free)
         /\ Len(Scene!Allocated.slots) \in Nat /\ Len(slots) <= Len(Scene!Allocated.slots)
         /\ Scene!NextId \in Issued(Len(Scene!Allocated.slots))
<1>1. PICK n \in Nat, k \in Nat : n = Len(slots) /\ k = Len(spare)
  BY AccountedTypes
<1>2. PICK u : u = Scene!Allocated
  OBVIOUS
<1>3. CASE spare = << >>
  <2>1. PICK a : a = [generation |-> 1, live |-> TRUE]
    OBVIOUS
  <2>2. a \in Slot /\ a.live
    BY <2>1 DEF Slot
  <2>3. u.slots = Append(slots, a) /\ u.free = << >>
    BY <1>2, <1>3, <2>1 DEF Scene!Allocated
  <2>4. u.slots \in Seq(Slot) /\ Len(u.slots) = n + 1 /\ u.slots[n + 1] = a /\ \A i \in 1..n : u.slots[i] = slots[i]
    BY <1>1, <2>2, <2>3, AccountedTypes, AppendProperties
  <2>5. Len(u.free) = 0 /\ u.free \in Seq(1..(n + 1)) /\ Distinct(u.free)
    BY <2>3 DEF Distinct
  <2>6. \A i \in 1..n : slots[i].live
    BY <1>1, <1>3 DEF Accounted
  <2>7. \A i \in 1..(n + 1) : u.slots[i].live
    BY <2>2, <2>4, <2>6
  <2>8. Accounted(u.slots, u.free)
    BY <2>4, <2>5, <2>7 DEF Accounted
  <2>9. Scene!NextId \in Issued(n + 1)
    BY <1>1, <1>3 DEF Scene!NextId, Scene!NextIndex, Issued
  <2> QED BY <1>1, <1>2, <2>4, <2>8, <2>9
<1>4. CASE spare # << >>
  <2>1. spare \in Seq(1..n)
    BY <1>1, AccountedTypes
  <2>2. PICK x \in 1..n : k \in 1..k /\ x = spare[k]
    BY <1>1, <1>4, <2>1, Shorter
  <2>3. PICK a : a = [slots[x] EXCEPT !.live = TRUE]
    OBVIOUS
  <2>4. a \in Slot /\ a.live
    <3>1. slots[x] \in Slot
      BY <1>1, AccountedTypes
    <3> QED BY <2>3, <3>1 DEF Slot
  <2>5. u.slots = [slots EXCEPT ![x] = a] /\ u.free = SubSeq(spare, 1, k - 1)
    BY <1>1, <1>2, <1>4, <2>2, <2>3 DEF Scene!Allocated, Scene!NextIndex
  <2>6. u.slots \in Seq(Slot) /\ Len(u.slots) = n /\ \A i \in 1..n : u.slots[i] = IF i = x THEN a ELSE slots[i]
    BY <1>1, <2>4, <2>5, AccountedTypes, ExceptSeq
  <2>7. u.free \in Seq(1..n) /\ Len(u.free) = k - 1 /\ \A i \in 1..(k - 1) : u.free[i] = spare[i]
    BY <1>1, <1>4, <2>1, <2>5, Shorter
  <2>8. \A i, j \in 1..k : spare[i] = spare[j] => i = j
    BY <1>1 DEF Accounted, Distinct
  <2>9. Distinct(u.free)
    <3>1. \A i, j \in 1..(k - 1) : u.free[i] = u.free[j] => i = j
      <4>1. \A i \in 1..(k - 1) : i \in 1..k /\ u.free[i] = spare[i]
        BY <2>7
      <4> QED BY <2>8, <4>1
    <3> QED BY <2>7, <3>1 DEF Distinct
  <2>10. ASSUME NEW i \in 1..n
         PROVE  u.slots[i].live <=> \A j \in 1..(k - 1) : u.free[j] # i
    <3>1. CASE i = x
      <4>1. \A j \in 1..(k - 1) : u.free[j] # x
        BY <2>2, <2>7, <2>8
      <4> QED BY <2>4, <2>6, <3>1, <4>1
    <3>2. CASE i # x
      <4>1. u.slots[i].live <=> \A j \in 1..k : spare[j] # i
        BY <1>1, <2>6, <3>2 DEF Accounted
      <4>2. ASSUME \A j \in 1..(k - 1) : u.free[j] # i, NEW j \in 1..k PROVE spare[j] # i
        <5>1. j = k => spare[j] # i
          BY <2>2, <3>2
        <5>2. j # k => j \in 1..(k - 1) /\ u.free[j] = spare[j]
          BY <2>7
        <5> QED BY <4>2, <5>1, <5>2
      <4>3. ASSUME \A j \in 1..k : spare[j] # i, NEW j \in 1..(k - 1) PROVE u.free[j] # i
        <5>1. j \in 1..k /\ u.free[j] = spare[j]
          BY <2>7
        <5> QED BY <4>3, <5>1
      <4> QED BY <4>1, <4>2, <4>3
    <3> QED BY <3>1, <3>2
  <2>11. Accounted(u.slots, u.free)
    BY <2>6, <2>7, <2>9, <2>10 DEF Accounted
  <2>12. Scene!NextId \in Issued(n)
    <3>1. slots[x].generation \in Nat
      BY <1>1, AccountedTypes
    <3>2. Scene!NextId = [index |-> x, generation |-> slots[x].generation]
      BY <1>1, <1>4, <2>2 DEF Scene!NextId, Scene!NextIndex
    <3> QED BY <3>1, <3>2 DEF Issued
  <2> QED BY <1>1, <1>2, <2>6, <2>11, <2>12
<1> QED BY <1>3, <1>4


LEMMA PushKeeps ==
  ASSUME NEW n \in Nat, NEW k \in Nat, n <= k, mutation \in [Mutators -> Journals(n)],
         epoch \in Nat, sequence \in Nat, NEW m \in Mutators,
         NEW kind \in {"create", "update", "destroy"}, NEW id \in Issued(k), NEW version \in Nat,
         NEW fields \in SUBSET Fields, Scene!Push(m, kind, id, version, fields)
  PROVE  mutation' \in [Mutators -> Journals(k)] /\ sequence' \in Nat
<1> DEFINE change == [kind |-> kind, id |-> id, version |-> version, sequence |-> sequence,
                      fields |-> fields]
<1>1. change \in Changes
  <2>1. id \in IdType
    BY DEF Issued, IdType
  <2> QED BY <2>1 DEF Changes
<1>2. mutation \in [Mutators -> Journals(k)]
  BY IssuedGrows
<1>20. PICK J : J = Journals(k)
  OBVIOUS
<1>21. PICK c \in Changes : c = change
  BY <1>1
<1> HIDE DEF change
<1>3. PICK f \in [Mutators -> J] : f = [mutation EXCEPT ![m].epoch = epoch]
  <2>1. [mutation[m] EXCEPT !.epoch = epoch] \in J
    BY <1>2, <1>20 DEF Journals
  <2> QED BY <1>2, <1>20, <2>1
<1>4. PICK g \in [Mutators -> J] :
          g = [f EXCEPT ![m].buffer = (IF Scene!MustFlush(m) THEN {} ELSE @) \union {c}]
  <2>1. PICK e : e = (IF Scene!MustFlush(m) THEN {} ELSE f[m].buffer) \union {c}
    OBVIOUS
  <2>2. f[m] \in Journals(k)
    BY <1>3, <1>20
  <2>3. e \in SUBSET Changes
    BY <1>21, <2>1, <2>2 DEF Journals
  <2>4. [f[m] EXCEPT !.buffer = e] \in Journals(k)
    BY <2>2, <2>3 DEF Journals
  <2> QED BY <1>3, <1>20, <2>1, <2>4
<1>5. PICK h \in [Mutators -> J] : h = [g EXCEPT ![m].log = @ \union {c}]
  <2>1. PICK e : e = g[m].log \union {c}
    OBVIOUS
  <2>2. g[m] \in Journals(k)
    BY <1>4, <1>20
  <2>3. e \in SUBSET Changes
    BY <1>21, <2>1, <2>2 DEF Journals
  <2>4. [g[m] EXCEPT !.log = e] \in Journals(k)
    BY <2>2, <2>3 DEF Journals
  <2> QED BY <1>4, <1>20, <2>1, <2>4
<1>6. PICK p \in [Mutators -> J] :
          p = [h EXCEPT ![m].created = IF kind = "create" THEN Append(@, id) ELSE @]
  <2>1. PICK e : e = IF kind = "create" THEN Append(h[m].created, id) ELSE h[m].created
    OBVIOUS
  <2>2. h[m] \in Journals(k)
    BY <1>5, <1>20
  <2>3. h[m].created \in Seq(Issued(k))
    BY <2>2 DEF Journals
  <2>5. e \in Seq(Issued(k))
    BY <2>1, <2>3, AppendProperties
  <2>4. [h[m] EXCEPT !.created = e] \in Journals(k)
    BY <2>2, <2>5 DEF Journals
  <2> QED BY <1>5, <1>20, <2>1, <2>4
<1>7. PICK q \in [Mutators -> J] :
          q = [p EXCEPT ![m].destroyed = IF kind = "destroy" THEN Append(@, id) ELSE @]
  <2>1. PICK e : e = IF kind = "destroy" THEN Append(p[m].destroyed, id) ELSE p[m].destroyed
    OBVIOUS
  <2>2. p[m] \in Journals(k)
    BY <1>6, <1>20
  <2>3. p[m].destroyed \in Seq(Issued(k))
    BY <2>2 DEF Journals
  <2>5. e \in Seq(Issued(k))
    BY <2>1, <2>3, AppendProperties
  <2>4. [p[m] EXCEPT !.destroyed = e] \in Journals(k)
    BY <2>2, <2>5 DEF Journals
  <2> QED BY <1>6, <1>20, <2>1, <2>4
<1>8. mutation' = q
  BY <1>3, <1>4, <1>5, <1>6, <1>7, <1>21 DEF Scene!Push, change
<1>9. sequence' \in Nat
  BY DEF Scene!Push
<1> QED BY <1>7, <1>8, <1>9, <1>20

LEMMA WithKnown ==
  ASSUME NEW n \in Nat, NEW v \in Known(n), NEW id \in Issued(n)
  PROVE  /\ Scene!With(v, id, 1) \in Known(n)
         /\ id \in DOMAIN v => v[id] \in Nat /\ [v EXCEPT ![id] = @ + 1] \in Known(n)
         /\ Scene!Without(v, {id}) \in Known(n)
<1>1. v \in [DOMAIN v -> Nat] /\ DOMAIN v \subseteq Issued(n)
  BY KnownIs
<1>2. Scene!With(v, id, 1) \in Known(n)
  <2>1. PICK w : w = Scene!With(v, id, 1)
    OBVIOUS
  <2>3. w \in [DOMAIN v \cup {id} -> Nat] /\ DOMAIN w = DOMAIN v \cup {id}
    BY <1>1, <2>1 DEF Scene!With
  <2>4. DOMAIN w \subseteq Issued(n)
    BY <1>1, <2>3
  <2> QED BY <2>1, <2>3, <2>4, KnownIs
<1>3. ASSUME id \in DOMAIN v PROVE v[id] \in Nat /\ [v EXCEPT ![id] = @ + 1] \in Known(n)
  <2>1. v[id] \in Nat /\ v[id] + 1 \in Nat
    BY <1>1, <1>3
  <2>2. PICK w : w = [v EXCEPT ![id] = v[id] + 1]
    OBVIOUS
  <2>3. w \in [DOMAIN v -> Nat] /\ DOMAIN w = DOMAIN v
    BY <1>1, <2>1, <2>2
  <2> QED BY <1>1, <2>1, <2>2, <2>3, KnownIs
<1>4. Scene!Without(v, {id}) \in Known(n)
  <2>1. PICK w : w = Scene!Without(v, {id})
    OBVIOUS
  <2>2. w \in [DOMAIN v \ {id} -> Nat] /\ DOMAIN w = DOMAIN v \ {id}
    BY <1>1, <2>1 DEF Scene!Without
  <2> QED BY <1>1, <2>1, <2>2, KnownIs
<1> QED BY <1>2, <1>3, <1>4

LEMMA CreateKeeps ==
  ASSUME ScenesInv, NEW m \in Mutators, Scene!Create(m)
  PROVE  ScenesInv'
<1>1. PICK u : u = Scene!Allocated
  OBVIOUS
<1>2. PICK n \in Nat, k \in Nat : n = Len(slots) /\ k = Len(u.slots)
  BY <1>1, AllocateKeeps, AccountedTypes DEF ScenesInv
<1>3. n <= k /\ Accounted(u.slots, u.free) /\ Scene!NextId \in Issued(k)
  BY <1>1, <1>2, AllocateKeeps DEF ScenesInv
<1>4. /\ known \in Known(k) /\ mutation \in [Mutators -> Journals(k)]
      /\ epoch' = epoch /\ epoch \in Nat /\ sequence \in Nat
  <2>1. Known(n) \subseteq Known(k) /\ Journals(n) \subseteq Journals(k)
    BY <1>3, IssuedGrows
  <2> QED BY <1>2, <2>1 DEF ScenesInv, Scene!Create
<1>5. CASE /\ Scene!Push(m, "create", Scene!NextId, 1, Fields)
           /\ slots' = Scene!Allocated.slots /\ spare' = Scene!Allocated.free
           /\ known' = Scene!With(known, Scene!NextId, 1)
  <2>1. mutation' \in [Mutators -> Journals(k)] /\ sequence' \in Nat
    BY <1>3, <1>4, <1>5, PushKeeps
  <2>2. known' \in Known(k)
    BY <1>3, <1>4, <1>5, WithKnown
  <2> QED BY <1>1, <1>2, <1>3, <1>4, <1>5, <2>1, <2>2 DEF ScenesInv
<1>6. CASE /\ slots' = Scene!Release(Scene!Allocated, Scene!NextId).slots
           /\ spare' = Scene!Release(Scene!Allocated, Scene!NextId).free
           /\ UNCHANGED <<known, mutation, sequence, pending>>
  <2>1. Scene!NextId.index \in 1..k
    BY <1>3 DEF Issued
  <2>2. Accounted(slots', spare') /\ Len(slots') = k
    BY <1>1, <1>2, <1>3, <1>6, <2>1, ReleaseKeeps
  <2> QED BY <1>4, <1>6, <2>2 DEF ScenesInv
<1> QED BY <1>5, <1>6 DEF Scene!Create

LEMMA ScenesStep == ScenesInv /\ [Scene!Next]_(Scene!vars) => ScenesInv'
<1> SUFFICES ASSUME ScenesInv, [Scene!Next]_(Scene!vars) PROVE ScenesInv'
  OBVIOUS
<1>0. PICK n \in Nat : n = Len(slots)
  BY AccountedTypes DEF ScenesInv
<1>1. /\ Accounted(slots, spare) /\ known \in Known(n) /\ mutation \in [Mutators -> Journals(n)]
      /\ epoch \in Nat /\ sequence \in Nat
  BY <1>0 DEF ScenesInv
<1>2. CASE Scene!Frame
  BY <1>1, <1>2 DEF Scene!Frame, ScenesInv, Scene!ids
<1>3. ASSUME NEW m \in Mutators, Scene!Open(m) PROVE ScenesInv'
  <2>1. PICK c \in Journals(n) : c = Scene!Closed
    BY ClosedJournal
  <2>2. PICK r \in Journals(n) : r = [c EXCEPT !.open = TRUE, !.epoch = epoch, !.initial = known]
    BY <1>1 DEF Journals
  <2>3. mutation' = [mutation EXCEPT ![m] = r]
    BY <1>3, <2>1, <2>2 DEF Scene!Open
  <2> QED BY <1>0, <1>1, <1>3, <2>2, <2>3 DEF Scene!Open, ScenesInv, Scene!ids
<1>4. ASSUME NEW m \in Mutators, Scene!Create(m) PROVE ScenesInv'
  BY <1>4, CreateKeeps
<1>5. ASSUME NEW m \in Mutators, NEW id \in DOMAIN known, NEW fields \in SUBSET Fields,
             Scene!Update(m, id, fields)
      PROVE  ScenesInv'
  <2>1. id \in Issued(n) /\ known[id] \in Nat /\ known' \in Known(n)
    <3>1. id \in Issued(n)
      BY <1>1, KnownIs
    <3> QED BY <1>1, <1>5, <3>1, WithKnown DEF Scene!Update
  <2>2. CASE Scene!Push(m, "update", id, known[id] + 1, fields)
    <3>1. known[id] + 1 \in Nat
      BY <2>1
    <3>2. mutation' \in [Mutators -> Journals(n)] /\ sequence' \in Nat
      BY <1>1, <2>1, <2>2, <3>1, PushKeeps
    <3> QED BY <1>0, <1>1, <1>5, <2>1, <3>2 DEF Scene!Update, ScenesInv, Scene!ids
  <2>3. CASE UNCHANGED <<mutation, sequence, pending>>
    BY <1>0, <1>1, <1>5, <2>1, <2>3 DEF Scene!Update, ScenesInv, Scene!ids
  <2> QED BY <1>5, <2>2, <2>3 DEF Scene!Update
<1>6. ASSUME NEW m \in Mutators, NEW id \in DOMAIN known, Scene!Destroy(m, id) PROVE ScenesInv'
  <2>1. /\ id \in Issued(n) /\ known[id] \in Nat
        /\ Scene!Without(known, {id}) \in Known(n) /\ [known EXCEPT ![id] = @ + 1] \in Known(n)
    <3>1. id \in Issued(n)
      BY <1>1, KnownIs
    <3> QED BY <1>1, <3>1, WithKnown
  <2>2. CASE /\ Scene!Push(m, "destroy", id, known[id] + 1, {})
             /\ known' = Scene!Without(known, {id})
    <3>1. known[id] + 1 \in Nat
      BY <2>1
    <3>2. mutation' \in [Mutators -> Journals(n)] /\ sequence' \in Nat
      BY <1>1, <2>1, <2>2, <3>1, PushKeeps
    <3> QED BY <1>0, <1>1, <1>6, <2>1, <2>2, <3>2 DEF Scene!Destroy, ScenesInv, Scene!ids
  <2>3. CASE known' = [known EXCEPT ![id] = @ + 1] /\ UNCHANGED <<mutation, sequence, pending>>
    BY <1>0, <1>1, <1>6, <2>1, <2>3 DEF Scene!Destroy, ScenesInv, Scene!ids
  <2> QED BY <1>6, <2>2, <2>3 DEF Scene!Destroy
<1>7. ASSUME NEW list \in Seq(Issued(n)), slots' = Scene!ReleaseAll([slots |-> slots, free |-> spare], list).slots,
             spare' = Scene!ReleaseAll([slots |-> slots, free |-> spare], list).free
      PROVE  Accounted(slots', spare') /\ Len(slots') = n
  <2>1. PICK t : t = [slots |-> slots, free |-> spare]
    OBVIOUS
  <2>2. t.slots = slots /\ t.free = spare
    BY <2>1
  <2>3. t \in [slots : Seq(Slot), free : Seq(Nat)]
    <3>1. slots \in Seq(Slot) /\ spare \in Seq(1..n) /\ \A i \in 1..Len(spare) : spare[i] \in Nat
      BY <1>0, <1>1, AccountedTypes
    <3>2. spare \in Seq(Nat)
      BY <3>1
    <3> QED BY <2>1, <3>1, <3>2
  <2>4. slots' = Scene!ReleaseAll(t, list).slots /\ spare' = Scene!ReleaseAll(t, list).free
    BY <1>7, <2>1
  <2>5. Accounted(t.slots, t.free) /\ Len(t.slots) = n
    BY <1>0, <1>1, <2>2
  <2> QED BY <2>3, <2>4, <2>5, ReleaseAllKeeps
<1>8. \A m \in Mutators : [mutation EXCEPT ![m] = Scene!Closed] \in [Mutators -> Journals(n)]
  BY <1>1, ClosedJournal
<1>9. \A m \in Mutators : /\ mutation[m].destroyed \in Seq(Issued(n)) /\ mutation[m].created \in Seq(Issued(n))
                          /\ mutation[m].initial \in Known(n)
  BY <1>1 DEF Journals
<1>10. ASSUME NEW m \in Mutators, Scene!Commit(m) PROVE ScenesInv'
  <2>1. Accounted(slots', spare') /\ Len(slots') = n
    BY <1>7, <1>9, <1>10 DEF Scene!Commit
  <2> QED BY <1>1, <1>8, <1>10, <2>1 DEF Scene!Commit, ScenesInv
<1>11. ASSUME NEW m \in Mutators, Scene!CommitStale(m) PROVE ScenesInv'
  <2>1. PICK i \in 0..(Len(mutation[m].destroyed) - 1) :
          slots' = Scene!Freed(m, i).slots /\ spare' = Scene!Freed(m, i).free
    BY <1>11 DEF Scene!CommitStale
  <2>2. SubSeq(mutation[m].destroyed, 1, i) \in Seq(Issued(n))
    <3>1. mutation[m].destroyed \in Seq(Issued(n)) /\ Len(mutation[m].destroyed) \in Nat
      BY <1>9, LenProperties
    <3>2. i \in 0..Len(mutation[m].destroyed)
      BY <2>1, <3>1
    <3> QED BY <3>1, <3>2, SubSeqProperties
  <2>3. Accounted(slots', spare') /\ Len(slots') = n
    BY <1>7, <2>1, <2>2 DEF Scene!Freed
  <2>4. PICK e \in Nat : e = IF mutation[m].buffer = {} THEN mutation[m].epoch ELSE epoch
    BY <1>1 DEF Journals
  <2>5. [mutation[m] EXCEPT !.epoch = e, !.buffer = {}] \in Journals(n)
    BY <1>1 DEF Journals
  <2>6. mutation' = [mutation EXCEPT ![m] = [mutation[m] EXCEPT !.epoch = e, !.buffer = {}]]
    BY <1>1, <1>11, <2>4 DEF Scene!CommitStale, Journals
  <2>7. mutation' \in [Mutators -> Journals(n)]
    BY <1>1, <2>5, <2>6
  <2> QED BY <1>1, <1>11, <2>3, <2>7 DEF Scene!CommitStale, ScenesInv
<1>12. ASSUME NEW m \in Mutators, Scene!Cancel(m) PROVE ScenesInv'
  <2>1. Accounted(slots', spare') /\ Len(slots') = n
    BY <1>7, <1>9, <1>12 DEF Scene!Cancel
  <2> QED BY <1>1, <1>8, <1>9, <1>12, <2>1 DEF Scene!Cancel, ScenesInv, Scene!Restored
<1>13. CASE UNCHANGED Scene!vars
  BY <1>1, <1>13 DEF Scene!vars, ScenesInv
<1>14. \A f \in Fields : (IF "object" = "object" THEN {f} ELSE Fields) \in SUBSET Fields
  OBVIOUS
<1> QED BY <1>2, <1>3, <1>4, <1>5, <1>6, <1>10, <1>11, <1>12, <1>13, <1>14 DEF Scene!Next, Scene!Step

LEMMA ScenesKeep ==
  ASSUME ScenesInv
  PROVE  Scene!IndicesAccounted
<1>1. Accounted(slots, spare) /\ DOMAIN slots = 1..Len(slots) /\ DOMAIN spare = 1..Len(spare)
  BY AccountedTypes DEF ScenesInv
<1> QED BY <1>1 DEF Accounted, Distinct, Scene!IndicesAccounted

-----------------------------------------------------------------------------
(* The table of instances.                                                    *)

Named == [index : ObjectIndices, generation : Nat \ {0}]
Packed == [id : Named, version : Nat]
Tables ==
    [handles : Seq(Named), values : Seq(Packed),
     sparse : [ObjectIndices -> [generation : Nat, dense : Nat]],
     mapping : [ObjectIndices -> [generation : Nat, version : Nat]],
     dirty : SUBSET Nat, capacity : Nat]

\* Each record is where the index says, and the index knows nothing else.
Consistent(s) ==
    /\ s \in Tables
    /\ Len(s.values) = Len(s.handles)
    /\ \A i \in 1..Len(s.handles) :
           /\ s.values[i].id = s.handles[i]
           /\ s.sparse[s.handles[i].index].dense = i
           /\ s.sparse[s.handles[i].index].generation = s.handles[i].generation
           /\ s.mapping[s.handles[i].index].generation = s.handles[i].generation
    /\ \A x \in ObjectIndices :
           /\ s.mapping[x].generation # 0 <=> s.sparse[x].dense # 0
           /\ s.sparse[x].dense # 0 =>
                  /\ s.sparse[x].dense \in 1..Len(s.handles)
                  /\ s.handles[s.sparse[x].dense].index = x

LEMMA ConsistentTypes ==
  ASSUME NEW s, Consistent(s)
  PROVE  /\ s \in Tables /\ s.handles \in Seq(Named) /\ s.values \in Seq(Packed)
         /\ Len(s.handles) \in Nat /\ Len(s.values) = Len(s.handles)
         /\ DOMAIN s.handles = 1..Len(s.handles)
         /\ \A i \in 1..Len(s.handles) :
                /\ s.handles[i] \in Named /\ s.handles[i].index \in ObjectIndices
                /\ s.handles[i].generation \in Nat \ {0}
                /\ s.values[i] \in Packed /\ s.values[i].id = s.handles[i]
         /\ \A x \in ObjectIndices : /\ s.sparse[x].dense \in Nat /\ s.sparse[x].generation \in Nat
                                     /\ s.mapping[x].generation \in Nat /\ s.mapping[x].version \in Nat
<1>1. s \in Tables /\ Len(s.values) = Len(s.handles)
  BY DEF Consistent
<1>2. s.handles \in Seq(Named) /\ s.values \in Seq(Packed)
  BY <1>1 DEF Tables
<1>3. \A i \in 1..Len(s.handles) : s.handles[i] \in Named
  BY <1>2, ElementOfSeq
<1>4. \A i \in 1..Len(s.handles) : s.values[i] \in Packed
  BY <1>1, <1>2, ElementOfSeq
<1>5. \A h \in Named : h.index \in ObjectIndices /\ h.generation \in Nat \ {0}
  BY DEF Named
<1>6. \A i \in 1..Len(s.handles) : s.values[i].id = s.handles[i]
  BY DEF Consistent
<1>7. \A x \in ObjectIndices : /\ s.sparse[x].dense \in Nat /\ s.sparse[x].generation \in Nat
                               /\ s.mapping[x].generation \in Nat /\ s.mapping[x].version \in Nat
  BY <1>1 DEF Tables
<1> QED BY <1>1, <1>2, <1>3, <1>4, <1>5, <1>6, <1>7, LenProperties

\* What Consistent says does not depend on the marks.
LEMMA MarkKeeps ==
  ASSUME NEW s, Consistent(s), NEW places \in SUBSET Nat
  PROVE  /\ Consistent(Table!Mark(s, places)) /\ Table!Mark(s, places).handles = s.handles
         /\ Table!Mark(s, places).sparse = s.sparse
<1>1. PICK u : u = Table!Mark(s, places)
  OBVIOUS
<1>2. s \in Tables
  BY DEF Consistent
<1>3. 1..s.capacity \subseteq Nat /\ s.dirty \union (places \intersect 1..s.capacity) \in SUBSET Nat
  BY <1>2 DEF Tables
<1>4. PICK d \in SUBSET Nat : u = [s EXCEPT !.dirty = d]
  BY <1>1, <1>3 DEF Table!Mark
<1>5. /\ u \in Tables /\ u.handles = s.handles /\ u.values = s.values
      /\ u.sparse = s.sparse /\ u.mapping = s.mapping
  BY <1>2, <1>4 DEF Tables
<1> QED BY <1>1, <1>5 DEF Consistent

\* The record at an index that is mapped goes, the last one takes its place.
LEMMA RemoveKeeps ==
  ASSUME NEW s, Consistent(s), NEW id, id.index \in ObjectIndices, s.sparse[id.index].dense # 0
  PROVE  /\ Consistent(Table!Remove(s, id))
         /\ Table!Remove(s, id).sparse[id.index].dense = 0
         /\ Len(Table!Remove(s, id).handles) = Len(s.handles) - 1
<1>1. PICK x \in ObjectIndices, n \in Nat : x = id.index /\ n = Len(s.handles)
  BY ConsistentTypes
<1>2. PICK d \in 1..n : d = s.sparse[x].dense /\ s.handles[d].index = x
  BY <1>1 DEF Consistent
<1>3. PICK y \in ObjectIndices : y = s.handles[n].index
  BY <1>1, <1>2, ConsistentTypes
<1>4. PICK u : u = [Table!SwapErase(s, id) EXCEPT !.mapping[id.index].generation = 0]
  OBVIOUS
<1>5. /\ u.handles = Swapped(s.handles, d) /\ u.values = Swapped(s.values, d)
      /\ u.mapping = [s.mapping EXCEPT ![x].generation = 0]
      /\ u.sparse = IF d = n THEN [s.sparse EXCEPT ![x].dense = 0]
                    ELSE [[s.sparse EXCEPT ![x].dense = 0] EXCEPT ![y].dense = d]
      /\ u.dirty = s.dirty /\ u.capacity = s.capacity
  BY <1>1, <1>2, <1>3, <1>4, ConsistentTypes DEF Table!SwapErase, Table!DenseIndex, Swapped, Tables
<1>51. u = [handles |-> u.handles, values |-> u.values, sparse |-> u.sparse,
            mapping |-> u.mapping, dirty |-> u.dirty, capacity |-> u.capacity]
  BY <1>1, <1>2, <1>3, <1>4, ConsistentTypes DEF Table!SwapErase, Table!DenseIndex, Swapped, Tables
<1>6. n - 1 \in Nat /\ n \in 1..n
  BY <1>2
<1>7. /\ u.handles \in Seq(Named) /\ Len(u.handles) = n - 1
      /\ \A i \in 1..(n - 1) : u.handles[i] = IF i = d THEN s.handles[n] ELSE s.handles[i]
  <2>1. PICK t : t = s.handles
    OBVIOUS
  <2>2. t \in Seq(Named) /\ Len(t) = n /\ d \in 1..Len(t)
    BY <1>1, <2>1, ConsistentTypes
  <2>3. PICK w : w = Swapped(t, d)
    OBVIOUS
  <2>4. /\ w \in Seq(Named) /\ Len(w) = Len(t) - 1
        /\ \A i \in 1..(Len(t) - 1) : w[i] = IF i = d THEN t[Len(t)] ELSE t[i]
    BY <2>2, <2>3, SwapOut
  <2>5. u.handles = w
    BY <1>5, <2>1, <2>3
  <2> QED BY <2>1, <2>2, <2>4, <2>5
<1>8. /\ u.values \in Seq(Packed) /\ Len(u.values) = n - 1
      /\ \A i \in 1..(n - 1) : u.values[i] = IF i = d THEN s.values[n] ELSE s.values[i]
  <2>1. PICK t : t = s.values
    OBVIOUS
  <2>2. t \in Seq(Packed) /\ Len(t) = n /\ d \in 1..Len(t)
    BY <1>1, <2>1, ConsistentTypes
  <2>3. PICK w : w = Swapped(t, d)
    OBVIOUS
  <2>4. /\ w \in Seq(Packed) /\ Len(w) = Len(t) - 1
        /\ \A i \in 1..(Len(t) - 1) : w[i] = IF i = d THEN t[Len(t)] ELSE t[i]
    BY <2>2, <2>3, SwapOut
  <2>5. u.values = w
    BY <1>5, <2>1, <2>3
  <2> QED BY <2>1, <2>2, <2>4, <2>5
<1>9. d # n => y # x
  <2>1. s.sparse[y].dense = n
    BY <1>1, <1>3, <1>6 DEF Consistent
  <2> QED BY <1>2, <2>1
<1>10. /\ u.mapping \in [ObjectIndices -> [generation : Nat, version : Nat]]
       /\ \A z \in ObjectIndices : u.mapping[z].generation = IF z = x THEN 0 ELSE s.mapping[z].generation
  <2>1. s.mapping \in [ObjectIndices -> [generation : Nat, version : Nat]]
    BY ConsistentTypes DEF Tables
  <2> QED BY <1>5, <2>1
<1>11. /\ u.sparse \in [ObjectIndices -> [generation : Nat, dense : Nat]]
       /\ \A z \in ObjectIndices : u.sparse[z].generation = s.sparse[z].generation
       /\ \A z \in ObjectIndices : u.sparse[z].dense =
              IF z = y /\ d # n THEN d ELSE IF z = x THEN 0 ELSE s.sparse[z].dense
  <2>1. s.sparse \in [ObjectIndices -> [generation : Nat, dense : Nat]]
    BY ConsistentTypes DEF Tables
  <2>2. PICK c \in [ObjectIndices -> [generation : Nat, dense : Nat]] : c = [s.sparse EXCEPT ![x].dense = 0]
    BY <2>1
  <2>3. \A z \in ObjectIndices : /\ c[z].generation = s.sparse[z].generation
                                 /\ c[z].dense = IF z = x THEN 0 ELSE s.sparse[z].dense
    BY <2>1, <2>2
  <2>4. CASE d = n
    BY <1>5, <2>2, <2>3, <2>4
  <2>5. CASE d # n
    <3>1. u.sparse = [c EXCEPT ![y].dense = d] /\ d \in Nat
      BY <1>5, <2>2, <2>5
    <3>2. u.sparse \in [ObjectIndices -> [generation : Nat, dense : Nat]]
      BY <2>2, <3>1
    <3>3. \A z \in ObjectIndices : /\ u.sparse[z].generation = c[z].generation
                                   /\ u.sparse[z].dense = IF z = y THEN d ELSE c[z].dense
      BY <2>2, <3>1
    <3> QED BY <2>3, <2>5, <3>2, <3>3
  <2> QED BY <2>4, <2>5
<1>12. u \in Tables
  <2>1. u.dirty \in SUBSET Nat /\ u.capacity \in Nat
    BY <1>5, ConsistentTypes DEF Tables
  <2> QED BY <1>51, <1>7, <1>8, <1>10, <1>11, <2>1 DEF Tables
<1>13. ASSUME NEW i \in 1..(n - 1)
       PROVE  /\ u.values[i].id = u.handles[i]
              /\ u.sparse[u.handles[i].index].dense = i
              /\ u.sparse[u.handles[i].index].generation = u.handles[i].generation
              /\ u.mapping[u.handles[i].index].generation = u.handles[i].generation
  <2>1. PICK j \in 1..n : /\ u.handles[i] = s.handles[j] /\ u.values[i] = s.values[j]
                          /\ j = (IF i = d THEN n ELSE i)
    BY <1>7, <1>8
  <2>2. PICK z \in ObjectIndices : z = s.handles[j].index
    BY <1>1, ConsistentTypes
  <2>3. /\ s.values[j].id = s.handles[j] /\ s.sparse[z].dense = j
        /\ s.sparse[z].generation = s.handles[j].generation
        /\ s.mapping[z].generation = s.handles[j].generation
    BY <1>1, <2>2 DEF Consistent
  <2>4. s.sparse[y].dense = n
    BY <1>1, <1>3, <1>6 DEF Consistent
  <2>5. z # x
    BY <1>2, <2>1, <2>3
  <2>6. u.sparse[z].dense = i
    <3>1. CASE i = d
      BY <1>3, <1>11, <2>1, <2>2, <3>1
    <3>2. CASE i # d
      <4>1. z # y
        BY <2>1, <2>3, <2>4, <3>2
      <4> QED BY <1>11, <2>1, <2>3, <2>5, <3>2, <4>1
    <3> QED BY <3>1, <3>2
  <2> QED BY <1>10, <1>11, <2>1, <2>2, <2>3, <2>5, <2>6
<1>14. ASSUME NEW z \in ObjectIndices
       PROVE  /\ u.mapping[z].generation # 0 <=> u.sparse[z].dense # 0
              /\ u.sparse[z].dense # 0 => /\ u.sparse[z].dense \in 1..(n - 1)
                                         /\ u.handles[u.sparse[z].dense].index = z
  <2>1. s.sparse[y].dense = n
    BY <1>1, <1>3, <1>6 DEF Consistent
  <2>2. /\ s.mapping[z].generation # 0 <=> s.sparse[z].dense # 0
        /\ s.sparse[z].dense # 0 => /\ s.sparse[z].dense \in 1..n
                                   /\ s.handles[s.sparse[z].dense].index = z
    BY <1>1 DEF Consistent
  <2>3. CASE z = y /\ d # n
    <3>1. u.sparse[z].dense = d /\ d \in 1..(n - 1) /\ z # x /\ d # 0
      BY <1>9, <1>11, <2>3
    <3>2. u.handles[d].index = z
      BY <1>3, <1>7, <2>3, <3>1
    <3>3. s.sparse[z].dense # 0 /\ u.mapping[z].generation = s.mapping[z].generation
      BY <1>6, <1>10, <2>1, <2>3, <3>1
    <3> QED BY <2>2, <3>1, <3>2, <3>3
  <2>4. CASE z = x
    BY <1>9, <1>10, <1>11, <2>4
  <2>5. CASE z # x /\ ~(z = y /\ d # n)
    <3>1. u.sparse[z].dense = s.sparse[z].dense /\ u.mapping[z].generation = s.mapping[z].generation
      BY <1>10, <1>11, <2>5
    <3>2. ASSUME s.sparse[z].dense # 0
          PROVE  s.sparse[z].dense \in 1..(n - 1) /\ u.handles[s.sparse[z].dense].index = z
      <4>1. PICK j \in 1..n : j = s.sparse[z].dense /\ s.handles[j].index = z
        BY <2>2, <3>2
      <4>2. j # n
        BY <1>2, <1>3, <2>5, <4>1
      <4>3. j # d
        BY <1>2, <2>5, <4>1
      <4>4. j \in 1..(n - 1)
        BY <4>2
      <4>5. u.handles[j].index = z
        BY <1>7, <4>1, <4>3, <4>4
      <4> QED BY <4>1, <4>4, <4>5
    <3> QED BY <2>2, <3>1, <3>2
  <2> QED BY <2>3, <2>4, <2>5
<1>15. Consistent(u)
  BY <1>7, <1>8, <1>12, <1>13, <1>14 DEF Consistent
<1>16. u.sparse[x].dense = 0
  BY <1>9, <1>11
<1>17. Table!Remove(s, id) = u \/ \E at \in 1..n : Table!Remove(s, id) = Table!Mark(u, {at})
  BY <1>1, <1>2, <1>4 DEF Table!Remove, Table!DenseIndex
<1>18. \A at \in 1..n : /\ Consistent(Table!Mark(u, {at})) /\ Table!Mark(u, {at}).handles = u.handles
                        /\ Table!Mark(u, {at}).sparse = u.sparse
  <2>1. \A at \in 1..n : {at} \in SUBSET Nat
    OBVIOUS
  <2> QED BY <1>15, <2>1, MarkKeeps
<1> QED BY <1>1, <1>7, <1>15, <1>16, <1>17, <1>18

\* What putting a record at the end changes.
Emplaced(s, entry) ==
    Table!Emplace([s EXCEPT !.mapping[entry.id.index] =
        [generation |-> entry.id.generation, version |-> entry.version]], entry)

LEMMA EmplaceShape ==
  ASSUME NEW s \in Tables, NEW id \in Named, NEW entry \in Packed, id = entry.id, NEW u,
         u = Emplaced(s, entry)
  PROVE  /\ u.handles = Append(s.handles, id) /\ u.values = Append(s.values, entry)
         /\ u.mapping = [s.mapping EXCEPT ![id.index] =
                [generation |-> id.generation, version |-> entry.version]]
         /\ u.sparse = [s.sparse EXCEPT ![id.index] =
                [generation |-> id.generation, dense |-> Len(s.handles) + 1]]
         /\ u \in Tables
<1>3. PICK m : m = [s EXCEPT !.mapping[id.index] = [generation |-> id.generation, version |-> entry.version]]
  OBVIOUS
<1>5. /\ m.handles = s.handles /\ m.values = s.values /\ m.sparse = s.sparse
      /\ m.mapping = [s.mapping EXCEPT ![id.index] = [generation |-> id.generation, version |-> entry.version]]
      /\ m.dirty = s.dirty /\ m.capacity = s.capacity
  BY <1>3 DEF Tables
<1>6. DOMAIN m = {"handles", "values", "sparse", "mapping", "dirty", "capacity"}
  BY <1>3 DEF Tables
<1>7. u = Table!Emplace(m, entry)
  BY <1>3 DEF Emplaced
<1>8. /\ u.handles = Append(s.handles, id) /\ u.values = Append(s.values, entry)
      /\ u.mapping = m.mapping
      /\ u.sparse = [s.sparse EXCEPT ![id.index] = [generation |-> id.generation, dense |-> Len(s.handles) + 1]]
      /\ u.dirty = s.dirty /\ u.capacity = s.capacity
  BY <1>5, <1>6, <1>7 DEF Table!Emplace
<1>9. u = [handles |-> u.handles, values |-> u.values, sparse |-> u.sparse,
           mapping |-> u.mapping, dirty |-> u.dirty, capacity |-> u.capacity]
  BY <1>3, <1>7 DEF Table!Emplace, Tables
<1>10. /\ s.handles \in Seq(Named) /\ s.values \in Seq(Packed) /\ s.dirty \in SUBSET Nat /\ s.capacity \in Nat
       /\ s.sparse \in [ObjectIndices -> [generation : Nat, dense : Nat]]
       /\ s.mapping \in [ObjectIndices -> [generation : Nat, version : Nat]]
  BY DEF Tables
<1>11. /\ id.index \in ObjectIndices /\ id.generation \in Nat \ {0} /\ entry.version \in Nat
       /\ Len(s.handles) \in Nat
  BY <1>10, LenProperties DEF Named, Packed
<1>12. u.handles \in Seq(Named)
  BY <1>8, <1>10, AppendProperties
<1>13. u.values \in Seq(Packed)
  BY <1>8, <1>10, AppendProperties
<1>14. u.mapping \in [ObjectIndices -> [generation : Nat, version : Nat]]
  BY <1>5, <1>8, <1>10, <1>11
<1>15. u.sparse \in [ObjectIndices -> [generation : Nat, dense : Nat]]
  BY <1>8, <1>10, <1>11
<1>16. u \in Tables
  BY <1>8, <1>9, <1>10, <1>12, <1>13, <1>14, <1>15 DEF Tables
<1> QED BY <1>5, <1>8, <1>16

\* A record is put at the end for an index that is not mapped.
LEMMA EmplaceKeeps ==
  ASSUME NEW s, Consistent(s), NEW entry \in Packed, NEW id \in Named, id = entry.id,
         s.sparse[id.index].dense = 0
  PROVE  Consistent(Emplaced(s, entry))
<1>0. PICK u : u = Emplaced(s, entry)
  OBVIOUS
<1>1. /\ u.handles = Append(s.handles, id) /\ u.values = Append(s.values, entry)
      /\ u.mapping = [s.mapping EXCEPT ![id.index] =
             [generation |-> id.generation, version |-> entry.version]]
      /\ u.sparse = [s.sparse EXCEPT ![id.index] =
             [generation |-> id.generation, dense |-> Len(s.handles) + 1]]
      /\ u \in Tables
  <2>1. s \in Tables
    BY ConsistentTypes
  <2> QED BY <1>0, <2>1, EmplaceShape
<1>2. PICK x \in ObjectIndices, g \in Nat \ {0}, n \in Nat : x = id.index /\ g = id.generation /\ n = Len(s.handles)
  BY ConsistentTypes DEF Named
<1>4. s \in Tables /\ s.sparse \in [ObjectIndices -> [generation : Nat, dense : Nat]]
      /\ s.mapping \in [ObjectIndices -> [generation : Nat, version : Nat]]
  BY ConsistentTypes DEF Tables
<1>10. /\ u.handles \in Seq(Named) /\ Len(u.handles) = n + 1 /\ u.handles[n + 1] = id
       /\ \A i \in 1..n : u.handles[i] = s.handles[i]
  <2>1. PICK t \in Seq(Named) : t = s.handles /\ Len(t) = n
    BY <1>2, ConsistentTypes
  <2>2. u.handles = Append(t, id)
    BY <1>1, <2>1
  <2> QED BY <2>1, <2>2, AppendProperties
<1>11. /\ u.values \in Seq(Packed) /\ Len(u.values) = n + 1 /\ u.values[n + 1] = entry
       /\ \A i \in 1..n : u.values[i] = s.values[i]
  <2>1. PICK t \in Seq(Packed) : t = s.values /\ Len(t) = n
    BY <1>2, ConsistentTypes
  <2>2. u.values = Append(t, entry)
    BY <1>1, <2>1
  <2> QED BY <2>1, <2>2, AppendProperties
<1>12. entry.version \in Nat
  BY DEF Packed
<1>13. /\ u.mapping \in [ObjectIndices -> [generation : Nat, version : Nat]]
       /\ u.mapping[x].generation = g
       /\ \A z \in ObjectIndices : z # x => u.mapping[z] = s.mapping[z]
  <2>1. u.mapping = [s.mapping EXCEPT ![x] = [generation |-> g, version |-> entry.version]]
    BY <1>1, <1>2
  <2> QED BY <1>4, <1>12, <2>1
<1>14. /\ u.sparse \in [ObjectIndices -> [generation : Nat, dense : Nat]]
       /\ u.sparse[x].generation = g /\ u.sparse[x].dense = n + 1
       /\ \A z \in ObjectIndices : z # x => u.sparse[z] = s.sparse[z]
  BY <1>1, <1>2, <1>4
<1>16. s.sparse[x].dense = 0
  BY <1>2
<1>17. ASSUME NEW i \in 1..(n + 1)
       PROVE  /\ u.values[i].id = u.handles[i]
              /\ u.sparse[u.handles[i].index].dense = i
              /\ u.sparse[u.handles[i].index].generation = u.handles[i].generation
              /\ u.mapping[u.handles[i].index].generation = u.handles[i].generation
  <2>1. CASE i = n + 1
    BY <1>2, <1>10, <1>11, <1>13, <1>14, <2>1
  <2>2. CASE i \in 1..n
    <3>1. PICK z \in ObjectIndices : z = s.handles[i].index
      BY <1>2, <2>2, ConsistentTypes
    <3>2. /\ s.values[i].id = s.handles[i] /\ s.sparse[z].dense = i
          /\ s.sparse[z].generation = s.handles[i].generation
          /\ s.mapping[z].generation = s.handles[i].generation
      BY <1>2, <2>2, <3>1 DEF Consistent
    <3>3. z # x
      BY <1>16, <2>2, <3>2
    <3>4. u.handles[i] = s.handles[i] /\ u.values[i] = s.values[i]
      BY <1>10, <1>11, <2>2
    <3>5. u.sparse[z] = s.sparse[z] /\ u.mapping[z].generation = s.mapping[z].generation
      BY <1>13, <1>14, <3>3
    <3> QED BY <3>1, <3>2, <3>4, <3>5
  <2> QED BY <2>1, <2>2
<1>18. ASSUME NEW z \in ObjectIndices
       PROVE  /\ u.mapping[z].generation # 0 <=> u.sparse[z].dense # 0
              /\ u.sparse[z].dense # 0 => /\ u.sparse[z].dense \in 1..(n + 1)
                                         /\ u.handles[u.sparse[z].dense].index = z
  <2>1. /\ s.mapping[z].generation # 0 <=> s.sparse[z].dense # 0
        /\ s.sparse[z].dense # 0 => /\ s.sparse[z].dense \in 1..n
                                   /\ s.handles[s.sparse[z].dense].index = z
    BY <1>2 DEF Consistent
  <2>2. CASE z = x
    BY <1>2, <1>10, <1>13, <1>14, <2>2
  <2>3. CASE z # x
    <3>1. u.sparse[z] = s.sparse[z] /\ u.mapping[z].generation = s.mapping[z].generation
      BY <1>13, <1>14, <2>3
    <3>2. ASSUME s.sparse[z].dense # 0
          PROVE  s.sparse[z].dense \in 1..(n + 1) /\ u.handles[s.sparse[z].dense].index = z
      <4>1. PICK j \in 1..n : j = s.sparse[z].dense /\ s.handles[j].index = z
        BY <2>1, <3>2
      <4>2. u.handles[j] = s.handles[j]
        BY <1>10
      <4> QED BY <4>1, <4>2
    <3> QED BY <2>1, <3>1, <3>2
  <2> QED BY <2>2, <2>3
<1>19. Consistent(u)
  <2>1. u \in Tables
    BY <1>1
  <2> QED BY <2>1, <1>10, <1>11, <1>17, <1>18 DEF Consistent
<1> QED BY <1>0, <1>19

\* A record that is there is packed again.
LEMMA RepackKeeps ==
  ASSUME NEW s, Consistent(s), NEW x \in ObjectIndices, NEW entry \in Packed,
         NEW d \in 1..Len(s.handles), s.handles[d] = entry.id, NEW u,
         u = [s EXCEPT !.mapping[x].version = entry.version, !.values[d] = entry]
  PROVE  Consistent(u)
<1>1. PICK n \in Nat : n = Len(s.handles) /\ Len(s.values) = n
  BY ConsistentTypes
<1>2. /\ s \in Tables /\ s.values \in Seq(Packed) /\ s.handles \in Seq(Named)
      /\ s.mapping \in [ObjectIndices -> [generation : Nat, version : Nat]]
      /\ s.sparse \in [ObjectIndices -> [generation : Nat, dense : Nat]]
      /\ s.dirty \in SUBSET Nat /\ s.capacity \in Nat
  BY ConsistentTypes DEF Tables
<1>3. entry.version \in Nat
  BY DEF Packed
<1>4. PICK m : m = [s.mapping EXCEPT ![x].version = entry.version]
  OBVIOUS
<1>5. /\ m \in [ObjectIndices -> [generation : Nat, version : Nat]]
      /\ \A z \in ObjectIndices : m[z].generation = s.mapping[z].generation
  BY <1>2, <1>3, <1>4
<1>6. PICK v : v = [s.values EXCEPT ![d] = entry]
  OBVIOUS
<1>7. v \in Seq(Packed) /\ Len(v) = n /\ \A i \in 1..n : v[i] = IF i = d THEN entry ELSE s.values[i]
  <2>1. PICK w \in Seq(Packed) : w = s.values /\ Len(w) = n
    BY <1>1, <1>2
  <2>2. d \in 1..Len(w)
    BY <1>1, <2>1
  <2>3. v = [w EXCEPT ![d] = entry]
    BY <1>6, <2>1
  <2> QED BY <2>1, <2>2, <2>3, ExceptSeq
<1>8. u = [s EXCEPT !.mapping = m, !.values = v]
  BY <1>2, <1>4, <1>6 DEF Tables
<1>9. /\ u \in Tables /\ u.handles = s.handles /\ u.values = v
      /\ u.sparse = s.sparse /\ u.mapping = m
  BY <1>2, <1>5, <1>7, <1>8 DEF Tables
<1>10. \A i \in 1..n : v[i].id = s.handles[i]
  <2>1. \A i \in 1..n : s.values[i].id = s.handles[i]
    BY <1>1 DEF Consistent
  <2> QED BY <1>7, <2>1
<1>11. \A i \in 1..n : s.handles[i].index \in ObjectIndices
  BY <1>1, ConsistentTypes
<1> QED BY <1>1, <1>5, <1>7, <1>9, <1>10, <1>11 DEF Consistent

\* One object of a snapshot finds its place.
LEMMA PlaceKeeps ==
  ASSUME NEW s, Consistent(s), NEW entry \in Packed
  PROVE  Consistent(Table!Place(s, entry))
<1>1. PICK id \in Named : id = entry.id
  BY DEF Packed
<1>2. PICK x \in ObjectIndices : x = id.index /\ id.generation \in Nat \ {0}
  BY DEF Named
<1>3. PICK n \in Nat : n = Len(s.handles)
  BY ConsistentTypes
<1>4. CASE ~Table!Contains(s, id)
  <2>1. PICK old : old = [index |-> x, generation |-> s.mapping[x].generation]
    OBVIOUS
  <2>2. PICK v : v = IF old.generation # 0 THEN Table!Remove(s, old) ELSE s
    OBVIOUS
  <2>3. s.mapping[x].generation # 0 <=> s.sparse[x].dense # 0
    BY DEF Consistent
  <2>4. Consistent(v) /\ v.sparse[x].dense = 0
    <3>1. CASE s.mapping[x].generation # 0
      <4>1. old.index = x /\ v = Table!Remove(s, old) /\ s.sparse[x].dense # 0
        BY <2>1, <2>2, <2>3, <3>1
      <4>2. old.index \in ObjectIndices /\ s.sparse[old.index].dense # 0
        BY <4>1
      <4>3. Consistent(Table!Remove(s, old)) /\ Table!Remove(s, old).sparse[old.index].dense = 0
        BY <4>2, RemoveKeeps
      <4> QED BY <4>1, <4>3
    <3>2. CASE s.mapping[x].generation = 0
      BY <2>1, <2>2, <2>3, <3>2
    <3> QED BY <3>1, <3>2
  <2>5. PICK p : p = Emplaced(v, entry)
    OBVIOUS
  <2>6. Consistent(p)
    <3>1. v.sparse[id.index].dense = 0
      BY <1>2, <2>4
    <3> QED BY <1>1, <2>4, <2>5, <3>1, EmplaceKeeps
  <2>7. p.sparse[x].dense \in Nat
    BY <2>6, ConsistentTypes
  <2>8. Table!Place(s, entry) = Table!Mark(p, {p.sparse[x].dense})
    BY <1>1, <1>2, <1>4, <2>1, <2>2, <2>5 DEF Table!Place, Table!DenseIndex, Emplaced
  <2> QED BY <2>6, <2>7, <2>8, MarkKeeps
<1>5. CASE Table!Contains(s, id)
  <2>1. PICK d \in 1..n : d = s.sparse[x].dense /\ s.handles[d].index = x
    BY <1>2, <1>3, <1>5 DEF Table!Contains, Consistent
  <2>2. s.handles[d] = id
    <3>1. s.handles[d].generation = id.generation
      BY <1>2, <1>3, <1>5, <2>1 DEF Table!Contains, Consistent
    <3>2. s.handles[d] \in Named
      BY <1>3, ConsistentTypes
    <3> QED BY <1>2, <2>1, <3>1, <3>2 DEF Named
  <2>3. PICK u : u = [s EXCEPT !.mapping[x].version = entry.version, !.values[d] = entry]
    OBVIOUS
  <2>4. Consistent(u)
    BY <1>1, <1>2, <1>3, <2>1, <2>2, <2>3, RepackKeeps
  <2>5. Table!Place(s, entry) = s \/ Table!Place(s, entry) = Table!Mark(u, {d})
    BY <1>1, <1>2, <1>5, <2>1, <2>3 DEF Table!Place, Table!DenseIndex
  <2> QED BY <2>1, <2>4, <2>5, MarkKeeps
<1> QED BY <1>4, <1>5

\* So do all of them.
LEMMA PlaceAllKeeps ==
  ASSUME NEW s, Consistent(s), NEW list \in Seq(Packed)
  PROVE  Consistent(Table!PlaceAll(s, list))
<1>0. PICK W : W = {u \in Tables : Consistent(u)}
  OBVIOUS
<1>1. PICK k \in Nat : k = Len(list) /\ W = {u \in Tables : Consistent(u)}
  BY <1>0, LenProperties
<1>2. s \in W
  BY <1>1, ConsistentTypes
<1>3. \A u \in W, i \in 1..k : Table!Place(u, list[i]) \in W
  <2>1. \A i \in 1..k : list[i] \in Packed
    BY <1>1, ElementOfSeq
  <2>2. \A u \in W, i \in 1..k : Consistent(Table!Place(u, list[i]))
    BY <1>1, <2>1, PlaceKeeps
  <2> QED BY <1>1, <2>2, ConsistentTypes
<1>4. PICK step : step = [i \in 1..k |-> [u \in W |-> Table!Place(u, list[i])]]
  OBVIOUS
<1>5. step \in Steps(k, W)
  BY <1>3, <1>4 DEF Steps
<1>6. PICK f : FoldOf(f, k, W, s, step)
  BY <1>2, <1>5, FoldExists
<1>7. f \in [0..k -> W] /\ f[0] = s /\ \A i \in 1..k : f[i] = step[i][f[i - 1]]
  BY <1>6 DEF FoldOf
<1> DEFINE Folds(g) == g = [n \in 0..k |-> IF n = 0 THEN s ELSE Table!Place(g[n - 1], list[n])]
<1>8. Folds(f)
  <2>1. ASSUME NEW i \in 0..k PROVE f[i] = IF i = 0 THEN s ELSE Table!Place(f[i - 1], list[i])
    <3>1. CASE i # 0
      <4>1. i \in 1..k /\ i - 1 \in 0..k /\ f[i - 1] \in W
        BY <1>7, <3>1
      <4> QED BY <1>4, <1>7, <3>1, <4>1
    <3> QED BY <1>7, <3>1
  <2> QED BY <1>7, <2>1
<1>9. PICK g : g = CHOOSE h : Folds(h)
  OBVIOUS
<1>10. Folds(g)
  BY <1>8, <1>9
<1>11. Table!PlaceAll(s, list) = g[k]
  BY <1>1, <1>9 DEF Table!PlaceAll
<1>12. g[0] \in W /\ \A i \in 1..k : g[i - 1] \in W => g[i] \in W
  <2>1. ASSUME NEW i \in 1..k, g[i - 1] \in W PROVE g[i] \in W
    <3>1. i \in 0..k /\ i # 0
      OBVIOUS
    <3>2. g[i] = Table!Place(g[i - 1], list[i])
      BY <1>10, <3>1
    <3> QED BY <1>3, <2>1, <3>2
  <2>2. g[0] = s
    BY <1>10
  <2> HIDE DEF Folds
  <2> QED BY <1>2, <2>1, <2>2
<1> HIDE DEF Folds
<1>13. \A i \in 0..k : g[i] \in W
  BY <1>12, KeptByFold
<1> QED BY <1>1, <1>11, <1>13

LEMMA SweepKeeps ==
  ASSUME NEW s, Consistent(s), NEW dense \in 1..Len(s.handles), NEW list
  PROVE  /\ Consistent(Table!Sweep(s, dense, list))
         /\ Len(Table!Sweep(s, dense, list).handles) \in Nat
         /\ Len(Table!Sweep(s, dense, list).handles) >= Len(s.handles) - 1
<1>1. PICK id : id = s.handles[dense]
  OBVIOUS
<1>2. id.index \in ObjectIndices /\ s.sparse[id.index].dense # 0 /\ Len(s.handles) \in Nat
  BY <1>1, ConsistentTypes DEF Consistent
<1>3. Consistent(Table!Remove(s, id)) /\ Len(Table!Remove(s, id).handles) = Len(s.handles) - 1
  BY <1>2, RemoveKeeps
<1>4. Table!Sweep(s, dense, list) = Table!Remove(s, id) \/ Table!Sweep(s, dense, list) = s
  BY <1>1 DEF Table!Sweep
<1>5. Len(Table!Remove(s, id).handles) \in Nat
  BY <1>3, ConsistentTypes
<1> QED BY <1>2, <1>3, <1>4, <1>5

\* From the last record to the first, no position is beyond the end.
LEMMA RemoveUnseenKeeps ==
  ASSUME NEW s, Consistent(s), NEW list
  PROVE  Consistent(Table!RemoveUnseen(s, list))
<1>0. PICK W : W = {u \in Tables : Consistent(u)}
  OBVIOUS
<1>1. PICK k \in Nat : k = Len(s.handles) /\ W = {u \in Tables : Consistent(u)}
  BY <1>0, ConsistentTypes
<1>2. PICK V : V = [i \in 0..k |-> {u \in W : Len(u.handles) >= k - i}]
  OBVIOUS
<1>3. s \in W /\ s \in V[0]
  BY <1>1, <1>2, ConsistentTypes
<1>4. ASSUME NEW i \in 1..k, NEW u \in V[i - 1]
      PROVE  Table!Sweep(u, k + 1 - i, list) \in V[i] /\ Table!Sweep(u, k + 1 - i, list) \in W
  <2>1. i - 1 \in 0..k /\ i \in 0..k
    OBVIOUS
  <2>2. u \in W /\ Consistent(u) /\ Len(u.handles) >= k - (i - 1) /\ Len(u.handles) \in Nat
    BY <1>1, <1>2, <1>4, <2>1, ConsistentTypes
  <2>3. PICK d \in 1..Len(u.handles) : d = k + 1 - i
    BY <2>2
  <2>4. PICK r : r = Table!Sweep(u, d, list)
    OBVIOUS
  <2>5. Consistent(r) /\ Len(r.handles) \in Nat /\ Len(r.handles) >= Len(u.handles) - 1
    BY <2>2, <2>3, <2>4, SweepKeeps
  <2>6. r \in W /\ Len(r.handles) >= k - i
    BY <1>1, <2>2, <2>5, ConsistentTypes
  <2>7. V[i] = {w \in W : Len(w.handles) >= k - i}
    BY <1>2, <2>1
  <2> QED BY <2>3, <2>4, <2>6, <2>7
<1>5. PICK step : step = [i \in 1..k |-> [u \in W |->
                      IF u \in V[i - 1] THEN Table!Sweep(u, k + 1 - i, list) ELSE u]]
  OBVIOUS
<1>6. step \in Steps(k, W)
  BY <1>4, <1>5 DEF Steps
<1>7. PICK f : FoldOf(f, k, W, s, step)
  BY <1>3, <1>6, FoldExists
<1>8. f \in [0..k -> W] /\ f[0] = s /\ \A i \in 1..k : f[i] = step[i][f[i - 1]]
  BY <1>7 DEF FoldOf
<1>9. \A i \in 1..k : f[i - 1] \in V[i - 1] => f[i] = Table!Sweep(f[i - 1], k + 1 - i, list) /\ f[i] \in V[i]
  <2>1. ASSUME NEW i \in 1..k, f[i - 1] \in V[i - 1]
        PROVE  f[i] = Table!Sweep(f[i - 1], k + 1 - i, list) /\ f[i] \in V[i]
    <3>1. i - 1 \in 0..k /\ f[i - 1] \in W
      BY <1>8
    <3>2. step[i][f[i - 1]] = Table!Sweep(f[i - 1], k + 1 - i, list)
      BY <1>5, <2>1, <3>1
    <3> QED BY <1>4, <1>8, <2>1, <3>2
  <2> QED BY <2>1
<1>10. \A i \in 0..k : f[i] \in V[i]
  <2>1. f[0] \in V[0] /\ \A i \in 1..k : f[i - 1] \in V[i - 1] => f[i] \in V[i]
    BY <1>3, <1>8, <1>9
  <2> QED BY <2>1, KeptAlongFold
<1> DEFINE Folds(g) == g = [n \in 0..k |-> IF n = 0 THEN s ELSE Table!Sweep(g[n - 1], k + 1 - n, list)]
<1>11. Folds(f)
  <2>1. ASSUME NEW i \in 0..k PROVE f[i] = IF i = 0 THEN s ELSE Table!Sweep(f[i - 1], k + 1 - i, list)
    <3>1. CASE i # 0
      <4>1. i \in 1..k /\ i - 1 \in 0..k
        BY <3>1
      <4>2. f[i - 1] \in V[i - 1]
        BY <1>10, <4>1
      <4> QED BY <1>9, <3>1, <4>1, <4>2
    <3> QED BY <1>8, <3>1
  <2> QED BY <1>8, <2>1
<1>12. PICK g : g = CHOOSE h : Folds(h)
  OBVIOUS
<1>13. Folds(g)
  BY <1>11, <1>12
<1>14. Table!RemoveUnseen(s, list) = g[k]
  BY <1>1, <1>12 DEF Table!RemoveUnseen
<1>15. g[0] \in V[0] /\ \A i \in 1..k : g[i - 1] \in V[i - 1] => g[i] \in V[i]
  <2>1. ASSUME NEW i \in 1..k, g[i - 1] \in V[i - 1] PROVE g[i] \in V[i]
    <3>1. i \in 0..k /\ i # 0
      OBVIOUS
    <3>2. g[i] = Table!Sweep(g[i - 1], k + 1 - i, list)
      BY <1>13, <3>1
    <3> QED BY <1>4, <2>1, <3>2
  <2>2. g[0] = s
    BY <1>13
  <2> HIDE DEF Folds
  <2> QED BY <1>3, <2>1, <2>2
<1> HIDE DEF Folds
<1>16. \A i \in 0..k : g[i] \in V[i]
  BY <1>15, KeptAlongFold
<1>17. g[k] \in W
  BY <1>2, <1>16
<1> QED BY <1>1, <1>14, <1>17

TablesInv == Consistent(Table!Scene)

LEMMA TablesInit == Table!Init => TablesInv
<1> SUFFICES ASSUME Table!Init PROVE TablesInv
  OBVIOUS
<1>1. PICK s : s = Table!Scene
  OBVIOUS
<1>2. /\ s.handles = << >> /\ s.values = << >> /\ s.dirty = {} /\ s.capacity = 0
      /\ s.sparse = [i \in ObjectIndices |-> Table!Free] /\ s.mapping = [i \in ObjectIndices |-> Table!Unmapped]
  BY <1>1 DEF Table!Init, Table!Scene
<1>3. s.handles \in Seq(Named) /\ s.values \in Seq(Packed) /\ Len(s.handles) = 0 /\ Len(s.values) = 0
  BY <1>2
<1>4. s \in Tables
  BY <1>1, <1>2, <1>3 DEF Table!Scene, Tables, Table!Free, Table!Unmapped
<1>5. Consistent(s)
  BY <1>2, <1>3, <1>4 DEF Consistent, Table!Free, Table!Unmapped
<1> QED BY <1>1, <1>5 DEF TablesInv

LEMMA GrowKeeps ==
  ASSUME TablesInv, NEW room \in Nat
  PROVE  Consistent(Table!EnsureCapacity(room))
<1>1. PICK s : s = Table!Scene
  OBVIOUS
<1>2. Consistent(s) /\ s \in Tables /\ s.capacity = capacity /\ s.handles = handles
  BY <1>1, ConsistentTypes DEF TablesInv, Table!Scene
<1>3. capacity \in Nat /\ Len(handles) \in Nat
  BY <1>2, ConsistentTypes DEF Tables
<1>4. PICK c \in Nat : c = Table!Grown(room)
  BY <1>3, SceneAssumption DEF Table!TableAssumption, Table!Grown, Table!Required, Table!Larger
<1>5. PICK u : u = [s EXCEPT !.capacity = c, !.dirty = {}]
  OBVIOUS
<1>6. /\ u \in Tables /\ u.handles = s.handles /\ u.values = s.values
      /\ u.sparse = s.sparse /\ u.mapping = s.mapping
  BY <1>2, <1>5 DEF Tables
<1>7. Consistent(u)
  BY <1>2, <1>6 DEF Consistent
<1>8. 1..Len(handles) \in SUBSET Nat
  BY <1>3
<1>9. Consistent(Table!Mark(u, 1..Len(handles)))
  BY <1>7, <1>8, MarkKeeps
<1> QED BY <1>1, <1>2, <1>4, <1>5, <1>9 DEF Table!EnsureCapacity

LEMMA TablesStep == TablesInv /\ [Table!Next]_(Table!vars) => TablesInv'
<1> SUFFICES ASSUME TablesInv, [Table!Next]_(Table!vars) PROVE TablesInv'
  OBVIOUS
<1>1. ASSUME NEW snapshot \in Snapshots, Table!Synchronize(snapshot) PROVE TablesInv'
  <2>1. snapshot \in Seq(Packed) /\ Len(snapshot) \in Nat
    BY SceneAssumption, LenProperties DEF Table!TableAssumption, Packed, Named
  <2>2. PICK s : s = Table!RemoveUnseen(Table!PlaceAll(Table!EnsureCapacity(Len(snapshot)), snapshot), snapshot)
    OBVIOUS
  <2>3. Consistent(s)
    BY <2>1, <2>2, GrowKeeps, PlaceAllKeeps, RemoveUnseenKeeps
  <2>4. Table!Scene' = s
    <3>1. /\ handles' = s.handles /\ values' = s.values /\ sparse' = s.sparse
          /\ mapping' = s.mapping /\ dirty' = s.dirty /\ capacity' = s.capacity
      BY <1>1, <2>2 DEF Table!Synchronize
    <3>2. s = [handles |-> s.handles, values |-> s.values, sparse |-> s.sparse,
               mapping |-> s.mapping, dirty |-> s.dirty, capacity |-> s.capacity]
      BY <2>3, ConsistentTypes DEF Tables
    <3> QED BY <3>1, <3>2 DEF Table!Scene
  <2> QED BY <2>3, <2>4 DEF TablesInv
<1>2. ASSUME dirty' \in {dirty, {}}, UNCHANGED <<handles, values, sparse, mapping, capacity>>
      PROVE  TablesInv'
  <2>1. PICK s, u : s = Table!Scene /\ u = Table!Scene'
    OBVIOUS
  <2>2. Consistent(s) /\ s \in Tables
    BY <2>1, ConsistentTypes DEF TablesInv
  <2>3. /\ u.handles = s.handles /\ u.values = s.values /\ u.sparse = s.sparse
        /\ u.mapping = s.mapping
    BY <1>2, <2>1 DEF Table!Scene
  <2>4. u \in Tables
    BY <1>2, <2>1, <2>2 DEF Table!Scene, Tables
  <2>5. Consistent(u)
    BY <2>2, <2>3, <2>4 DEF Consistent
  <2> QED BY <2>1, <2>5 DEF TablesInv
<1>3. ASSUME NEW snapshot \in Snapshots, Table!AllocationFails(snapshot) PROVE TablesInv'
  BY <1>2, <1>3 DEF Table!AllocationFails
<1>4. CASE Table!UploadDirty \/ Table!UploadRefused \/ Table!SubmitUpload \/ Table!MarkDeviceLost \/ UNCHANGED Table!vars
  BY <1>2, <1>4 DEF Table!UploadDirty, Table!UploadRefused, Table!SubmitUpload, Table!MarkDeviceLost, Table!vars
<1> QED BY <1>1, <1>3, <1>4 DEF Table!Next

LEMMA TablesKeep == TablesInv => Table!DenseExact
<1> SUFFICES ASSUME TablesInv PROVE Table!DenseExact
  OBVIOUS
<1>1. PICK s : s = Table!Scene
  OBVIOUS
<1>2. Consistent(s) /\ s.handles = handles /\ s.values = values /\ s.sparse = sparse /\ s.mapping = mapping
  BY <1>1 DEF TablesInv, Table!Scene
<1>3. s \in Tables /\ DOMAIN handles = 1..Len(handles)
  BY <1>2, ConsistentTypes
<1>4. ASSUME NEW i \in DOMAIN handles
      PROVE  /\ sparse[handles[i].index] = [generation |-> handles[i].generation, dense |-> i]
             /\ values[i].id = handles[i]
  <2>1. handles[i].index \in ObjectIndices
    BY <1>2, <1>3, ConsistentTypes
  <2>2. sparse[handles[i].index] \in [generation : Nat, dense : Nat]
    BY <1>2, <1>3, <2>1 DEF Tables
  <2>3. /\ values[i].id = handles[i] /\ sparse[handles[i].index].dense = i
        /\ sparse[handles[i].index].generation = handles[i].generation
    BY <1>2, <1>3 DEF Consistent
  <2> QED BY <2>2, <2>3
<1>5. ASSUME NEW x \in ObjectIndices
      PROVE  (mapping[x].generation # 0) <=> \E i \in DOMAIN handles : handles[i].index = x
  <2>1. /\ mapping[x].generation # 0 <=> sparse[x].dense # 0
        /\ sparse[x].dense # 0 => /\ sparse[x].dense \in DOMAIN handles
                                 /\ handles[sparse[x].dense].index = x
    BY <1>2, <1>3 DEF Consistent
  <2>2. ASSUME NEW i \in DOMAIN handles, handles[i].index = x PROVE sparse[x].dense # 0
    <3>1. sparse[x].dense = i
      BY <1>2, <1>3, <2>2 DEF Consistent
    <3> QED BY <1>3, <3>1
  <2> QED BY <2>1, <2>2
<1> QED BY <1>4, <1>5 DEF Table!DenseExact

-----------------------------------------------------------------------------
(* The registry of entities.                                                  *)

Storage == [made : BOOLEAN, sparse : [Registry!Indices -> Nat], entities : Seq(Registry!Entity)]

\* The two arrays of a storage point at each other.
Exact(s) ==
    /\ \A i \in 1..Len(s.entities) : s.sparse[s.entities[i].index] = i
    /\ \A x \in Registry!Indices : s.sparse[x] # 0 =>
           s.sparse[x] \in 1..Len(s.entities) /\ s.entities[s.sparse[x]].index = x

LEMMA StorageTypes ==
  ASSUME NEW s \in Storage
  PROVE  /\ s.made \in BOOLEAN /\ s.sparse \in [Registry!Indices -> Nat] /\ s.entities \in Seq(Registry!Entity)
         /\ Len(s.entities) \in Nat /\ DOMAIN s.entities = 1..Len(s.entities)
         /\ \A i \in 1..Len(s.entities) : s.entities[i] \in Registry!Entity /\ s.entities[i].index \in Registry!Indices
<1>1. s.made \in BOOLEAN /\ s.sparse \in [Registry!Indices -> Nat] /\ s.entities \in Seq(Registry!Entity)
  BY DEF Storage
<1>2. \A i \in 1..Len(s.entities) : s.entities[i] \in Registry!Entity
  BY <1>1, ElementOfSeq
<1>3. \A f \in Registry!Entity : f.index \in Registry!Indices
  BY DEF Registry!Entity
<1> QED BY <1>1, <1>2, <1>3, LenProperties

\* A storage contains what is in its list.
LEMMA Listed ==
  ASSUME NEW s \in Storage, Exact(s), NEW e \in Registry!Entity
  PROVE  Registry!Contains(s, e) <=> \E i \in 1..Len(s.entities) : s.entities[i] = e
<1>1. e.index \in Registry!Indices
  BY DEF Registry!Entity
<1> QED BY <1>1, StorageTypes DEF Exact, Registry!Contains

LEMMA EmptyStorage ==
  ASSUME NEW s, s.entities = << >>, s.sparse = [i \in Registry!Indices |-> 0]
  PROVE  Exact(s) /\ \A e \in Registry!Entity : ~Registry!Contains(s, e)
<1>1. \A e \in Registry!Entity : e.index \in Registry!Indices
  BY DEF Registry!Entity
<1> QED BY <1>1 DEF Exact, Registry!Contains

LEMMA PutFacts ==
  ASSUME NEW s \in Storage, Exact(s), NEW e \in Registry!Entity, s.sparse[e.index] = 0
  PROVE  /\ Registry!Put(s, e) \in Storage /\ Exact(Registry!Put(s, e))
         /\ \A f \in Registry!Entity : Registry!Contains(Registry!Put(s, e), f) <=> f = e \/ Registry!Contains(s, f)
<1>0. PICK t : t = Registry!Put(s, e)
  OBVIOUS
<1>1. PICK n \in Nat : n = Len(s.entities)
  BY StorageTypes
<1>2. e.index \in Registry!Indices
  BY DEF Registry!Entity
<1>3. t.sparse = [s.sparse EXCEPT ![e.index] = n + 1] /\ t.entities = Append(s.entities, e) /\ t.made
  BY <1>0, <1>1 DEF Registry!Put
<1>4. /\ t.entities \in Seq(Registry!Entity) /\ Len(t.entities) = n + 1
      /\ \A i \in 1..n : t.entities[i] = s.entities[i]
      /\ t.entities[n + 1] = e
  BY <1>1, <1>3, StorageTypes, AppendProperties
<1>5. t.sparse \in [Registry!Indices -> Nat] /\ \A x \in Registry!Indices : t.sparse[x] = IF x = e.index THEN n + 1 ELSE s.sparse[x]
  BY <1>1, <1>2, <1>3, StorageTypes
<1>6. t \in Storage
  BY <1>0, <1>3, <1>4, <1>5 DEF Storage, Registry!Put
<1>7. Exact(t)
  <2>1. ASSUME NEW i \in 1..(n + 1) PROVE t.sparse[t.entities[i].index] = i
    <3>1. CASE i \in 1..n
      <4>1. s.entities[i].index \in Registry!Indices /\ s.sparse[s.entities[i].index] = i
        BY <1>1, <3>1, StorageTypes DEF Exact
      <4> QED BY <1>4, <1>5, <3>1, <4>1
    <3>2. CASE i = n + 1
      BY <1>2, <1>4, <1>5, <3>2
    <3> QED BY <3>1, <3>2
  <2>2. ASSUME NEW x \in Registry!Indices, t.sparse[x] # 0
        PROVE  t.sparse[x] \in 1..(n + 1) /\ t.entities[t.sparse[x]].index = x
    <3>1. CASE x = e.index
      BY <1>4, <1>5, <3>1
    <3>2. CASE x # e.index
      <4>1. s.sparse[x] \in 1..n /\ s.entities[s.sparse[x]].index = x
        BY <1>1, <1>5, <2>2, <3>2 DEF Exact
      <4> QED BY <1>4, <1>5, <3>2, <4>1
    <3> QED BY <3>1, <3>2
  <2> QED BY <1>4, <2>1, <2>2 DEF Exact
<1>8. ASSUME NEW f \in Registry!Entity
      PROVE  Registry!Contains(t, f) <=> f = e \/ Registry!Contains(s, f)
  <2>1. Registry!Contains(t, f) <=> \E i \in 1..(n + 1) : t.entities[i] = f
    BY <1>4, <1>6, <1>7, Listed
  <2>2. Registry!Contains(s, f) <=> \E i \in 1..n : s.entities[i] = f
    BY <1>1, Listed
  <2>3. (\E i \in 1..(n + 1) : t.entities[i] = f) <=> f = e \/ \E i \in 1..n : s.entities[i] = f
    <3>1. \A i \in 1..(n + 1) : i \in 1..n \/ i = n + 1
      OBVIOUS
    <3> QED BY <1>4, <3>1
  <2> QED BY <2>1, <2>2, <2>3
<1> QED BY <1>0, <1>6, <1>7, <1>8

LEMMA TakeFacts ==
  ASSUME NEW s \in Storage, Exact(s), NEW e \in Registry!Entity
  PROVE  /\ Registry!Take(s, e) \in Storage /\ Exact(Registry!Take(s, e))
         /\ \A f \in Registry!Entity : Registry!Contains(Registry!Take(s, e), f) <=> f # e /\ Registry!Contains(s, f)
<1>1. CASE ~Registry!Contains(s, e)
  BY <1>1 DEF Registry!Take
<1>2. CASE Registry!Contains(s, e)
  <2>0. PICK t : t = Registry!Take(s, e)
    OBVIOUS
  <2>1. PICK n \in Nat : n = Len(s.entities)
    BY StorageTypes
  <2>2. e.index \in Registry!Indices
    BY DEF Registry!Entity
  <2>3. PICK p \in 1..n : p = s.sparse[e.index] /\ s.entities[p] = e
    BY <1>2, <2>1, <2>2 DEF Registry!Contains, Exact
  <2>4. PICK m \in Registry!Indices : m = s.entities[n].index /\ s.sparse[m] = n
    BY <2>1, <2>3, StorageTypes DEF Exact
  <2>5. /\ t.made
        /\ t.sparse = [[s.sparse EXCEPT ![m] = p] EXCEPT ![e.index] = 0]
        /\ t.entities = Swapped(s.entities, p)
    BY <1>2, <2>0, <2>1, <2>3, <2>4 DEF Registry!Take, Swapped
  <2>6. /\ t.entities \in Seq(Registry!Entity) /\ Len(t.entities) = n - 1
        /\ \A i \in 1..(n - 1) : t.entities[i] = IF i = p THEN s.entities[n] ELSE s.entities[i]
    <3>1. PICK list \in Seq(Registry!Entity) : list = s.entities
      BY StorageTypes
    <3>2. PICK u : u = Swapped(list, p)
      OBVIOUS
    <3>3. /\ u \in Seq(Registry!Entity) /\ Len(u) = n - 1
          /\ \A i \in 1..(n - 1) : u[i] = IF i = p THEN list[n] ELSE list[i]
      <4>1. p \in 1..Len(list) /\ n = Len(list)
        BY <2>1, <3>1
      <4>2. /\ Swapped(list, p) \in Seq(Registry!Entity) /\ Len(Swapped(list, p)) = Len(list) - 1
            /\ \A i \in 1..(Len(list) - 1) :
                   Swapped(list, p)[i] = IF i = p THEN list[Len(list)] ELSE list[i]
        BY <4>1, SwapOut
      <4> QED BY <3>2, <4>1, <4>2
    <3> QED BY <2>5, <3>1, <3>2, <3>3
  <2>7. /\ t.sparse \in [Registry!Indices -> Nat]
        /\ \A x \in Registry!Indices : t.sparse[x] =
               IF x = e.index THEN 0 ELSE IF x = m THEN p ELSE s.sparse[x]
    BY <2>2, <2>3, <2>4, <2>5, StorageTypes
  <2>8. t \in Storage
    BY <1>2, <2>0, <2>5, <2>6, <2>7 DEF Storage, Registry!Take
  <2>9. m = e.index <=> p = n
    BY <2>3, <2>4
  <2>10. Exact(t)
    <3>1. ASSUME NEW i \in 1..(n - 1) PROVE t.sparse[t.entities[i].index] = i
      <4>1. CASE i = p
        <5>1. m # e.index /\ t.entities[i].index = m
          BY <2>4, <2>6, <2>9, <4>1
        <5> QED BY <2>4, <2>7, <4>1, <5>1
      <4>2. CASE i # p
        <5>1. PICK x \in Registry!Indices : x = s.entities[i].index /\ s.sparse[x] = i
          BY <2>1, StorageTypes DEF Exact
        <5>2. x # e.index /\ x # m
          BY <2>3, <2>4, <4>2, <5>1
        <5> QED BY <2>6, <2>7, <4>2, <5>1, <5>2
      <4> QED BY <4>1, <4>2
    <3>2. ASSUME NEW x \in Registry!Indices, t.sparse[x] # 0
          PROVE  t.sparse[x] \in 1..(n - 1) /\ t.entities[t.sparse[x]].index = x
      <4>1. x # e.index
        BY <2>7, <3>2
      <4>2. CASE x = m
        <5>1. p # n /\ t.sparse[x] = p
          BY <2>7, <2>9, <4>1, <4>2
        <5> QED BY <2>3, <2>4, <2>6, <4>2, <5>1
      <4>3. CASE x # m
        <5>1. t.sparse[x] = s.sparse[x]
          BY <2>7, <4>1, <4>3
        <5>2. s.sparse[x] \in 1..n /\ s.entities[s.sparse[x]].index = x
          BY <2>1, <3>2, <5>1 DEF Exact
        <5>3. s.sparse[x] # p /\ s.sparse[x] # n
          BY <2>3, <2>4, <4>1, <4>3, <5>2
        <5> QED BY <2>6, <5>1, <5>2, <5>3
      <4> QED BY <4>2, <4>3
    <3> QED BY <2>6, <3>1, <3>2 DEF Exact
  <2>11. ASSUME NEW f \in Registry!Entity
         PROVE  Registry!Contains(t, f) <=> f # e /\ Registry!Contains(s, f)
    <3>1. Registry!Contains(t, f) <=> \E i \in 1..(n - 1) : t.entities[i] = f
      BY <2>6, <2>8, <2>10, Listed
    <3>2. Registry!Contains(s, f) <=> \E i \in 1..n : s.entities[i] = f
      BY <2>1, Listed
    <3>3. ASSUME NEW i \in 1..(n - 1), t.entities[i] = f
          PROVE  f # e /\ \E j \in 1..n : s.entities[j] = f
      <4>1. f # e
        <5>1. t.sparse[f.index] = i
          BY <2>6, <2>10, <3>3 DEF Exact
        <5>2. t.sparse[e.index] = 0
          BY <2>2, <2>7
        <5> QED BY <5>1, <5>2
      <4> QED BY <2>3, <2>6, <3>3, <4>1
    <3>4. ASSUME NEW i \in 1..n, s.entities[i] = f, f # e
          PROVE  \E j \in 1..(n - 1) : t.entities[j] = f
      <4>1. i # p
        BY <2>3, <3>4
      <4>2. CASE i = n
        <5>1. p \in 1..(n - 1) /\ s.entities[n] = f
          BY <2>3, <3>4, <4>1, <4>2
        <5>2. t.entities[p] = f
          BY <2>6, <5>1
        <5> QED BY <5>1, <5>2
      <4>3. CASE i # n
        <5>1. i \in 1..(n - 1) /\ t.entities[i] = s.entities[i]
          BY <2>6, <4>1, <4>3
        <5> QED BY <3>4, <5>1
      <4> QED BY <4>2, <4>3
    <3> QED BY <3>1, <3>2, <3>3, <3>4
  <2> QED BY <2>0, <2>8, <2>10, <2>11
<1> QED BY <1>1, <1>2

ViewRecord == [open : BOOLEAN, wanted : SUBSET Components, list : Seq(Registry!Entity),
               at : Nat \ {0}, visited : Seq(Registry!Entity), due : SUBSET Registry!Entity]

TableTypes ==
    /\ generations \in Seq(0..MaxAges) /\ Len(generations) <= MaxEntities
    /\ positions \in Seq(Nat) /\ Len(positions) = Len(generations)
    /\ entities \in Seq(Registry!Entity)
    /\ freeList \in Seq(1..Len(generations))
    /\ dead \subseteq Registry!Entity

\* Each entity is valid and at its position, each position has its entity.
Placed ==
    /\ \A i \in 1..Len(entities) :
           /\ entities[i].index \in 1..Len(generations) /\ positions[entities[i].index] = i
           /\ generations[entities[i].index] = entities[i].generation
    /\ \A x \in 1..Len(positions) : positions[x] # 0 =>
           positions[x] \in 1..Len(entities) /\ entities[positions[x]].index = x

\* The free list has the indices without an entity, each once.
FreeExact ==
    /\ \A i, j \in 1..Len(freeList) : freeList[i] = freeList[j] => i = j
    /\ \A i \in 1..Len(freeList) : positions[freeList[i]] = 0
    /\ \A x \in 1..Len(positions) : positions[x] = 0 => \E i \in 1..Len(freeList) : freeList[i] = x

\* The index of a dead handle has gone on to a later generation.
Past == \A e \in dead : e.index <= Len(generations) /\ e.generation < generations[e.index]

TableInv == TableTypes /\ Placed /\ FreeExact /\ Past

LEMMA TableFacts ==
  ASSUME TableTypes
  PROVE  /\ Len(generations) \in Nat /\ Len(positions) = Len(generations)
         /\ Len(entities) \in Nat /\ Len(freeList) \in Nat
         /\ DOMAIN generations = 1..Len(generations) /\ DOMAIN positions = 1..Len(generations)
         /\ DOMAIN entities = 1..Len(entities) /\ DOMAIN freeList = 1..Len(freeList)
         /\ \A x \in 1..Len(generations) : generations[x] \in 0..MaxAges /\ positions[x] \in Nat
         /\ \A i \in 1..Len(entities) : entities[i] \in Registry!Entity
         /\ \A i \in 1..Len(freeList) : freeList[i] \in 1..Len(generations)
         /\ 1..Len(generations) \subseteq Registry!Indices
         /\ \A e \in Registry!Entity : /\ e.index \in Registry!Indices /\ e.index \in Nat \ {0}
                                       /\ e.generation \in 0..MaxAges
                                       /\ e = [index |-> e.index, generation |-> e.generation]
<1>1. /\ Len(generations) \in Nat /\ Len(entities) \in Nat /\ Len(freeList) \in Nat
      /\ DOMAIN generations = 1..Len(generations) /\ DOMAIN positions = 1..Len(positions)
      /\ DOMAIN entities = 1..Len(entities) /\ DOMAIN freeList = 1..Len(freeList)
  BY LenProperties DEF TableTypes
<1>2. Len(positions) = Len(generations)
  BY DEF TableTypes
<1>3. \A x \in 1..Len(generations) : generations[x] \in 0..MaxAges
  BY ElementOfSeq DEF TableTypes
<1>4. \A x \in 1..Len(positions) : positions[x] \in Nat
  BY ElementOfSeq DEF TableTypes
<1>5. \A i \in 1..Len(entities) : entities[i] \in Registry!Entity
  BY ElementOfSeq DEF TableTypes
<1>6. \A i \in 1..Len(freeList) : freeList[i] \in 1..Len(generations)
  BY ElementOfSeq DEF TableTypes
<1>7. 1..Len(generations) \subseteq Registry!Indices
  BY <1>1, SceneAssumption DEF TableTypes, Registry!Indices, Registry!RegistryAssumption
<1>8. ASSUME NEW e \in Registry!Entity
      PROVE  /\ e.index \in Registry!Indices /\ e.index \in Nat \ {0} /\ e.generation \in 0..MaxAges
             /\ e = [index |-> e.index, generation |-> e.generation]
  BY SceneAssumption DEF Registry!Entity, Registry!Indices, Registry!RegistryAssumption
<1> QED BY <1>1, <1>2, <1>3, <1>4, <1>5, <1>6, <1>7, <1>8

\* The entities listed are the valid ones.
LEMMA LiveListed ==
  ASSUME TableTypes, Placed, NEW e \in Registry!Entity
  PROVE  Registry!Valid(e) <=> \E i \in 1..Len(entities) : entities[i] = e
<1>1. ASSUME NEW i \in 1..Len(entities), entities[i] = e PROVE Registry!Valid(e)
  BY <1>1, TableFacts DEF Placed, Registry!Valid
<1>2. ASSUME Registry!Valid(e) PROVE \E i \in 1..Len(entities) : entities[i] = e
  <2>1. PICK x \in 1..Len(positions) : x = e.index /\ positions[x] # 0 /\ generations[x] = e.generation
    BY <1>2, TableFacts DEF Registry!Valid
  <2>2. PICK i \in 1..Len(entities) : i = positions[x] /\ entities[i].index = x
    BY <2>1 DEF Placed
  <2>3. entities[i].generation = generations[x]
    BY <2>2 DEF Placed
  <2>4. entities[i] = e
    BY <2>1, <2>2, <2>3, TableFacts
  <2> QED BY <2>4
<1> QED BY <1>1, <1>2

LEMMA CreateTable ==
  ASSUME TableInv, Registry!Create
  PROVE  TableInv' /\ \A f \in Registry!Entity : Registry!Valid(f) => Registry!Valid(f)'
<1>0. PICK n \in Nat, k \in Nat : n = Len(generations) /\ k = Len(entities)
  BY TableFacts DEF TableInv
<1>1. CASE freeList # << >>
  <2>0. PICK d \in Nat \ {0} : d = Len(freeList)
    BY <1>1, Shorter DEF TableInv, TableTypes
  <2>1. PICK x \in 1..n : x = freeList[d] /\ positions[x] = 0
    BY <1>0, <2>0, TableFacts DEF TableInv, FreeExact
  <2>2. PICK e \in Registry!Entity : e = [index |-> x, generation |-> generations[x]]
    BY <1>0, <2>1, TableFacts DEF TableInv, Registry!Entity
  <2>3. /\ entities' = Append(entities, e) /\ positions' = [positions EXCEPT ![x] = k + 1]
        /\ freeList' = SubSeq(freeList, 1, d - 1)
        /\ generations' = generations /\ dead' = dead
    BY <1>0, <1>1, <2>0, <2>1, <2>2 DEF Registry!Create
  <2>4. /\ entities' \in Seq(Registry!Entity) /\ Len(entities') = k + 1 /\ entities'[k + 1] = e
        /\ \A i \in 1..k : entities'[i] = entities[i]
    BY <1>0, <2>3, AppendProperties DEF TableInv, TableTypes
  <2>5. /\ positions' \in Seq(Nat) /\ Len(positions') = n
        /\ \A y \in 1..n : positions'[y] = IF y = x THEN k + 1 ELSE positions[y]
    BY <1>0, <2>1, <2>3, ExceptSeq DEF TableInv, TableTypes
  <2>6. /\ freeList' \in Seq(1..n) /\ Len(freeList') = d - 1
        /\ \A i \in 1..(d - 1) : freeList'[i] = freeList[i]
    BY <1>0, <1>1, <2>0, <2>3, Shorter DEF TableInv, TableTypes
  <2>7. ASSUME NEW f \in Registry!Entity, Registry!Valid(f) PROVE Registry!Valid(f)'
    BY <1>0, <2>3, <2>5, <2>7, TableFacts DEF Registry!Valid, TableInv
  <2>8. TableTypes'
    BY <1>0, <2>3, <2>4, <2>5, <2>6 DEF TableInv, TableTypes
  <2>9. Placed'
    <3>1. ASSUME NEW i \in 1..(k + 1)
          PROVE  /\ entities'[i].index \in 1..n /\ positions'[entities'[i].index] = i
                 /\ generations[entities'[i].index] = entities'[i].generation
      <4>1. CASE i \in 1..k
        <5>1. PICK f \in Registry!Entity : /\ f = entities[i] /\ f.index \in 1..n /\ positions[f.index] = i
                                           /\ generations[f.index] = f.generation
          BY <1>0, <4>1, TableFacts DEF TableInv, Placed
        <5>2. f.index # x
          BY <2>1, <4>1, <5>1
        <5> QED BY <2>4, <2>5, <4>1, <5>1, <5>2
      <4>2. CASE i = k + 1
        BY <2>1, <2>2, <2>4, <2>5, <4>2
      <4> QED BY <4>1, <4>2
    <3>2. ASSUME NEW y \in 1..n, positions'[y] # 0
          PROVE  positions'[y] \in 1..(k + 1) /\ entities'[positions'[y]].index = y
      <4>1. CASE y = x
        BY <2>2, <2>4, <2>5, <4>1
      <4>2. CASE y # x
        <5>1. positions[y] \in 1..k /\ entities[positions[y]].index = y
          BY <1>0, <2>5, <3>2, <4>2, TableFacts DEF TableInv, Placed
        <5> QED BY <2>4, <2>5, <4>2, <5>1
      <4> QED BY <4>1, <4>2
    <3> QED BY <1>0, <2>3, <2>4, <2>5, <3>1, <3>2 DEF Placed
  <2>10. FreeExact'
    <3>1. \A i, j \in 1..(d - 1) : freeList'[i] = freeList'[j] => i = j
      BY <2>0, <2>6 DEF TableInv, FreeExact
    <3>2. ASSUME NEW i \in 1..(d - 1) PROVE positions'[freeList'[i]] = 0
      <4>1. freeList[i] \in 1..n /\ freeList[i] # x /\ positions[freeList[i]] = 0
        BY <1>0, <2>0, <2>1, TableFacts DEF TableInv, FreeExact
      <4> QED BY <2>5, <2>6, <4>1
    <3>3. ASSUME NEW y \in 1..n, positions'[y] = 0
          PROVE  \E i \in 1..(d - 1) : freeList'[i] = y
      <4>1. y # x /\ positions[y] = 0
        BY <2>5, <3>3
      <4>2. PICK i \in 1..d : freeList[i] = y
        BY <1>0, <2>0, <4>1, TableFacts DEF TableInv, FreeExact
      <4>3. i # d
        BY <2>1, <4>1, <4>2
      <4> QED BY <2>6, <4>2, <4>3
    <3> QED BY <2>5, <2>6, <3>1, <3>2, <3>3 DEF FreeExact
  <2>11. Past'
    BY <2>3 DEF TableInv, Past
  <2> QED BY <2>7, <2>8, <2>9, <2>10, <2>11 DEF TableInv
<1>2. CASE freeList = << >>
  <2>0. n + 1 <= MaxEntities /\ n + 1 \in Registry!Indices
    BY <1>0, <1>2, SceneAssumption DEF Registry!Create, Registry!Indices, Registry!RegistryAssumption
  <2>2. PICK e \in Registry!Entity : e = [index |-> n + 1, generation |-> 0]
    <3>1. 0 \in 0..MaxAges
      BY SceneAssumption DEF Registry!RegistryAssumption
    <3>2. [index |-> n + 1, generation |-> 0] \in Registry!Entity
      BY <2>0, <3>1 DEF Registry!Entity
    <3> QED BY <3>2
  <2>3. /\ entities' = Append(entities, e) /\ positions' = Append(positions, k + 1)
        /\ generations' = Append(generations, 0)
        /\ freeList' = freeList /\ dead' = dead
    BY <1>0, <1>2, <2>2 DEF Registry!Create
  <2>4. /\ entities' \in Seq(Registry!Entity) /\ Len(entities') = k + 1 /\ entities'[k + 1] = e
        /\ \A i \in 1..k : entities'[i] = entities[i]
    BY <1>0, <2>3, AppendProperties DEF TableInv, TableTypes
  <2>5. /\ positions' \in Seq(Nat) /\ Len(positions') = n + 1 /\ positions'[n + 1] = k + 1
        /\ \A y \in 1..n : positions'[y] = positions[y]
    <3>1. positions \in Seq(Nat) /\ Len(positions) = n
      BY <1>0 DEF TableInv, TableTypes
    <3> QED BY <2>3, <3>1, AppendProperties
  <2>6. /\ generations' \in Seq(0..MaxAges) /\ Len(generations') = n + 1
        /\ generations'[n + 1] = 0
        /\ \A y \in 1..n : generations'[y] = generations[y]
    <3>1. 0 \in 0..MaxAges
      BY SceneAssumption DEF Registry!RegistryAssumption
    <3> QED BY <1>0, <2>3, <3>1, AppendProperties DEF TableInv, TableTypes
  <2>7. ASSUME NEW f \in Registry!Entity, Registry!Valid(f) PROVE Registry!Valid(f)'
    <3>1. f.index \in 1..n /\ positions[f.index] # 0 /\ generations[f.index] = f.generation
      BY <1>0, <2>7, TableFacts DEF Registry!Valid, TableInv
    <3> QED BY <2>5, <2>6, <3>1 DEF Registry!Valid
  <2>10. FreeExact' /\ freeList' = << >> /\ \A y \in 1..n : positions[y] # 0
    <3>1. Len(freeList) = 0
      BY <1>2
    <3>2. \A y \in 1..n : positions[y] # 0
      BY <1>0, <3>1, TableFacts DEF TableInv, FreeExact
    <3>3. \A y \in 1..(n + 1) : positions'[y] # 0
      BY <2>5, <3>2
    <3> QED BY <1>2, <2>3, <2>5, <3>1, <3>2, <3>3 DEF FreeExact
  <2>8. TableTypes'
    <3>1. freeList' \in Seq(1..(n + 1))
      BY <2>10
    <3>2. Len(positions') = Len(generations') /\ Len(generations') = n + 1 /\ n + 1 <= MaxEntities
      BY <2>0, <2>5, <2>6
    <3>3. dead' \subseteq Registry!Entity
      BY <2>3 DEF TableInv, TableTypes
    <3> QED BY <2>4, <2>5, <2>6, <3>1, <3>2, <3>3 DEF TableTypes
  <2>9. Placed'
    <3>1. ASSUME NEW i \in 1..(k + 1)
          PROVE  /\ entities'[i].index \in 1..(n + 1) /\ positions'[entities'[i].index] = i
                 /\ generations'[entities'[i].index] = entities'[i].generation
      <4>1. CASE i \in 1..k
        <5>1. PICK f \in Registry!Entity : /\ f = entities[i] /\ f.index \in 1..n /\ positions[f.index] = i
                                           /\ generations[f.index] = f.generation
          BY <1>0, <4>1, TableFacts DEF TableInv, Placed
        <5> QED BY <2>4, <2>5, <2>6, <4>1, <5>1
      <4>2. CASE i = k + 1
        BY <2>2, <2>4, <2>5, <2>6, <4>2
      <4> QED BY <4>1, <4>2
    <3>2. ASSUME NEW y \in 1..(n + 1)
          PROVE  positions'[y] \in 1..(k + 1) /\ entities'[positions'[y]].index = y
      <4>1. CASE y = n + 1
        BY <2>2, <2>4, <2>5, <4>1
      <4>2. CASE y # n + 1
        <5>1. positions[y] \in 1..k /\ entities[positions[y]].index = y
          <6>1. y \in 1..n /\ positions[y] # 0
            BY <2>10, <4>2
          <6>2. Len(positions) = n
            BY <1>0 DEF TableInv, TableTypes
          <6>3. \A z \in 1..n : positions[z] # 0 => /\ positions[z] \in 1..k
                                                   /\ entities[positions[z]].index = z
            BY <1>0, <6>2 DEF TableInv, Placed
          <6> QED BY <6>1, <6>3
        <5>2. PICK i \in 1..k : i = positions[y]
          BY <5>1
        <5>3. y \in 1..n /\ positions'[y] = i
          BY <2>5, <4>2, <5>2
        <5>4. i \in 1..(k + 1) /\ entities'[i] = entities[i]
          BY <2>4
        <5> QED BY <5>1, <5>2, <5>3, <5>4
      <4> QED BY <4>1, <4>2
    <3> QED BY <2>4, <2>5, <2>6, <3>1, <3>2 DEF Placed
  <2>11. Past'
    <3> SUFFICES ASSUME NEW f \in dead
                 PROVE  f.index <= n + 1 /\ f.generation < generations'[f.index]
      BY <2>3, <2>6 DEF Past
    <3>1. f.index \in 1..n /\ f.generation < generations[f.index]
      BY <1>0, TableFacts DEF TableInv, Past, TableTypes
    <3> QED BY <2>6, <3>1
  <2> QED BY <2>7, <2>8, <2>9, <2>10, <2>11 DEF TableInv
<1> QED BY <1>1, <1>2


LEMMA DestroyTable ==
  ASSUME TableInv, NEW e \in Registry!Entity, Registry!Destroy(e)
  PROVE  TableInv' /\ \A f \in Registry!Entity : Registry!Valid(f) /\ f # e => Registry!Valid(f)'
<1>0. PICK n \in Nat, k \in Nat : n = Len(generations) /\ k = Len(entities)
  BY TableFacts DEF TableInv
<1>1. PICK x \in 1..n : x = e.index /\ positions[x] # 0 /\ generations[x] = e.generation
  BY <1>0, TableFacts DEF TableInv, Registry!Destroy, Registry!Valid
<1>2. PICK p \in 1..k : p = positions[x] /\ entities[p] = e
  <2>1. PICK i \in 1..k : i = positions[x] /\ entities[i].index = x
    BY <1>0, <1>1 DEF TableInv, TableTypes, Placed
  <2>2. entities[i].generation = generations[x] /\ entities[i] \in Registry!Entity
    BY <1>0, <2>1, TableFacts DEF TableInv, Placed
  <2>3. entities[i] = e
    BY <1>1, <2>1, <2>2, TableFacts DEF TableInv
  <2> QED BY <2>1, <2>3
<1>3. PICK m \in 1..n : m = entities[k].index /\ positions[m] = k
  BY <1>0, <1>2 DEF TableInv, Placed
<1>4. m = x <=> p = k
  BY <1>1, <1>2, <1>3
<1>5. PICK g \in 0..MaxAges : g = generations[x] /\ g + 1 \in 0..MaxAges
  <2>1. generations[x] \in 0..MaxAges /\ generations[x] < MaxAges
    BY <1>0, <1>1, TableFacts DEF TableInv, Registry!Destroy
  <2> QED BY <2>1, SceneAssumption DEF Registry!RegistryAssumption
<1>6. /\ entities' = Swapped(entities, p)
      /\ positions' = [[positions EXCEPT ![m] = p] EXCEPT ![x] = 0]
      /\ generations' = [generations EXCEPT ![x] = g + 1]
      /\ freeList' = Append(freeList, x)
      /\ dead' = dead \union {e}
  BY <1>0, <1>1, <1>2, <1>3, <1>5 DEF Registry!Destroy, Registry!PositionsWithout, Swapped
<1>7. /\ entities' \in Seq(Registry!Entity) /\ Len(entities') = k - 1
      /\ \A i \in 1..(k - 1) : entities'[i] = IF i = p THEN entities[k] ELSE entities[i]
  <2>1. entities \in Seq(Registry!Entity) /\ p \in 1..Len(entities)
    BY <1>0 DEF TableInv, TableTypes
  <2> QED BY <1>0, <1>6, <2>1, SwapOut
<1>8. /\ positions' \in Seq(Nat) /\ Len(positions') = n
      /\ \A y \in 1..n : positions'[y] = IF y = x THEN 0 ELSE IF y = m THEN p ELSE positions[y]
  <2>1. PICK q : q = [positions EXCEPT ![m] = p]
    OBVIOUS
  <2>2. positions \in Seq(Nat) /\ Len(positions) = n
    BY <1>0 DEF TableInv, TableTypes
  <2>3. q \in Seq(Nat) /\ Len(q) = n /\ \A y \in 1..n : q[y] = IF y = m THEN p ELSE positions[y]
    BY <2>1, <2>2, ExceptSeq
  <2>4. positions' = [q EXCEPT ![x] = 0]
    BY <1>6, <2>1
  <2> QED BY <2>3, <2>4, ExceptSeq
<1>9. /\ generations' \in Seq(0..MaxAges) /\ Len(generations') = n
      /\ \A y \in 1..n : generations'[y] = IF y = x THEN g + 1 ELSE generations[y]
  <2>1. generations \in Seq(0..MaxAges)
    BY DEF TableInv, TableTypes
  <2> QED BY <1>0, <1>5, <1>6, <2>1, ExceptSeq
<1>10. PICK d \in Nat : /\ d = Len(freeList) /\ freeList' \in Seq(1..n) /\ Len(freeList') = d + 1
                        /\ freeList'[d + 1] = x /\ \A i \in 1..d : freeList'[i] = freeList[i]
  <2>1. freeList \in Seq(1..n)
    BY <1>0 DEF TableInv, TableTypes
  <2>2. PICK d \in Nat : d = Len(freeList)
    BY TableFacts DEF TableInv
  <2> QED BY <1>6, <2>1, <2>2, AppendProperties
<1>11. ASSUME NEW f \in Registry!Entity, Registry!Valid(f), f # e PROVE Registry!Valid(f)'
  <2>1. f.index \in 1..n /\ positions[f.index] # 0 /\ generations[f.index] = f.generation
    BY <1>0, <1>11, TableFacts DEF Registry!Valid, TableInv
  <2>2. f.index # x
    BY <1>1, <1>11, <2>1, TableFacts DEF TableInv
  <2> QED BY <1>8, <1>9, <2>1, <2>2 DEF Registry!Valid
<1>12. TableTypes'
  <2>1. dead' \subseteq Registry!Entity /\ n <= MaxEntities
    BY <1>0, <1>6 DEF TableInv, TableTypes
  <2> QED BY <1>7, <1>8, <1>9, <1>10, <2>1 DEF TableTypes
<1>13. Placed'
  <2>1. ASSUME NEW i \in 1..(k - 1)
        PROVE  /\ entities'[i].index \in 1..n /\ positions'[entities'[i].index] = i
               /\ generations'[entities'[i].index] = entities'[i].generation
    <3>1. CASE i = p
      <4>1. m # x
        BY <1>4, <3>1
      <4>2. generations[m] = entities[k].generation
        BY <1>0, <1>2, <1>3 DEF TableInv, Placed
      <4> QED BY <1>3, <1>7, <1>8, <1>9, <3>1, <4>1, <4>2
    <3>2. CASE i # p
      <4>1. PICK f \in Registry!Entity : /\ f = entities[i] /\ f.index \in 1..n /\ positions[f.index] = i
                                         /\ generations[f.index] = f.generation
        BY <1>0, TableFacts DEF TableInv, Placed
      <4>2. f.index # x /\ f.index # m
        BY <1>2, <1>3, <3>2, <4>1
      <4> QED BY <1>7, <1>8, <1>9, <3>2, <4>1, <4>2
    <3> QED BY <3>1, <3>2
  <2>2. ASSUME NEW y \in 1..n, positions'[y] # 0
        PROVE  positions'[y] \in 1..(k - 1) /\ entities'[positions'[y]].index = y
    <3>1. y # x
      BY <1>8, <2>2
    <3>2. CASE y = m
      <4>1. p # k /\ positions'[y] = p
        BY <1>4, <1>8, <3>1, <3>2
      <4> QED BY <1>3, <1>7, <3>2, <4>1
    <3>3. CASE y # m
      <4>1. positions'[y] = positions[y]
        BY <1>8, <3>1, <3>3
      <4>2. positions[y] \in 1..k /\ entities[positions[y]].index = y
        <5>1. Len(positions) = n
          BY <1>0 DEF TableInv, TableTypes
        <5> QED BY <1>0, <2>2, <4>1, <5>1 DEF TableInv, Placed
      <4>3. positions[y] # p /\ positions[y] # k
        BY <1>1, <1>2, <1>3, <3>1, <3>3, <4>2
      <4> QED BY <1>7, <4>1, <4>2, <4>3
    <3> QED BY <3>2, <3>3
  <2> QED BY <1>7, <1>8, <1>9, <2>1, <2>2 DEF Placed
<1>14. FreeExact'
  <2>0. \A i \in 1..d : freeList[i] \in 1..n /\ positions[freeList[i]] = 0 /\ freeList[i] # x
    BY <1>0, <1>1, <1>10, TableFacts DEF TableInv, FreeExact
  <2>1. ASSUME NEW i \in 1..(d + 1), NEW j \in 1..(d + 1), freeList'[i] = freeList'[j]
        PROVE  i = j
    <3>1. CASE i \in 1..d /\ j \in 1..d
      BY <1>10, <2>1, <3>1 DEF TableInv, FreeExact
    <3>2. CASE i = d + 1 /\ j \in 1..d
      BY <1>10, <2>0, <2>1, <3>2
    <3>3. CASE i \in 1..d /\ j = d + 1
      BY <1>10, <2>0, <2>1, <3>3
    <3> QED BY <3>1, <3>2, <3>3
  <2>2. ASSUME NEW i \in 1..(d + 1) PROVE positions'[freeList'[i]] = 0
    <3>1. CASE i \in 1..d
      <4>1. freeList[i] # m
        BY <1>2, <1>3, <2>0, <3>1
      <4> QED BY <1>8, <1>10, <2>0, <3>1, <4>1
    <3>2. CASE i = d + 1
      BY <1>8, <1>10, <3>2
    <3> QED BY <3>1, <3>2
  <2>3. ASSUME NEW y \in 1..n, positions'[y] = 0
        PROVE  \E i \in 1..(d + 1) : freeList'[i] = y
    <3>1. CASE y = x
      BY <1>10, <3>1
    <3>2. CASE y # x
      <4>1. positions[y] = 0
        BY <1>8, <2>3, <3>2
      <4>2. PICK i \in 1..d : freeList[i] = y
        BY <1>0, <1>10, <4>1, TableFacts DEF TableInv, FreeExact
      <4> QED BY <1>10, <4>2
    <3> QED BY <3>1, <3>2
  <2> QED BY <1>8, <1>10, <2>1, <2>2, <2>3 DEF FreeExact
<1>15. Past'
  <2> SUFFICES ASSUME NEW f \in dead'
               PROVE  f.index <= n /\ f.generation < generations'[f.index]
    BY <1>9 DEF Past
  <2>1. CASE f = e
    BY <1>1, <1>5, <1>9, <2>1
  <2>2. CASE f # e
    <3>1. f \in dead /\ f \in Registry!Entity
      BY <1>6, <2>2 DEF TableInv, TableTypes
    <3>2. f.index \in 1..n /\ f.generation < generations[f.index] /\ f.generation \in Nat
      BY <1>0, <3>1, TableFacts DEF TableInv, Past
    <3> QED BY <1>5, <1>9, <3>2
  <2> QED BY <2>1, <2>2
<1> QED BY <1>11, <1>12, <1>13, <1>14, <1>15 DEF TableInv

LEMMA ClearTable ==
  ASSUME TableInv, Registry!Clear
  PROVE  TableInv'
<1>0. PICK n \in Nat, k \in Nat : n = Len(generations) /\ k = Len(entities)
  BY TableFacts DEF TableInv
<1>1. /\ DOMAIN generations = 1..n /\ DOMAIN positions = 1..n
      /\ \A x \in 1..n : generations[x] \in 0..MaxAges /\ generations[x] + 1 \in 0..MaxAges
  <2>1. DOMAIN generations = 1..n /\ DOMAIN positions = 1..n
    BY <1>0, TableFacts DEF TableInv
  <2>2. \A x \in 1..n : generations[x] \in 0..MaxAges /\ generations[x] < MaxAges
    BY <1>0, <2>1, TableFacts DEF TableInv, Registry!Clear
  <2> QED BY <2>1, <2>2, SceneAssumption DEF Registry!RegistryAssumption
<1>2. /\ generations' = [x \in 1..n |-> generations[x] + 1]
      /\ positions' = [x \in 1..n |-> 0] /\ freeList' = [x \in 1..n |-> x]
      /\ entities' = << >> /\ dead' = dead \union Registry!RangeOf(entities)
  BY <1>1 DEF Registry!Clear, Registry!NextGeneration
<1>3. /\ generations' \in Seq(0..MaxAges) /\ Len(generations') = n
      /\ positions' \in Seq(Nat) /\ Len(positions') = n
      /\ freeList' \in Seq(1..n) /\ Len(freeList') = n
      /\ entities' \in Seq(Registry!Entity) /\ Len(entities') = 0
  <2>1. generations' \in [1..n -> 0..MaxAges] /\ positions' \in [1..n -> Nat] /\ freeList' \in [1..n -> 1..n]
    BY <1>1, <1>2
  <2>2. generations' \in Seq(0..MaxAges) /\ Len(generations') = n
    <3>1. PICK S : S = 0..MaxAges
      OBVIOUS
    <3>2. generations' \in [1..n -> S]
      BY <2>1, <3>1
    <3>3. generations' \in Seq(S) /\ Len(generations') = n
      BY <3>2
    <3> QED BY <3>1, <3>3
  <2>3. positions' \in Seq(Nat) /\ Len(positions') = n
    BY <2>1
  <2>4. freeList' \in Seq(1..n) /\ Len(freeList') = n
    BY <2>1
  <2>5. entities' \in Seq(Registry!Entity) /\ Len(entities') = 0
    BY <1>2
  <2> QED BY <2>2, <2>3, <2>4, <2>5
<1>4. \A i \in 1..k : entities[i] \in Registry!Entity
  BY <1>0, TableFacts DEF TableInv
<1>5. Registry!RangeOf(entities) = {entities[i] : i \in 1..k}
  BY <1>0, TableFacts DEF TableInv, Registry!RangeOf
<1>6. TableTypes'
  <2>1. dead' \subseteq Registry!Entity /\ n <= MaxEntities
    BY <1>0, <1>2, <1>4, <1>5 DEF TableInv, TableTypes
  <2> QED BY <1>3, <2>1 DEF TableTypes
<1>7. Placed' /\ FreeExact'
  BY <1>2, <1>3 DEF Placed, FreeExact
<1>8. Past'
  <2> SUFFICES ASSUME NEW f \in dead'
               PROVE  f.index <= n /\ f.generation < generations'[f.index]
    BY <1>3 DEF Past
  <2>1. CASE f \in dead
    <3>1. f \in Registry!Entity
      BY <2>1 DEF TableInv, TableTypes
    <3>2. f.index \in 1..n /\ f.generation < generations[f.index] /\ f.generation \in Nat
      BY <1>0, <2>1, <3>1, TableFacts DEF TableInv, Past
    <3> QED BY <1>1, <1>2, <3>2
  <2>2. CASE f \notin dead
    <3>1. PICK i \in 1..k : f = entities[i]
      BY <1>2, <1>5, <2>2
    <3>2. f.index \in 1..n /\ f.generation = generations[f.index]
      BY <1>0, <3>1 DEF TableInv, Placed
    <3> QED BY <1>1, <1>2, <3>2
  <2> QED BY <2>1, <2>2
<1> QED BY <1>6, <1>7, <1>8 DEF TableInv


\* Each storage has valid entities only, and none before it is made.
Stored ==
    /\ storages \in [Components -> Storage]
    /\ \A c \in Components :
           /\ Exact(storages[c])
           /\ ~storages[c].made => storages[c].entities = << >>
           /\ \A f \in Registry!Entity : Registry!Contains(storages[c], f) => Registry!Valid(f)

LEMMA HasIs ==
  ASSUME Stored, NEW c \in Components, NEW f \in Registry!Entity
  PROVE  Registry!Has(c, f) <=> Registry!Contains(storages[c], f)
<1>1. ASSUME Registry!Contains(storages[c], f) PROVE storages[c].made /\ Registry!Valid(f)
  <2>1. storages[c] \in Storage /\ Exact(storages[c])
    BY DEF Stored
  <2>2. \E i \in 1..Len(storages[c].entities) : storages[c].entities[i] = f
    BY <1>1, <2>1, Listed
  <2>3. storages[c].entities # << >>
    BY <2>2
  <2>4. storages[c].made \in BOOLEAN
    BY <2>1 DEF Storage
  <2>5. ~storages[c].made => storages[c].entities = << >>
    BY DEF Stored
  <2>6. Registry!Valid(f)
    BY <1>1 DEF Stored
  <2> QED BY <2>3, <2>4, <2>5, <2>6
<1> QED BY <1>1 DEF Registry!Has

LEMMA UnmadeIsEmpty ==
  ASSUME Stored, NEW c \in Components, storages[c].entities = << >>
  PROVE  \A x \in Registry!Indices : storages[c].sparse[x] = 0
<1>1. Exact(storages[c]) /\ Len(storages[c].entities) = 0
  BY DEF Stored
<1> QED BY <1>1 DEF Exact

LEMMA EmptiedFacts ==
  ASSUME NEW s \in Storage
  PROVE  /\ Registry!Emptied(s) \in Storage /\ Exact(Registry!Emptied(s)) /\ Registry!Emptied(s).entities = << >>
         /\ \A f \in Registry!Entity : ~Registry!Contains(Registry!Emptied(s), f)
<1>1. PICK t : t = Registry!Emptied(s)
  OBVIOUS
<1>2. t.entities = << >> /\ t.sparse = [x \in Registry!Indices |-> 0] /\ t.made = s.made
  BY <1>1 DEF Registry!Emptied, Registry!Absent
<1>3. t \in Storage
  <2>1. t = [made |-> s.made, sparse |-> [x \in Registry!Indices |-> 0], entities |-> << >>]
    BY <1>1 DEF Registry!Emptied, Registry!Absent
  <2>2. s.made \in BOOLEAN /\ [x \in Registry!Indices |-> 0] \in [Registry!Indices -> Nat] /\ << >> \in Seq(Registry!Entity)
    BY DEF Storage
  <2> QED BY <2>1, <2>2 DEF Storage
<1> QED BY <1>1, <1>2, <1>3, EmptyStorage

\* What each operation leaves in the storages.
LEMMA StoreStep ==
  ASSUME TableInv, Stored,
         NEW t \in [Components -> Storage], storages' = t,
         \A c \in Components : Exact(t[c]) /\ (~t[c].made => t[c].entities = << >>),
         \A c \in Components, f \in Registry!Entity : Registry!Contains(t[c], f) => Registry!Valid(f)'
  PROVE  Stored'
BY DEF Stored

LEMMA StoreSame ==
  ASSUME TableInv, Stored, storages' = storages, \A f \in Registry!Entity : Registry!Valid(f) => Registry!Valid(f)'
  PROVE  Stored'
BY DEF Stored

LEMMA SameTable ==
  ASSUME TableInv, UNCHANGED Registry!table
  PROVE  \A f \in Registry!Entity : Registry!Valid(f)' <=> Registry!Valid(f)
BY DEF Registry!table, Registry!Valid

\* Destroying an entity takes it out of every storage.
LEMMA DestroyStores ==
  ASSUME TableInv, Stored, NEW e \in Registry!Entity, Registry!Destroy(e)
  PROVE  /\ Stored'
         /\ \A c \in Components, f \in Registry!Entity : Registry!Contains(storages[c], f) /\ f # e => Registry!Contains(storages'[c], f)
<1>1. PICK t : t = [c \in Components |-> Registry!Take(storages[c], e)]
  OBVIOUS
<1>2. storages' = t
  BY <1>1 DEF Registry!Destroy, Registry!StoragesWithout
<1>3. ASSUME NEW c \in Components
      PROVE  /\ t[c] \in Storage /\ Exact(t[c]) /\ (~t[c].made => t[c].entities = << >>)
             /\ \A f \in Registry!Entity : Registry!Contains(t[c], f) <=> f # e /\ Registry!Contains(storages[c], f)
  <2>1. PICK s \in Storage : s = storages[c] /\ Exact(s) /\ (~s.made => s.entities = << >>)
    BY DEF Stored
  <2>2. PICK u : u = Registry!Take(s, e)
    OBVIOUS
  <2>3. t[c] = u
    BY <1>1, <2>1, <2>2
  <2>4. u \in Storage /\ Exact(u) /\ \A f \in Registry!Entity : Registry!Contains(u, f) <=> f # e /\ Registry!Contains(s, f)
    BY <2>1, <2>2, TakeFacts
  <2>5. ~u.made => u.entities = << >>
    BY <2>1, <2>2 DEF Registry!Take
  <2> QED BY <2>1, <2>3, <2>4, <2>5
<1>4. t \in [Components -> Storage]
  BY <1>1, <1>3
<1>5. \A f \in Registry!Entity : Registry!Valid(f) /\ f # e => Registry!Valid(f)'
  BY DestroyTable
<1>6. \A c \in Components, f \in Registry!Entity : Registry!Contains(t[c], f) => Registry!Valid(f)'
  BY <1>3, <1>5 DEF Stored
<1>7. Stored'
  BY <1>2, <1>3, <1>4, <1>6, StoreStep
<1> QED BY <1>2, <1>3, <1>7

LEMMA ClearStores ==
  ASSUME TableInv, Stored, Registry!Clear
  PROVE  Stored'
<1>1. PICK t : t = [c \in Components |-> Registry!Emptied(storages[c])]
  OBVIOUS
<1>2. storages' = t
  BY <1>1 DEF Registry!Clear
<1>3. ASSUME NEW c \in Components
      PROVE  /\ t[c] \in Storage /\ Exact(t[c]) /\ t[c].entities = << >>
             /\ \A f \in Registry!Entity : ~Registry!Contains(t[c], f)
  <2>1. storages[c] \in Storage /\ t[c] = Registry!Emptied(storages[c])
    BY <1>1 DEF Stored
  <2> QED BY <2>1, EmptiedFacts
<1>4. t \in [Components -> Storage]
  BY <1>1, <1>3
<1> QED BY <1>2, <1>3, <1>4, StoreStep

\* One storage changes.
LEMMA OneStore ==
  ASSUME TableInv, Stored, UNCHANGED Registry!table, NEW c \in Components, NEW u \in Storage,
         storages' = [storages EXCEPT ![c] = u], Exact(u), ~u.made => u.entities = << >>,
         \A f \in Registry!Entity : Registry!Contains(u, f) => Registry!Valid(f)
  PROVE  Stored'
<1>1. PICK t : t = storages'
  OBVIOUS
<1>2. t \in [Components -> Storage] /\ \A a \in Components : t[a] = IF a = c THEN u ELSE storages[a]
  BY <1>1 DEF Stored
<1>3. \A a \in Components : Exact(t[a]) /\ (~t[a].made => t[a].entities = << >>)
  BY <1>2 DEF Stored
<1>4. \A a \in Components, f \in Registry!Entity : Registry!Contains(t[a], f) => Registry!Valid(f)
  BY <1>2 DEF Stored
<1>5. \A a \in Components, f \in Registry!Entity : Registry!Contains(t[a], f) => Registry!Valid(f)'
  BY <1>4, SameTable
<1> QED BY <1>1, <1>2, <1>3, <1>5, StoreStep

LEMMA EmplaceStores ==
  ASSUME TableInv, Stored, NEW c \in Components, NEW e \in Registry!Entity, Registry!Emplace(c, e)
  PROVE  /\ Stored'
         /\ \A a \in Components, f \in Registry!Entity : Registry!Contains(storages[a], f) => Registry!Contains(storages'[a], f)
<1>1. PICK s \in Storage : s = storages[c] /\ Exact(s)
  BY DEF Stored
<1>2. Registry!Valid(e) /\ ~Registry!Contains(s, e)
  BY <1>1, HasIs DEF Registry!Emplace
<1>3. s.sparse[e.index] = 0
  <2> SUFFICES ASSUME s.sparse[e.index] # 0 PROVE FALSE
    OBVIOUS
  <2>0. e.index \in Registry!Indices
    BY DEF Registry!Entity
  <2>1. PICK i \in 1..Len(s.entities) : i = s.sparse[e.index] /\ s.entities[i].index = e.index
    BY <1>1, <2>0 DEF Exact
  <2>2. PICK f \in Registry!Entity : f = s.entities[i]
    BY StorageTypes
  <2>3. Registry!Contains(s, f)
    BY <1>1, <2>2, Listed
  <2>4. Registry!Valid(f)
    BY <1>1, <2>3 DEF Stored
  <2>5. f.generation = e.generation /\ f.index = e.index
    BY <1>2, <2>1, <2>2, <2>4 DEF Registry!Valid
  <2>6. f = e
    BY <2>5, TableFacts DEF TableInv
  <2> QED BY <1>2, <2>3, <2>6
<1>4. PICK u : u = Registry!Put(s, e)
  OBVIOUS
<1>5. u \in Storage /\ Exact(u) /\ \A f \in Registry!Entity : Registry!Contains(u, f) <=> f = e \/ Registry!Contains(s, f)
  BY <1>1, <1>3, <1>4, PutFacts
<1>6. u.made
  BY <1>4 DEF Registry!Put
<1>7. storages' = [storages EXCEPT ![c] = u] /\ UNCHANGED Registry!table
  BY <1>1, <1>4 DEF Registry!Emplace
<1>8. \A f \in Registry!Entity : Registry!Contains(u, f) => Registry!Valid(f)
  BY <1>1, <1>2, <1>5 DEF Stored
<1>9. Stored'
  BY <1>5, <1>6, <1>7, <1>8, OneStore
<1>10. \A a \in Components : storages'[a] = IF a = c THEN u ELSE storages[a]
  BY <1>7 DEF Stored
<1> QED BY <1>1, <1>5, <1>9, <1>10

LEMMA RemoveStores ==
  ASSUME TableInv, Stored, NEW c \in Components, NEW e \in Registry!Entity, Registry!Remove(c, e)
  PROVE  /\ Stored'
         /\ \A a \in Components, f \in Registry!Entity :
                Registry!Contains(storages[a], f) /\ (a # c \/ f # e) => Registry!Contains(storages'[a], f)
<1>1. PICK s \in Storage : s = storages[c] /\ Exact(s) /\ (~s.made => s.entities = << >>)
  BY DEF Stored
<1>4. PICK u : u = Registry!Take(s, e)
  OBVIOUS
<1>5. u \in Storage /\ Exact(u) /\ \A f \in Registry!Entity : Registry!Contains(u, f) <=> f # e /\ Registry!Contains(s, f)
  BY <1>1, <1>4, TakeFacts
<1>6. ~u.made => u.entities = << >>
  BY <1>1, <1>4 DEF Registry!Take
<1>7. storages' = [storages EXCEPT ![c] = u] /\ UNCHANGED Registry!table
  BY <1>1, <1>4 DEF Registry!Remove
<1>8. \A f \in Registry!Entity : Registry!Contains(u, f) => Registry!Valid(f)
  BY <1>1, <1>5 DEF Stored
<1>9. Stored'
  BY <1>5, <1>6, <1>7, <1>8, OneStore
<1>10. \A a \in Components : storages'[a] = IF a = c THEN u ELSE storages[a]
  BY <1>7 DEF Stored
<1> QED BY <1>1, <1>5, <1>9, <1>10

LEMMA ClearComponentStores ==
  ASSUME TableInv, Stored, NEW c \in Components, Registry!ClearComponent(c)
  PROVE  /\ Stored'
         /\ \A a \in Components, f \in Registry!Entity :
                Registry!Contains(storages[a], f) /\ a # c => Registry!Contains(storages'[a], f)
<1>1. PICK s \in Storage : s = storages[c]
  BY DEF Stored
<1>4. PICK u : u = Registry!Emptied(s)
  OBVIOUS
<1>5. u \in Storage /\ Exact(u) /\ u.entities = << >> /\ \A f \in Registry!Entity : ~Registry!Contains(u, f)
  BY <1>1, <1>4, EmptiedFacts
<1>7. storages' = [storages EXCEPT ![c] = u] /\ UNCHANGED Registry!table
  BY <1>1, <1>4 DEF Registry!ClearComponent
<1>9. Stored'
  BY <1>5, <1>7, OneStore
<1>10. \A a \in Components : storages'[a] = IF a = c THEN u ELSE storages[a]
  BY <1>7 DEF Stored
<1> QED BY <1>9, <1>10


\* What a view has visited lies behind it, what it owes a visit before it.
ViewInv ==
    /\ view \in ViewRecord
    /\ Distinct(view.list) /\ Distinct(view.visited)
    /\ \A i \in 1..Len(view.visited) :
           \E j \in 1..Len(view.list) : j < view.at /\ view.list[j] = view.visited[i]
    /\ \A f \in view.due :
           /\ \A c \in view.wanted : Registry!Contains(storages[c], f)
           /\ \E j \in 1..Len(view.list) : j >= view.at /\ view.list[j] = f

LEMMA ViewTypes ==
  ASSUME view \in ViewRecord
  PROVE  /\ view.open \in BOOLEAN /\ view.wanted \subseteq Components /\ view.due \subseteq Registry!Entity
         /\ view.at \in Nat \ {0} /\ view.list \in Seq(Registry!Entity) /\ view.visited \in Seq(Registry!Entity)
         /\ Len(view.list) \in Nat /\ DOMAIN view.list = 1..Len(view.list)
         /\ Len(view.visited) \in Nat /\ DOMAIN view.visited = 1..Len(view.visited)
         /\ \A i \in 1..Len(view.list) : view.list[i] \in Registry!Entity
<1>1. /\ view.open \in BOOLEAN /\ view.wanted \subseteq Components /\ view.due \subseteq Registry!Entity
      /\ view.at \in Nat \ {0} /\ view.list \in Seq(Registry!Entity) /\ view.visited \in Seq(Registry!Entity)
  BY DEF ViewRecord
<1>2. \A i \in 1..Len(view.list) : view.list[i] \in Registry!Entity
  BY <1>1, ElementOfSeq
<1> QED BY <1>1, <1>2, LenProperties

\* The same view, with less to visit.
Lessened ==
    /\ view' \in ViewRecord
    /\ view'.open = view.open /\ view'.wanted = view.wanted /\ view'.list = view.list
    /\ view'.at = view.at /\ view'.visited = view.visited

LEMMA DueChanges ==
  ASSUME view \in ViewRecord, NEW D \in SUBSET Registry!Entity, view' = [view EXCEPT !.due = D]
  PROVE  Lessened /\ view'.due = D
BY DEF ViewRecord, Lessened

LEMMA ViewKept ==
  ASSUME ViewInv, Lessened, view'.due \subseteq view.due,
         \A f \in view'.due : \A c \in view.wanted : Registry!Contains(storages'[c], f)
  PROVE  ViewInv'
<1>1. view' \in ViewRecord /\ Distinct(view'.list) /\ Distinct(view'.visited)
  BY DEF ViewInv, Lessened
<1>2. \A i \in 1..Len(view'.visited) :
          \E j \in 1..Len(view'.list) : j < view'.at /\ view'.list[j] = view'.visited[i]
  BY DEF ViewInv, Lessened
<1>3. ASSUME NEW f \in view'.due
      PROVE  /\ \A c \in view'.wanted : Registry!Contains(storages'[c], f)
             /\ \E j \in 1..Len(view'.list) : j >= view'.at /\ view'.list[j] = f
  <2>1. f \in view.due
    BY <1>3
  <2>2. \E j \in 1..Len(view.list) : j >= view.at /\ view.list[j] = f
    BY <2>1 DEF ViewInv
  <2> QED BY <2>2 DEF Lessened
<1> QED BY <1>1, <1>2, <1>3 DEF ViewInv

LEMMA ViewSame ==
  ASSUME ViewInv, view' = view, \A c \in Components, f \in Registry!Entity : Registry!Contains(storages[c], f) => Registry!Contains(storages'[c], f)
  PROVE  ViewInv'
<1>1. Lessened /\ view'.due \subseteq view.due
  BY DEF ViewInv, Lessened
<1>2. \A f \in view'.due : \A c \in view.wanted : Registry!Contains(storages'[c], f)
  <2>1. view.due \subseteq Registry!Entity /\ view.wanted \subseteq Components
    BY ViewTypes DEF ViewInv
  <2> QED BY <2>1 DEF ViewInv
<1> QED BY <1>1, <1>2, ViewKept

RegistryInv == TableInv /\ Stored /\ ViewInv

LEMMA RegistryInit == Registry!Init => RegistryInv
<1> SUFFICES ASSUME Registry!Init PROVE RegistryInv
  OBVIOUS
<1>1. TableInv
  <2>1. /\ generations \in Seq(0..MaxAges) /\ Len(generations) = 0 /\ positions \in Seq(Nat)
        /\ Len(positions) = 0 /\ entities \in Seq(Registry!Entity) /\ Len(entities) = 0
        /\ freeList \in Seq(1..Len(generations)) /\ Len(freeList) = 0 /\ dead = {}
    BY DEF Registry!Init
  <2>2. TableTypes
    BY <2>1, SceneAssumption DEF TableTypes, Registry!RegistryAssumption
  <2> QED BY <2>1, <2>2 DEF TableInv, Placed, FreeExact, Past
<1>2. Stored
  <2>1. PICK a : a = Registry!Absent
    OBVIOUS
  <2>2. a.entities = << >> /\ a.sparse = [i \in Registry!Indices |-> 0] /\ a.made \in BOOLEAN
    BY <2>1 DEF Registry!Absent
  <2>3. a \in Storage
    BY <2>1 DEF Storage, Registry!Absent
  <2>4. Exact(a) /\ \A f \in Registry!Entity : ~Registry!Contains(a, f)
    BY <2>2, EmptyStorage
  <2>5. storages = [c \in Components |-> a]
    BY <2>1 DEF Registry!Init
  <2> QED BY <2>2, <2>3, <2>4, <2>5 DEF Stored
<1>3. ViewInv
  <2>1. view = [open |-> FALSE, wanted |-> {}, list |-> << >>, at |-> 1, visited |-> << >>, due |-> {}]
    BY DEF Registry!Init, Registry!NoView
  <2>2. view \in ViewRecord
    BY <2>1 DEF ViewRecord
  <2> QED BY <2>1, <2>2 DEF ViewInv, Distinct
<1> QED BY <1>1, <1>2, <1>3 DEF RegistryInv

LEMMA NoViewInv ==
  ASSUME view' = Registry!NoView
  PROVE  ViewInv'
<1>1. view' = [open |-> FALSE, wanted |-> {}, list |-> << >>, at |-> 1, visited |-> << >>, due |-> {}]
  BY DEF Registry!NoView
<1>2. view' \in ViewRecord
  BY <1>1 DEF ViewRecord
<1> QED BY <1>1, <1>2 DEF ViewInv, Distinct

LEMMA ListDistinct ==
  ASSUME NEW s \in Storage, Exact(s)
  PROVE  Distinct(s.entities)
BY StorageTypes DEF Exact, Distinct

LEMMA BeginView ==
  ASSUME RegistryInv, NEW wanted \in SUBSET Components, wanted # {}, Registry!Begin(wanted)
  PROVE  ViewInv'
<1>1. PICK lead \in wanted :
          view' = [open |-> TRUE, wanted |-> wanted,
                   list |-> IF \A c \in wanted : storages[c].made
                            THEN storages[lead].entities ELSE << >>,
                   at |-> 1, visited |-> << >>,
                   due |-> {e \in Registry!RangeOf(entities) : Registry!AllOf(wanted, e)}]
  BY DEF Registry!Begin, Registry!Leads
<1>2. PICK s \in Storage : s = storages[lead] /\ Exact(s)
  BY DEF RegistryInv, Stored
<1>3. PICK list \in Seq(Registry!Entity) :
          list = (IF \A c \in wanted : storages[c].made THEN s.entities ELSE << >>) /\ Distinct(list)
  <2>1. s.entities \in Seq(Registry!Entity) /\ Distinct(s.entities)
    BY <1>2, ListDistinct, StorageTypes
  <2>2. << >> \in Seq(Registry!Entity) /\ Distinct(<< >>)
    BY DEF Distinct
  <2> QED BY <2>1, <2>2
<1>4. PICK due \in SUBSET Registry!Entity : due = {e \in Registry!RangeOf(entities) : Registry!AllOf(wanted, e)}
  <2>1. Registry!RangeOf(entities) \subseteq Registry!Entity
    BY TableFacts DEF RegistryInv, TableInv, Registry!RangeOf
  <2> QED BY <2>1
<1>5. /\ view'.wanted = wanted /\ view'.list = list /\ view'.at = 1
      /\ view'.visited = << >> /\ view'.due = due
  BY <1>1, <1>2, <1>3, <1>4
<1>6. view' \in ViewRecord
  <2>1. view' = [open |-> TRUE, wanted |-> wanted, list |-> list, at |-> 1, visited |-> << >>, due |-> due]
    BY <1>1, <1>2, <1>3, <1>4
  <2> QED BY <2>1 DEF ViewRecord
<1>7. storages' = storages
  BY DEF Registry!Begin
<1>8. ASSUME NEW f \in due
      PROVE  /\ \A c \in wanted : Registry!Contains(storages[c], f)
             /\ \E j \in 1..Len(list) : j >= 1 /\ list[j] = f
  <2>1. f \in Registry!Entity /\ \A c \in wanted : c \in Components /\ Registry!Has(c, f)
    BY <1>4, <1>8 DEF Registry!AllOf
  <2>2. \A c \in wanted : Registry!Contains(storages[c], f) /\ storages[c].made
    BY <2>1 DEF Registry!Has
  <2>3. list = s.entities
    BY <1>3, <2>2
  <2>4. PICK j \in 1..Len(s.entities) : s.entities[j] = f
    BY <1>2, <2>1, <2>2, Listed
  <2>5. Len(s.entities) \in Nat
    BY StorageTypes
  <2> QED BY <2>2, <2>3, <2>4, <2>5
<1>9. Distinct(view'.visited) /\ Len(view'.visited) = 0
  BY <1>5 DEF Distinct
<1> QED BY <1>3, <1>5, <1>6, <1>7, <1>8, <1>9 DEF ViewInv

LEMMA VisitView ==
  ASSUME RegistryInv, Registry!Visit
  PROVE  ViewInv'
<1>1. PICK i \in view.at..Len(view.list) :
          /\ \A j \in view.at..(i - 1) : ~Registry!AllOf(view.wanted, view.list[j])
          /\ view' = [view EXCEPT !.at = i + 1, !.visited = Append(view.visited, view.list[i]),
                                  !.due = view.due \ {view.list[i]}]
  BY DEF Registry!Visit, Registry!Skips, Registry!Iterated
<1>2. PICK list \in Seq(Registry!Entity), n \in Nat : list = view.list /\ n = Len(list)
  BY ViewTypes DEF RegistryInv, ViewInv
<1>3. PICK at \in Nat \ {0}, seen \in Seq(Registry!Entity) : at = view.at /\ seen = view.visited
  BY ViewTypes DEF RegistryInv, ViewInv
<1>4. i \in at..n /\ i \in 1..n /\ list[i] \in Registry!Entity
  BY <1>1, <1>2, <1>3, ElementOfSeq
<1>5. PICK f \in Registry!Entity : f = list[i]
  BY <1>4
<1>6. /\ view'.at = i + 1 /\ view'.visited = Append(seen, f) /\ view'.due = view.due \ {f}
      /\ view'.list = list /\ view'.wanted = view.wanted
  BY <1>1, <1>2, <1>3, <1>5 DEF RegistryInv, ViewInv, ViewRecord
<1>7. view' \in ViewRecord
  <2>1. Append(seen, f) \in Seq(Registry!Entity) /\ i + 1 \in Nat \ {0}
    BY <1>4
  <2>2. view' = [open |-> view.open, wanted |-> view.wanted, list |-> view.list, at |-> i + 1,
                 visited |-> Append(seen, f), due |-> view.due \ {f}]
    BY <1>1, <1>2, <1>3, <1>5 DEF RegistryInv, ViewInv, ViewRecord
  <2> QED BY <2>1, <2>2, ViewTypes DEF RegistryInv, ViewInv, ViewRecord
<1>8. PICK m \in Nat : /\ m = Len(seen) /\ Len(Append(seen, f)) = m + 1 /\ Append(seen, f)[m + 1] = f
                       /\ \A k \in 1..m : Append(seen, f)[k] = seen[k]
  BY AppendProperties, LenProperties
<1>9. \A k \in 1..m : \E j \in 1..n : j < at /\ list[j] = seen[k]
  BY <1>2, <1>3, <1>8 DEF RegistryInv, ViewInv
<1>10. \A j, k \in 1..n : list[j] = list[k] => j = k
  BY <1>2 DEF RegistryInv, ViewInv, Distinct
<1>11. \A k \in 1..m : seen[k] # f
  <2> SUFFICES ASSUME NEW k \in 1..m, seen[k] = f PROVE FALSE
    OBVIOUS
  <2>1. PICK j \in 1..n : j < at /\ list[j] = f
    BY <1>9
  <2> QED BY <1>4, <1>5, <1>10, <2>1
<1>12. Distinct(view'.visited)
  <2>1. \A j, k \in 1..m : seen[j] = seen[k] => j = k
    BY <1>3, <1>8 DEF RegistryInv, ViewInv, Distinct
  <2>2. ASSUME NEW j \in 1..(m + 1), NEW k \in 1..(m + 1), Append(seen, f)[j] = Append(seen, f)[k]
        PROVE  j = k
    <3>1. CASE j \in 1..m /\ k \in 1..m
      BY <1>8, <2>1, <2>2, <3>1
    <3>2. CASE j = m + 1 /\ k \in 1..m
      BY <1>8, <1>11, <2>2, <3>2
    <3>3. CASE j \in 1..m /\ k = m + 1
      BY <1>8, <1>11, <2>2, <3>3
    <3> QED BY <3>1, <3>2, <3>3
  <2> QED BY <1>6, <1>8, <2>2 DEF Distinct
<1>13. ASSUME NEW k \in 1..(m + 1)
       PROVE  \E j \in 1..n : j < i + 1 /\ list[j] = Append(seen, f)[k]
  <2>1. CASE k \in 1..m
    <3>1. PICK j \in 1..n : j < at /\ list[j] = seen[k]
      BY <1>9, <2>1
    <3> QED BY <1>4, <1>8, <2>1, <3>1
  <2>2. CASE k = m + 1
    BY <1>4, <1>5, <1>8, <2>2
  <2>3. k \in 1..m \/ k = m + 1
    OBVIOUS
  <2> QED BY <2>1, <2>2, <2>3
<1>14. ASSUME NEW g \in view'.due
       PROVE  /\ \A c \in view.wanted : Registry!Contains(storages[c], g)
              /\ \E j \in 1..n : j >= i + 1 /\ list[j] = g
  <2>1. g \in view.due /\ g # f /\ g \in Registry!Entity
    BY <1>6, <1>14, ViewTypes DEF RegistryInv, ViewInv
  <2>2. \A c \in view.wanted : Registry!Contains(storages[c], g)
    BY <2>1 DEF RegistryInv, ViewInv
  <2>3. PICK j \in 1..n : j >= at /\ list[j] = g
    BY <1>2, <1>3, <2>1 DEF RegistryInv, ViewInv
  <2>4. Registry!AllOf(view.wanted, g)
    BY <2>1, <2>2, HasIs, ViewTypes DEF RegistryInv, ViewInv, Registry!AllOf
  <2>5. j \notin at..(i - 1)
    BY <1>1, <1>2, <1>3, <2>3, <2>4
  <2>6. j # i
    BY <1>5, <2>1, <2>3
  <2> QED BY <1>4, <2>2, <2>3, <2>5, <2>6
<1>15. storages' = storages
  BY DEF Registry!Visit
<1>16. Distinct(view'.list)
  BY <1>2, <1>6 DEF RegistryInv, ViewInv
<1> QED BY <1>2, <1>6, <1>7, <1>8, <1>12, <1>13, <1>14, <1>15, <1>16 DEF ViewInv


LEMMA RegistryStep == RegistryInv /\ [Registry!Next]_(Registry!vars) => RegistryInv'
<1> SUFFICES ASSUME RegistryInv, [Registry!Next]_(Registry!vars) PROVE RegistryInv'
  OBVIOUS
<1>0. TableInv /\ Stored /\ ViewInv /\ view \in ViewRecord
  BY DEF RegistryInv, ViewInv
<1>1. CASE Registry!Create
  <2>1. TableInv' /\ \A f \in Registry!Entity : Registry!Valid(f) => Registry!Valid(f)'
    BY <1>0, <1>1, CreateTable
  <2>2. storages' = storages /\ view' = view
    BY <1>1 DEF Registry!Create
  <2>3. Stored'
    BY <1>0, <2>1, <2>2, StoreSame
  <2>4. ViewInv'
    BY <1>0, <2>2, ViewSame
  <2> QED BY <2>1, <2>3, <2>4 DEF RegistryInv
<1>2. ASSUME NEW e \in Registry!Entity, Registry!Destroy(e) PROVE RegistryInv'
  <2>1. TableInv'
    BY <1>0, <1>2, DestroyTable
  <2>2. /\ Stored'
        /\ \A c \in Components, f \in Registry!Entity : Registry!Contains(storages[c], f) /\ f # e => Registry!Contains(storages'[c], f)
    BY <1>0, <1>2, DestroyStores
  <2>3. Lessened /\ view'.due = view.due \ {e}
    <3>1. view.due \ {e} \in SUBSET Registry!Entity
      BY <1>0, ViewTypes
    <3>2. view' = [view EXCEPT !.due = view.due \ {e}]
      BY <1>2 DEF Registry!Destroy
    <3> QED BY <1>0, <3>1, <3>2, DueChanges
  <2>4. ASSUME NEW f \in view'.due, NEW c \in view.wanted PROVE Registry!Contains(storages'[c], f)
    <3>1. f \in view.due /\ f # e /\ f \in Registry!Entity /\ c \in Components
      BY <1>0, <2>3, <2>4, ViewTypes
    <3> QED BY <1>0, <2>2, <3>1 DEF ViewInv
  <2>5. ViewInv'
    BY <1>0, <2>3, <2>4, ViewKept
  <2> QED BY <2>1, <2>2, <2>5 DEF RegistryInv
<1>3. CASE Registry!Clear
  <2>1. TableInv' /\ Stored'
    BY <1>0, <1>3, ClearTable, ClearStores
  <2>3. Lessened /\ view'.due = {}
    <3>2. view' = [view EXCEPT !.due = {}]
      BY <1>3 DEF Registry!Clear
    <3> QED BY <1>0, <3>2, DueChanges
  <2>5. ViewInv'
    BY <1>0, <2>3, ViewKept
  <2> QED BY <2>1, <2>5 DEF RegistryInv
<1>4. ASSUME UNCHANGED Registry!table, UNCHANGED dead
      PROVE  TableInv'
  BY <1>0, <1>4 DEF Registry!table, TableInv, TableTypes, Placed, FreeExact, Past
<1>5. ASSUME NEW c \in Components, NEW e \in Registry!Entity, Registry!Emplace(c, e) PROVE RegistryInv'
  <2>1. TableInv'
    BY <1>4, <1>5 DEF Registry!Emplace
  <2>2. /\ Stored'
        /\ \A a \in Components, f \in Registry!Entity : Registry!Contains(storages[a], f) => Registry!Contains(storages'[a], f)
    BY <1>0, <1>5, EmplaceStores
  <2>3. view' = view
    BY <1>5 DEF Registry!Emplace
  <2>4. ViewInv'
    BY <1>0, <2>2, <2>3, ViewSame
  <2> QED BY <2>1, <2>2, <2>4 DEF RegistryInv
<1>6. ASSUME NEW c \in Components, NEW e \in Registry!Entity, Registry!Remove(c, e) PROVE RegistryInv'
  <2>1. TableInv'
    BY <1>4, <1>6 DEF Registry!Remove
  <2>2. /\ Stored'
        /\ \A a \in Components, f \in Registry!Entity :
               Registry!Contains(storages[a], f) /\ (a # c \/ f # e) => Registry!Contains(storages'[a], f)
    BY <1>0, <1>6, RemoveStores
  <2>3. Lessened /\ view'.due = IF c \in view.wanted THEN view.due \ {e} ELSE view.due
    <3>1. PICK D \in SUBSET Registry!Entity : D = IF c \in view.wanted THEN view.due \ {e} ELSE view.due
      BY <1>0, ViewTypes
    <3>2. view' = [view EXCEPT !.due = D]
      BY <1>6, <3>1 DEF Registry!Remove
    <3>3. Lessened /\ view'.due = D
      BY <1>0, <3>2, DueChanges
    <3> QED BY <3>1, <3>3
  <2>4. ASSUME NEW f \in view'.due, NEW a \in view.wanted PROVE Registry!Contains(storages'[a], f)
    <3>1. f \in view.due /\ f \in Registry!Entity /\ a \in Components /\ (a # c \/ f # e)
      BY <1>0, <2>3, <2>4, ViewTypes
    <3>2. Registry!Contains(storages[a], f)
      BY <1>0, <3>1 DEF ViewInv
    <3> QED BY <2>2, <3>1, <3>2
  <2>5. ViewInv'
    BY <1>0, <2>3, <2>4, ViewKept
  <2> QED BY <2>1, <2>2, <2>5 DEF RegistryInv
<1>7. ASSUME NEW c \in Components, Registry!ClearComponent(c) PROVE RegistryInv'
  <2>1. TableInv'
    BY <1>4, <1>7 DEF Registry!ClearComponent
  <2>2. /\ Stored'
        /\ \A a \in Components, f \in Registry!Entity :
               Registry!Contains(storages[a], f) /\ a # c => Registry!Contains(storages'[a], f)
    BY <1>0, <1>7, ClearComponentStores
  <2>3. Lessened /\ view'.due = IF c \in view.wanted THEN {} ELSE view.due
    <3>1. PICK D \in SUBSET Registry!Entity : D = IF c \in view.wanted THEN {} ELSE view.due
      BY <1>0, ViewTypes
    <3>2. view' = [view EXCEPT !.due = D]
      BY <1>7, <3>1 DEF Registry!ClearComponent
    <3>3. Lessened /\ view'.due = D
      BY <1>0, <3>2, DueChanges
    <3> QED BY <3>1, <3>3
  <2>4. ASSUME NEW f \in view'.due, NEW a \in view.wanted PROVE Registry!Contains(storages'[a], f)
    <3>1. f \in view.due /\ f \in Registry!Entity /\ a \in Components /\ a # c
      BY <1>0, <2>3, <2>4, ViewTypes
    <3>2. Registry!Contains(storages[a], f)
      BY <1>0, <3>1 DEF ViewInv
    <3> QED BY <2>2, <3>1, <3>2
  <2>5. ViewInv'
    BY <1>0, <2>3, <2>4, ViewKept
  <2> QED BY <2>1, <2>2, <2>5 DEF RegistryInv
<1>8. ASSUME UNCHANGED <<Registry!table, storages, dead>>, ViewInv' PROVE RegistryInv'
  <2>1. TableInv'
    BY <1>4, <1>8
  <2>2. \A f \in Registry!Entity : Registry!Valid(f) => Registry!Valid(f)'
    BY <1>0, <1>8, SameTable
  <2>3. Stored'
    BY <1>0, <1>8, <2>2, StoreSame
  <2> QED BY <1>8, <2>1, <2>3 DEF RegistryInv
<1>9. ASSUME NEW wanted \in SUBSET Components, wanted # {}, Registry!Begin(wanted) PROVE RegistryInv'
  <2>1. ViewInv'
    BY <1>9, BeginView
  <2> QED BY <1>8, <1>9, <2>1 DEF Registry!Begin
<1>10. CASE Registry!Visit
  <2>1. ViewInv'
    BY <1>10, VisitView
  <2> QED BY <1>8, <1>10, <2>1 DEF Registry!Visit
<1>11. CASE Registry!End
  <2>1. ViewInv'
    BY <1>11, NoViewInv DEF Registry!End
  <2> QED BY <1>8, <1>11, <2>1 DEF Registry!End
<1>12. CASE UNCHANGED Registry!vars
  <2>1. UNCHANGED <<Registry!table, storages, dead>> /\ view' = view
    BY <1>12 DEF Registry!vars, Registry!table
  <2>2. ViewInv'
    BY <1>0, <2>1, ViewSame
  <2> QED BY <1>8, <2>1, <2>2
<1>13. Registry!RangeOf(entities) \subseteq Registry!Entity
  BY <1>0, TableFacts DEF TableInv, Registry!RangeOf
<1> QED BY <1>1, <1>2, <1>3, <1>5, <1>6, <1>7, <1>9, <1>10, <1>11, <1>12, <1>13 DEF Registry!Next

LEMMA RegistryKeeps ==
  ASSUME RegistryInv
  PROVE  Registry!TypeOK /\ Registry!StaleStaysStale /\ Registry!StoragesExact /\ Registry!ViewVisitsAll
<1>0. TableInv /\ Stored /\ ViewInv
  BY DEF RegistryInv
<1>1. Registry!TypeOK
  <2>1. Registry!RangeOf(entities) \subseteq Registry!Entity
    BY <1>0, TableFacts DEF TableInv, Registry!RangeOf
  <2>2. \A i \in DOMAIN entities : Registry!Valid(entities[i]) /\ positions[entities[i].index] = i
    <3>1. ASSUME NEW i \in DOMAIN entities
          PROVE  Registry!Valid(entities[i]) /\ positions[entities[i].index] = i
      <4>1. i \in 1..Len(entities) /\ entities[i] \in Registry!Entity
        BY <1>0, TableFacts DEF TableInv
      <4>2. Registry!Valid(entities[i])
        BY <1>0, <4>1, LiveListed DEF TableInv
      <4> QED BY <1>0, <4>1, <4>2 DEF TableInv, Placed
    <3> QED BY <3>1
  <2>3. Registry!RangeOf(freeList) = {x \in DOMAIN positions : positions[x] = 0}
    <3>1. /\ DOMAIN freeList = 1..Len(freeList) /\ DOMAIN positions = 1..Len(positions)
          /\ Len(positions) = Len(generations)
          /\ \A i \in 1..Len(freeList) : freeList[i] \in 1..Len(generations)
      BY <1>0, TableFacts DEF TableInv
    <3>2. \A x : x \in Registry!RangeOf(freeList) => x \in DOMAIN positions /\ positions[x] = 0
      BY <1>0, <3>1 DEF TableInv, FreeExact, Registry!RangeOf
    <3>3. \A x \in DOMAIN positions : positions[x] = 0 => x \in Registry!RangeOf(freeList)
      BY <1>0, <3>1 DEF TableInv, FreeExact, Registry!RangeOf
    <3> QED BY <3>2, <3>3
  <2>4. \A i, j \in DOMAIN freeList : freeList[i] = freeList[j] => i = j
    BY <1>0, TableFacts DEF TableInv, FreeExact
  <2> QED BY <1>0, <2>1, <2>2, <2>3, <2>4 DEF Registry!TypeOK, TableInv, TableTypes
<1>2. Registry!StaleStaysStale
  <2>1. ASSUME NEW f \in dead, Registry!Valid(f) PROVE FALSE
    <3>1. f \in Registry!Entity /\ f.generation < generations[f.index] /\ f.generation = generations[f.index]
      BY <1>0, <2>1 DEF TableInv, TableTypes, Past, Registry!Valid
    <3>2. f.generation \in 0..MaxAges
      BY <1>0, <3>1, TableFacts DEF TableInv
    <3> QED BY <3>1, <3>2
  <2> QED BY <2>1 DEF Registry!StaleStaysStale
<1>3. Registry!StoragesExact
  <2> SUFFICES ASSUME NEW c \in Components
               PROVE  /\ \A i \in DOMAIN storages[c].entities :
                             Registry!Valid(storages[c].entities[i])
                             /\ storages[c].sparse[storages[c].entities[i].index] = i
                      /\ \A x \in Registry!Indices : storages[c].sparse[x] # 0 =>
                             \E i \in DOMAIN storages[c].entities : storages[c].entities[i].index = x
    BY DEF Registry!StoragesExact
  <2>1. PICK s \in Storage : s = storages[c] /\ Exact(s) /\ \A f \in Registry!Entity : Registry!Contains(s, f) => Registry!Valid(f)
    BY <1>0 DEF Stored
  <2>2. DOMAIN s.entities = 1..Len(s.entities)
    BY StorageTypes
  <2>3. ASSUME NEW i \in 1..Len(s.entities) PROVE Registry!Valid(s.entities[i])
    <3>1. s.entities[i] \in Registry!Entity
      BY StorageTypes
    <3>2. Registry!Contains(s, s.entities[i])
      BY <2>1, <3>1, Listed
    <3> QED BY <2>1, <3>1, <3>2
  <2> QED BY <2>1, <2>2, <2>3 DEF Exact
<1>4. Registry!ViewVisitsAll
  <2>1. \A i, j \in DOMAIN view.visited : view.visited[i] = view.visited[j] => i = j
    BY <1>0, ViewTypes DEF ViewInv, Distinct
  <2>2. ASSUME Registry!Ended, NEW f \in view.due PROVE FALSE
    <3>1. PICK j \in 1..Len(view.list) : j >= view.at /\ view.list[j] = f
      BY <1>0, <2>2 DEF ViewInv
    <3>2. f \in Registry!Entity /\ \A c \in view.wanted : c \in Components /\ Registry!Contains(storages[c], f)
      BY <1>0, <2>2, ViewTypes DEF ViewInv
    <3>3. Registry!AllOf(view.wanted, f)
      BY <1>0, <3>2, HasIs DEF Registry!AllOf
    <3>4. view.at \in Nat \ {0} /\ Len(view.list) \in Nat
      BY <1>0, ViewTypes DEF ViewInv
    <3>5. j \in view.at..((Len(view.list) + 1) - 1)
      BY <3>1, <3>4
    <3> QED BY <2>2, <3>1, <3>3, <3>5 DEF Registry!Ended, Registry!Skips, Registry!Iterated
  <2> QED BY <2>1, <2>2 DEF Registry!ViewVisitsAll
<1> QED BY <1>1, <1>2, <1>3, <1>4

-----------------------------------------------------------------------------
(* The composition: each part keeps its invariant while another one moves.    *)

SceneInv == SlotsInv /\ ScenesInv /\ TablesInv /\ RegistryInv

\* A step of the composition is a step of each part or leaves it alone.
LEMMA OneSceneStep ==
  ASSUME [SceneNext]_<<part, slotting, changing, packing, registering, graphing>>
  PROVE  /\ [Next]_vars /\ [Scene!Next]_(Scene!vars)
         /\ [Table!Next]_(Table!vars) /\ [Registry!Next]_(Registry!vars)
<1>1. slotting = vars
  BY DEF slotting
<1>2. UNCHANGED changing => UNCHANGED Scene!vars
  BY DEF changing, Scene!vars
<1>3. UNCHANGED packing => UNCHANGED Table!vars
  BY DEF packing, Table!vars
<1>4. UNCHANGED registering => UNCHANGED Registry!vars
  BY DEF registering, Registry!vars
<1> QED BY <1>1, <1>2, <1>3, <1>4 DEF SceneNext, slotting

LEMMA SceneInvariant == SceneSpec => []SceneInv
<1>1. SceneInit => SceneInv
  BY SlotsInit, ScenesInit, TablesInit, RegistryInit DEF SceneInit, SceneInv
<1>2. SceneInv /\ [SceneNext]_<<part, slotting, changing, packing, registering, graphing>> => SceneInv'
  BY OneSceneStep, SlotsStep, ScenesStep, TablesStep, RegistryStep DEF SceneInv
<1> QED BY <1>1, <1>2, PTL DEF SceneSpec

(* The handle of a removed value finds nothing for as long as the map lives,   *)
(* also once every generation of its slot was used; an identifier of a scene   *)
(* is free once or in use, whichever mutations are committed and cancelled;    *)
(* the record a draw resolves is that of its object, however records were      *)
(* swapped; and handles of destroyed entities stay stale.                      *)
THEOREM HandlesAreExact == SceneSpec => []HandlesExact
<1>1. SceneInv => HandlesExact
  BY SlotsKeep, ScenesKeep, TablesKeep, RegistryKeeps DEF SceneInv, HandlesExact
<1> QED BY <1>1, SceneInvariant, PTL

(* A view visits each entity that is due once, whatever its callback creates,  *)
(* destroys and changes.                                                       *)
THEOREM ViewsVisitAll == SceneSpec => []ViewVisitsAll
<1>1. SceneInv => ViewVisitsAll
  BY RegistryKeeps DEF SceneInv, ViewVisitsAll
<1> QED BY <1>1, SceneInvariant, PTL
=============================================================================
