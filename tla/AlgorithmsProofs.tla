-------------------------- MODULE AlgorithmsProofs --------------------------
(* ParallelFor and WhenAll, for every number of works, positions and futures: *)
(* a loop visits each index once and reports its errors, and WhenAll's output *)
(* is completed once and with the truth, whatever runs first.                 *)
EXTENDS MCTaskAlgorithms, SequenceFacts, FiniteSetTheorems

(* The positions that are still to be counted: those the caller has not come  *)
(* to, those whose callback waits for its future, and those whose callback is *)
(* about to run.                                                              *)
AllWaiting(s) == \E f \in Futures : s \in Range(conts[f])
AllReady(s)   == \E a \in All!Actors : s \in Range(todo[a])
AllUncounted  == {s \in All!Slots : s >= index \/ AllWaiting(s) \/ AllReady(s)}

(* A callback is in one place: attached to its future until that is set, then *)
(* with the thread that sets it, or with the caller, who found the future set *)
(* and runs the callback before it goes on.                                   *)
AllPlaced ==
    /\ \A f \in Futures :
          /\ Distinct(conts[f]) /\ Distinct(todo[f])
          /\ \A s \in Range(conts[f]) : child[s] = f /\ s < index
          /\ \A s \in Range(todo[f]) : child[s] = f /\ s < index
          /\ conts[f] # <<>> => result[f] = "none"
          /\ todo[f] # <<>> => result[f] # "none"
    /\ todo[Caller] # <<>> =>
          /\ todo[Caller] = <<index - 1>> /\ index > 1
          /\ child[index - 1] \in Futures /\ result[child[index - 1]] # "none"
          /\ index - 1 \notin Range(todo[child[index - 1]])

(* What was counted is recorded: its value, or an error, which is one that a   *)
(* position that failed came to.                                               *)
AllRecorded ==
    /\ \A s \in All!Slots \ AllUncounted :
          /\ All!Settled(s)
          /\ ~All!Failed(s) => s \in values
          /\ All!Failed(s) => kept # 0
    /\ kept # 0 => kept \in All!Slots /\ All!Failed(kept)

(* The completion is with whoever claimed it until it is the output.           *)
AllOneCompletion ==
    /\ ~claimed => joined = All!Open /\ \A a \in All!Actors : holding[a] = All!Open
    /\ claimed =>
          /\ left = 0
          /\ \/ joined = kept /\ \A a \in All!Actors : holding[a] = All!Open
             \/ /\ joined = All!Open
                /\ \E a \in All!Actors :
                      /\ holding[a] = kept
                      /\ \A b \in All!Actors \ {a} : holding[b] = All!Open

(* The inductive invariant.                                                    *)
AllInv ==
    /\ All!TypeOK /\ AllPlaced
    /\ left = Cardinality(AllUncounted)
    /\ AllRecorded /\ AllOneCompletion

-----------------------------------------------------------------------------
\* There are finitely many positions, and counting one of them leaves one less.
LEMMA AllCountOne ==
  ASSUME All!WhenAllAssumption, NEW U \in SUBSET All!Slots
  PROVE  /\ IsFiniteSet(U) /\ Cardinality(U) \in 0..N
         /\ Cardinality(U) = 0 <=> U = {}
         /\ \A s \in U : Cardinality(U \ {s}) = Cardinality(U) - 1
<1>1. IsFiniteSet(All!Slots) /\ Cardinality(All!Slots) = N
  BY FS_Interval DEF All!Slots, All!WhenAllAssumption
<1>2. IsFiniteSet(U) /\ Cardinality(U) <= N
  BY <1>1, FS_Subset
<1>3. Cardinality(U) \in Nat /\ (Cardinality(U) = 0 <=> U = {})
  BY <1>2, FS_CardinalityType, FS_EmptySet
<1>4. \A s \in U : Cardinality(U \ {s}) = Cardinality(U) - 1
  BY <1>2, FS_RemoveElement
<1> QED BY <1>2, <1>3, <1>4 DEF All!WhenAllAssumption

-----------------------------------------------------------------------------
LEMMA AllBegins == ASSUME All!WhenAllAssumption, All!Init PROVE AllInv
<1> USE DEF All!Init
<1>1. All!TypeOK
  <2>1. <<>> \in Seq(All!Slots)
    OBVIOUS
  <2>2. conts \in [Futures -> Seq(All!Slots)] /\ todo \in [All!Actors -> Seq(All!Slots)]
    BY <2>1
  <2>3. N \in 0..N /\ 1 \in 1..(N + 1) /\ 0 \in 0..N /\ -1 \in -1..N
    BY DEF All!WhenAllAssumption
  <2> QED BY <2>2, <2>3 DEF All!TypeOK, All!Open
<1>2. AllPlaced
  BY FewElements DEF AllPlaced, All!Actors
<1>3. AllUncounted = All!Slots
  BY DEF AllUncounted, All!Slots
<1>4. left = Cardinality(AllUncounted)
  BY <1>3, FS_Interval DEF All!Slots, All!WhenAllAssumption
<1>5. AllRecorded /\ AllOneCompletion
  BY <1>3 DEF AllRecorded, AllOneCompletion
<1> QED BY <1>1, <1>2, <1>4, <1>5 DEF AllInv

(* A future is set: its callbacks go from it to the thread that sets it.       *)
LEMMA AllSetChildKeeps ==
  ASSUME All!WhenAllAssumption, AllInv,
         NEW f \in Futures, NEW v \in {"value", "error"}, All!SetChild(f, v)
  PROVE  AllInv'
<1>0. All!TypeOK /\ AllPlaced /\ AllRecorded /\ AllOneCompletion /\ left = Cardinality(AllUncounted)
  BY DEF AllInv
<1>1. /\ result[f] = "none" /\ todo[f] = <<>>
      /\ f \in All!Actors /\ Caller \in All!Actors /\ f # Caller
  BY <1>0 DEF All!SetChild, AllPlaced, All!Actors, All!WhenAllAssumption
<1>2. /\ \A g \in Futures : result'[g] = IF g = f THEN v ELSE result[g]
      /\ \A g \in Futures : conts'[g] = IF g = f THEN <<>> ELSE conts[g]
      /\ \A a \in All!Actors : todo'[a] = IF a = f THEN conts[f] ELSE todo[a]
      /\ UNCHANGED <<child, index, left, values, kept, claimed, holding, joined>>
  BY <1>0 DEF All!SetChild, All!TypeOK, All!stateVars
<1>3. All!TypeOK'
  <2>1. <<>> \in Seq(All!Slots)
    OBVIOUS
  <2>2. result' \in [Futures -> {"none", "value", "error"}]
    BY <1>0 DEF All!SetChild, All!TypeOK
  <2>3. conts' \in [Futures -> Seq(All!Slots)] /\ todo' \in [All!Actors -> Seq(All!Slots)]
    BY <1>0, <2>1 DEF All!SetChild, All!TypeOK
  <2> QED BY <1>0, <1>2, <2>2, <2>3 DEF All!SetChild, All!TypeOK, All!Slots
<1>4. AllPlaced'
  <2>1. ASSUME NEW g \in Futures
        PROVE  /\ Distinct(conts'[g]) /\ Distinct(todo'[g])
               /\ \A s \in Range(conts'[g]) : child'[s] = g /\ s < index'
               /\ \A s \in Range(todo'[g]) : child'[s] = g /\ s < index'
               /\ conts'[g] # <<>> => result'[g] = "none"
               /\ todo'[g] # <<>> => result'[g] # "none"
    <3>1. g \in All!Actors
      BY DEF All!Actors
    <3> QED BY <1>0, <1>2, <3>1, FewElements DEF AllPlaced
  <2>2. ASSUME todo'[Caller] # <<>>
        PROVE  /\ todo'[Caller] = <<index' - 1>> /\ index' > 1
               /\ child'[index' - 1] \in Futures /\ result'[child'[index' - 1]] # "none"
               /\ index' - 1 \notin Range(todo'[child'[index' - 1]])
    <3>1. todo'[Caller] = todo[Caller] /\ index' = index /\ child' = child
      BY <1>1, <1>2
    <3>2. child[index - 1] # f /\ child[index - 1] \in All!Actors
      BY <1>0, <1>1, <2>2, <3>1 DEF AllPlaced, All!Actors
    <3> QED BY <1>0, <1>2, <2>2, <3>1, <3>2 DEF AllPlaced
  <2> QED BY <2>1, <2>2 DEF AllPlaced
<1>5. AllUncounted' = AllUncounted
  <2>1. ASSUME NEW s PROVE (AllWaiting(s) \/ AllReady(s))' <=> AllWaiting(s) \/ AllReady(s)
    BY <1>1, <1>2, FewElements DEF AllWaiting, AllReady
  <2> QED BY <1>2, <2>1 DEF AllUncounted, All!Slots
<1>6. AllRecorded'
  <2>1. ASSUME NEW s \in All!Slots, All!Settled(s)
        PROVE  All!Settled(s)' /\ (All!Failed(s)' <=> All!Failed(s))
    BY <1>0, <1>1, <1>2, <2>1 DEF All!Settled, All!Failed, All!TypeOK
  <2>2. kept # 0 => kept' \in All!Slots /\ All!Failed(kept)'
    <3>1. kept # 0 => kept \in All!Slots /\ All!Settled(kept) /\ All!Failed(kept)
      BY <1>0 DEF AllRecorded, All!Failed, All!Settled
    <3> QED BY <1>2, <2>1, <3>1 DEF All!Failed
  <2>3. \A s \in All!Slots \ AllUncounted : /\ All!Settled(s)'
                                            /\ ~All!Failed(s)' => s \in values'
                                            /\ All!Failed(s)' => kept' # 0
    BY <1>0, <1>2, <2>1 DEF AllRecorded
  <2> QED BY <1>2, <1>5, <2>2, <2>3 DEF AllRecorded, All!Slots
<1>7. AllOneCompletion'
  BY <1>0, <1>2 DEF AllOneCompletion
<1> QED BY <1>0, <1>2, <1>3, <1>4, <1>5, <1>6, <1>7 DEF AllInv

\* While a position is uncounted nobody has claimed the completion.
LEMMA AllUncountedUnclaimed ==
  ASSUME All!WhenAllAssumption, AllInv, NEW s \in AllUncounted
  PROVE  /\ left \in 1..N /\ ~claimed
         /\ Cardinality(AllUncounted \ {s}) = left - 1
         /\ left = 1 => AllUncounted \ {s} = {}
<1>1. AllUncounted \in SUBSET All!Slots /\ AllUncounted \ {s} \in SUBSET All!Slots
  BY DEF AllUncounted
<1>2. left = Cardinality(AllUncounted) /\ left \in 1..N
  BY <1>1, AllCountOne DEF AllInv
<1>3. Cardinality(AllUncounted \ {s}) = left - 1
  BY <1>1, <1>2, AllCountOne
<1>4. left = 1 => AllUncounted \ {s} = {}
  BY <1>1, <1>3, AllCountOne
<1>5. ~claimed
  BY <1>2 DEF AllInv, AllOneCompletion, All!TypeOK
<1> QED BY <1>2, <1>3, <1>4, <1>5

(* The caller counts a position without a future, and keeps the first error.   *)
LEMMA AllSkipInvalidKeeps ==
  ASSUME All!WhenAllAssumption, AllInv, All!SkipInvalid
  PROVE  AllInv'
<1>0. All!TypeOK /\ AllPlaced /\ AllRecorded /\ AllOneCompletion /\ left = Cardinality(AllUncounted)
  BY DEF AllInv
<1>1. /\ index \in All!Slots /\ index \in Nat /\ todo[Caller] = <<>> /\ child[index] = NoFuture
      /\ kept' = (IF kept = 0 THEN index ELSE kept)
      /\ left' = left - 1 /\ index' = index + 1
      /\ UNCHANGED <<child, result, conts, todo, values, claimed, holding, joined, returned>>
  BY <1>0 DEF All!SkipInvalid, All!AtLoop, All!KeptError, All!NextIndex, All!childVars, All!TypeOK, All!Slots, All!WhenAllAssumption
<1>2. index \in AllUncounted
  BY <1>1 DEF AllUncounted
<1>3. /\ left \in 1..N /\ ~claimed /\ Cardinality(AllUncounted \ {index}) = left - 1
  BY <1>2, AllUncountedUnclaimed
<1>4. All!TypeOK'
  BY <1>0, <1>1, <1>3 DEF All!TypeOK, All!Slots, All!WhenAllAssumption
<1>5. AllPlaced'
  <2>1. ASSUME NEW g \in Futures
        PROVE  /\ \A s \in Range(conts[g]) : child[s] = g /\ s < index + 1
               /\ \A s \in Range(todo[g]) : child[s] = g /\ s < index + 1
    <3>1. Range(conts[g]) \subseteq Nat /\ Range(todo[g]) \subseteq Nat
      <4>1. g \in All!Actors /\ conts[g] \in Seq(All!Slots) /\ todo[g] \in Seq(All!Slots)
        BY <1>0 DEF All!Actors, All!TypeOK
      <4>2. Range(conts[g]) \subseteq All!Slots /\ Range(todo[g]) \subseteq All!Slots
        BY <4>1, RangeOfSeq
      <4>3. All!Slots \subseteq Nat
        BY DEF All!Slots, All!WhenAllAssumption
      <4> QED BY <4>2, <4>3
    <3>2. \A s \in Nat : s < index => s < index + 1
      BY <1>1
    <3> QED BY <1>0, <3>1, <3>2 DEF AllPlaced
  <2> QED BY <1>0, <1>1, <2>1 DEF AllPlaced
<1>6. AllUncounted' = AllUncounted \ {index}
  <2>1. ASSUME NEW s \in All!Slots, AllWaiting(s) \/ AllReady(s) PROVE s # index
    <3>1. ASSUME NEW g \in Futures, s \in Range(conts[g]) PROVE s # index
      BY <1>0, <1>1, <3>1 DEF AllPlaced, All!Slots
    <3>2. ASSUME NEW a \in All!Actors, s \in Range(todo[a]) PROVE s # index
      <4>1. a # Caller
        BY <1>1, <3>2, FewElements
      <4> QED BY <1>0, <1>1, <3>2, <4>1 DEF AllPlaced, All!Actors, All!Slots
    <3> QED BY <2>1, <3>1, <3>2 DEF AllWaiting, AllReady
  <2>2. \A s \in All!Slots : s >= index + 1 <=> s >= index /\ s # index
    BY <1>1 DEF All!Slots
  <2>3. \A s : (AllWaiting(s)' <=> AllWaiting(s)) /\ (AllReady(s)' <=> AllReady(s))
    BY <1>1 DEF AllWaiting, AllReady
  <2> QED BY <1>1, <2>1, <2>2, <2>3 DEF AllUncounted, All!Slots
<1>7. AllRecorded'
  <2>1. \A s \in All!Slots : (All!Settled(s)' <=> All!Settled(s)) /\ (All!Failed(s)' <=> All!Failed(s))
    BY <1>1 DEF All!Settled, All!Failed
  <2>2. All!Failed(index) /\ All!Settled(index) /\ index # 0 /\ kept' # 0
    BY <1>0, <1>1 DEF All!Failed, All!Settled, All!Slots, All!TypeOK
  <2>3. \A s \in All!Slots \ AllUncounted' : /\ All!Settled(s)'
                                             /\ ~All!Failed(s)' => s \in values'
                                             /\ All!Failed(s)' => kept' # 0
    BY <1>0, <1>1, <1>6, <2>1, <2>2 DEF AllRecorded
  <2>4. kept' \in All!Slots /\ All!Failed(kept')
    BY <1>0, <1>1, <2>2 DEF AllRecorded
  <2> QED BY <1>1, <2>3, <2>4 DEF AllRecorded, All!Slots, All!Failed
<1>8. AllOneCompletion'
  BY <1>0, <1>1, <1>3 DEF AllOneCompletion
<1> QED BY <1>0, <1>1, <1>3, <1>4, <1>5, <1>6, <1>7, <1>8 DEF AllInv

(* The caller attaches a callback, or takes it to run it at once.              *)
LEMMA AllAttachChildKeeps ==
  ASSUME All!WhenAllAssumption, AllInv, All!AttachChild
  PROVE  AllInv'
<1>0. All!TypeOK /\ AllPlaced /\ AllRecorded /\ AllOneCompletion /\ left = Cardinality(AllUncounted)
  BY DEF AllInv
<1> DEFINE f == child[index]
<1>1. /\ index \in All!Slots /\ index \in Nat /\ todo[Caller] = <<>>
      /\ f \in Futures /\ f \in All!Actors /\ Caller \in All!Actors /\ f # Caller
      /\ index' = index + 1
      /\ UNCHANGED <<child, result, left, values, kept, claimed, holding,
                     joined, returned>>
  BY <1>0 DEF All!AttachChild, All!AtLoop, All!stateVars, All!TypeOK, All!Slots, All!WhenAllAssumption, All!Actors
<1>2. ASSUME NEW g \in Futures
      PROVE  /\ g \in All!Actors /\ conts[g] \in Seq(All!Slots) /\ todo[g] \in Seq(All!Slots)
             /\ Range(conts[g]) \subseteq All!Slots /\ Range(todo[g]) \subseteq All!Slots
             /\ \A s \in Range(conts[g]) : child[s] = g /\ s < index /\ s # index
             /\ \A s \in Range(todo[g]) : child[s] = g /\ s < index /\ s # index
  <2>1. g \in All!Actors /\ conts[g] \in Seq(All!Slots) /\ todo[g] \in Seq(All!Slots)
    BY <1>0 DEF All!Actors, All!TypeOK
  <2>2. Range(conts[g]) \subseteq All!Slots /\ Range(todo[g]) \subseteq All!Slots
    BY <2>1, RangeOfSeq
  <2> QED BY <1>0, <1>1, <2>1, <2>2 DEF AllPlaced, All!Slots
<1>3. \A s \in All!Slots : s < index => s < index + 1
  BY <1>1 DEF All!Slots
<1>4. \A s : (s \in All!Slots /\ s >= index) <=> (s \in All!Slots /\ (s >= index + 1 \/ s = index))
  BY <1>1 DEF All!Slots
<1>5. CASE result[f] = "none"
  <2>1. /\ conts' = [conts EXCEPT ![f] = Append(@, index)] /\ todo' = todo
        /\ Append(conts[f], index) \in Seq(All!Slots)
        /\ Distinct(Append(conts[f], index))
        /\ Range(Append(conts[f], index)) = Range(conts[f]) \cup {index}
    BY <1>0, <1>1, <1>2, <1>5, DistinctAppend, RangeAppend, AppendProperties
       DEF All!AttachChild, AllPlaced
  <2>2. \A g \in Futures : conts'[g] = IF g = f THEN Append(conts[f], index) ELSE conts[g]
    BY <1>0, <2>1 DEF All!TypeOK
  <2> HIDE DEF f
  <2>3. All!TypeOK'
    <3>1. conts' \in [Futures -> Seq(All!Slots)]
      BY <1>0, <1>1, <2>1 DEF All!TypeOK
    <3> QED BY <1>0, <1>1, <2>1, <3>1 DEF All!TypeOK, All!Slots, All!WhenAllAssumption
  <2>4. AllPlaced'
    <3>1. ASSUME NEW g \in Futures
          PROVE  /\ Distinct(conts'[g]) /\ Distinct(todo'[g])
                 /\ \A s \in Range(conts'[g]) : child'[s] = g /\ s < index'
                 /\ \A s \in Range(todo'[g]) : child'[s] = g /\ s < index'
                 /\ conts'[g] # <<>> => result'[g] = "none"
                 /\ todo'[g] # <<>> => result'[g] # "none"
      <4>1. /\ Distinct(conts[g]) /\ Distinct(todo[g])
            /\ conts[g] # <<>> => result[g] = "none"
            /\ todo[g] # <<>> => result[g] # "none"
        BY <1>0 DEF AllPlaced
      <4>2. child[index] = f /\ index < index + 1
        BY <1>1 DEF f
      <4>3. /\ \A s \in Range(conts[g]) : child[s] = g /\ s < index + 1
            /\ \A s \in Range(todo[g]) : child[s] = g /\ s < index + 1
        BY <1>2, <1>3
      <4> QED BY <1>1, <1>5, <2>1, <2>2, <4>1, <4>2, <4>3
    <3> QED BY <1>1, <2>1, <3>1 DEF AllPlaced
  <2>5. AllUncounted' = AllUncounted
    <3>1. ASSUME NEW s PROVE AllWaiting(s)' <=> AllWaiting(s) \/ s = index
      BY <1>1, <2>1, <2>2 DEF AllWaiting
    <3>2. \A s : AllReady(s)' <=> AllReady(s)
      BY <2>1 DEF AllReady
    <3> QED BY <1>1, <1>4, <3>1, <3>2 DEF AllUncounted, All!Slots
  <2>6. AllRecorded' /\ AllOneCompletion'
    BY <1>0, <1>1, <2>5 DEF AllRecorded, AllOneCompletion, All!Settled, All!Failed, All!Slots
  <2> QED BY <1>0, <1>1, <2>3, <2>4, <2>5, <2>6 DEF AllInv
<1>6. CASE result[f] # "none"
  <2>1. todo' = [todo EXCEPT ![Caller] = <<index>>] /\ conts' = conts
    BY <1>0, <1>1, <1>6 DEF All!AttachChild
  <2>2. \A a \in All!Actors : todo'[a] = IF a = Caller THEN <<index>> ELSE todo[a]
    BY <1>0, <1>1, <2>1 DEF All!TypeOK
  <2> HIDE DEF f
  <2>3. All!TypeOK'
    <3>1. <<index>> \in Seq(All!Slots)
      BY <1>1
    <3>2. todo' \in [All!Actors -> Seq(All!Slots)]
      BY <1>0, <2>1, <3>1 DEF All!TypeOK
    <3> QED BY <1>0, <1>1, <2>1, <3>2 DEF All!TypeOK, All!Slots, All!WhenAllAssumption
  <2>4. AllPlaced'
    <3>1. \A g \in Futures : todo'[g] = todo[g] /\ conts'[g] = conts[g]
      BY <1>2, <2>1, <2>2 DEF All!WhenAllAssumption
    <3>2. ASSUME NEW g \in Futures
          PROVE  /\ Distinct(conts'[g]) /\ Distinct(todo'[g])
                 /\ \A s \in Range(conts'[g]) : child'[s] = g /\ s < index'
                 /\ \A s \in Range(todo'[g]) : child'[s] = g /\ s < index'
                 /\ conts'[g] # <<>> => result'[g] = "none"
                 /\ todo'[g] # <<>> => result'[g] # "none"
      <4>1. /\ Distinct(conts[g]) /\ Distinct(todo[g])
            /\ conts[g] # <<>> => result[g] = "none"
            /\ todo[g] # <<>> => result[g] # "none"
        BY <1>0 DEF AllPlaced
      <4>2. /\ \A s \in Range(conts[g]) : child[s] = g /\ s < index + 1
            /\ \A s \in Range(todo[g]) : child[s] = g /\ s < index + 1
        BY <1>2, <1>3
      <4> QED BY <1>1, <3>1, <4>1, <4>2
    <3>3. /\ todo'[Caller] = <<index>> /\ index' - 1 = index /\ index' > 1
      BY <1>1, <2>2 DEF All!Slots
    <3>4. index \notin Range(todo[f]) /\ child[index] = f
      BY <1>1, <1>2 DEF f
    <3> QED BY <1>1, <1>6, <3>1, <3>2, <3>3, <3>4 DEF AllPlaced
  <2>5. AllUncounted' = AllUncounted
    <3>1. ASSUME NEW s PROVE AllReady(s)' <=> AllReady(s) \/ s = index
      BY <1>1, <2>2, FewElements DEF AllReady
    <3>2. \A s : AllWaiting(s)' <=> AllWaiting(s)
      BY <2>1 DEF AllWaiting
    <3> QED BY <1>1, <1>4, <3>1, <3>2 DEF AllUncounted, All!Slots
  <2>6. AllRecorded' /\ AllOneCompletion'
    BY <1>0, <1>1, <2>5 DEF AllRecorded, AllOneCompletion, All!Settled, All!Failed, All!Slots
  <2> QED BY <1>0, <1>1, <2>3, <2>4, <2>5, <2>6 DEF AllInv
<1> QED BY <1>5, <1>6

(* A callback counts its position; the last one takes the completion.          *)
LEMMA AllCallbackKeeps ==
  ASSUME All!WhenAllAssumption, AllInv, NEW a \in All!Actors, All!Callback(a)
  PROVE  AllInv'
<1>0. All!TypeOK /\ AllPlaced /\ AllRecorded /\ AllOneCompletion /\ left = Cardinality(AllUncounted)
  BY DEF AllInv
<1> DEFINE s == Head(todo[a])
           f == child[s]
<1>1. /\ todo[a] \in Seq(All!Slots) /\ todo[a] # <<>> /\ holding[a] = All!Open /\ Caller \in All!Actors
  BY <1>0 DEF All!Callback, All!TypeOK, All!Actors
<1>2. Distinct(todo[a])
  <2>1. CASE a = Caller
    <3>1. todo[a] = <<index - 1>>
      BY <1>0, <1>1, <2>1 DEF AllPlaced
    <3> QED BY <3>1, FewElements
  <2>2. CASE a \in Futures
    BY <1>0, <2>2 DEF AllPlaced
  <2> QED BY <2>1, <2>2 DEF All!Actors
<1>3. /\ s \in All!Slots /\ Tail(todo[a]) \in Seq(All!Slots) /\ Distinct(Tail(todo[a]))
      /\ s \in Range(todo[a]) /\ Range(Tail(todo[a])) = Range(todo[a]) \ {s}
  BY <1>1, <1>2, DistinctTail
<1> HIDE DEF s
<1>4. f \in Futures /\ f \in All!Actors /\ result[f] \in {"value", "error"} /\ s < index
  <2>1. CASE a = Caller
    <3>1. todo[a] = <<index - 1>> /\ s = index - 1
      BY <1>0, <1>1, <2>1, FewElements DEF AllPlaced, s
    <3>2. f \in Futures /\ result[f] # "none"
      BY <1>0, <1>1, <2>1, <3>1 DEF AllPlaced
    <3>3. s < index
      BY <1>0, <3>1 DEF All!TypeOK, All!WhenAllAssumption
    <3> QED BY <1>0, <3>2, <3>3 DEF All!TypeOK, All!Actors
  <2>2. CASE a \in Futures
    BY <1>0, <1>1, <1>3, <2>2 DEF AllPlaced, All!TypeOK, All!Actors
  <2> QED BY <2>1, <2>2 DEF All!Actors
<1>5. /\ todo' = [todo EXCEPT ![a] = Tail(@)]
      /\ values' = (IF result[f] = "value" THEN values \cup {s} ELSE values)
      /\ kept' = (IF result[f] = "value" THEN kept ELSE IF kept = 0 THEN s ELSE kept)
      /\ left' = left - 1
      /\ claimed' = (claimed \/ left = 1)
      /\ holding' = [holding EXCEPT ![a] = IF left = 1 THEN kept' ELSE All!Open]
      /\ UNCHANGED <<child, result, conts, index, joined, returned>>
  BY <1>1 DEF All!Callback, All!KeptError, All!childVars, s
<1>6. \A b \in All!Actors : todo'[b] = IF b = a THEN Tail(todo[a]) ELSE todo[b]
  BY <1>0, <1>5 DEF All!TypeOK
<1>7. s \in AllUncounted
  BY <1>3 DEF AllUncounted, AllReady
<1>8. /\ left \in 1..N /\ ~claimed /\ Cardinality(AllUncounted \ {s}) = left - 1
      /\ left = 1 => AllUncounted \ {s} = {}
  BY <1>7, AllUncountedUnclaimed
<1>9. \A b \in All!Actors : Range(todo'[b]) \subseteq Range(todo[b]) \ {s}
  <2>1. ASSUME NEW b \in All!Actors, b # a, s \in Range(todo[b]) PROVE FALSE
    <3>1. CASE a = Caller
      <4>1. b \in Futures /\ b = f
        BY <1>0, <2>1, <3>1 DEF AllPlaced, All!Actors
      <4>2. s = index - 1
        BY <1>0, <1>1, <3>1, FewElements DEF AllPlaced, s
      <4> QED BY <1>0, <1>1, <2>1, <3>1, <4>1, <4>2 DEF AllPlaced
    <3>2. CASE a # Caller /\ b = Caller
      <4>1. todo[Caller] # <<>>
        BY <2>1, <3>2, FewElements
      <4>2. todo[Caller] = <<index - 1>> /\ index - 1 \notin Range(todo[child[index - 1]])
        BY <1>0, <4>1 DEF AllPlaced
      <4>3. s = index - 1
        BY <2>1, <3>2, <4>2, FewElements
      <4>4. a = f
        BY <1>0, <1>3, <3>2 DEF AllPlaced, All!Actors
      <4> QED BY <1>3, <4>2, <4>3, <4>4
    <3>3. CASE a # Caller /\ b # Caller
      BY <1>0, <1>3, <2>1, <3>3 DEF AllPlaced, All!Actors
    <3> QED BY <3>1, <3>2, <3>3
  <2> QED BY <1>3, <1>6, <2>1
<1>10. \A g \in Futures : s \notin Range(conts[g])
  BY <1>0, <1>4, FewElements DEF AllPlaced
<1>11. All!TypeOK'
  <2>1. todo' \in [All!Actors -> Seq(All!Slots)]
    BY <1>0, <1>3, <1>5 DEF All!TypeOK
  <2>2. s \in 0..N /\ s # 0
    BY <1>3 DEF All!Slots, All!WhenAllAssumption
  <2>3. kept' \in 0..N /\ values' \in SUBSET All!Slots
    BY <1>0, <1>3, <1>5, <2>2 DEF All!TypeOK
  <2>4. holding' \in [All!Actors -> -1..N]
    BY <1>0, <1>5, <2>3 DEF All!TypeOK, All!Open, All!WhenAllAssumption
  <2>5. left' \in 0..N /\ claimed' \in BOOLEAN
    BY <1>0, <1>5, <1>8 DEF All!TypeOK, All!WhenAllAssumption
  <2> QED BY <1>0, <1>5, <2>1, <2>3, <2>4, <2>5 DEF All!TypeOK, All!Slots, All!Actors
<1>12. AllPlaced'
  <2>1. ASSUME NEW g \in Futures
        PROVE  /\ Distinct(conts'[g]) /\ Distinct(todo'[g])
               /\ \A t \in Range(conts'[g]) : child'[t] = g /\ t < index'
               /\ \A t \in Range(todo'[g]) : child'[t] = g /\ t < index'
               /\ conts'[g] # <<>> => result'[g] = "none"
               /\ todo'[g] # <<>> => result'[g] # "none"
    <3>1. g \in All!Actors
      BY DEF All!Actors
    <3>2. Distinct(todo'[g])
      BY <1>0, <1>3, <1>6, <3>1 DEF AllPlaced
    <3>3. \A t \in Range(todo'[g]) : child'[t] = g /\ t < index'
      BY <1>0, <1>5, <1>9, <3>1 DEF AllPlaced
    <3>4. todo'[g] # <<>> => result'[g] # "none"
      BY <1>0, <1>1, <1>5, <1>6, <3>1 DEF AllPlaced
    <3> QED BY <1>0, <1>5, <3>2, <3>3, <3>4 DEF AllPlaced
  <2>2. ASSUME todo'[Caller] # <<>>
        PROVE  /\ todo'[Caller] = <<index' - 1>> /\ index' > 1
               /\ child'[index' - 1] \in Futures /\ result'[child'[index' - 1]] # "none"
               /\ index' - 1 \notin Range(todo'[child'[index' - 1]])
    <3>1. todo[Caller] # <<>>
      BY <1>1, <1>6, <2>2
    <3>2. a # Caller
      <4>1. todo[Caller] = <<index - 1>>
        BY <1>0, <3>1 DEF AllPlaced
      <4> QED BY <1>1, <1>6, <2>2, <4>1, FewElements
    <3>3. child[index - 1] \in All!Actors /\ todo'[Caller] = todo[Caller]
      BY <1>0, <1>1, <1>6, <3>1, <3>2 DEF AllPlaced, All!Actors
    <3> QED BY <1>0, <1>5, <1>9, <3>1, <3>3 DEF AllPlaced
  <2> QED BY <2>1, <2>2 DEF AllPlaced
<1>13. AllUncounted' = AllUncounted \ {s}
  <2>1. ASSUME NEW t PROVE AllReady(t)' <=> AllReady(t) /\ t # s
    <3>1. ASSUME NEW b \in All!Actors, t \in Range(todo[b]), t # s
          PROVE  t \in Range(todo'[b])
      BY <1>3, <1>6, <3>1
    <3> QED BY <1>9, <3>1 DEF AllReady
  <2>2. \A t : AllWaiting(t)' <=> AllWaiting(t)
    BY <1>5 DEF AllWaiting
  <2>3. ~AllWaiting(s)
    BY <1>10 DEF AllWaiting
  <2>4. ~(s >= index)
    BY <1>0, <1>3, <1>4 DEF All!TypeOK, All!Slots
  <2> QED BY <1>5, <2>1, <2>2, <2>3, <2>4 DEF AllUncounted, All!Slots
<1>14. AllRecorded'
  <2>1. \A t \in All!Slots : (All!Settled(t)' <=> All!Settled(t)) /\ (All!Failed(t)' <=> All!Failed(t))
    BY <1>5 DEF All!Settled, All!Failed
  <2>2. f # NoFuture /\ All!Settled(s) /\ (All!Failed(s) <=> result[f] # "value")
    BY <1>4 DEF All!Settled, All!Failed, All!WhenAllAssumption
  <2>3. s # 0 /\ s \in All!Slots
    BY <1>3 DEF All!Slots
  <2>4. \A t \in All!Slots \ AllUncounted' : /\ All!Settled(t)'
                                             /\ ~All!Failed(t)' => t \in values'
                                             /\ All!Failed(t)' => kept' # 0
    <3> SUFFICES ASSUME NEW t \in All!Slots, t \notin AllUncounted'
                 PROVE  /\ All!Settled(t)
                        /\ ~All!Failed(t) => t \in values'
                        /\ All!Failed(t) => kept' # 0
      BY <2>1
    <3>1. CASE t = s
      BY <1>5, <2>2, <2>3, <3>1
    <3>2. CASE t \notin AllUncounted
      BY <1>0, <1>5, <2>3, <3>2 DEF AllRecorded
    <3> QED BY <1>13, <3>1, <3>2
  <2>5. kept' # 0 => kept' \in All!Slots /\ All!Failed(kept')
    BY <1>0, <1>5, <2>2, <2>3 DEF AllRecorded
  <2>6. (kept # 0 => kept \in All!Slots /\ All!Failed(kept))'
    BY <1>5, <2>5 DEF All!Failed, All!Slots
  <2> QED BY <2>4, <2>6 DEF AllRecorded, All!Slots
<1>15. AllOneCompletion'
  <2>1. joined = All!Open /\ \A b \in All!Actors : holding[b] = All!Open
    BY <1>0, <1>8 DEF AllOneCompletion
  <2>2. \A b \in All!Actors : holding'[b] = IF b = a /\ left = 1 THEN kept' ELSE All!Open
    BY <1>0, <1>5, <2>1 DEF All!TypeOK
  <2> DEFINE e == kept'
  <2>3. CASE left = 1
    <3>1. claimed' /\ left' = 0 /\ joined' = All!Open
      <4>1. claimed'
        BY <1>5, <2>3
      <4>2. left' = 0
        BY <1>5, <2>3
      <4>3. joined' = All!Open
        BY <1>5, <2>1
      <4> QED BY <4>1, <4>2, <4>3
    <3>2. holding'[a] = e /\ \A b \in All!Actors \ {a} : holding'[b] = All!Open
      BY <2>2, <2>3
    <3>3. All!Actors' = All!Actors
      BY DEF All!Actors
    <3> HIDE DEF e
    <3>4. \E c \in All!Actors : /\ holding'[c] = e
                                 /\ \A b \in All!Actors \ {c} : holding'[b] = All!Open
      BY <3>2
    <3> QED BY <3>1, <3>3, <3>4 DEF AllOneCompletion, e
  <2>4. CASE left # 1
    BY <1>5, <1>8, <2>1, <2>2, <2>4 DEF AllOneCompletion, All!Actors, All!Open
  <2> QED BY <2>3, <2>4
<1> QED BY <1>0, <1>5, <1>8, <1>11, <1>12, <1>13, <1>14, <1>15 DEF AllInv

(* Whoever took the completion sets the output.                                *)
LEMMA AllCompleteKeeps ==
  ASSUME All!WhenAllAssumption, AllInv, NEW a \in All!Actors, All!Complete(a)
  PROVE  AllInv'
<1>0. All!TypeOK /\ AllPlaced /\ AllRecorded /\ AllOneCompletion /\ left = Cardinality(AllUncounted)
  BY DEF AllInv
<1>1. /\ holding[a] # All!Open
      /\ joined' = (IF joined = All!Open THEN holding[a] ELSE joined)
      /\ holding' = [holding EXCEPT ![a] = All!Open]
      /\ UNCHANGED <<child, result, conts, todo, index, left, values, kept,
                     claimed, returned>>
  BY DEF All!Complete, All!childVars
<1>2. claimed /\ left = 0 /\ joined = All!Open /\ holding[a] = kept
      /\ \A b \in All!Actors \ {a} : holding[b] = All!Open
  BY <1>0, <1>1 DEF AllOneCompletion
<1>3. \A b \in All!Actors : holding'[b] = All!Open
  BY <1>0, <1>1, <1>2 DEF All!TypeOK
<1>4. All!TypeOK'
  <2>1. -1 \in -1..N
    BY DEF All!WhenAllAssumption
  <2>2. holding' \in [All!Actors -> -1..N] /\ joined' \in -1..N
    BY <1>0, <1>1, <2>1 DEF All!TypeOK, All!Open
  <2> QED BY <1>0, <1>1, <2>2 DEF All!TypeOK, All!Slots, All!Actors
<1>5. AllPlaced' /\ AllRecorded' /\ AllUncounted' = AllUncounted
  BY <1>0, <1>1 DEF AllPlaced, AllRecorded, AllUncounted, AllWaiting, AllReady, All!Settled, All!Failed, All!Slots, All!Actors
<1>6. AllOneCompletion'
  BY <1>1, <1>2, <1>3 DEF AllOneCompletion, All!Actors, All!Open
<1> QED BY <1>0, <1>1, <1>4, <1>5, <1>6 DEF AllInv

(* The caller takes the completion when an invalid future was counted last.    *)
LEMMA AllFinalLookKeeps ==
  ASSUME All!WhenAllAssumption, AllInv, All!FinalLook
  PROVE  AllInv'
<1>0. All!TypeOK /\ AllPlaced /\ AllRecorded /\ AllOneCompletion /\ left = Cardinality(AllUncounted)
  BY DEF AllInv
<1>1. /\ returned' = TRUE /\ Caller \in All!Actors
      /\ UNCHANGED <<child, result, conts, todo, index, left, values, kept, joined>>
      /\ IF left = 0 /\ kept # 0 /\ ~claimed
         THEN claimed' = TRUE /\ holding' = [holding EXCEPT ![Caller] = kept]
         ELSE UNCHANGED <<claimed, holding>>
  BY DEF All!FinalLook, All!Uncompleted, All!childVars, All!Actors
<1>2. All!TypeOK'
  <2>0. kept \in -1..N /\ holding \in [All!Actors -> -1..N] /\ claimed \in BOOLEAN
    BY <1>0 DEF All!TypeOK, All!WhenAllAssumption
  <2>1. holding' \in [All!Actors -> -1..N] /\ claimed' \in BOOLEAN
    <3>1. CASE left = 0 /\ kept # 0 /\ ~claimed
      BY <1>1, <2>0, <3>1
    <3>2. CASE ~(left = 0 /\ kept # 0 /\ ~claimed)
      BY <1>1, <2>0, <3>2
    <3> QED BY <3>1, <3>2
  <2> QED BY <1>0, <1>1, <2>1 DEF All!TypeOK, All!Slots, All!Actors
<1>3. AllPlaced' /\ AllRecorded' /\ AllUncounted' = AllUncounted
  BY <1>0, <1>1 DEF AllPlaced, AllRecorded, AllUncounted, AllWaiting, AllReady, All!Settled, All!Failed, All!Slots, All!Actors
<1>4. AllOneCompletion'
  <2>1. CASE left = 0 /\ kept # 0 /\ ~claimed
    <3>1. joined = All!Open /\ \A b \in All!Actors : holding[b] = All!Open
      BY <1>0, <2>1 DEF AllOneCompletion
    <3>2. \A b \in All!Actors : holding'[b] = IF b = Caller THEN kept ELSE All!Open
      BY <1>0, <1>1, <2>1, <3>1 DEF All!TypeOK
    <3> QED BY <1>1, <2>1, <3>1, <3>2 DEF AllOneCompletion, All!Actors, All!Open
  <2>2. CASE ~(left = 0 /\ kept # 0 /\ ~claimed)
    BY <1>0, <1>1, <2>2 DEF AllOneCompletion, All!Actors, All!Open
  <2> QED BY <2>1, <2>2
<1> QED BY <1>0, <1>1, <1>2, <1>3, <1>4 DEF AllInv

LEMMA AllSteps == ASSUME All!WhenAllAssumption, AllInv, [All!Next]_(All!vars) PROVE AllInv'
<1>1. CASE UNCHANGED All!vars
  BY <1>1 DEF All!vars, AllInv, All!TypeOK, AllPlaced, AllRecorded, AllOneCompletion, AllUncounted, AllWaiting,
              AllReady, All!Settled, All!Failed, All!Slots, All!Actors
<1> QED BY <1>1, AllSetChildKeeps, AllSkipInvalidKeeps, AllAttachChildKeeps, AllCallbackKeeps,
           AllCompleteKeeps, AllFinalLookKeeps DEF All!Next, All!Run

-----------------------------------------------------------------------------
LEMMA AllInvariant == All!WhenAllAssumption => (All!Spec => []AllInv)
<1> SUFFICES ASSUME All!WhenAllAssumption PROVE All!Spec => []AllInv
  OBVIOUS
<1>1. All!Init => AllInv
  BY AllBegins
<1>2. AllInv /\ [All!Next]_(All!vars) => AllInv'
  BY AllSteps
<1> QED BY <1>1, <1>2, PTL DEF All!Spec

\* The instance has the operators of FiniteSets under names of its own.
LEMMA AllCardinality == ASSUME NEW S PROVE All!Cardinality(S) = Cardinality(S)
BY DEF All!Cardinality, Cardinality

LEMMA AllTruthful == ASSUME All!WhenAllAssumption PROVE AllInv => All!CompletionTruthful
<1> SUFFICES ASSUME AllInv, NEW c, c # All!Open,
                    c = joined \/ \E a \in All!Actors : c = holding[a]
             PROVE  All!Truthful(c)
  BY DEF All!CompletionTruthful, All!Truthful
<1>1. claimed /\ c = kept /\ left = 0
  BY DEF AllInv, AllOneCompletion
<1>2. AllUncounted = {}
  <2>1. AllUncounted \in SUBSET All!Slots /\ Cardinality(AllUncounted) = 0
    BY <1>1 DEF AllInv, AllUncounted
  <2> QED BY <2>1, AllCountOne
<1>3. \A s \in All!Slots : All!Settled(s) /\ (~All!Failed(s) => s \in values) /\ (All!Failed(s) => kept # 0)
  BY <1>2 DEF AllInv, AllRecorded
<1>4. values \subseteq All!Slots /\ (kept # 0 => All!Failed(kept))
  BY DEF AllInv, All!TypeOK, AllRecorded
<1> QED BY <1>1, <1>3, <1>4 DEF All!Truthful

LEMMA AllClaimedOnce == ASSUME All!WhenAllAssumption PROVE AllInv => All!ClaimedOnce
<1> SUFFICES ASSUME AllInv PROVE All!ClaimedOnce
  OBVIOUS
<1> DEFINE Holders == {a \in All!Actors : holding[a] # All!Open}
<1>1. kept # All!Open
  BY DEF AllInv, All!TypeOK, All!Open
<1>2. CASE ~claimed
  <2>1. Holders = {} /\ joined = All!Open
    BY <1>2 DEF AllInv, AllOneCompletion
  <2> QED BY <1>2, <2>1, FS_EmptySet, AllCardinality DEF All!ClaimedOnce
<1>3. CASE claimed /\ joined # All!Open
  <2>1. Holders = {} /\ left = 0
    BY <1>3 DEF AllInv, AllOneCompletion
  <2> QED BY <1>3, <2>1, FS_EmptySet, AllCardinality DEF All!ClaimedOnce
<1>4. CASE claimed /\ joined = All!Open
  <2>1. left = 0 /\ \E a \in All!Actors : Holders = {a}
    BY <1>1, <1>4 DEF AllInv, AllOneCompletion
  <2>2. Cardinality(Holders) = 1
    BY <2>1, FS_Singleton
  <2> QED BY <1>4, <2>1, <2>2, AllCardinality DEF All!ClaimedOnce
<1> QED BY <1>2, <1>3, <1>4

(* The output, and the completion on its way to it, exist only once every      *)
(* future is settled; they hold all the values, or the error of one that failed. *)
THEOREM CompletesWithTheTruth == All!WhenAllAssumption => (All!Spec => []All!CompletionTruthful)
<1> SUFFICES ASSUME All!WhenAllAssumption PROVE All!Spec => []All!CompletionTruthful
  OBVIOUS
<1> QED BY AllInvariant, AllTruthful, PTL

(* One completion is claimed, and it is in one place: with whoever claimed it, *)
(* or in the output.                                                           *)
THEOREM CompletesOnce == All!WhenAllAssumption => (All!Spec => []All!ClaimedOnce)
<1> SUFFICES ASSUME All!WhenAllAssumption PROVE All!Spec => []All!ClaimedOnce
  OBVIOUS
<1> QED BY AllInvariant, AllClaimedOnce, PTL

-----------------------------------------------------------------------------
(* ParallelFor.  The inductive invariant, in parts.  A work that has not      *)
(* claimed the end of the range yet is Claiming; afterwards it is Past.       *)
Claiming  == {"new", "failed?", "cancelled?", "claim", "body"}
CountedOut == {"complete", "left"}
Past      == {w \in Works : pc[w] \notin Claiming}
Uncounted == {w \in Works : pc[w] \notin CountedOut}
Claims(w, i) == pc[w] = "body" /\ at[w].index <= i /\ i < at[w].last

\* A work is queued once, before it begins.
QueuedOnce ==
    /\ Distinct(pending)
    /\ \A k \in 1..Len(pending) : pc[pending[k]] = "new" /\ pending[k] < submitting
    /\ \A w \in Works : w >= submitting => pc[w] = "new"

\* The counter grows past the end at most once for each work, so it does not
\* wrap around, and what two works have claimed has nothing in common.
ClaimsApart ==
    /\ call.begin <= next
    /\ next < call.end + call.chunk * (Cardinality(Past) + 1)
    /\ \A w \in Works : pc[w] = "body" =>
          /\ call.begin <= at[w].index /\ at[w].index <= at[w].last
          /\ at[w].last <= next /\ at[w].last <= call.end
    /\ \A v, w \in Works : v # w /\ pc[v] = "body" /\ pc[w] = "body" =>
          (at[v].last <= at[w].index \/ at[w].last <= at[v].index)

\* An index below the counter is visited or claimed, unless a work gave up.
VisitsOnce ==
    /\ \A i \in Indices : visits[i] <= 1 /\ (i >= next => visits[i] = 0)
    /\ \A i \in Indices, w \in Works : Claims(w, i) => visits[i] = 0
    /\ blamers = {} => \A i \in Indices : i < next =>
          (visits[i] = 1 \/ \E w \in Works : Claims(w, i))
    /\ blamers = {} => \A w \in Works :
          pc[w] \in {"count"} \cup CountedOut => call.end <= next

\* remaining counts the works that have not counted themselves out; the one that
\* brings it to 0 is the last.
CountExact ==
    /\ remaining = Cardinality(Uncounted)
    /\ \A w \in Works : pc[w] = "complete" =>
           outcome = "open" /\ \A v \in Works \ {w} : pc[v] = "left"

\* An error is stored before its work is counted out.
ErrorsKept ==
    /\ \A w \in Works : pc[w] \in {"store", "error"} => w \in blamers
    /\ \A w \in blamers : \/ pc[w] \in {"store", "error"}
                          \/ error /\ pc[w] \in {"count"} \cup CountedOut
    /\ failed \/ error => blamers # {}
    /\ outcome # "open" => /\ outcome = "error" <=> error
                           /\ \A w \in Works : pc[w] = "left"

LoopInv ==
    /\ TypeOK /\ call.begin < call.end
    /\ QueuedOnce /\ ClaimsApart /\ VisitsOnce /\ CountExact /\ ErrorsKept

-----------------------------------------------------------------------------
\* What a call whose arithmetic fits has: at least one work, no more than the
\* chunks, and its sizes are natural numbers.
LEMMA CallSizes ==
  ASSUME call \in Calls, call.begin < call.end
  PROVE  /\ call.begin \in 0..SizeMax /\ call.end \in 0..SizeMax
         /\ call.chunk \in 1..SizeMax /\ SizeMax \in Nat \ {0}
         /\ WorkerCount(call) \in 1..SizeMax
         /\ IsFiniteSet(Works) /\ Cardinality(Works) = WorkerCount(call)
         /\ call.end + call.chunk * (WorkerCount(call) + 1) <= SizeMax + 1
<1>1. /\ call.begin \in 0..SizeMax /\ call.end \in 0..SizeMax
      /\ call.chunk \in 1..SizeMax /\ call.desired \in 1..SizeMax
      /\ SizeMax \in Nat \ {0}
  BY LoopAssumption DEF LoopAssumption
<1>2. call.end + call.chunk * (WorkerCount(call) + 1) <= SizeMax + 1
  BY CallsFit DEF CallFits
<1> DEFINE n == call.end - call.begin + call.chunk - 1
<1>3. n \in Nat /\ n >= call.chunk
  BY <1>1
<1>4. ChunkCount(call) \in Nat
  <2>1. Wrap(n) \in Nat
    BY <1>1, <1>3 DEF Wrap
  <2> HIDE DEF n
  <2>2. ChunkCount(call) = Wrap(n) \div call.chunk
    BY DEF ChunkCount, n
  <2> QED BY <1>1, <2>1, <2>2
<1>5. WorkerCount(call) \in Nat
  BY <1>1, <1>4 DEF WorkerCount, Smaller
<1>6. call.chunk <= call.chunk * (WorkerCount(call) + 1)
  BY <1>1, <1>5
<1>7. n <= SizeMax
  <2>1. call.chunk * (WorkerCount(call) + 1) \in Nat
    BY <1>1, <1>5
  <2> QED BY <1>1, <1>2, <1>6, <2>1
<1>8. Wrap(n) = n
  <2> HIDE DEF n
  <2> QED BY <1>1, <1>3, <1>7 DEF Wrap
<1>9. ChunkCount(call) >= 1
  <2>1. ChunkCount(call) = n \div call.chunk
    BY <1>8 DEF ChunkCount
  <2> HIDE DEF n
  <2> QED BY <1>1, <1>3, <2>1
<1>10. WorkerCount(call) \in 1..SizeMax
  BY <1>1, <1>5, <1>9 DEF WorkerCount, Smaller
<1>11. IsFiniteSet(Works) /\ Cardinality(Works) = WorkerCount(call)
  BY <1>10, FS_Interval DEF Works
<1> QED BY <1>1, <1>2, <1>10, <1>11

\* What it means for the counts that one work goes on to another place.
LEMMA GoesOn ==
  ASSUME TypeOK, call.begin < call.end, call' = call,
         NEW w \in Works, NEW p \in Places, Goto(w, p)
  PROVE  /\ Works' = Works /\ Indices' = Indices
         /\ pc' \in [Works -> Places] /\ pc'[w] = p
         /\ \A v \in Works : v # w => pc'[v] = pc[v]
         /\ Cardinality(Past) \in Nat /\ Cardinality(Uncounted) \in Nat
         /\ w \in Uncounted => Cardinality(Uncounted) >= 1
         /\ pc[w] \in Claiming => Cardinality(Past) + 1 <= WorkerCount(call)
         /\ pc[w] \notin Claiming /\ p \notin Claiming => Past' = Past
         /\ pc[w] \in Claiming /\ p \in Claiming => Past' = Past
         /\ pc[w] \in Claiming /\ p \notin Claiming
                => Cardinality(Past') = Cardinality(Past) + 1
         /\ pc[w] \notin CountedOut /\ p \notin CountedOut => Uncounted' = Uncounted
         /\ pc[w] \in CountedOut /\ p \in CountedOut => Uncounted' = Uncounted
         /\ pc[w] \notin CountedOut /\ p \in CountedOut
                => Cardinality(Uncounted') = Cardinality(Uncounted) - 1
<1>1. Works' = Works /\ Indices' = Indices
  BY DEF Works, Indices
<1>2. pc' = [pc EXCEPT ![w] = p] /\ pc \in [Works -> Places]
  BY DEF Goto, TypeOK
<1>3. pc' \in [Works -> Places] /\ pc'[w] = p /\ \A v \in Works : v # w => pc'[v] = pc[v]
  BY <1>2
<1>4. /\ Past' = {v \in Works : pc'[v] \notin Claiming}
      /\ Uncounted' = {v \in Works : pc'[v] \notin CountedOut}
  BY <1>1 DEF Past, Uncounted, Claiming, CountedOut
<1>5. IsFiniteSet(Works) /\ Cardinality(Works) = WorkerCount(call)
      /\ WorkerCount(call) \in Nat
  BY CallSizes DEF TypeOK
<1>6. /\ IsFiniteSet(Past) /\ Cardinality(Past) \in Nat
      /\ IsFiniteSet(Uncounted) /\ Cardinality(Uncounted) \in Nat
  BY <1>5, FS_Subset, FS_CardinalityType DEF Past, Uncounted
<1>7. w \in Uncounted => Cardinality(Uncounted) >= 1
  BY <1>6, FS_EmptySet
<1>8. ASSUME pc[w] \in Claiming
      PROVE  /\ Cardinality(Past) + 1 <= WorkerCount(call)
             /\ p \notin Claiming => Cardinality(Past') = Cardinality(Past) + 1
  <2>1. w \notin Past
    BY <1>8 DEF Past
  <2>2. IsFiniteSet(Past \cup {w}) /\ Cardinality(Past \cup {w}) = Cardinality(Past) + 1
    BY <1>6, <2>1, FS_AddElement
  <2>3. Past \cup {w} \subseteq Works
    BY DEF Past
  <2>4. Cardinality(Past \cup {w}) <= Cardinality(Works)
    BY <1>5, <2>3, FS_Subset
  <2>5. p \notin Claiming => Past' = Past \cup {w}
    BY <1>3, <1>4 DEF Past
  <2> QED BY <1>5, <1>6, <2>2, <2>4, <2>5
<1>9. ASSUME pc[w] \notin CountedOut, p \in CountedOut
      PROVE  Cardinality(Uncounted') = Cardinality(Uncounted) - 1
  <2>1. w \in Uncounted
    BY <1>9 DEF Uncounted
  <2>2. Uncounted' = Uncounted \ {w}
    BY <1>3, <1>4, <1>9 DEF Uncounted
  <2> QED BY <1>6, <2>1, <2>2, FS_RemoveElement
<1>10. /\ pc[w] \notin Claiming /\ p \notin Claiming => Past' = Past
       /\ pc[w] \in Claiming /\ p \in Claiming => Past' = Past
       /\ pc[w] \notin CountedOut /\ p \notin CountedOut => Uncounted' = Uncounted
       /\ pc[w] \in CountedOut /\ p \in CountedOut => Uncounted' = Uncounted
  BY <1>3, <1>4 DEF Past, Uncounted
<1> QED BY <1>1, <1>3, <1>6, <1>7, <1>8, <1>9, <1>10

(* Steps of one work that leave the claims and the visits alone: it stays out  *)
(* of its claim, and does not reach the countdown unless the range is          *)
(* exhausted or a work gave up.                                                *)
LEMMA ClaimsKept ==
  ASSUME LoopInv, NEW w \in Works, NEW p \in Places, Goto(w, p),
         UNCHANGED <<call, at, next, visits>>,
         p = "body" => pc[w] = "body",
         pc[w] \notin Claiming => p \notin Claiming,
         blamers \subseteq blamers', blamers' \subseteq Works,
         pc[w] = "body" => \/ blamers' # {}
                           \/ at[w].last <= at[w].index,
         p \in {"count"} \cup CountedOut =>
             \/ blamers' # {} \/ call.end <= next
             \/ pc[w] \in {"count"} \cup CountedOut
  PROVE  ClaimsApart' /\ VisitsOnce'
<1> USE DEF LoopInv
<1>1. call \in Calls /\ call.begin < call.end
  BY DEF TypeOK
<1>2. /\ Works' = Works /\ Indices' = Indices
      /\ pc' \in [Works -> Places] /\ pc'[w] = p
      /\ \A v \in Works : v # w => pc'[v] = pc[v]
  BY GoesOn
<1>3. Cardinality(Past) \in Nat /\ Cardinality(Past') \in Nat
      /\ Cardinality(Past) <= Cardinality(Past')
  <2>1. CASE pc[w] \in Claiming /\ p \notin Claiming
    BY <2>1, GoesOn
  <2>2. CASE ~(pc[w] \in Claiming /\ p \notin Claiming)
    BY <2>2, GoesOn
  <2> QED BY <2>1, <2>2
<1>4. \A v \in Works : pc'[v] = "body" => pc[v] = "body"
  BY <1>2
<1>5. ClaimsApart'
  <2>1. next' < call'.end + call'.chunk * (Cardinality(Past') + 1)
    <3>1. /\ next \in Nat /\ call.end \in Nat /\ call.chunk \in Nat
          /\ next < call.end + call.chunk * (Cardinality(Past) + 1)
      BY CallSizes DEF TypeOK, ClaimsApart
    <3>2. call.chunk * (Cardinality(Past) + 1) <= call.chunk * (Cardinality(Past') + 1)
          /\ call.chunk * (Cardinality(Past) + 1) \in Nat
          /\ call.chunk * (Cardinality(Past') + 1) \in Nat
      BY <1>3, <3>1
    <3> QED BY <3>1, <3>2
  <2> QED BY <1>2, <1>4, <2>1 DEF ClaimsApart
<1>6. \A i \in Indices, v \in Works : Claims(v, i)' => Claims(v, i)
  BY <1>4 DEF Claims
<1>7. ASSUME blamers' = {}, NEW i \in Indices, NEW v \in Works, Claims(v, i)
      PROVE  Claims(v, i)'
  <2>1. CASE v = w
    <3>1. at[w].index \in Nat /\ at[w].last \in Nat
      BY DEF TypeOK
    <3>2. i \in Nat
      BY CallSizes, <1>1 DEF Indices
    <3> QED BY <1>7, <2>1, <3>1, <3>2 DEF Claims
  <2>2. CASE v # w
    BY <1>2, <1>7, <2>2 DEF Claims
  <2> QED BY <2>1, <2>2
<1>8. VisitsOnce'
  <2>1. \A i \in Indices' : visits'[i] <= 1 /\ (i >= next' => visits'[i] = 0)
    BY <1>2 DEF VisitsOnce
  <2>2. \A i \in Indices', v \in Works' : Claims(v, i)' => visits'[i] = 0
    BY <1>2, <1>6 DEF VisitsOnce
  <2>3. ASSUME blamers' = {}, NEW i \in Indices', i < next'
        PROVE  visits'[i] = 1 \/ \E v \in Works' : Claims(v, i)'
    BY <1>2, <1>7, <2>3 DEF VisitsOnce
  <2>4. ASSUME blamers' = {}, NEW v \in Works', pc'[v] \in {"count"} \cup CountedOut
        PROVE  call'.end <= next'
    BY <1>2, <2>4 DEF VisitsOnce
  <2> QED BY <2>1, <2>2, <2>3, <2>4 DEF VisitsOnce, Claims, CountedOut
<1> QED BY <1>5, <1>8

(* A work that has begun moves without the queue and the caller.               *)
LEMMA QueueKept ==
  ASSUME LoopInv, NEW w \in Works, NEW p \in Places, Goto(w, p), pc[w] # "new",
         UNCHANGED <<call, pending, submitting>>
  PROVE  QueuedOnce'
<1>1. /\ Works' = Works /\ \A v \in Works : v # w => pc'[v] = pc[v]
  BY GoesOn DEF LoopInv
<1>2. \A k \in 1..Len(pending) : pending[k] \in Works
  BY DEF LoopInv, TypeOK
<1> QED BY <1>1, <1>2 DEF LoopInv, QueuedOnce

(* A work moves between places where it is not counted out.                    *)
LEMMA CountKept ==
  ASSUME LoopInv, NEW w \in Works, NEW p \in Places, Goto(w, p),
         pc[w] \notin CountedOut, p \notin CountedOut,
         UNCHANGED <<call, remaining, outcome>>
  PROVE  CountExact'
<1>1. /\ Works' = Works /\ Uncounted' = Uncounted /\ pc'[w] = p
      /\ \A v \in Works : v # w => pc'[v] = pc[v]
  BY GoesOn DEF LoopInv
<1>2. \A v \in Works : pc'[v] # "complete"
  <2>1. \A v \in Works : pc[v] = "complete" => pc[w] = "left" \/ v = w
    BY DEF LoopInv, CountExact
  <2> QED BY <1>1, <2>1 DEF CountedOut
<1> QED BY <1>1, <1>2 DEF LoopInv, CountExact

-----------------------------------------------------------------------------
\* A call of finish with an error.
LEMMA Blames ==
  ASSUME LoopInv, NEW w \in Works, Blame(w),
         pc[w] \in Claiming,
         UNCHANGED <<call, remaining, failed, error, outcome>>
  PROVE  CountExact' /\ ErrorsKept' /\ pc' \in [Works -> Places]
         /\ blamers' \subseteq Works /\ w \in blamers'
<1>1. Goto(w, "store") /\ "store" \in Places /\ blamers' = blamers \cup {w}
  BY DEF Blame, Places
<1>2. CountExact'
  BY <1>1, CountKept DEF Claiming, CountedOut
<1>3. /\ Works' = Works /\ pc' \in [Works -> Places] /\ pc'[w] = "store"
      /\ \A v \in Works : v # w => pc'[v] = pc[v]
  BY <1>1, GoesOn DEF LoopInv
<1>4. outcome = "open"
  BY DEF LoopInv, ErrorsKept, Claiming
<1>5. ErrorsKept'
  <2>1. \A v \in Works' : pc'[v] \in {"store", "error"} => v \in blamers'
    BY <1>1, <1>3 DEF LoopInv, ErrorsKept
  <2>2. \A v \in blamers' : \/ pc'[v] \in {"store", "error"}
                            \/ error' /\ pc'[v] \in {"count"} \cup CountedOut
    BY <1>1, <1>3 DEF LoopInv, ErrorsKept, TypeOK
  <2> QED BY <1>1, <1>4, <2>1, <2>2 DEF ErrorsKept, CountedOut
<1> QED BY <1>1, <1>2, <1>3, <1>5 DEF LoopInv, TypeOK

LEMMA Numbers ==
  ASSUME LoopInv
  PROVE  /\ Works \subseteq Nat /\ submitting \in Nat
         /\ WorkerCount(call) \in 1..SizeMax /\ SizeMax \in Nat
<1>1. WorkerCount(call) \in 1..SizeMax /\ SizeMax \in Nat
  BY CallSizes DEF LoopInv, TypeOK
<1>2. submitting \in 1..(WorkerCount(call) + 1)
  BY DEF LoopInv, TypeOK
<1> QED BY <1>1, <1>2 DEF Works

(* When nothing of the loop changes but the executor, the token and the caller's *)
(* place, the parts that do not speak of them stay.                              *)
LEMMA LoopKept ==
  ASSUME LoopInv, UNCHANGED <<workVars, doneVars, call>>
  PROVE  /\ Works' = Works /\ Indices' = Indices
         /\ ClaimsApart' /\ VisitsOnce' /\ CountExact' /\ ErrorsKept'
<1>1. Works' = Works /\ Indices' = Indices
  BY DEF Works, Indices, workVars, doneVars
<1>2. Past' = Past /\ Uncounted' = Uncounted
  BY <1>1 DEF Past, Uncounted, workVars, doneVars, Claiming, CountedOut
<1>3. ClaimsApart'
  BY <1>1, <1>2 DEF LoopInv, ClaimsApart, workVars, doneVars
<1>4. VisitsOnce'
  BY <1>1 DEF LoopInv, VisitsOnce, workVars, doneVars, Claims, CountedOut
<1>5. CountExact'
  BY <1>1, <1>2 DEF LoopInv, CountExact, workVars, doneVars
<1>6. ErrorsKept'
  BY <1>1 DEF LoopInv, ErrorsKept, workVars, doneVars, CountedOut
<1> QED BY <1>1, <1>3, <1>4, <1>5, <1>6

\* The oldest work of the queue has not begun and is in no other place of it.
LEMMA Oldest ==
  ASSUME LoopInv, pending # <<>>
  PROVE  /\ Head(pending) \in Works /\ Tail(pending) \in Seq(Works)
         /\ pc[Head(pending)] = "new" /\ Head(pending) < submitting
         /\ Distinct(Tail(pending))
         /\ \A k \in 1..Len(Tail(pending)) :
               /\ Tail(pending)[k] \in Works /\ Tail(pending)[k] # Head(pending)
               /\ pc[Tail(pending)[k]] = "new" /\ Tail(pending)[k] < submitting
<1>1. pending \in Seq(Works)
  BY DEF LoopInv, TypeOK
<1>2. /\ Head(pending) = pending[1] /\ Head(pending) \in Works
      /\ Tail(pending) \in Seq(Works)
      /\ Len(pending) \in Nat /\ Len(pending) >= 1
      /\ Len(Tail(pending)) = Len(pending) - 1
      /\ \A k \in 1..Len(Tail(pending)) : Tail(pending)[k] = pending[k + 1]
  BY <1>1, HeadTailProperties, LenProperties, EmptySeq
<1>3. \A k \in 1..Len(Tail(pending)) :
          k + 1 \in 1..Len(pending) /\ k + 1 # 1 /\ Tail(pending)[k] \in Works
  BY <1>1, <1>2
<1>4. Distinct(pending) /\ 1 \in 1..Len(pending)
  BY <1>2 DEF LoopInv, QueuedOnce
<1>5. Distinct(Tail(pending))
  <2>1. ASSUME NEW j \in 1..Len(Tail(pending)), NEW k \in 1..Len(Tail(pending)),
               Tail(pending)[j] = Tail(pending)[k]
        PROVE  j = k
    <3>1. j + 1 = k + 1
      BY <1>2, <1>3, <1>4, <2>1 DEF Distinct
    <3> QED BY <3>1
  <2> QED BY <2>1 DEF Distinct
<1>6. \A k \in 1..Len(Tail(pending)) : Tail(pending)[k] # Head(pending)
  BY <1>2, <1>3, <1>4 DEF Distinct
<1> QED BY <1>2, <1>3, <1>4, <1>5, <1>6 DEF LoopInv, QueuedOnce

(* The oldest work of the queue leaves it for another place.                   *)
LEMMA Dequeued ==
  ASSUME LoopInv, pending # <<>>, pending' = Tail(pending),
         NEW p \in Places, Goto(Head(pending), p), UNCHANGED <<call, submitting>>
  PROVE  QueuedOnce'
<1>1. Head(pending) \in Works
  BY Oldest
<1>2. /\ Works' = Works /\ \A v \in Works : v # Head(pending) => pc'[v] = pc[v]
  BY <1>1, GoesOn DEF LoopInv
<1>3. \A v \in Works : v >= submitting' => pc'[v] = "new"
  <2>1. ASSUME NEW v \in Works, v >= submitting
        PROVE  pc'[v] = "new"
    <3>1. v # Head(pending)
      <4>1. Head(pending) < submitting
        BY Oldest
      <4>2. v \in Nat /\ Head(pending) \in Nat /\ submitting \in Nat
        BY <1>1, Numbers
      <4> QED BY <2>1, <4>1, <4>2
    <3> QED BY <1>2, <2>1, <3>1 DEF LoopInv, QueuedOnce
  <2> QED BY <2>1
<1>4. \A k \in 1..Len(pending') : pc'[pending'[k]] = "new" /\ pending'[k] < submitting'
  BY <1>2, Oldest
<1>5. Distinct(pending')
  BY Oldest
<1> QED BY <1>2, <1>3, <1>4, <1>5 DEF QueuedOnce

-----------------------------------------------------------------------------
LEMMA SubmitKeeps == LoopInv /\ Submit => LoopInv'
<1> SUFFICES ASSUME LoopInv, Submit PROVE LoopInv'
  OBVIOUS
<1>1. /\ call \in Calls /\ call.begin < call.end /\ submitting \in Works
      /\ UNCHANGED <<call, cancelled, at, next, visits, remaining, failed, error, outcome>>
      /\ submitting' = submitting + 1 /\ Works' = Works /\ Indices' = Indices
  BY DEF LoopInv, TypeOK, Submit, MaySubmit, Works, Indices
<1>2. WorkerCount(call) \in Nat /\ submitting \in Nat /\ submitting' \in 1..(WorkerCount(call) + 1)
  BY <1>1, CallSizes DEF Works
<1>3. pc[submitting] = "new"
  BY <1>1, <1>2 DEF LoopInv, QueuedOnce
<1>4. pending \in Seq(Works)
  BY DEF LoopInv, TypeOK
<1>5. CASE Exec!SpecAccept(submitting) /\ UNCHANGED <<pc, blamers>>
  <2>1. pending' = Append(pending, submitting) /\ UNCHANGED <<running, ran, disposed, stopped>>
    BY <1>5 DEF Exec!SpecAccept
  <2>2. /\ pending' \in Seq(Works) /\ Len(pending') = Len(pending) + 1
        /\ Len(pending) \in Nat
        /\ \A k \in 1..Len(pending) : pending'[k] = pending[k]
        /\ pending'[Len(pending) + 1] = submitting
    BY <1>1, <1>4, <2>1, AppendProperties, LenProperties
  <2>3. \A k \in 1..Len(pending) :
            pc[pending[k]] = "new" /\ pending[k] < submitting /\ pending[k] \in Nat
    BY <1>4, Numbers DEF LoopInv, QueuedOnce
  <2>4. \A k \in 1..Len(pending') :
            pc[pending'[k]] = "new" /\ pending'[k] < submitting'
    BY <1>1, <1>2, <1>3, <2>2, <2>3
  <2>5. Distinct(pending')
    <3>1. ASSUME NEW j \in 1..Len(pending'), NEW k \in 1..Len(pending'),
                 pending'[j] = pending'[k]
          PROVE  j = k
      <4>1. CASE j \in 1..Len(pending) /\ k \in 1..Len(pending)
        BY <3>1, <4>1, <2>2 DEF LoopInv, QueuedOnce, Distinct
      <4>2. CASE j = Len(pending) + 1 \/ k = Len(pending) + 1
        BY <3>1, <4>2, <2>2, <2>3
      <4> QED BY <2>2, <4>1, <4>2
    <3> QED BY <3>1 DEF Distinct
  <2>6. QueuedOnce'
    <3>1. \A v \in Works' : v >= submitting' => pc'[v] = "new"
      <4>1. ASSUME NEW v \in Works, v >= submitting + 1
            PROVE  pc[v] = "new"
        <5>1. v \in Nat /\ v >= submitting
          BY <1>1, <1>2, <4>1, CallSizes DEF Works
        <5> QED BY <5>1 DEF LoopInv, QueuedOnce
      <4> QED BY <1>1, <1>5, <4>1
    <3> QED BY <1>5, <2>4, <2>5, <3>1 DEF QueuedOnce
  <2>7. ClaimsApart' /\ VisitsOnce' /\ CountExact' /\ ErrorsKept'
    BY <1>1, <1>5, LoopKept DEF workVars, doneVars
  <2>8. TypeOK'
    BY <1>1, <1>2, <1>5, <2>1, <2>2 DEF LoopInv, TypeOK
  <2> QED BY <1>1, <2>6, <2>7, <2>8 DEF LoopInv
<1>6. CASE SubmitFailed(submitting) /\ UNCHANGED execVars
  <2>1. Blame(submitting) /\ pc[submitting] \in Claiming /\ "store" \in Places
        /\ Goto(submitting, "store") /\ blamers' = blamers \cup {submitting}
    BY <1>3, <1>6 DEF SubmitFailed, Claiming, Blame, Places
  <2>2. CountExact' /\ ErrorsKept' /\ pc' \in [Works -> Places] /\ blamers' \subseteq Works
        /\ submitting \in blamers'
    BY <1>1, <2>1, Blames
  <2>3. ClaimsApart' /\ VisitsOnce'
    <3>1. ClaimsApart' /\ VisitsOnce'
      BY <1>1, <1>3, <2>1, <2>2, ClaimsKept DEF Claiming, CountedOut
    <3> QED BY <3>1
  <2>4. QueuedOnce'
    <3>1. pc'[submitting] = "store" /\ \A v \in Works : v # submitting => pc'[v] = pc[v]
      BY <1>1, <2>1, GoesOn DEF LoopInv
    <3>2. \A k \in 1..Len(pending) : pending[k] \in Works /\ pending[k] \in Nat
      BY <1>4, Numbers
    <3>3. \A k \in 1..Len(pending) : pc'[pending[k]] = "new" /\ pending[k] < submitting + 1
      <4>1. ASSUME NEW k \in 1..Len(pending)
            PROVE  pc'[pending[k]] = "new" /\ pending[k] < submitting + 1
        <5>1. pending[k] < submitting /\ pc[pending[k]] = "new"
          BY DEF LoopInv, QueuedOnce
        <5> QED BY <1>2, <3>1, <3>2, <5>1
      <4> QED BY <4>1
    <3>4. ASSUME NEW v \in Works, v >= submitting + 1
          PROVE  pc'[v] = "new"
      <4>1. v \in Nat /\ v >= submitting /\ v # submitting
        BY <1>1, <1>2, <3>4, CallSizes DEF Works
      <4> QED BY <4>1, <3>1 DEF LoopInv, QueuedOnce
    <3> QED BY <1>1, <1>6, <3>3, <3>4 DEF QueuedOnce, LoopInv, execVars
  <2>5. TypeOK'
    BY <1>1, <1>2, <1>6, <2>2 DEF LoopInv, TypeOK, execVars
  <2> QED BY <1>1, <2>2, <2>3, <2>4, <2>5 DEF LoopInv
<1> QED BY <1>5, <1>6 DEF Submit

LEMMA ExecutorKeeps == LoopInv /\ (Start \/ Stop \/ Dispose \/ Cancel) => LoopInv'
<1> SUFFICES ASSUME LoopInv, Start \/ Stop \/ Dispose \/ Cancel PROVE LoopInv'
  OBVIOUS
<1>1. call \in Calls /\ call.begin < call.end
  BY DEF LoopInv, TypeOK
<1>2. CASE Start
  <2> PICK w : w = Head(pending)
    OBVIOUS
  <2>1. /\ pending # <<>> /\ pending' = Tail(pending) /\ running' = running \cup {w}
        /\ "failed?" \in Places /\ Goto(w, "failed?")
        /\ UNCHANGED <<ran, disposed, stopped, doneVars, call, cancelled, submitting,
                       at, next, visits>>
    BY <1>2 DEF Start, Exec!SpecStart, Places
  <2>2. w \in Works /\ pc[w] = "new" /\ Tail(pending) \in Seq(Works)
    BY <2>1, Oldest
  <2>3. Works' = Works /\ Indices' = Indices /\ pc' \in [Works -> Places]
        /\ pc'[w] = "failed?" /\ \A v \in Works : v # w => pc'[v] = pc[v]
    BY <2>1, <2>2, GoesOn DEF LoopInv
  <2>4. QueuedOnce'
    BY <2>1, Dequeued
  <2>5. ClaimsApart' /\ VisitsOnce'
    BY <2>1, <2>2, ClaimsKept DEF Claiming, CountedOut, doneVars, LoopInv, TypeOK
  <2>6. CountExact'
    BY <2>1, <2>2, CountKept DEF CountedOut, doneVars
  <2>7. ErrorsKept'
    <3>1. outcome = "open"
      BY <2>2 DEF LoopInv, ErrorsKept
    <3>2. w \notin blamers
      BY <2>2 DEF LoopInv, ErrorsKept, CountedOut
    <3> QED BY <2>1, <2>3, <3>1, <3>2 DEF LoopInv, ErrorsKept, doneVars, TypeOK, CountedOut
  <2>8. TypeOK'
    BY <2>1, <2>2, <2>3 DEF LoopInv, TypeOK, doneVars
  <2> QED BY <1>1, <2>1, <2>4, <2>5, <2>6, <2>7, <2>8 DEF LoopInv
<1>3. CASE Stop \/ Cancel
  <2>1. UNCHANGED <<workVars, doneVars, call, submitting, pending, running, ran, disposed>>
        /\ cancelled' \in BOOLEAN /\ stopped' \in BOOLEAN
    BY <1>3 DEF Stop, Cancel, Exec!SpecStop, execVars, LoopInv, TypeOK
  <2>2. /\ Works' = Works /\ Indices' = Indices
        /\ ClaimsApart' /\ VisitsOnce' /\ CountExact' /\ ErrorsKept'
    BY <2>1, LoopKept
  <2>3. QueuedOnce'
    BY <2>1, <2>2 DEF LoopInv, QueuedOnce, workVars
  <2>4. TypeOK'
    BY <2>1, <2>2 DEF LoopInv, TypeOK, workVars, doneVars
  <2> QED BY <1>1, <2>1, <2>2, <2>3, <2>4 DEF LoopInv
<1>4. CASE Dispose
  <2> PICK w : w = Head(pending)
    OBVIOUS
  <2>1. /\ pending # <<>> /\ pending' = Tail(pending) /\ disposed' = disposed \cup {w}
        /\ "store" \in Places /\ Goto(w, "store") /\ Blame(w) /\ blamers' = blamers \cup {w}
        /\ UNCHANGED <<running, ran, stopped, call, cancelled, submitting,
                       at, next, visits, remaining, failed, error, outcome>>
    BY <1>4 DEF Dispose, Exec!SpecDispose, Places, Blame
  <2>2. w \in Works /\ pc[w] = "new" /\ Tail(pending) \in Seq(Works)
    BY <2>1, Oldest
  <2>3. Works' = Works /\ Indices' = Indices
    BY <2>1 DEF Works, Indices
  <2>4. CountExact' /\ ErrorsKept' /\ pc' \in [Works -> Places]
        /\ blamers' \subseteq Works /\ w \in blamers'
    BY <2>1, <2>2, Blames DEF Claiming
  <2>5. ClaimsApart' /\ VisitsOnce'
    BY <2>1, <2>2, <2>4, ClaimsKept DEF Claiming, CountedOut
  <2>6. QueuedOnce'
    BY <2>1, Dequeued
  <2>7. TypeOK'
    BY <2>1, <2>2, <2>3, <2>4 DEF LoopInv, TypeOK
  <2> QED BY <1>1, <2>1, <2>4, <2>5, <2>6, <2>7 DEF LoopInv
<1> QED BY <1>2, <1>3, <1>4

-----------------------------------------------------------------------------
\* Multiples of a chunk.
LEMMA Multiples ==
  ASSUME NEW c \in Nat \ {0}, NEW n \in Nat, NEW k \in Nat, n + 1 <= k
  PROVE  /\ c * (n + 1) <= c * k /\ c * k + c = c * (k + 1)
         /\ c * (n + 2) = c * (n + 1) + c /\ c <= c * (n + 1)
         /\ c * (n + 1) \in Nat /\ c * k \in Nat
<1>1. c * (n + 1) \in Nat /\ c * k \in Nat
  OBVIOUS
<1>2. c * (n + 1) <= c * k
  OBVIOUS
<1>3. c * k + c = c * (k + 1) /\ c * (n + 2) = c * (n + 1) + c
  OBVIOUS
<1>4. c <= c * (n + 1)
  OBVIOUS
<1> QED BY <1>1, <1>2, <1>3, <1>4

\* The work claims the chunk at the counter, or finds the range exhausted.
LEMMA ClaimKeeps ==
  ASSUME LoopInv, NEW w \in Works, Claim(w)
  PROVE  LoopInv'
<1>1. /\ call \in Calls /\ call.begin < call.end /\ pc[w] = "claim"
      /\ next' = Wrap(next + call.chunk)
      /\ UNCHANGED <<execVars, doneVars, call, cancelled, submitting, visits>>
      /\ Works' = Works /\ Indices' = Indices
  BY DEF LoopInv, TypeOK, Claim, Claimed, Works, Indices
<1>2. /\ call.begin \in Nat /\ call.end \in Nat /\ call.chunk \in Nat \ {0}
      /\ next \in Nat /\ SizeMax \in Nat /\ call.end <= SizeMax
      /\ call.end + call.chunk * (WorkerCount(call) + 1) <= SizeMax + 1
      /\ WorkerCount(call) \in Nat
  <2>1. next \in 0..SizeMax
    BY DEF LoopInv, TypeOK
  <2>2. /\ call.begin \in 0..SizeMax /\ call.end \in 0..SizeMax
        /\ call.chunk \in 1..SizeMax /\ SizeMax \in Nat
        /\ WorkerCount(call) \in 1..SizeMax
    BY <1>1, CallSizes
  <2>3. call.end + call.chunk * (WorkerCount(call) + 1) <= SizeMax + 1
    BY <1>1, CallSizes
  <2>4. /\ call.begin \in Nat /\ call.end \in Nat /\ call.chunk \in Nat \ {0}
        /\ next \in Nat /\ call.end <= SizeMax /\ WorkerCount(call) \in Nat
    BY <2>1, <2>2
  <2> QED BY <2>2, <2>3, <2>4
<1>3. PICK p \in {"count", "body"} : Goto(w, p) /\ p \in Places
                                     /\ (p = "count" <=> next >= call.end)
  <2>1. CASE next >= call.end
    BY <2>1 DEF Claim, Places
  <2>2. CASE ~(next >= call.end)
    BY <2>2 DEF Claim, Places
  <2> QED BY <2>1, <2>2
<1>4. /\ pc' \in [Works -> Places] /\ pc'[w] = p
      /\ \A v \in Works : v # w => pc'[v] = pc[v]
      /\ Cardinality(Past) \in Nat /\ Cardinality(Past) + 1 <= WorkerCount(call)
      /\ (p = "body" => Past' = Past)
      /\ (p = "count" => Cardinality(Past') = Cardinality(Past) + 1)
  BY <1>1, <1>3, GoesOn DEF LoopInv, Claiming
\* The counter does not wrap around.
<1>5. next' = next + call.chunk /\ next + call.chunk <= SizeMax
      /\ next' < call'.end + call'.chunk * (Cardinality(Past') + 1)
  <2>1. next < call.end + call.chunk * (Cardinality(Past) + 1)
    BY DEF LoopInv, ClaimsApart
  <2> PICK n \in Nat : n = Cardinality(Past)
    BY <1>4
  <2> PICK c \in Nat \ {0} : c = call.chunk
    BY <1>2
  <2> PICK k \in Nat : k = WorkerCount(call)
    BY <1>2
  <2>2. c * (n + 1) <= c * k /\ c * k + c = c * (k + 1) /\ c * (n + 2) = c * (n + 1) + c
        /\ c <= c * (n + 1) /\ c * (n + 1) \in Nat /\ c * k \in Nat
    BY <1>4, Multiples
  <2>3. next + c <= SizeMax
    BY <1>2, <2>1, <2>2
  <2>4. next' = next + call.chunk
    BY <1>1, <1>2, <2>3 DEF Wrap
  <2>5. CASE p = "count"
    BY <1>1, <1>2, <1>4, <2>1, <2>2, <2>3, <2>4, <2>5
  <2>6. CASE p = "body"
    BY <1>1, <1>2, <1>3, <1>4, <2>1, <2>2, <2>3, <2>4, <2>6
  <2> QED BY <2>3, <2>4, <2>5, <2>6
<1>6. call.begin <= next
  BY DEF LoopInv, ClaimsApart
<1>7. QueuedOnce'
  BY <1>1, <1>3, QueueKept DEF execVars
<1>8. CountExact'
  BY <1>1, <1>3, CountKept DEF doneVars, CountedOut
<1>9. ErrorsKept'
  <2>1. outcome = "open" /\ w \notin blamers
    BY <1>1 DEF LoopInv, ErrorsKept, CountedOut
  <2> QED BY <1>1, <1>3, <1>4, <2>1 DEF LoopInv, ErrorsKept, doneVars, CountedOut, TypeOK
<1>10. next' \in 0..SizeMax
  BY <1>2, <1>5
<1>11. CASE p = "count"
  <2>1. UNCHANGED at /\ call.end <= next
    BY <1>2, <1>3, <1>11 DEF Claim
  <2>2. \A v \in Works : pc'[v] = "body" => pc[v] = "body"
    BY <1>4, <1>11
  <2>3. \A v \in Works : pc'[v] = "body" =>
            /\ call.begin <= at[v].index /\ at[v].index <= at[v].last
            /\ at[v].last <= next' /\ at[v].last <= call.end
    <3>1. ASSUME NEW v \in Works, pc'[v] = "body"
          PROVE  /\ call.begin <= at[v].index /\ at[v].index <= at[v].last
                 /\ at[v].last <= next' /\ at[v].last <= call.end
      <4>1. at[v].last \in Nat
        BY DEF LoopInv, TypeOK
      <4>2. /\ call.begin <= at[v].index /\ at[v].index <= at[v].last
            /\ at[v].last <= next /\ at[v].last <= call.end
        BY <2>2, <3>1 DEF LoopInv, ClaimsApart
      <4> QED BY <1>2, <1>5, <4>1, <4>2
    <3> QED BY <3>1
  <2>4. ClaimsApart'
    <3>1. call'.begin <= next'
      BY <1>1, <1>2, <1>5, <1>6
    <3>2. \A u, v \in Works' : u # v /\ pc'[u] = "body" /\ pc'[v] = "body" =>
              (at'[u].last <= at'[v].index \/ at'[v].last <= at'[u].index)
      BY <1>1, <2>1, <2>2 DEF LoopInv, ClaimsApart
    <3> QED BY <1>1, <1>5, <2>1, <2>3, <3>1, <3>2 DEF ClaimsApart
  <2>5. \A i \in Indices, v \in Works : Claims(v, i)' <=> Claims(v, i)
    BY <1>1, <1>4, <1>11, <2>1 DEF Claims
  <2>6. \A i \in Indices : i < next
    BY <1>2, <2>1 DEF Indices
  <2>7. VisitsOnce'
    <3>1. \A i \in Indices : i \in Nat
      BY <1>2 DEF Indices
    <3>2. ASSUME NEW i \in Indices
          PROVE  visits[i] <= 1 /\ ~(i >= next')
      BY <1>2, <1>5, <2>6, <3>1, <3>2 DEF LoopInv, VisitsOnce
    <3>3. \A i \in Indices, v \in Works : Claims(v, i)' => visits[i] = 0
      BY <2>5 DEF LoopInv, VisitsOnce
    <3>4. blamers = {} => \A i \in Indices :
              (visits[i] = 1 \/ \E v \in Works : Claims(v, i)')
      BY <2>5, <2>6 DEF LoopInv, VisitsOnce
    <3>5. call.end <= next'
      BY <1>2, <1>5, <2>1
    <3> QED BY <1>1, <3>2, <3>3, <3>4, <3>5 DEF VisitsOnce, doneVars
  <2>8. TypeOK'
    BY <1>1, <1>4, <1>10, <2>1 DEF LoopInv, TypeOK, execVars, doneVars
  <2> QED BY <1>1, <1>7, <1>8, <1>9, <2>4, <2>7, <2>8 DEF LoopInv
<1>12. CASE p = "body"
  <2> PICK r : r = [index |-> next, last |-> Smaller(call.end, Wrap(next + call.chunk))]
    OBVIOUS
  <2>1. at' = [at EXCEPT ![w] = r] /\ next < call.end
    BY <1>2, <1>3, <1>12 DEF Claim
  <2>2. r.index = next /\ r.last = Smaller(call.end, next')
    BY <1>1
  <2>3. /\ r.index \in Nat /\ r.last \in Nat /\ r.last <= call.end /\ r.last <= next'
        /\ r.index < r.last /\ (r.last = call.end \/ r.last = next')
    BY <1>2, <1>5, <2>1, <2>2 DEF Smaller
  <2>4. r \in [index : 0..SizeMax, last : 0..SizeMax]
    <3>1. r.index \in 0..SizeMax /\ r.last \in 0..SizeMax
      BY <1>2, <2>1, <2>2, <2>3
    <3> QED BY <3>1
  <2>5. /\ at' \in [Works -> [index : 0..SizeMax, last : 0..SizeMax]] /\ at'[w] = r
        /\ \A v \in Works : v # w => at'[v] = at[v]
    BY <2>1, <2>4 DEF LoopInv, TypeOK
  <2>6. \A v \in Works : v # w /\ pc'[v] = "body" =>
            /\ at[v].index \in Nat /\ at[v].last \in Nat
            /\ call.begin <= at[v].index /\ at[v].index <= at[v].last
            /\ at[v].last <= next /\ at[v].last <= call.end /\ at'[v] = at[v]
    <3>1. ASSUME NEW v \in Works, v # w, pc'[v] = "body"
          PROVE  /\ at[v].index \in Nat /\ at[v].last \in Nat
                 /\ call.begin <= at[v].index /\ at[v].index <= at[v].last
                 /\ at[v].last <= next /\ at[v].last <= call.end
      <4>1. pc[v] = "body"
        BY <1>4, <3>1
      <4>2. at[v].index \in Nat /\ at[v].last \in Nat
        BY DEF LoopInv, TypeOK
      <4> QED BY <4>1, <4>2 DEF LoopInv, ClaimsApart
    <3> QED BY <2>5, <3>1
  <2>7. ClaimsApart'
    <3>1. call'.begin <= next'
      BY <1>1, <1>2, <1>5, <1>6
    <3>2. \A v \in Works : pc'[v] = "body" =>
              /\ call.begin <= at'[v].index /\ at'[v].index <= at'[v].last
              /\ at'[v].last <= next' /\ at'[v].last <= call.end
      <4>1. ASSUME NEW v \in Works, pc'[v] = "body"
            PROVE  /\ call.begin <= at'[v].index /\ at'[v].index <= at'[v].last
                   /\ at'[v].last <= next' /\ at'[v].last <= call.end
        <5>1. CASE v = w
          BY <1>6, <2>2, <2>3, <2>5, <5>1
        <5>2. CASE v # w
          BY <1>2, <1>5, <2>6, <4>1, <5>2
        <5> QED BY <5>1, <5>2
      <4> QED BY <4>1
    <3>3. ASSUME NEW u \in Works, NEW v \in Works, u # v, pc'[u] = "body", pc'[v] = "body"
          PROVE  at'[u].last <= at'[v].index \/ at'[v].last <= at'[u].index
      <4>1. CASE u = w
        BY <2>2, <2>5, <2>6, <3>3, <4>1
      <4>2. CASE v = w
        BY <2>2, <2>5, <2>6, <3>3, <4>2
      <4>3. CASE u # w /\ v # w
        BY <1>4, <2>5, <3>3, <4>3 DEF LoopInv, ClaimsApart
      <4> QED BY <4>1, <4>2, <4>3
    <3> QED BY <1>1, <1>5, <3>1, <3>2, <3>3 DEF ClaimsApart
  <2>8. \A i \in Indices : i \in Nat /\ i < call.end
    BY <1>2 DEF Indices
  <2>9. \A i \in Indices, v \in Works : v # w => (Claims(v, i)' <=> Claims(v, i))
    BY <1>4, <2>5 DEF Claims
  <2>10. \A i \in Indices : Claims(w, i)' <=> next <= i /\ i < next'
    <3>1. ASSUME NEW i \in Indices
          PROVE  Claims(w, i)' <=> next <= i /\ i < next'
      <4>1. Claims(w, i)' <=> r.index <= i /\ i < r.last
        BY <1>4, <1>12, <2>5 DEF Claims
      <4> QED BY <1>2, <1>5, <2>2, <2>3, <2>8, <4>1
    <3> QED BY <3>1
  <2>11. VisitsOnce'
    <3>1. ASSUME NEW i \in Indices
          PROVE  visits[i] <= 1 /\ (i >= next' => visits[i] = 0)
      BY <1>2, <1>5, <2>8, <3>1 DEF LoopInv, VisitsOnce
    <3>2. ASSUME NEW i \in Indices, NEW v \in Works, Claims(v, i)'
          PROVE  visits[i] = 0
      <4>1. CASE v = w
        BY <1>2, <2>8, <2>10, <3>2, <4>1 DEF LoopInv, VisitsOnce
      <4>2. CASE v # w
        BY <2>9, <3>2, <4>2 DEF LoopInv, VisitsOnce
      <4> QED BY <4>1, <4>2
    <3>3. ASSUME blamers = {}, NEW i \in Indices, i < next'
          PROVE  visits[i] = 1 \/ \E v \in Works : Claims(v, i)'
      <4>1. CASE i >= next
        BY <2>8, <2>10, <3>3, <4>1
      <4>2. CASE i < next
        <5>1. CASE visits[i] = 1
          BY <5>1
        <5>2. CASE \E v \in Works : Claims(v, i)
          <6>1. ~Claims(w, i)
            BY <1>1 DEF Claims
          <6> QED BY <2>9, <5>2, <6>1
        <5> QED BY <3>3, <4>2, <5>1, <5>2 DEF LoopInv, VisitsOnce
      <4> QED BY <1>2, <2>8, <4>1, <4>2
    <3>4. ASSUME blamers = {}, NEW v \in Works, pc'[v] \in {"count"} \cup CountedOut
          PROVE  call.end <= next'
      <4>1. pc[v] = pc'[v]
        BY <1>4, <1>12, <3>4 DEF CountedOut
      <4>2. call.end <= next
        BY <3>4, <4>1 DEF LoopInv, VisitsOnce
      <4> QED BY <1>2, <1>5, <4>2
    <3> QED BY <1>1, <3>1, <3>2, <3>3, <3>4 DEF VisitsOnce, doneVars, CountedOut
  <2>12. TypeOK'
    BY <1>1, <1>4, <1>10, <2>5 DEF LoopInv, TypeOK, execVars, doneVars
  <2> QED BY <1>1, <1>7, <1>8, <1>9, <2>7, <2>11, <2>12 DEF LoopInv
<1> QED BY <1>3, <1>11, <1>12

\* The work calls the function with the first index of its claim.
LEMMA VisitKeeps ==
  ASSUME LoopInv, NEW w \in Works, Visit(w)
  PROVE  LoopInv'
<1> PICK i : i = at[w].index
  OBVIOUS
<1>1. /\ call \in Calls /\ call.begin < call.end /\ pc[w] = "body"
      /\ i < at[w].last
      /\ visits' = [visits EXCEPT ![i] = @ + 1]
      /\ at' = [at EXCEPT ![w].index = @ + 1]
      /\ UNCHANGED <<execVars, call, cancelled, submitting, next,
                     remaining, failed, error, outcome>>
      /\ Works' = Works /\ Indices' = Indices
  BY DEF LoopInv, TypeOK, Visit, Works, Indices
<1>2. PICK p \in {"body", "store"} :
          /\ Goto(w, p) /\ p \in Places
          /\ p = "body" => UNCHANGED <<pc, blamers>>
          /\ p = "store" => Blame(w)
  <2>1. CASE UNCHANGED <<pc, blamers>>
    <3>1. Goto(w, "body")
      BY <1>1, <2>1 DEF LoopInv, TypeOK, Goto
    <3> QED BY <2>1, <3>1 DEF Places
  <2>2. CASE Blame(w)
    BY <2>2 DEF Blame, Places
  <2> QED BY <2>1, <2>2 DEF Visit
<1>3. /\ call.begin \in Nat /\ call.end \in Nat /\ next \in Nat
      /\ SizeMax \in Nat /\ call.end <= SizeMax
  <2>1. next \in 0..SizeMax
    BY DEF LoopInv, TypeOK
  <2>2. /\ call.begin \in 0..SizeMax /\ call.end \in 0..SizeMax
        /\ SizeMax \in Nat
    BY <1>1, CallSizes
  <2> QED BY <2>1, <2>2
<1>4. at[w] \in [index : 0..SizeMax, last : 0..SizeMax]
  BY DEF LoopInv, TypeOK
<1>5. /\ i \in Nat /\ at[w].last \in 0..SizeMax /\ call.begin <= i
      /\ at[w].last <= next /\ at[w].last <= call.end
  BY <1>1, <1>3, <1>4 DEF LoopInv, ClaimsApart
<1>6. i \in Indices /\ i < next /\ i + 1 <= at[w].last /\ i + 1 \in 0..SizeMax
  BY <1>1, <1>3, <1>5 DEF Indices
<1>7. Claims(w, i) /\ visits[i] = 0
  <2>1. Claims(w, i)
    BY <1>1, <1>5 DEF Claims
  <2> QED BY <1>6, <2>1 DEF LoopInv, VisitsOnce
<1>8. /\ at' \in [Works -> [index : 0..SizeMax, last : 0..SizeMax]]
      /\ at'[w].index = i + 1 /\ at'[w].last = at[w].last
      /\ \A v \in Works : v # w => at'[v] = at[v]
  <2> PICK r : r = [at[w] EXCEPT !.index = i + 1]
    OBVIOUS
  <2>1. r \in [index : 0..SizeMax, last : 0..SizeMax] /\ r.index = i + 1
        /\ r.last = at[w].last
    BY <1>4, <1>6
  <2>2. at' = [at EXCEPT ![w] = r] /\ at \in [Works -> [index : 0..SizeMax, last : 0..SizeMax]]
    BY <1>1 DEF LoopInv, TypeOK
  <2> QED BY <2>1, <2>2
<1>9. /\ visits' \in [Indices -> Nat] /\ visits'[i] = 1
      /\ \A j \in Indices : j # i => visits'[j] = visits[j]
  <2>1. visits \in [Indices -> Nat]
    BY DEF LoopInv, TypeOK
  <2>2. visits' = [visits EXCEPT ![i] = 1]
    BY <1>1, <1>7
  <2> QED BY <1>6, <2>1, <2>2
<1>10. /\ pc' \in [Works -> Places] /\ pc'[w] = p
       /\ \A v \in Works : v # w => pc'[v] = pc[v]
       /\ (p = "body" => Past' = Past)
       /\ Cardinality(Past) \in Nat /\ Cardinality(Past') \in Nat
       /\ Cardinality(Past) <= Cardinality(Past')
  <2>1. /\ pc' \in [Works -> Places] /\ pc'[w] = p
        /\ \A v \in Works : v # w => pc'[v] = pc[v]
    BY <1>1, <1>2, GoesOn DEF LoopInv
  <2>2. CASE p = "body"
    BY <1>1, <1>2, <2>1, <2>2, GoesOn DEF LoopInv, Claiming
  <2>3. CASE p = "store"
    BY <1>1, <1>2, <2>1, <2>3, GoesOn DEF LoopInv, Claiming
  <2> QED BY <2>1, <2>2, <2>3
<1>11. blamers \subseteq blamers' /\ blamers' \subseteq Works
       /\ (blamers' = {} => p = "body" /\ blamers = {})
  BY <1>2 DEF Blame, LoopInv, TypeOK
<1>12. QueuedOnce'
  BY <1>1, <1>2, QueueKept DEF execVars
<1>13. CountExact' /\ ErrorsKept'
  <2>1. CASE p = "body"
    <3>1. CountExact'
      BY <1>1, <1>2, <2>1, CountKept DEF CountedOut
    <3>2. ErrorsKept'
      BY <1>1, <1>2, <2>1 DEF LoopInv, ErrorsKept, CountedOut
    <3> QED BY <3>1, <3>2
  <2>2. CASE p = "store"
    BY <1>1, <1>2, <2>2, Blames DEF Claiming
  <2> QED BY <2>1, <2>2
<1>14. \A v \in Works : pc'[v] = "body" => pc[v] = "body"
  BY <1>1, <1>10
<1>15. \A v \in Works : pc'[v] = "body" =>
           /\ at[v].index \in Nat /\ at[v].last \in Nat
           /\ call.begin <= at[v].index /\ at[v].index <= at[v].last
           /\ at[v].last <= next /\ at[v].last <= call.end
  <2>1. ASSUME NEW v \in Works, pc'[v] = "body"
        PROVE  /\ at[v].index \in Nat /\ at[v].last \in Nat
               /\ call.begin <= at[v].index /\ at[v].index <= at[v].last
               /\ at[v].last <= next /\ at[v].last <= call.end
    <3>1. at[v].index \in Nat /\ at[v].last \in Nat
      BY DEF LoopInv, TypeOK
    <3> QED BY <1>14, <2>1, <3>1 DEF LoopInv, ClaimsApart
  <2> QED BY <2>1
<1>16. ClaimsApart'
  <2>1. next < call.end + call.chunk * (Cardinality(Past') + 1)
    <3>1. call.chunk \in Nat \ {0} /\ next < call.end + call.chunk * (Cardinality(Past) + 1)
      <4>1. call.chunk \in 1..SizeMax /\ SizeMax \in Nat
        BY <1>1, CallSizes
      <4>2. next < call.end + call.chunk * (Cardinality(Past) + 1)
        BY DEF LoopInv, ClaimsApart
      <4> QED BY <4>1, <4>2
    <3>2. call.chunk * (Cardinality(Past) + 1) <= call.chunk * (Cardinality(Past') + 1)
          /\ call.chunk * (Cardinality(Past) + 1) \in Nat
          /\ call.chunk * (Cardinality(Past') + 1) \in Nat
      BY <1>10, <3>1
    <3> QED BY <1>3, <3>1, <3>2
  <2>2. \A v \in Works : pc'[v] = "body" =>
            /\ call.begin <= at'[v].index /\ at'[v].index <= at'[v].last
            /\ at'[v].last <= next /\ at'[v].last <= call.end
    <3>1. ASSUME NEW v \in Works, pc'[v] = "body"
          PROVE  /\ call.begin <= at'[v].index /\ at'[v].index <= at'[v].last
                 /\ at'[v].last <= next /\ at'[v].last <= call.end
      <4>1. CASE v = w
        BY <1>3, <1>5, <1>6, <1>8, <4>1
      <4>2. CASE v # w
        BY <1>8, <1>15, <3>1, <4>2
      <4> QED BY <4>1, <4>2
    <3> QED BY <3>1
  <2>3. ASSUME NEW u \in Works, NEW v \in Works, u # v, pc'[u] = "body", pc'[v] = "body"
        PROVE  at'[u].last <= at'[v].index \/ at'[v].last <= at'[u].index
    <3>1. at[u].last <= at[v].index \/ at[v].last <= at[u].index
      BY <1>14, <2>3 DEF LoopInv, ClaimsApart
    <3>2. /\ at[u].last \in Nat /\ at[v].last \in Nat /\ at[u].index \in Nat /\ at[v].index \in Nat
      BY <1>15, <2>3
    <3>3. CASE u = w
      BY <1>8, <2>3, <3>1, <3>2, <3>3
    <3>4. CASE v = w
      BY <1>8, <2>3, <3>1, <3>2, <3>4
    <3>5. CASE u # w /\ v # w
      BY <1>8, <2>3, <3>1, <3>5
    <3> QED BY <3>3, <3>4, <3>5
  <2>4. call.begin <= next
    BY DEF LoopInv, ClaimsApart
  <2> QED BY <1>1, <2>1, <2>2, <2>3, <2>4 DEF ClaimsApart
\* Only the first index of the claim leaves it.
<1>17. \A j \in Indices, v \in Works : Claims(v, j)' => Claims(v, j) /\ j # i
  <2>1. ASSUME NEW j \in Indices, NEW v \in Works, Claims(v, j)'
        PROVE  Claims(v, j) /\ j # i
    <3>1. j \in Nat /\ pc[v] = "body" /\ pc'[v] = "body"
      BY <1>3, <1>14, <2>1 DEF Indices, Claims
    <3>2. CASE v = w
      BY <1>5, <1>8, <2>1, <3>1, <3>2 DEF Claims
    <3>3. CASE v # w
      <4>1. Claims(v, j)
        BY <1>8, <2>1, <3>1, <3>3 DEF Claims
      <4>2. at[v].last <= i \/ at[w].last <= at[v].index
        BY <1>1, <3>1, <3>3 DEF LoopInv, ClaimsApart
      <4>3. at[v].index \in Nat /\ at[v].last \in Nat
        BY <1>15, <3>1
      <4> QED BY <1>1, <1>5, <3>1, <4>1, <4>2, <4>3 DEF Claims
    <3> QED BY <3>2, <3>3
  <2> QED BY <2>1
<1>18. p = "body" => \A j \in Indices, v \in Works : Claims(v, j) /\ j # i => Claims(v, j)'
  <2>1. ASSUME p = "body", NEW j \in Indices, NEW v \in Works, Claims(v, j), j # i
        PROVE  Claims(v, j)'
    <3>1. j \in Nat /\ pc'[v] = "body"
      BY <1>2, <1>3, <2>1 DEF Indices, Claims
    <3>2. CASE v = w
      BY <1>5, <1>8, <2>1, <3>1, <3>2 DEF Claims
    <3>3. CASE v # w
      BY <1>8, <2>1, <3>1, <3>3 DEF Claims
    <3> QED BY <3>2, <3>3
  <2> QED BY <2>1
<1>19. VisitsOnce'
  <2>1. ASSUME NEW j \in Indices
        PROVE  visits'[j] <= 1 /\ (j >= next => visits'[j] = 0)
    <3>1. CASE j = i
      BY <1>3, <1>5, <1>6, <1>9, <3>1
    <3>2. CASE j # i
      BY <1>9, <3>2 DEF LoopInv, VisitsOnce
    <3> QED BY <3>1, <3>2
  <2>2. \A j \in Indices, v \in Works : Claims(v, j)' => visits'[j] = 0
    BY <1>9, <1>17 DEF LoopInv, VisitsOnce
  <2>3. ASSUME blamers' = {}, NEW j \in Indices, j < next
        PROVE  visits'[j] = 1 \/ \E v \in Works : Claims(v, j)'
    <3>1. CASE j = i
      BY <1>9, <3>1
    <3>2. CASE j # i
      <4>1. visits[j] = 1 \/ \E v \in Works : Claims(v, j)
        BY <1>11, <2>3 DEF LoopInv, VisitsOnce
      <4> QED BY <1>9, <1>11, <1>18, <2>3, <3>2, <4>1
    <3> QED BY <3>1, <3>2
  <2>4. ASSUME blamers' = {}, NEW v \in Works, pc'[v] \in {"count"} \cup CountedOut
        PROVE  call.end <= next
    BY <1>2, <1>11, <2>4 DEF LoopInv, VisitsOnce
  <2> QED BY <1>1, <2>1, <2>2, <2>3, <2>4 DEF VisitsOnce, CountedOut
<1>20. TypeOK'
  BY <1>1, <1>8, <1>9, <1>10, <1>11 DEF LoopInv, TypeOK, execVars
<1> QED BY <1>1, <1>12, <1>13, <1>16, <1>19, <1>20 DEF LoopInv

-----------------------------------------------------------------------------
\* The steps of a work that neither claim nor visit.
LEMMA WorkKeeps ==
  ASSUME LoopInv, NEW w \in Works,
         \/ LookFailed(w) \/ LookCancelled(w) \/ ChunkDone(w)
         \/ StoreFailed(w) \/ StoreError(w) \/ CountDown(w) \/ Complete(w) \/ Return(w)
  PROVE  LoopInv'
<1>1. call \in Calls /\ call.begin < call.end
  BY DEF LoopInv, TypeOK
<1>2. CASE LookFailed(w) \/ ChunkDone(w)
  <2>1. PICK p \in {"count", "cancelled?", "failed?"} :
            /\ Goto(w, p) /\ p \in Places /\ pc[w] \in {"failed?", "body"}
            /\ (p = "count" => failed)
            /\ (pc[w] = "body" => at[w].last <= at[w].index)
            /\ UNCHANGED <<execVars, doneVars, call, cancelled, submitting, at, next, visits>>
    <3>1. CASE LookFailed(w)
      BY <3>1 DEF LookFailed, Places
    <3>2. CASE ChunkDone(w)
      <4>1. at[w].index \in Nat /\ at[w].last \in Nat
        BY <1>1, CallSizes DEF LoopInv, TypeOK
      <4> QED BY <3>2, <4>1 DEF ChunkDone, Places
    <3> QED BY <1>2, <3>1, <3>2
  <2>2. /\ Works' = Works /\ Indices' = Indices /\ pc' \in [Works -> Places]
        /\ pc'[w] = p /\ \A v \in Works : v # w => pc'[v] = pc[v]
    BY <2>1, GoesOn DEF LoopInv
  <2>3. QueuedOnce'
    BY <2>1, QueueKept DEF execVars
  <2>4. p = "count" => blamers # {}
    BY <2>1 DEF LoopInv, ErrorsKept
  <2>5. ClaimsApart' /\ VisitsOnce'
    BY <2>1, <2>4, ClaimsKept DEF Claiming, CountedOut, doneVars, LoopInv, TypeOK
  <2>6. CountExact'
    BY <2>1, CountKept DEF CountedOut, doneVars
  <2>7. ErrorsKept'
    <3>1. outcome = "open" /\ w \notin blamers
      BY <2>1 DEF LoopInv, ErrorsKept, CountedOut
    <3> QED BY <2>1, <2>2, <3>1 DEF LoopInv, ErrorsKept, doneVars, TypeOK, CountedOut
  <2>8. TypeOK'
    BY <2>1, <2>2 DEF LoopInv, TypeOK, execVars, doneVars
  <2> QED BY <1>1, <2>1, <2>3, <2>5, <2>6, <2>7, <2>8 DEF LoopInv
<1>3. CASE LookCancelled(w)
  <2>1. /\ pc[w] = "cancelled?"
        /\ UNCHANGED <<execVars, call, cancelled, submitting, at, next, visits,
                       remaining, failed, error, outcome>>
        /\ Works' = Works /\ Indices' = Indices
    BY <1>3 DEF LookCancelled, Works, Indices
  <2>2. CASE Blame(w)
    <3>1. Goto(w, "store") /\ "store" \in Places /\ blamers' = blamers \cup {w}
      BY <2>2 DEF Blame, Places
    <3>2. CountExact' /\ ErrorsKept' /\ pc' \in [Works -> Places]
          /\ blamers' \subseteq Works /\ w \in blamers'
      BY <2>1, <2>2, Blames DEF Claiming
    <3>3. ClaimsApart' /\ VisitsOnce'
      BY <2>1, <3>1, <3>2, ClaimsKept DEF Claiming, CountedOut
    <3>4. QueuedOnce'
      BY <2>1, <3>1, QueueKept DEF execVars
    <3>5. TypeOK'
      BY <2>1, <3>2 DEF LoopInv, TypeOK, execVars
    <3> QED BY <1>1, <2>1, <3>2, <3>3, <3>4, <3>5 DEF LoopInv
  <2>3. CASE Goto(w, "claim") /\ UNCHANGED blamers
    <3>1. "claim" \in Places
      BY DEF Places
    <3>2. /\ pc' \in [Works -> Places] /\ pc'[w] = "claim"
          /\ \A v \in Works : v # w => pc'[v] = pc[v]
      BY <2>1, <2>3, <3>1, GoesOn DEF LoopInv
    <3>3. ClaimsApart' /\ VisitsOnce'
      BY <2>1, <2>3, <3>1, ClaimsKept DEF Claiming, CountedOut, LoopInv, TypeOK
    <3>4. QueuedOnce'
      BY <2>1, <2>3, <3>1, QueueKept DEF execVars
    <3>5. CountExact'
      BY <2>1, <2>3, <3>1, CountKept DEF CountedOut
    <3>6. ErrorsKept'
      <4>1. outcome = "open" /\ w \notin blamers
        BY <2>1 DEF LoopInv, ErrorsKept, CountedOut
      <4> QED BY <2>1, <2>3, <3>2, <4>1 DEF LoopInv, ErrorsKept, TypeOK, CountedOut
    <3>7. TypeOK'
      BY <2>1, <2>3, <3>2 DEF LoopInv, TypeOK, execVars
    <3> QED BY <1>1, <2>1, <3>3, <3>4, <3>5, <3>6, <3>7 DEF LoopInv
  <2> QED BY <1>3, <2>2, <2>3 DEF LookCancelled
<1>4. CASE StoreFailed(w) \/ StoreError(w)
  <2>1. PICK p \in {"error", "count"} :
            /\ Goto(w, p) /\ p \in Places /\ pc[w] \in {"store", "error"}
            /\ failed' \in BOOLEAN /\ error' \in BOOLEAN /\ (error => error')
            /\ (p = "count" => error')
            /\ UNCHANGED <<execVars, call, cancelled, submitting, at, next, visits,
                           remaining, blamers, outcome>>
    <3>1. CASE StoreFailed(w)
      BY <3>1 DEF StoreFailed, AfterFlag, Places, LoopInv, TypeOK
    <3>2. CASE StoreError(w)
      BY <3>2 DEF StoreError, Places, LoopInv, TypeOK
    <3> QED BY <1>4, <3>1, <3>2
  <2>2. /\ Works' = Works /\ Indices' = Indices /\ pc' \in [Works -> Places]
        /\ pc'[w] = p /\ \A v \in Works : v # w => pc'[v] = pc[v]
    BY <2>1, GoesOn DEF LoopInv
  <2>3. w \in blamers /\ blamers \subseteq Works /\ outcome = "open"
    BY <2>1 DEF LoopInv, ErrorsKept, TypeOK
  <2>4. QueuedOnce'
    BY <2>1, QueueKept DEF execVars
  <2>5. ClaimsApart' /\ VisitsOnce'
    BY <2>1, <2>3, ClaimsKept DEF Claiming, CountedOut
  <2>6. CountExact'
    BY <2>1, CountKept DEF CountedOut
  <2>7. ErrorsKept'
    <3>1. \A v \in Works' : pc'[v] \in {"store", "error"} => v \in blamers'
      BY <2>1, <2>2, <2>3 DEF LoopInv, ErrorsKept
    <3>2. \A v \in blamers' : \/ pc'[v] \in {"store", "error"}
                              \/ error' /\ pc'[v] \in {"count"} \cup CountedOut
      BY <2>1, <2>2, <2>3 DEF LoopInv, ErrorsKept, CountedOut
    <3> QED BY <2>1, <2>3, <3>1, <3>2 DEF ErrorsKept, CountedOut
  <2>8. TypeOK'
    BY <2>1, <2>2 DEF LoopInv, TypeOK, execVars
  <2> QED BY <1>1, <2>1, <2>4, <2>5, <2>6, <2>7, <2>8 DEF LoopInv
<1>5. CASE CountDown(w)
  <2>1. PICK p \in CountedOut :
            /\ Goto(w, p) /\ p \in Places /\ pc[w] = "count"
            /\ (p = "complete" <=> remaining = 1)
            /\ remaining' = Wrap(remaining + SizeMax)
            /\ UNCHANGED <<execVars, call, cancelled, submitting, at, next, visits,
                           failed, error, blamers, outcome>>
    <3>1. CASE remaining = 1
      BY <1>5, <3>1 DEF CountDown, Places, CountedOut
    <3>2. CASE remaining # 1
      BY <1>5, <3>2 DEF CountDown, Places, CountedOut
    <3> QED BY <3>1, <3>2
  <2>2. /\ Works' = Works /\ Indices' = Indices /\ pc' \in [Works -> Places]
        /\ pc'[w] = p /\ \A v \in Works : v # w => pc'[v] = pc[v]
        /\ Cardinality(Uncounted) \in Nat
        /\ (w \in Uncounted => Cardinality(Uncounted) >= 1)
        /\ Cardinality(Uncounted') = Cardinality(Uncounted) - 1
    BY <2>1, GoesOn DEF LoopInv, CountedOut
  <2>3. w \in Uncounted /\ remaining = Cardinality(Uncounted)
    BY <2>1 DEF Uncounted, CountedOut, LoopInv, CountExact
  <2>4. remaining \in 1..WorkerCount(call) /\ remaining \in 1..SizeMax
    <3>1. remaining \in 0..WorkerCount(call)
      BY DEF LoopInv, TypeOK
    <3> QED BY <2>2, <2>3, <3>1, Numbers
  <2>5. remaining' = remaining - 1
    BY <2>1, <2>4, LoopAssumption DEF LoopAssumption, Wrap
  <2>6. QueuedOnce'
    BY <2>1, QueueKept DEF execVars
  <2>7. ClaimsApart' /\ VisitsOnce'
    BY <2>1, ClaimsKept DEF Claiming, CountedOut, LoopInv, TypeOK
  <2>8. outcome = "open"
    BY <2>1 DEF LoopInv, ErrorsKept
  <2>9. \A v \in Works : pc[v] # "complete"
    BY <2>1 DEF LoopInv, CountExact
  <2>10. CountExact'
    <3>1. ASSUME NEW v \in Works, pc'[v] = "complete"
          PROVE  \A u \in Works \ {v} : pc'[u] = "left"
      <4>1. v = w /\ remaining = 1
        BY <2>1, <2>2, <2>9, <3>1
      <4>2. Uncounted = {w}
        <5>1. IsFiniteSet(Uncounted)
          BY <1>1, CallSizes, FS_Subset DEF Uncounted
        <5>2. \E x : Uncounted = {x}
          <6>1. Cardinality(Uncounted) = 1
            BY <2>3, <4>1
          <6> QED BY <5>1, <6>1, FS_Singleton
        <5> QED BY <2>3, <5>2
      <4>3. \A u \in Works \ {w} : pc[u] \in CountedOut
        BY <4>2 DEF Uncounted
      <4> QED BY <2>2, <2>9, <4>1, <4>3 DEF CountedOut
    <3> QED BY <2>1, <2>2, <2>3, <2>5, <2>8, <3>1 DEF CountExact
  <2>11. ErrorsKept'
    BY <2>1, <2>2, <2>8 DEF LoopInv, ErrorsKept, CountedOut, TypeOK
  <2>12. TypeOK'
    <3>1. remaining' \in 0..WorkerCount(call)
      BY <2>4, <2>5, Numbers
    <3> QED BY <2>1, <2>2, <3>1 DEF LoopInv, TypeOK, execVars
  <2> QED BY <1>1, <2>1, <2>6, <2>7, <2>10, <2>11, <2>12 DEF LoopInv
<1>6. CASE Complete(w)
  <2>1. /\ pc[w] = "complete" /\ Goto(w, "left") /\ "left" \in Places
        /\ UNCHANGED <<execVars, call, cancelled, submitting, at, next, visits,
                       remaining, failed, error, blamers>>
    BY <1>6 DEF Complete, Places
  <2>2. outcome = "open" /\ \A v \in Works \ {w} : pc[v] = "left"
    BY <2>1 DEF LoopInv, CountExact
  <2>3. outcome' = IF error THEN "error" ELSE "ok"
    BY <1>6, <2>2 DEF Complete
  <2>4. /\ Works' = Works /\ Indices' = Indices /\ pc' \in [Works -> Places]
        /\ pc'[w] = "left" /\ \A v \in Works : v # w => pc'[v] = pc[v]
        /\ Uncounted' = Uncounted
    BY <2>1, GoesOn DEF LoopInv, CountedOut
  <2>5. QueuedOnce'
    BY <2>1, QueueKept DEF execVars
  <2>6. ClaimsApart' /\ VisitsOnce'
    BY <2>1, ClaimsKept DEF Claiming, CountedOut, LoopInv, TypeOK
  <2>7. CountExact'
    BY <2>1, <2>2, <2>4 DEF LoopInv, CountExact
  <2>8. ErrorsKept'
    BY <2>1, <2>2, <2>3, <2>4 DEF LoopInv, ErrorsKept, CountedOut, TypeOK
  <2>9. TypeOK'
    BY <2>1, <2>3, <2>4 DEF LoopInv, TypeOK, execVars
  <2> QED BY <1>1, <2>1, <2>5, <2>6, <2>7, <2>8, <2>9 DEF LoopInv
<1>7. CASE Return(w)
  <2>1. /\ UNCHANGED <<workVars, doneVars, call, cancelled, submitting, pending, disposed, stopped>>
        /\ running' \in SUBSET Works /\ ran' \in SUBSET Works
    BY <1>7 DEF Return, Exec!SpecReturn, LoopInv, TypeOK
  <2>2. /\ Works' = Works /\ Indices' = Indices
        /\ ClaimsApart' /\ VisitsOnce' /\ CountExact' /\ ErrorsKept'
    BY <2>1, LoopKept
  <2>3. QueuedOnce'
    BY <2>1, <2>2 DEF LoopInv, QueuedOnce, workVars
  <2>4. TypeOK'
    BY <2>1, <2>2 DEF LoopInv, TypeOK, workVars, doneVars
  <2> QED BY <1>1, <2>1, <2>2, <2>3, <2>4 DEF LoopInv
<1> QED BY <1>2, <1>3, <1>4, <1>5, <1>6, <1>7

-----------------------------------------------------------------------------
LEMMA LoopBegins == Init => LoopInv
<1> SUFFICES ASSUME Init PROVE LoopInv
  OBVIOUS
<1>1. call \in Calls /\ call.begin < call.end
  BY DEF Init
<1>2. /\ WorkerCount(call) \in 1..SizeMax /\ SizeMax \in Nat \ {0}
      /\ Works \subseteq Nat
      /\ IsFiniteSet(Works) /\ Cardinality(Works) = WorkerCount(call)
      /\ call.begin \in 0..SizeMax /\ call.end \in Nat /\ call.chunk \in Nat
  BY <1>1, CallSizes DEF Works
<1>3. pending = <<>> /\ pending \in Seq(Works) /\ Len(pending) = 0
  BY DEF Init, Exec!SpecInit
<1>4. \A w \in Works : pc[w] = "new"
  BY DEF Init
<1>5. \A i \in Indices : i \in Nat /\ i >= call.begin /\ visits[i] = 0
  BY <1>2 DEF Init, Indices
<1>6. TypeOK
  <2>1. remaining \in 0..WorkerCount(call) /\ submitting \in 1..(WorkerCount(call) + 1)
    BY <1>2 DEF Init, Counted
  <2>2. pc \in [Works -> Places] /\ visits \in [Indices -> Nat]
        /\ at \in [Works -> [index : 0..SizeMax, last : 0..SizeMax]]
    BY <1>2 DEF Init, Places
  <2> QED BY <1>1, <1>2, <1>3, <2>1, <2>2 DEF TypeOK, Init, Exec!SpecInit
<1>7. QueuedOnce
  BY <1>3, <1>4 DEF QueuedOnce, Distinct
<1>8. Uncounted = Works /\ Past = {}
  BY <1>4 DEF Uncounted, Past, Claiming, CountedOut
<1>9. ClaimsApart
  <2>1. Cardinality(Past) = 0
    BY <1>8, FS_EmptySet
  <2>2. next < call.end + call.chunk * (Cardinality(Past) + 1)
    BY <1>1, <1>2, <2>1 DEF Init
  <2> QED BY <1>2, <1>4, <2>2 DEF ClaimsApart, Init
<1>10. VisitsOnce
  <2>1. \A i \in Indices : ~(i < next)
    BY <1>2, <1>5 DEF Init
  <2> QED BY <1>4, <1>5, <2>1 DEF VisitsOnce, Claims, CountedOut
<1>11. CountExact
  BY <1>2, <1>4, <1>8 DEF CountExact, Init, Counted
<1>12. ErrorsKept
  BY <1>4 DEF ErrorsKept, Init
<1> QED BY <1>1, <1>6, <1>7, <1>9, <1>10, <1>11, <1>12 DEF LoopInv

\* Every step of the loop keeps the invariant.
LEMMA LoopSteps == LoopInv /\ [Next]_vars => LoopInv'
<1> SUFFICES ASSUME LoopInv, [Next]_vars PROVE LoopInv'
  OBVIOUS
<1>1. CASE Submit
  BY <1>1, SubmitKeeps
<1>2. CASE Start \/ Stop \/ Dispose \/ Cancel
  BY <1>2, ExecutorKeeps
<1>3. ASSUME NEW w \in Works, Step(w)
      PROVE  LoopInv'
  BY <1>3, ClaimKeeps, VisitKeeps, WorkKeeps DEF Step
<1>4. CASE UNCHANGED vars
  <2>1. /\ UNCHANGED <<workVars, doneVars, call, cancelled, submitting, execVars>>
    BY <1>4 DEF vars, workVars, doneVars, execVars
  <2>2. /\ Works' = Works /\ Indices' = Indices
        /\ ClaimsApart' /\ VisitsOnce' /\ CountExact' /\ ErrorsKept'
    BY <2>1, LoopKept
  <2>3. QueuedOnce'
    BY <2>1, <2>2 DEF LoopInv, QueuedOnce, workVars, execVars
  <2>4. TypeOK'
    BY <2>1, <2>2 DEF LoopInv, TypeOK, workVars, doneVars, execVars
  <2> QED BY <2>1, <2>2, <2>3, <2>4 DEF LoopInv
<1> QED BY <1>1, <1>2, <1>3, <1>4 DEF Next

\* The invariant says of the loop what is promised of it.
LEMMA LoopPromises == LoopInv => TypeOK /\ CoversEachIndexOnce /\ ErrorReported
<1> SUFFICES ASSUME LoopInv PROVE CoversEachIndexOnce /\ ErrorReported
  BY DEF LoopInv
<1>1. CoversEachIndexOnce
  <2>1. ASSUME Over, blamers = {}, NEW i \in Indices
        PROVE  visits[i] = 1
    <3>1. 1 \in Works
      BY Numbers DEF Works
    <3>2. call.end <= next
      BY <2>1, <3>1 DEF LoopInv, VisitsOnce, Over, CountedOut
    <3>3. i < next
      <4>1. i < call.end /\ i \in Int /\ next \in Nat /\ call.end \in Nat
        BY CallSizes DEF LoopInv, TypeOK, Indices
      <4> QED BY <3>2, <4>1
    <3> QED BY <2>1, <3>3 DEF LoopInv, VisitsOnce, Over, Claims
  <2> QED BY <2>1 DEF LoopInv, VisitsOnce, CoversEachIndexOnce
<1>2. ErrorReported
  <2>1. ASSUME outcome # "open"
        PROVE  (error <=> blamers # {}) /\ \A w \in Works : pc[w] = "left"
    BY <2>1 DEF LoopInv, ErrorsKept, TypeOK
  <2> QED BY <2>1 DEF LoopInv, ErrorsKept, ErrorReported
<1> QED BY <1>1, <1>2

(* A call of ParallelFor visits each index at most once, all of them when no   *)
(* work met an error, and its future holds an error exactly when one did, for  *)
(* every range, chunk size and number of works whose arithmetic fits.          *)
THEOREM LoopCorrect == Spec => [](TypeOK /\ CoversEachIndexOnce /\ ErrorReported)
<1> QED BY LoopBegins, LoopSteps, LoopPromises, PTL DEF Spec

-----------------------------------------------------------------------------
(* The two together, as they are run: a behaviour is one of them.             *)
AlgorithmsInv == LoopInv /\ (part = "all" => AllInv)

LEMMA AlgorithmsInvariant == AlgorithmsSpec => []AlgorithmsInv
<1>1. AlgorithmsInit => AlgorithmsInv
  BY LoopBegins, AllBegins, PositionsAssumption DEF AlgorithmsInit, AlgorithmsInv
<1>2. AlgorithmsInv /\ [AlgorithmsNext]_<<part, looping, joining>> => AlgorithmsInv'
  <2> SUFFICES ASSUME AlgorithmsInv, [AlgorithmsNext]_<<part, looping, joining>>
               PROVE  AlgorithmsInv'
    OBVIOUS
  <2>1. CASE part = "loop" /\ Next /\ UNCHANGED <<part, joining>>
    BY <2>1, LoopSteps DEF AlgorithmsInv
  <2>2. CASE part = "all" /\ All!Next /\ UNCHANGED <<part, looping>>
    BY <2>2, LoopSteps, AllSteps, PositionsAssumption DEF AlgorithmsInv, looping
  <2>3. CASE UNCHANGED <<part, looping, joining>>
    <3>1. UNCHANGED All!vars
      BY <2>3 DEF joining, All!vars
    <3> QED BY <2>3, <3>1, LoopSteps, AllSteps, PositionsAssumption DEF AlgorithmsInv, looping
  <2> QED BY <2>1, <2>2, <2>3 DEF AlgorithmsNext
<1> QED BY <1>1, <1>2, PTL DEF AlgorithmsSpec

(* Each index is visited at most once, all of them if the loop succeeds, and  *)
(* its future holds an error exactly when a work met one.                      *)
THEOREM LoopsAreFaithful == AlgorithmsSpec => []LoopFaithful
<1>1. LoopInv => LoopFaithful
  BY LoopPromises DEF LoopFaithful
<1> QED BY <1>1, AlgorithmsInvariant, PTL DEF AlgorithmsInv

(* WhenAll's output is claimed once, and set once every future is, to all the  *)
(* values or to the error of one that failed.                                  *)
THEOREM CompletionsAreTruthful == AlgorithmsSpec => []CompletesTruthfully
<1>1. AllInv => All!TypeOK /\ All!CompletionTruthful /\ All!ClaimedOnce
  BY AllTruthful, AllClaimedOnce, PositionsAssumption DEF AllInv
<1> QED BY <1>1, AlgorithmsInvariant, PTL DEF AlgorithmsInv, CompletesTruthfully
=============================================================================
