----------------------- MODULE AssetManagerProofs --------------------------
(* Proofs about the asset manager.  No request is answered with a generation *)
(* older than the change the manager had been told of when it was made, for  *)
(* any number of requests, threads, assets and executors that refuse, as     *)
(* long as products come from loads alone: the revision of a record counts   *)
(* the changes of its source, a load in flight was requested at the current  *)
(* revision, and whoever joined it was at that revision too.                 *)
(*                                                                           *)
(* And the accounts of the manager (slots taken, bytes resident, leases) are *)
(* exact, for any batches in the part that has them: each step changes the   *)
(* sum of what is resident by what it makes resident or evicts, which rests  *)
(* on what a sum over the assets does when one of them, or a set, changes.   *)
EXTENDS MCAssetManager, SequenceFacts

Places == {"new", "schedule", "refused", "register", "returned"}
Stages == {"none", "lane", "loading", "loaded", "queued", "settled"}
CallFacts == [asset : Assets \cup {None}, prefetch : BOOLEAN,
              revision : 0..MaxSource, born : 0..MaxSource]
Publications == [kind : {"publish", "answer"}, of : Requests]

\* The types of what the parts below speak of.
Typed ==
    /\ rec \in [Assets -> Records]
    /\ source \in [Assets -> 0..MaxSource]
    /\ call \in [Requests -> CallFacts]
    /\ at \in [Requests -> Places] /\ stage \in [Requests -> Stages]
    /\ result \in [Requests -> Outcomes] /\ answer \in [Requests -> Outcomes]
    /\ read \in [Requests -> Generations] /\ lease \in [Requests -> Generations]
    /\ joined \in [Requests -> Requests \cup {None}]
    /\ attached \in [Requests -> Seq(Requests)]
    /\ queue \in Seq(Publications)
    /\ setting \in Requests \cup {None}

\* The revision counts the changes; what is Ready has seen them all, and the
\* load in flight was requested after the last one.
RecordsSound == \A a \in Assets :
    /\ rec[a].revision = source[a]
    /\ rec[a].state = "Ready" => rec[a].current.stamp >= source[a]
    /\ rec[a].in_flight # None =>
          /\ at[rec[a].in_flight] = "returned"
          /\ call[rec[a].in_flight].born = source[a]

\* What a request has read, and what it cannot have before it returns.
CallsSound == \A r \in Requests :
    /\ call[r].revision = call[r].born
    /\ at[r] # "new" => /\ call[r].asset \in Assets
                        /\ call[r].born <= source[call[r].asset]
    /\ at[r] \in {"new", "schedule", "refused"} => stage[r] = "none"
    /\ at[r] # "returned" =>
          answer[r] = "none" /\ lease[r] = NoGeneration /\ joined[r] = None

\* A load reads the source after its request was made.
LoadsSound == \A r \in Requests :
    /\ stage[r] = "loading" \/ result[r] = "ok" => read[r].stamp >= call[r].born
    /\ stage[r] = "none" => result[r] # "ok"

\* A request waits for a load of its own revision, and holds what that load
\* read only when the load is over.
WaiterSound(r) ==
    /\ joined[r] # None =>
          /\ at[joined[r]] # "new"
          /\ call[joined[r]].born = call[r].born
          /\ lease[r] # NoGeneration =>
                stage[joined[r]] = "settled" /\ lease[r].stamp = read[joined[r]].stamp
          /\ answer[r] = "ok" =>
                stage[joined[r]] = "settled" /\ result[joined[r]] = "ok"
    /\ joined[r] = None /\ lease[r] # NoGeneration => lease[r].stamp >= call[r].born

WaitersSound == \A r \in Requests : WaiterSound(r)

AttachedSound ==
    \A l \in Requests : \A i \in 1..Len(attached[l]) : joined[attached[l][i]] = l

\* A publication is queued once, while its load waits for it; an answer is
\* queued when there is one to give.
QueueSound == \A i \in 1..Len(queue) :
    /\ queue[i].kind = "publish" =>
          /\ stage[queue[i].of] = "queued" /\ setting # queue[i].of
          /\ \A j \in 1..Len(queue) :
                queue[j].kind = "publish" /\ queue[j].of = queue[i].of => i = j
    /\ queue[i].kind = "answer" =>
          /\ at[queue[i].of] = "returned"
          /\ \/ joined[queue[i].of] = None
             \/ stage[joined[queue[i].of]] = "settled"

SettingSound == setting # None => stage[setting] = "queued"

FreshInv == /\ Typed /\ RecordsSound /\ CallsSound /\ LoadsSound /\ WaitersSound
            /\ AttachedSound /\ QueueSound /\ SettingSound

-----------------------------------------------------------------------------
AnswersTo(S) == [kind : {"answer"}, of : S]

\* The answers to some of the requests rs are answers to requests of rs.
LEMMA AnswersOnly ==
  ASSUME NEW rs \in Seq(Requests), NEW taken
  PROVE  Answers(rs, taken) \in Seq(AnswersTo(Range(rs)))
<1>1. PICK n \in Nat : n = Len(rs)
  BY LenProperties
<1>2. \A i \in 1..n : rs[i] \in Range(rs)
  BY <1>1, LenProperties DEF Range
<1>3. PICK W : W = Seq(AnswersTo(Range(rs)))
  OBVIOUS
<1>4. PICK q : q = [i \in 1..n |-> [kind |-> "answer", of |-> rs[i]]]
  OBVIOUS
<1>5. \A i \in 1..n : q[i] = [kind |-> "answer", of |-> rs[i]] /\ q[i] \in AnswersTo(Range(rs))
  BY <1>2, <1>4 DEF AnswersTo
<1>6. PICK step : step = [i \in 1..n |-> [w \in W |->
                             IF rs[i] \in taken THEN Append(w, q[i]) ELSE w]]
  OBVIOUS
<1>7. <<>> \in W
  BY <1>3, EmptySeq
<1>8. \A i \in 1..n : \A w \in W : (IF rs[i] \in taken THEN Append(w, q[i]) ELSE w) \in W
  BY <1>3, <1>5, AppendProperties
<1>9. step \in Steps(n, W)
  BY <1>6, <1>8 DEF Steps
<1>10. PICK f : FoldOf(f, n, W, <<>>, step)
  BY <1>7, <1>9, FoldExists
<1>11. f \in [0..n -> W] /\ f[0] = <<>> /\ \A i \in 1..n : f[i] = step[i][f[i - 1]]
  BY <1>10 DEF FoldOf
<1> DEFINE Folds(h) == h = [k \in 0..n |-> IF k = 0 THEN <<>>
                              ELSE IF rs[k] \in taken
                                   THEN Append(h[k - 1], [kind |-> "answer", of |-> rs[k]])
                                   ELSE h[k - 1]]
<1>12. Folds(f)
  <2>1. ASSUME NEW k \in 0..n
        PROVE  f[k] = IF k = 0 THEN <<>>
                      ELSE IF rs[k] \in taken
                           THEN Append(f[k - 1], [kind |-> "answer", of |-> rs[k]])
                           ELSE f[k - 1]
    <3>1. CASE k # 0
      <4>1. k \in 1..n /\ k - 1 \in 0..n /\ f[k - 1] \in W
        BY <1>11, <3>1
      <4>2. f[k] = IF rs[k] \in taken THEN Append(f[k - 1], q[k]) ELSE f[k - 1]
        BY <1>6, <1>11, <4>1
      <4> QED BY <1>5, <3>1, <4>1, <4>2
    <3> QED BY <1>11, <3>1
  <2> QED BY <1>11, <2>1
<1>13. PICK g : g = CHOOSE h : Folds(h)
  OBVIOUS
<1>14. Folds(g)
  BY <1>12, <1>13
<1>15. Answers(rs, taken) = g[n]
  BY <1>1, <1>13 DEF Answers
<1>16. g[0] = <<>> /\ \A k \in 1..n : g[k] = IF rs[k] \in taken THEN Append(g[k - 1], q[k])
                                             ELSE g[k - 1]
  <2>1. g[0] = <<>>
    BY <1>14
  <2>2. ASSUME NEW k \in 1..n
        PROVE  g[k] = IF rs[k] \in taken THEN Append(g[k - 1], q[k]) ELSE g[k - 1]
    <3>1. k \in 0..n /\ k # 0
      OBVIOUS
    <3>2. g[k] = IF rs[k] \in taken THEN Append(g[k - 1], [kind |-> "answer", of |-> rs[k]])
                 ELSE g[k - 1]
      BY <1>14, <3>1
    <3> QED BY <1>5, <3>2
  <2> QED BY <2>1, <2>2
<1> HIDE DEF Folds
<1>17. \A k \in 1..n : g[k - 1] \in W => g[k] \in W
  BY <1>8, <1>16
<1>18. g[0] \in W
  BY <1>7, <1>16
<1>19. \A k \in 0..n : g[k] \in W
  BY <1>17, <1>18, KeptByFold
<1> QED BY <1>3, <1>15, <1>19

\* The queue after answers to requests of S were added to it, as far as the
\* parts of the invariant can tell.
Grows(old, new, S) ==
    /\ new \in Seq(Publications)
    /\ \A i \in 1..Len(new) :
          \/ i \in 1..Len(old) /\ new[i] = old[i]
          \/ new[i].kind = "answer" /\ new[i].of \in S

LEMMA Stays == ASSUME NEW old \in Seq(Publications), NEW S PROVE Grows(old, old, S)
BY DEF Grows

LEMMA Submitted ==
  ASSUME Typed, NEW rs \in Seq(Requests), SubmitAnswers(rs)
  PROVE  /\ Grows(queue, queue', Range(rs))
         /\ answer' \in [Requests -> Outcomes]
         /\ \A r \in Requests : \/ answer'[r] = answer[r]
                                \/ r \in Range(rs) /\ answer'[r] = "failed"
<1>1. PICK taken \in Accepted(rs) :
        /\ queue' = queue \o Answers(rs, taken)
        /\ answer' = [r \in Requests |->
                IF r \in Range(rs) \ taken THEN "failed" ELSE answer[r]]
  BY DEF SubmitAnswers
<1>2. \A r \in Requests : answer'[r] = IF r \in Range(rs) \ taken THEN "failed" ELSE answer[r]
  BY <1>1
<1>3. answer' \in [Requests -> Outcomes]
  BY <1>1 DEF Typed, Outcomes
<1>4. PICK s : s = Answers(rs, taken)
  OBVIOUS
<1>5. Range(rs) \subseteq Requests
  BY LenProperties, ElementOfSeq DEF Range
<1>6. s \in Seq(AnswersTo(Range(rs))) /\ \A i \in 1..Len(s) : s[i] \in AnswersTo(Range(rs))
  <2>1. s \in Seq(AnswersTo(Range(rs)))
    BY <1>4, AnswersOnly
  <2> QED BY <2>1, ElementOfSeq
<1>7. s \in Seq(Publications) /\ queue \in Seq(Publications)
  <2>1. AnswersTo(Range(rs)) \subseteq Publications
    BY <1>5 DEF AnswersTo, Publications
  <2>2. s \in [1..Len(s) -> Publications] /\ Len(s) \in Nat
    BY <1>6, <2>1, LenProperties
  <2>3. s \in Seq(Publications)
    BY <2>2, FunctionIsSeq
  <2> QED BY <2>3 DEF Typed
<1>8. /\ queue' \in Seq(Publications) /\ Len(queue') = Len(queue) + Len(s)
      /\ \A i \in 1..Len(queue) + Len(s) :
            queue'[i] = IF i <= Len(queue) THEN queue[i] ELSE s[i - Len(queue)]
  BY <1>1, <1>4, <1>7, ConcatProperties
<1>9. Len(queue) \in Nat /\ Len(s) \in Nat
  BY <1>7, LenProperties
<1>10. ASSUME NEW i \in 1..Len(queue')
       PROVE  \/ i \in 1..Len(queue) /\ queue'[i] = queue[i]
              \/ queue'[i].kind = "answer" /\ queue'[i].of \in Range(rs)
  <2>1. CASE i <= Len(queue)
    BY <1>8, <1>9, <2>1
  <2>2. CASE ~(i <= Len(queue))
    <3>1. i - Len(queue) \in 1..Len(s) /\ queue'[i] = s[i - Len(queue)]
      BY <1>8, <1>9, <2>2
    <3> QED BY <1>6, <3>1 DEF AnswersTo
  <2> QED BY <2>1, <2>2
<1>11. Grows(queue, queue', Range(rs))
  BY <1>8, <1>10 DEF Grows
<1> QED BY <1>2, <1>3, <1>11

LEMMA QueueTyped ==
  ASSUME Typed
  PROVE  \A i \in 1..Len(queue) :
            queue[i].of \in Requests /\ queue[i].kind \in {"publish", "answer"}
<1>1. queue \in Seq(Publications)
  BY DEF Typed
<1>2. \A i \in 1..Len(queue) : queue[i] \in Publications
  BY <1>1, ElementOfSeq
<1> QED BY <1>2 DEF Publications

\* The queue stays sound while loads go on and answers are added that can be
\* given.
LEMMA QueueKept ==
  ASSUME Typed, QueueSound, NEW S, Grows(queue, queue', S), setting' \in {setting, None},
         \A r \in Requests : stage[r] = "settled" => stage'[r] = "settled",
         \A r \in Requests : stage[r] = "queued" /\ r # setting => stage'[r] = "queued",
         \A r \in Requests : at[r] = "returned" => at'[r] = "returned" /\ joined'[r] = joined[r],
         \A s \in S : /\ at'[s] = "returned"
                      /\ joined'[s] = None \/ stage'[joined'[s]] = "settled"
  PROVE  QueueSound'
<1>1. \A i \in 1..Len(queue) : queue[i].of \in Requests /\ queue[i].kind \in {"publish", "answer"}
  BY QueueTyped
<1>2. None \notin Requests
  BY ManagerAssumption DEF ManagerAssumption
<1>3. \A i \in 1..Len(queue') :
          \/ i \in 1..Len(queue) /\ queue'[i] = queue[i]
          \/ queue'[i].kind = "answer" /\ queue'[i].of \in S
  BY DEF Grows
<1>4. ASSUME NEW i \in 1..Len(queue'), queue'[i].kind = "publish"
      PROVE  /\ stage'[queue'[i].of] = "queued" /\ setting' # queue'[i].of
             /\ \A j \in 1..Len(queue') :
                   queue'[j].kind = "publish" /\ queue'[j].of = queue'[i].of => i = j
  <2>1. i \in 1..Len(queue) /\ queue'[i] = queue[i]
    BY <1>3, <1>4
  <2>2. /\ stage[queue[i].of] = "queued" /\ setting # queue[i].of /\ queue[i].of \in Requests
        /\ \A j \in 1..Len(queue) :
              queue[j].kind = "publish" /\ queue[j].of = queue[i].of => i = j
    BY <1>1, <1>4, <2>1 DEF QueueSound
  <2>3. stage'[queue'[i].of] = "queued" /\ setting' # queue'[i].of
    BY <1>2, <2>1, <2>2
  <2> QED BY <1>3, <2>1, <2>2, <2>3
<1>5. ASSUME NEW i \in 1..Len(queue'), queue'[i].kind = "answer"
      PROVE  /\ at'[queue'[i].of] = "returned"
             /\ joined'[queue'[i].of] = None \/ stage'[joined'[queue'[i].of]] = "settled"
  <2>1. CASE i \in 1..Len(queue) /\ queue'[i] = queue[i]
    <3>1. PICK s \in Requests : s = queue[i].of
      BY <1>1, <2>1
    <3>2. at[s] = "returned" /\ (joined[s] = None \/ stage[joined[s]] = "settled")
      BY <1>5, <2>1, <3>1 DEF QueueSound
    <3>3. joined[s] \in Requests \cup {None}
      BY DEF Typed
    <3> QED BY <2>1, <3>1, <3>2, <3>3
  <2>2. CASE queue'[i].of \in S
    BY <2>2
  <2> QED BY <1>3, <2>1, <2>2
<1> QED BY <1>4, <1>5 DEF QueueSound

\* What a request waits for and holds stays sound while loads that are over stay
\* as they are.
LEMMA WaiterStays ==
  ASSUME FreshInv, NEW s \in Requests, joined'[s] = joined[s], call'[s] = call[s],
         lease'[s] = lease[s] \/ lease'[s] = NoGeneration,
         answer'[s] = answer[s] \/ answer'[s] # "ok",
         \A l \in Requests : at[l] # "new" => at'[l] # "new" /\ call'[l] = call[l],
         \A l \in Requests : stage[l] = "settled" =>
             stage'[l] = "settled" /\ read'[l].stamp = read[l].stamp /\ result'[l] = result[l]
  PROVE  WaiterSound(s)'
<1>1. WaiterSound(s) /\ joined[s] \in Requests \cup {None}
  BY DEF FreshInv, WaitersSound, Typed
<1>2. CASE joined[s] = None
  BY <1>1, <1>2 DEF WaiterSound
<1>3. CASE joined[s] # None
  BY <1>1, <1>3 DEF WaiterSound
<1> QED BY <1>2, <1>3

\* What Request finds before its first section, and what every outcome of that
\* section leaves.
LEMMA Begun ==
  ASSUME FreshInv, NEW t \in Threads, NEW r \in Requests, NEW a \in Assets,
         NEW p \in BOOLEAN, Begin(t, r, a, p)
  PROVE  /\ at[r] = "new" /\ stage[r] = "none" /\ answer[r] = "none"
         /\ lease[r] = NoGeneration /\ joined[r] = None
         /\ call' \in [Requests -> CallFacts]
         /\ call'[r].asset = a /\ call'[r].born = source[a] /\ call'[r].revision = source[a]
         /\ \A s \in Requests : s # r => call'[s] = call[s]
         /\ UNCHANGED <<source, setting, stage, result, read>>
         /\ \A s \in Requests : joined[s] # r
         /\ \A b \in Assets : rec[b].in_flight # r
         /\ source[a] \in 0..MaxSource /\ LoadsSound' /\ SettingSound'
<1>1. /\ at[r] = "new" /\ UNCHANGED <<source, setting, stage, result, read>>
      /\ call' = [call EXCEPT ![r] = [asset |-> a, prefetch |-> p,
                                      revision |-> rec[a].revision, born |-> source[a]]]
  BY DEF Begin, loadVars
<1>2. None \notin Requests
  BY ManagerAssumption DEF ManagerAssumption
<1>3. stage[r] = "none" /\ answer[r] = "none" /\ lease[r] = NoGeneration /\ joined[r] = None
  BY <1>1 DEF FreshInv, CallsSound
<1>4. rec[a].revision = source[a] /\ source[a] \in 0..MaxSource
  BY DEF FreshInv, RecordsSound, Typed
<1>5. call \in [Requests -> CallFacts]
  BY DEF FreshInv, Typed
<1>6. /\ call'[r] = [asset |-> a, prefetch |-> p, revision |-> source[a], born |-> source[a]]
      /\ \A s \in Requests : s # r => call'[s] = call[s]
  BY <1>1, <1>4, <1>5
<1>7. [asset |-> a, prefetch |-> p, revision |-> source[a], born |-> source[a]] \in CallFacts
  BY <1>4 DEF CallFacts
<1>8. call' \in [Requests -> CallFacts]
  BY <1>1, <1>4, <1>5, <1>7
<1>9. \A s \in Requests : joined[s] # r
  <2> SUFFICES ASSUME NEW s \in Requests, joined[s] = r PROVE FALSE
    OBVIOUS
  <2>1. at[joined[s]] # "new"
    BY <1>2 DEF FreshInv, WaitersSound, WaiterSound
  <2> QED BY <1>1, <2>1
<1>10. \A b \in Assets : rec[b].in_flight # r
  <2> SUFFICES ASSUME NEW b \in Assets, rec[b].in_flight = r PROVE FALSE
    OBVIOUS
  <2>1. at[rec[b].in_flight] = "returned"
    BY <1>2 DEF FreshInv, RecordsSound
  <2> QED BY <1>1, <2>1
<1>11. LoadsSound'
  <2> SUFFICES ASSUME NEW s \in Requests
               PROVE  /\ stage[s] = "loading" \/ result[s] = "ok" => read[s].stamp >= call'[s].born
                      /\ stage[s] = "none" => result[s] # "ok"
    BY <1>1 DEF LoadsSound
  <2>1. /\ stage[s] = "loading" \/ result[s] = "ok" => read[s].stamp >= call[s].born
        /\ stage[s] = "none" => result[s] # "ok"
    BY DEF FreshInv, LoadsSound
  <2> QED BY <1>3, <1>6, <2>1
<1>12. SettingSound'
  BY <1>1 DEF FreshInv, SettingSound
<1>13. call'[r].asset = a /\ call'[r].born = source[a] /\ call'[r].revision = source[a]
  BY <1>6
<1> QED BY <1>1, <1>3, <1>4, <1>6, <1>8, <1>9, <1>10, <1>11, <1>12, <1>13

\* A request that is refused holds nothing.
LEMMA RefusedKeeps ==
  ASSUME FreshInv, NEW t \in Threads, NEW r \in Requests, NEW a \in Assets,
         NEW p \in BOOLEAN, Refused(t, r, a, p)
  PROVE  FreshInv'
<1>1. Begin(t, r, a, p)
  BY DEF Refused
<1>2. /\ at' = [at EXCEPT ![r] = "returned"] /\ answer' = [answer EXCEPT ![r] = "failed"]
      /\ UNCHANGED <<rec, joined, attached, lease, queue>>
  BY DEF Refused
<1>3. /\ at[r] = "new" /\ stage[r] = "none" /\ joined[r] = None /\ lease[r] = NoGeneration
      /\ call' \in [Requests -> CallFacts]
      /\ call'[r].asset = a /\ call'[r].born = source[a] /\ call'[r].revision = source[a]
      /\ \A s \in Requests : s # r => call'[s] = call[s]
      /\ UNCHANGED <<source, setting, stage, result, read>>
      /\ \A s \in Requests : joined[s] # r
      /\ \A b \in Assets : rec[b].in_flight # r
      /\ source[a] \in 0..MaxSource /\ LoadsSound' /\ SettingSound'
  BY <1>1, Begun
<1>4. /\ \A s \in Requests : at'[s] = IF s = r THEN "returned" ELSE at[s]
      /\ \A s \in Requests : answer'[s] = IF s = r THEN "failed" ELSE answer[s]
      /\ at' \in [Requests -> Places] /\ answer' \in [Requests -> Outcomes]
  BY <1>2 DEF FreshInv, Typed, Places, Outcomes
<1>5. Typed'
  BY <1>2, <1>3, <1>4 DEF FreshInv, Typed
<1>6. RecordsSound'
  BY <1>2, <1>3, <1>4 DEF FreshInv, RecordsSound, Typed, Records
<1>7. CallsSound'
  BY <1>2, <1>3, <1>4 DEF FreshInv, CallsSound, Typed
<1>8. WaitersSound'
  BY <1>2, <1>3, <1>4 DEF FreshInv, WaitersSound, WaiterSound, Typed
<1>9. AttachedSound'
  BY <1>2 DEF FreshInv, AttachedSound
<1>10. QueueSound'
  <2>1. Grows(queue, queue', {})
    BY <1>2, Stays DEF FreshInv, Typed
  <2> QED BY <1>2, <1>3, <1>4, <2>1, QueueKept DEF FreshInv
<1> QED BY <1>3, <1>5, <1>6, <1>7, <1>8, <1>9, <1>10 DEF FreshInv

\* A request that joins a load was made at the revision of the load.
LEMMA JoinKeeps ==
  ASSUME FreshInv, NEW t \in Threads, NEW r \in Requests, NEW a \in Assets,
         NEW p \in BOOLEAN, Join(t, r, a, p)
  PROVE  FreshInv'
<1>1. Begin(t, r, a, p)
  BY DEF Join
<1>2. PICK l \in Requests : l = rec[a].in_flight
  BY DEF Join, FreshInv, Typed, Records
<1>3. /\ at' = [at EXCEPT ![r] = "returned"]
      /\ rec' = [rec EXCEPT ![a].waiters = @ \cup {r}]
      /\ joined' = [joined EXCEPT ![r] = l]
  BY <1>2 DEF Join
<1>4. /\ at[r] = "new" /\ stage[r] = "none" /\ joined[r] = None /\ lease[r] = NoGeneration
      /\ answer[r] = "none"
      /\ call' \in [Requests -> CallFacts]
      /\ call'[r].asset = a /\ call'[r].born = source[a] /\ call'[r].revision = source[a]
      /\ \A s \in Requests : s # r => call'[s] = call[s]
      /\ UNCHANGED <<source, setting, stage, result, read>>
      /\ \A s \in Requests : joined[s] # r
      /\ \A b \in Assets : rec[b].in_flight # r
      /\ source[a] \in 0..MaxSource /\ LoadsSound' /\ SettingSound'
  BY <1>1, Begun
<1>5. None \notin Requests
  BY ManagerAssumption DEF ManagerAssumption
<1>6. at[l] = "returned" /\ call[l].born = source[a] /\ l # r
  BY <1>2, <1>4, <1>5 DEF FreshInv, RecordsSound
<1>7. /\ \A s \in Requests : at'[s] = IF s = r THEN "returned" ELSE at[s]
      /\ \A s \in Requests : joined'[s] = IF s = r THEN l ELSE joined[s]
      /\ at' \in [Requests -> Places] /\ joined' \in [Requests -> Requests \cup {None}]
  BY <1>3 DEF FreshInv, Typed, Places
<1>8. /\ rec' \in [Assets -> Records]
      /\ \A b \in Assets : /\ rec'[b].revision = rec[b].revision
                           /\ rec'[b].state = rec[b].state
                           /\ rec'[b].current = rec[b].current
                           /\ rec'[b].in_flight = rec[b].in_flight
  <2>1. rec[a] \in Records
    BY DEF FreshInv, Typed
  <2>2. [rec[a] EXCEPT !.waiters = @ \cup {r}] \in Records
    BY <2>1 DEF Records
  <2>3. PICK one \in Records : one = [rec[a] EXCEPT !.waiters = @ \cup {r}]
    BY <2>2
  <2>4. /\ one.revision = rec[a].revision /\ one.state = rec[a].state
        /\ one.current = rec[a].current /\ one.in_flight = rec[a].in_flight
    BY <2>1, <2>3 DEF Records
  <2>5. rec' = [rec EXCEPT ![a] = one]
    BY <1>3, <2>3
  <2>6. rec \in [Assets -> Records]
    BY DEF FreshInv, Typed
  <2> QED BY <2>4, <2>5, <2>6
<1>9. /\ answer' \in [Requests -> Outcomes] /\ lease' \in [Requests -> Generations]
      /\ attached' \in [Requests -> Seq(Requests)]
      /\ \A s \in Requests : answer'[s] = answer[s] \/ (s = r /\ answer'[s] = "failed")
      /\ \A s \in Requests : lease'[s] = lease[s]
                             \/ (s = r /\ stage[l] = "settled" /\ lease'[s] = read[l])
      /\ Grows(queue, queue', IF stage[l] = "settled" THEN {r} ELSE {})
      /\ AttachedSound'
  <2>1. CASE stage[l] = "settled"
    <3>1. SubmitAnswers(<<r>>) /\ lease' = [lease EXCEPT ![r] = read[l]] /\ attached' = attached
      BY <1>2, <2>1 DEF Join
    <3>2. <<r>> \in Seq(Requests) /\ Range(<<r>>) = {r}
      BY FewElements
    <3>3. /\ Grows(queue, queue', {r}) /\ answer' \in [Requests -> Outcomes]
          /\ \A s \in Requests : answer'[s] = answer[s] \/ (s \in {r} /\ answer'[s] = "failed")
      BY <3>1, <3>2, Submitted DEF FreshInv
    <3>4. /\ lease' \in [Requests -> Generations]
          /\ \A s \in Requests : lease'[s] = IF s = r THEN read[l] ELSE lease[s]
          /\ attached' \in [Requests -> Seq(Requests)]
      BY <3>1 DEF FreshInv, Typed
    <3>5. AttachedSound'
      <4> SUFFICES ASSUME NEW k \in Requests, NEW i \in 1..Len(attached[k])
                   PROVE  joined'[attached[k][i]] = k
        BY <3>1 DEF AttachedSound
      <4>1. attached[k] \in Seq(Requests)
        BY DEF FreshInv, Typed
      <4>2. attached[k][i] \in Requests
        BY <4>1, ElementOfSeq
      <4>3. joined[attached[k][i]] = k
        BY DEF FreshInv, AttachedSound
      <4> QED BY <1>4, <1>5, <1>7, <4>2, <4>3
    <3> QED BY <2>1, <3>3, <3>4, <3>5
  <2>2. CASE stage[l] # "settled"
    <3>1. /\ attached' = [attached EXCEPT ![l] = Append(@, r)]
          /\ UNCHANGED <<lease, answer, queue>>
      BY <1>2, <2>2 DEF Join
    <3>2. attached \in [Requests -> Seq(Requests)]
      BY DEF FreshInv, Typed
    <3>3. Grows(queue, queue', {})
      BY <3>1, Stays DEF FreshInv, Typed
    <3>4. AttachedSound'
      <4> SUFFICES ASSUME NEW k \in Requests, NEW i \in 1..Len(attached'[k])
                   PROVE  joined'[attached'[k][i]] = k
        BY DEF AttachedSound
      <4>1. attached[k] \in Seq(Requests)
        BY <3>2
      <4>2. ASSUME i \in 1..Len(attached[k]) PROVE joined'[attached[k][i]] = k
        <5>1. attached[k][i] \in Requests
          BY <4>1, <4>2, ElementOfSeq
        <5>2. joined[attached[k][i]] = k
          BY <4>2 DEF FreshInv, AttachedSound
        <5> QED BY <1>4, <1>5, <1>7, <5>1, <5>2
      <4>3. CASE k = l
        <5>1. attached'[k] = Append(attached[k], r)
          BY <3>1, <3>2, <4>3
        <5>2. /\ Len(attached'[k]) = Len(attached[k]) + 1 /\ Len(attached[k]) \in Nat
              /\ \A j \in 1..Len(attached[k]) : attached'[k][j] = attached[k][j]
              /\ attached'[k][Len(attached[k]) + 1] = r
          BY <4>1, <5>1, AppendProperties, LenProperties
        <5> QED BY <1>7, <4>2, <4>3, <5>2
      <4>4. CASE k # l
        BY <3>1, <3>2, <4>2, <4>4
      <4> QED BY <4>3, <4>4
    <3>5. attached' \in [Requests -> Seq(Requests)]
      BY <3>1, <3>2
    <3> QED BY <2>2, <3>1, <3>3, <3>4, <3>5 DEF FreshInv, Typed
  <2> QED BY <2>1, <2>2
<1>10. Typed'
  <2>1. queue' \in Seq(Publications)
    BY <1>9 DEF Grows
  <2>2. /\ source' \in [Assets -> 0..MaxSource] /\ stage' \in [Requests -> Stages]
        /\ result' \in [Requests -> Outcomes] /\ read' \in [Requests -> Generations]
        /\ setting' \in Requests \cup {None}
    <3>1. UNCHANGED <<source, setting, stage, result, read>>
      BY <1>4
    <3> QED BY <3>1 DEF FreshInv, Typed
  <2> QED BY <1>4, <1>7, <1>8, <1>9, <2>1, <2>2 DEF Typed
<1>11. RecordsSound'
  BY <1>4, <1>5, <1>7, <1>8 DEF FreshInv, RecordsSound, Typed, Records
<1>12. CallsSound'
  BY <1>4, <1>7, <1>9 DEF FreshInv, CallsSound, Typed
<1>13. WaitersSound'
  <2> SUFFICES ASSUME NEW s \in Requests PROVE WaiterSound(s)'
    BY DEF WaitersSound
  <2>1. CASE s = r
    <3>1. joined'[s] = l /\ l # None /\ at'[l] = "returned"
      BY <1>5, <1>6, <1>7, <2>1
    <3>2. call'[l].born = call'[s].born
      BY <1>4, <1>6, <2>1
    <3>3. lease'[s] # NoGeneration => stage'[l] = "settled" /\ lease'[s] = read'[l]
      BY <1>4, <1>9, <2>1
    <3>4. answer'[s] # "ok"
      BY <1>4, <1>9, <2>1
    <3> QED BY <3>1, <3>2, <3>3, <3>4 DEF WaiterSound
  <2>2. CASE s # r
    <3>1. joined'[s] = joined[s] /\ lease'[s] = lease[s] /\ answer'[s] = answer[s]
          /\ call'[s] = call[s] /\ joined[s] \in Requests \cup {None}
      BY <1>4, <1>7, <1>9, <2>2 DEF FreshInv, Typed
    <3>2. WaiterSound(s) /\ joined[s] # r
      BY <1>4 DEF FreshInv, WaitersSound
    <3>3. joined[s] # None => call'[joined[s]] = call[joined[s]]
      BY <1>4, <3>1, <3>2
    <3>4. stage' = stage /\ result' = result /\ read' = read
      BY <1>4
    <3>5. joined[s] # None => at'[joined[s]] = at[joined[s]]
      BY <1>7, <3>1, <3>2
    <3> QED BY <3>1, <3>2, <3>3, <3>4, <3>5 DEF WaiterSound
  <2> QED BY <2>1, <2>2
<1>14. QueueSound'
  <2> PICK S : S = IF stage[l] = "settled" THEN {r} ELSE {}
    OBVIOUS
  <2>0. Grows(queue, queue', S)
    BY <1>9
  <2>1. \A s \in S : at'[s] = "returned" /\ stage'[joined'[s]] = "settled"
    BY <1>4, <1>7
  <2>2. \A s \in Requests : at[s] = "returned" => at'[s] = "returned" /\ joined'[s] = joined[s]
    BY <1>4, <1>7
  <2>3. stage' = stage /\ setting' = setting
    BY <1>4
  <2>4. Typed /\ QueueSound
    BY DEF FreshInv
  <2> QED BY <2>0, <2>1, <2>2, <2>3, <2>4, QueueKept
<1> QED BY <1>4, <1>9, <1>10, <1>11, <1>12, <1>13, <1>14 DEF FreshInv

\* A request for what is resident and Ready gets a generation of the last change.
LEMMA UseResidentKeeps ==
  ASSUME FreshInv, NEW t \in Threads, NEW r \in Requests, NEW a \in Assets,
         NEW p \in BOOLEAN, UseResident(t, r, a, p)
  PROVE  FreshInv'
<1>1. Begin(t, r, a, p) /\ SubmitAnswers(<<r>>)
  BY DEF UseResident
<1>2. /\ at' = [at EXCEPT ![r] = "returned"]
      /\ lease' = [lease EXCEPT ![r] = rec[a].current]
      /\ UNCHANGED <<rec, joined, attached>> /\ rec[a].state = "Ready"
  BY DEF UseResident
<1>3. /\ at[r] = "new" /\ stage[r] = "none" /\ joined[r] = None /\ lease[r] = NoGeneration
      /\ answer[r] = "none"
      /\ call' \in [Requests -> CallFacts]
      /\ call'[r].asset = a /\ call'[r].born = source[a] /\ call'[r].revision = source[a]
      /\ \A s \in Requests : s # r => call'[s] = call[s]
      /\ UNCHANGED <<source, setting, stage, result, read>>
      /\ \A s \in Requests : joined[s] # r
      /\ \A b \in Assets : rec[b].in_flight # r
      /\ source[a] \in 0..MaxSource /\ LoadsSound' /\ SettingSound'
  BY <1>1, Begun
<1>4. <<r>> \in Seq(Requests) /\ Range(<<r>>) = {r}
  BY FewElements
<1>5. /\ Grows(queue, queue', {r}) /\ answer' \in [Requests -> Outcomes]
      /\ \A s \in Requests : answer'[s] = answer[s] \/ (s = r /\ answer'[s] = "failed")
  <2>1. /\ Grows(queue, queue', {r}) /\ answer' \in [Requests -> Outcomes]
        /\ \A s \in Requests : answer'[s] = answer[s] \/ (s \in {r} /\ answer'[s] = "failed")
    BY <1>1, <1>4, Submitted DEF FreshInv
  <2> QED BY <2>1
<1>6. rec[a].current \in Generations /\ rec[a].current.stamp >= source[a]
  BY <1>2 DEF FreshInv, RecordsSound, Typed, Records
<1>7. /\ \A s \in Requests : at'[s] = IF s = r THEN "returned" ELSE at[s]
      /\ \A s \in Requests : lease'[s] = IF s = r THEN rec[a].current ELSE lease[s]
      /\ at' \in [Requests -> Places] /\ lease' \in [Requests -> Generations]
  BY <1>2, <1>6 DEF FreshInv, Typed, Places
<1>8. Typed'
  BY <1>2, <1>3, <1>5, <1>7 DEF FreshInv, Typed, Grows
<1>9. RecordsSound'
  BY <1>2, <1>3, <1>7 DEF FreshInv, RecordsSound, Typed, Records
<1>10. CallsSound'
  BY <1>2, <1>3, <1>5, <1>7 DEF FreshInv, CallsSound, Typed
<1>11. WaitersSound'
  <2> SUFFICES ASSUME NEW s \in Requests PROVE WaiterSound(s)'
    BY DEF WaitersSound
  <2>1. CASE s = r
    BY <1>2, <1>3, <1>5, <1>6, <1>7, <2>1 DEF WaiterSound
  <2>2. CASE s # r
    <3>1. lease'[s] = lease[s] /\ answer'[s] = answer[s] /\ call'[s] = call[s]
      BY <1>3, <1>5, <1>7, <2>2
    <3> QED BY <1>2, <1>3, <1>7, <3>1, WaiterStays
  <2> QED BY <2>1, <2>2
<1>12. AttachedSound'
  BY <1>2 DEF FreshInv, AttachedSound
<1>13. QueueSound'
  <2>1. \A s \in {r} : at'[s] = "returned" /\ joined'[s] = None
    BY <1>2, <1>3, <1>7
  <2>2. \A s \in Requests : at[s] = "returned" => at'[s] = "returned" /\ joined'[s] = joined[s]
    BY <1>2, <1>3, <1>7
  <2> QED BY <1>3, <1>5, <2>1, <2>2, QueueKept DEF FreshInv
<1> QED BY <1>3, <1>8, <1>9, <1>10, <1>11, <1>12, <1>13 DEF FreshInv

\* A request that is to load the asset.
LEMMA StartKeeps ==
  ASSUME FreshInv, NEW t \in Threads, NEW r \in Requests, NEW a \in Assets,
         NEW p \in BOOLEAN, StartRequest(t, r, a, p)
  PROVE  FreshInv'
<1>1. Begin(t, r, a, p)
  BY DEF StartRequest
<1>2. /\ at' = [at EXCEPT ![r] = "schedule"]
      /\ rec' = [rec EXCEPT ![a].state = "Queued", ![a].load = r,
                            ![a].waiters = {r}, ![a].prefetch = p]
      /\ UNCHANGED <<queue, joined, attached, lease, answer>>
  BY DEF StartRequest, futureVars
<1>3. /\ at[r] = "new" /\ stage[r] = "none" /\ joined[r] = None /\ lease[r] = NoGeneration
      /\ answer[r] = "none"
      /\ call' \in [Requests -> CallFacts]
      /\ call'[r].asset = a /\ call'[r].born = source[a] /\ call'[r].revision = source[a]
      /\ \A s \in Requests : s # r => call'[s] = call[s]
      /\ UNCHANGED <<source, setting, stage, result, read>>
      /\ \A s \in Requests : joined[s] # r
      /\ \A b \in Assets : rec[b].in_flight # r
      /\ source[a] \in 0..MaxSource /\ LoadsSound' /\ SettingSound'
  BY <1>1, Begun
<1>4. /\ \A s \in Requests : at'[s] = IF s = r THEN "schedule" ELSE at[s]
      /\ at' \in [Requests -> Places]
  BY <1>2 DEF FreshInv, Typed, Places
<1>5. PICK new \in Records :
        new = [rec[a] EXCEPT !.state = "Queued", !.load = r, !.waiters = {r}, !.prefetch = p]
  <2>1. rec[a] \in Records
    BY DEF FreshInv, Typed
  <2>2. [rec[a] EXCEPT !.state = "Queued", !.load = r, !.waiters = {r}, !.prefetch = p] \in Records
    BY <2>1 DEF Records, States
  <2> QED BY <2>2
<1>6. /\ new.revision = rec[a].revision /\ new.state = "Queued"
      /\ new.in_flight = rec[a].in_flight
  BY <1>5 DEF FreshInv, Typed, Records
<1>7. /\ rec' \in [Assets -> Records]
      /\ \A b \in Assets : /\ rec'[b].revision = rec[b].revision
                           /\ rec'[b].in_flight = rec[b].in_flight
                           /\ rec'[b] = rec[b] \/ rec'[b].state = "Queued"
  <2>1. rec \in [Assets -> Records]
    BY DEF FreshInv, Typed
  <2>2. rec' = [rec EXCEPT ![a] = new]
    BY <1>2, <1>5, <2>1
  <2> QED BY <1>6, <2>1, <2>2
<1>8. Typed'
  BY <1>2, <1>3, <1>4, <1>7 DEF FreshInv, Typed
<1>9. RecordsSound'
  <2> SUFFICES ASSUME NEW b \in Assets
        PROVE  /\ rec'[b].revision = source[b]
               /\ rec'[b].state = "Ready" => rec'[b].current.stamp >= source[b]
               /\ rec'[b].in_flight # None =>
                     /\ at'[rec'[b].in_flight] = "returned"
                     /\ call'[rec'[b].in_flight].born = source[b]
    BY <1>3 DEF RecordsSound
  <2>1. /\ rec[b].revision = source[b]
        /\ rec[b].state = "Ready" => rec[b].current.stamp >= source[b]
        /\ rec[b].in_flight # None =>
              at[rec[b].in_flight] = "returned" /\ call[rec[b].in_flight].born = source[b]
    BY DEF FreshInv, RecordsSound
  <2>2. rec[b].in_flight \in Requests \cup {None} /\ rec[b].in_flight # r
    BY <1>3 DEF FreshInv, Typed, Records
  <2> QED BY <1>3, <1>4, <1>7, <2>1, <2>2
<1>10. CallsSound'
  BY <1>2, <1>3, <1>4 DEF FreshInv, CallsSound, Typed
<1>11. WaitersSound'
  <2> SUFFICES ASSUME NEW s \in Requests PROVE WaiterSound(s)'
    BY DEF WaitersSound
  <2>1. CASE s = r
    BY <1>2, <1>3, <2>1 DEF WaiterSound
  <2>2. CASE s # r
    BY <1>2, <1>3, <1>4, <2>2, WaiterStays
  <2> QED BY <2>1, <2>2
<1>12. AttachedSound'
  BY <1>2 DEF FreshInv, AttachedSound
<1>13. QueueSound'
  <2>1. Grows(queue, queue', {})
    BY <1>2, Stays DEF FreshInv, Typed
  <2>2. \A s \in Requests : at[s] = "returned" => at'[s] = "returned" /\ joined'[s] = joined[s]
    BY <1>2, <1>3, <1>4
  <2> QED BY <1>2, <1>3, <2>1, <2>2, QueueKept DEF FreshInv
<1> QED BY <1>3, <1>8, <1>9, <1>10, <1>11, <1>12, <1>13 DEF FreshInv

\* The load goes to its lane, or the lane refuses it.
LEMMA ScheduleKeeps ==
  ASSUME FreshInv, NEW t \in Threads, NEW r \in Requests, ScheduleLoad(t, r)
  PROVE  FreshInv'
<1>1. /\ at[r] = "schedule"
      /\ UNCHANGED <<rec, source, joined, attached, lease, answer, queue, setting, call,
                     result, read>>
  BY DEF ScheduleLoad, recordVars, futureVars, pumpVars
<1>2. stage[r] = "none" /\ answer[r] = "none" /\ lease[r] = NoGeneration /\ joined[r] = None
  BY <1>1 DEF FreshInv, CallsSound
<1>3. PICK q \in Places, g \in Stages :
          /\ at' = [at EXCEPT ![r] = q] /\ stage' = [stage EXCEPT ![r] = g]
          /\ q \in {"register", "refused"} /\ g \in {"lane", "none"}
          /\ q = "refused" => g = "none"
  <2>1. CASE stage' = [stage EXCEPT ![r] = "lane"] /\ at' = [at EXCEPT ![r] = "register"]
    BY <2>1 DEF Places, Stages
  <2>2. CASE at' = [at EXCEPT ![r] = "refused"] /\ stage' = stage
    <3>1. stage' = [stage EXCEPT ![r] = "none"]
      BY <1>2, <2>2 DEF FreshInv, Typed
    <3> QED BY <2>2, <3>1 DEF Places, Stages
  <2> QED BY <2>1, <2>2 DEF ScheduleLoad
<1>4. /\ \A s \in Requests : at'[s] = IF s = r THEN q ELSE at[s]
      /\ \A s \in Requests : stage'[s] = IF s = r THEN g ELSE stage[s]
      /\ at' \in [Requests -> Places] /\ stage' \in [Requests -> Stages]
  BY <1>3 DEF FreshInv, Typed
<1>5. Typed'
  BY <1>1, <1>4 DEF FreshInv, Typed
<1>6. RecordsSound'
  BY <1>1, <1>3, <1>4 DEF FreshInv, RecordsSound, Typed, Records
<1>7. CallsSound'
  BY <1>1, <1>2, <1>3, <1>4 DEF FreshInv, CallsSound, Typed
<1>8. LoadsSound'
  BY <1>1, <1>2, <1>3, <1>4 DEF FreshInv, LoadsSound, Typed
<1>9. WaitersSound'
  <2> SUFFICES ASSUME NEW s \in Requests PROVE WaiterSound(s)'
    BY DEF WaitersSound
  <2> QED BY <1>1, <1>2, <1>3, <1>4, WaiterStays
<1>10. AttachedSound'
  BY <1>1 DEF FreshInv, AttachedSound
<1>11. QueueSound'
  <2>1. Grows(queue, queue', {})
    BY <1>1, Stays DEF FreshInv, Typed
  <2> QED BY <1>1, <1>2, <1>3, <1>4, <2>1, QueueKept DEF FreshInv
<1>12. SettingSound'
  BY <1>1, <1>2, <1>4 DEF FreshInv, SettingSound, Typed
<1> QED BY <1>5, <1>6, <1>7, <1>8, <1>9, <1>10, <1>11, <1>12 DEF FreshInv

\* The section that takes a refused load back.
LEMMA RefusalKeeps ==
  ASSUME FreshInv, NEW t \in Threads, NEW r \in Requests, RecordRefusal(t, r)
  PROVE  FreshInv'
<1>1. /\ at[r] = "refused" /\ at' = [at EXCEPT ![r] = "returned"]
      /\ answer' = [answer EXCEPT ![r] = "failed"]
      /\ rec' = [rec EXCEPT ![call[r].asset].prefetch = FALSE, ![call[r].asset].state = "Failed"]
      /\ UNCHANGED <<source, joined, attached, lease, queue, setting, call, stage, result, read>>
  BY DEF RecordRefusal, loadVars, pumpVars
<1>2. /\ stage[r] = "none" /\ lease[r] = NoGeneration /\ joined[r] = None
      /\ call[r].asset \in Assets
  BY <1>1 DEF FreshInv, CallsSound
<1>3. /\ \A s \in Requests : at'[s] = IF s = r THEN "returned" ELSE at[s]
      /\ \A s \in Requests : answer'[s] = IF s = r THEN "failed" ELSE answer[s]
      /\ at' \in [Requests -> Places] /\ answer' \in [Requests -> Outcomes]
  BY <1>1 DEF FreshInv, Typed, Places, Outcomes
<1>4. PICK a \in Assets : a = call[r].asset
  BY <1>2
<1>5. PICK new \in Records : new = [rec[a] EXCEPT !.prefetch = FALSE, !.state = "Failed"]
  <2>1. rec[a] \in Records
    BY DEF FreshInv, Typed
  <2>2. [rec[a] EXCEPT !.prefetch = FALSE, !.state = "Failed"] \in Records
    BY <2>1 DEF Records, States
  <2> QED BY <2>2
<1>6. /\ new.revision = rec[a].revision /\ new.state = "Failed"
      /\ new.in_flight = rec[a].in_flight
  BY <1>5 DEF FreshInv, Typed, Records
<1>7. /\ rec' \in [Assets -> Records]
      /\ \A b \in Assets : /\ rec'[b].revision = rec[b].revision
                           /\ rec'[b].in_flight = rec[b].in_flight
                           /\ rec'[b] = rec[b] \/ rec'[b].state = "Failed"
  <2>1. rec \in [Assets -> Records]
    BY DEF FreshInv, Typed
  <2>2. rec' = [rec EXCEPT ![a] = new]
    BY <1>1, <1>4, <1>5, <2>1
  <2> QED BY <1>6, <2>1, <2>2
<1>8. Typed'
  BY <1>1, <1>3, <1>7 DEF FreshInv, Typed
<1>9. RecordsSound'
  <2> SUFFICES ASSUME NEW b \in Assets
        PROVE  /\ rec'[b].revision = source[b]
               /\ rec'[b].state = "Ready" => rec'[b].current.stamp >= source[b]
               /\ rec'[b].in_flight # None =>
                     /\ at'[rec'[b].in_flight] = "returned"
                     /\ call[rec'[b].in_flight].born = source[b]
    BY <1>1 DEF RecordsSound
  <2>1. /\ rec[b].revision = source[b]
        /\ rec[b].state = "Ready" => rec[b].current.stamp >= source[b]
        /\ rec[b].in_flight # None =>
              at[rec[b].in_flight] = "returned" /\ call[rec[b].in_flight].born = source[b]
    BY DEF FreshInv, RecordsSound
  <2>2. rec[b].in_flight \in Requests \cup {None}
    BY DEF FreshInv, Typed, Records
  <2> QED BY <1>3, <1>7, <2>1, <2>2
<1>10. CallsSound'
  BY <1>1, <1>2, <1>3 DEF FreshInv, CallsSound, Typed
<1>11. LoadsSound'
  BY <1>1 DEF FreshInv, LoadsSound
<1>12. WaitersSound'
  <2> SUFFICES ASSUME NEW s \in Requests PROVE WaiterSound(s)'
    BY DEF WaitersSound
  <2> QED BY <1>1, <1>3, WaiterStays
<1>13. AttachedSound'
  BY <1>1 DEF FreshInv, AttachedSound
<1>14. QueueSound'
  <2>1. Grows(queue, queue', {})
    BY <1>1, Stays DEF FreshInv, Typed
  <2> QED BY <1>1, <1>3, <2>1, QueueKept DEF FreshInv
<1>15. SettingSound'
  BY <1>1 DEF FreshInv, SettingSound
<1> QED BY <1>8, <1>9, <1>10, <1>11, <1>12, <1>13, <1>14, <1>15 DEF FreshInv

\* The last section: the load is the one in flight only if nothing changed since
\* the first one.
LEMMA RegisterKeeps ==
  ASSUME FreshInv, NEW t \in Threads, NEW r \in Requests, Register(t, r)
  PROVE  FreshInv'
<1>1. /\ at[r] = "register" /\ at' = [at EXCEPT ![r] = "returned"]
      /\ UNCHANGED <<source, setting, call, stage, result, read>>
  BY DEF Register, loadVars
<1>2. /\ answer[r] = "none" /\ lease[r] = NoGeneration /\ joined[r] = None
      /\ call[r].revision = call[r].born
  BY <1>1 DEF FreshInv, CallsSound
<1>3. PICK a \in Assets : a = call[r].asset
  BY <1>1 DEF FreshInv, CallsSound
<1>4. /\ \A s \in Requests : at'[s] = IF s = r THEN "returned" ELSE at[s]
      /\ at' \in [Requests -> Places]
  BY <1>1 DEF FreshInv, Typed, Places
<1>5. None \notin Requests
  BY ManagerAssumption DEF ManagerAssumption
<1>6. rec \in [Assets -> Records] /\ joined \in [Requests -> Requests \cup {None}]
      /\ attached \in [Requests -> Seq(Requests)] /\ lease \in [Requests -> Generations]
      /\ read \in [Requests -> Generations] /\ answer \in [Requests -> Outcomes]
  BY DEF FreshInv, Typed
<1>7. \A s \in Requests : \A i \in 1..Len(attached[s]) : attached[s][i] \in Requests \ {r}
  <2> SUFFICES ASSUME NEW s \in Requests, NEW i \in 1..Len(attached[s])
               PROVE  attached[s][i] \in Requests \ {r}
    OBVIOUS
  <2>1. attached[s] \in Seq(Requests)
    BY <1>6
  <2>2. attached[s][i] \in Requests
    BY <2>1, ElementOfSeq
  <2>3. joined[attached[s][i]] = s
    BY DEF FreshInv, AttachedSound
  <2> QED BY <1>2, <1>5, <2>2, <2>3
\* Too late: the request is answered with the change.
<1>8. CASE rec[a].revision # call[r].revision
  <2>1. answer' = [answer EXCEPT ![r] = "cancelled"] /\ UNCHANGED <<rec, joined, attached, lease, queue>>
    BY <1>3, <1>8 DEF Register
  <2>2. /\ \A s \in Requests : answer'[s] = IF s = r THEN "cancelled" ELSE answer[s]
        /\ answer' \in [Requests -> Outcomes]
    BY <1>6, <2>1 DEF Outcomes
  <2>3. Typed'
    BY <1>1, <1>4, <2>1, <2>2 DEF FreshInv, Typed
  <2>4. RecordsSound'
    BY <1>1, <1>4, <2>1 DEF FreshInv, RecordsSound, Typed, Records
  <2>5. CallsSound'
    BY <1>1, <1>2, <1>4, <2>1, <2>2 DEF FreshInv, CallsSound, Typed
  <2>6. LoadsSound'
    BY <1>1 DEF FreshInv, LoadsSound
  <2>7. WaitersSound'
    <3> SUFFICES ASSUME NEW s \in Requests PROVE WaiterSound(s)'
      BY DEF WaitersSound
    <3> QED BY <1>1, <1>4, <2>1, <2>2, WaiterStays
  <2>8. AttachedSound'
    BY <2>1 DEF FreshInv, AttachedSound
  <2>9. QueueSound'
    <3>1. Grows(queue, queue', {})
      BY <2>1, Stays DEF FreshInv, Typed
    <3> QED BY <1>1, <1>4, <2>1, <3>1, QueueKept DEF FreshInv
  <2>10. SettingSound'
    BY <1>1 DEF FreshInv, SettingSound
  <2> QED BY <2>3, <2>4, <2>5, <2>6, <2>7, <2>8, <2>9, <2>10 DEF FreshInv
<1>9. CASE rec[a].revision = call[r].revision
  <2>1. rec' = [rec EXCEPT ![a] = Registered(a, r)] /\ joined' = [joined EXCEPT ![r] = r]
    BY <1>3, <1>9 DEF Register
  <2>2. call[r].born = source[a]
    BY <1>2, <1>9 DEF FreshInv, RecordsSound
  <2>3. PICK new \in Records : new = [rec[a] EXCEPT !.state = "Loading", !.in_flight = r]
    BY <1>6 DEF Records, States
  <2>4. /\ new.revision = rec[a].revision /\ new.state = "Loading" /\ new.in_flight = r
    BY <1>6, <2>3 DEF Records
  <2>5. /\ rec' \in [Assets -> Records]
        /\ \A b \in Assets : /\ rec'[b].revision = rec[b].revision
                             /\ rec'[b] = rec[b] \/ (/\ rec'[b].state = "Loading"
                                                     /\ rec'[b].in_flight = r /\ b = a)
    <3>1. rec' = [rec EXCEPT ![a] = new]
      BY <2>1, <2>3 DEF Registered
    <3> QED BY <1>6, <2>4, <3>1
  <2>6. /\ joined' \in [Requests -> Requests \cup {None}]
        /\ \A s \in Requests : joined'[s] = IF s = r THEN r ELSE joined[s]
    BY <1>6, <2>1
  <2>7. /\ answer' \in [Requests -> Outcomes] /\ lease' \in [Requests -> Generations]
        /\ attached' \in [Requests -> Seq(Requests)]
        /\ \A s \in Requests : answer'[s] = answer[s] \/ (s = r /\ answer'[s] = "failed")
        /\ \A s \in Requests : lease'[s] = lease[s]
                               \/ (s = r /\ stage[r] = "settled" /\ lease'[s] = read[r])
        /\ Grows(queue, queue', IF stage[r] = "settled" THEN {r} ELSE {})
        /\ AttachedSound'
    <3>1. CASE stage[r] = "settled"
      <4>1. SubmitAnswers(<<r>>) /\ lease' = [lease EXCEPT ![r] = read[r]] /\ attached' = attached
        BY <1>3, <1>9, <3>1 DEF Register
      <4>2. <<r>> \in Seq(Requests) /\ Range(<<r>>) = {r}
        BY FewElements
      <4>3. /\ Grows(queue, queue', {r}) /\ answer' \in [Requests -> Outcomes]
            /\ \A s \in Requests : answer'[s] = answer[s] \/ (s \in {r} /\ answer'[s] = "failed")
        BY <4>1, <4>2, Submitted DEF FreshInv
      <4>4. /\ lease' \in [Requests -> Generations]
            /\ \A s \in Requests : lease'[s] = IF s = r THEN read[r] ELSE lease[s]
        BY <1>6, <4>1
      <4>5. AttachedSound'
        BY <1>7, <2>6, <4>1 DEF FreshInv, AttachedSound
      <4> QED BY <1>6, <3>1, <4>1, <4>3, <4>4, <4>5
    <3>2. CASE stage[r] # "settled"
      <4>1. /\ attached' = [attached EXCEPT ![r] = Append(@, r)]
            /\ UNCHANGED <<lease, answer, queue>>
        BY <1>3, <1>9, <3>2 DEF Register
      <4>2. Grows(queue, queue', {})
        BY <4>1, Stays DEF FreshInv, Typed
      <4>3. AttachedSound'
        <5> SUFFICES ASSUME NEW k \in Requests, NEW i \in 1..Len(attached'[k])
                     PROVE  joined'[attached'[k][i]] = k
          BY DEF AttachedSound
        <5>1. attached[k] \in Seq(Requests)
          BY <1>6
        <5>2. ASSUME i \in 1..Len(attached[k]) PROVE joined'[attached[k][i]] = k
          BY <1>7, <2>6, <5>2 DEF FreshInv, AttachedSound
        <5>3. CASE k = r
          <6>1. attached'[k] = Append(attached[k], r)
            BY <1>6, <4>1, <5>3
          <6>2. /\ Len(attached'[k]) = Len(attached[k]) + 1 /\ Len(attached[k]) \in Nat
                /\ \A j \in 1..Len(attached[k]) : attached'[k][j] = attached[k][j]
                /\ attached'[k][Len(attached[k]) + 1] = r
            BY <5>1, <6>1, AppendProperties, LenProperties
          <6> QED BY <2>6, <5>2, <5>3, <6>2
        <5>4. CASE k # r
          BY <1>6, <4>1, <5>2, <5>4
        <5> QED BY <5>3, <5>4
      <4>4. attached' \in [Requests -> Seq(Requests)]
        BY <1>6, <4>1
      <4> QED BY <1>6, <3>2, <4>1, <4>2, <4>3, <4>4
    <3> QED BY <3>1, <3>2
  <2>8. Typed'
    BY <1>1, <1>4, <2>5, <2>6, <2>7 DEF FreshInv, Typed, Grows
  <2>9. RecordsSound'
    <3> SUFFICES ASSUME NEW b \in Assets
          PROVE  /\ rec'[b].revision = source[b]
                 /\ rec'[b].state = "Ready" => rec'[b].current.stamp >= source[b]
                 /\ rec'[b].in_flight # None =>
                       /\ at'[rec'[b].in_flight] = "returned"
                       /\ call[rec'[b].in_flight].born = source[b]
      BY <1>1 DEF RecordsSound
    <3>1. /\ rec[b].revision = source[b]
          /\ rec[b].state = "Ready" => rec[b].current.stamp >= source[b]
          /\ rec[b].in_flight # None =>
                at[rec[b].in_flight] = "returned" /\ call[rec[b].in_flight].born = source[b]
      BY DEF FreshInv, RecordsSound
    <3>2. rec[b].in_flight \in Requests \cup {None}
      BY <1>6 DEF Records
    <3> QED BY <1>4, <2>2, <2>5, <3>1, <3>2
  <2>10. CallsSound'
    BY <1>1, <1>2, <1>4, <2>6, <2>7 DEF FreshInv, CallsSound, Typed
  <2>11. LoadsSound'
    BY <1>1 DEF FreshInv, LoadsSound
  <2>12. WaitersSound'
    <3> SUFFICES ASSUME NEW s \in Requests PROVE WaiterSound(s)'
      BY DEF WaitersSound
    <3>1. CASE s = r
      BY <1>1, <1>2, <1>4, <1>5, <2>6, <2>7, <3>1 DEF WaiterSound
    <3>2. CASE s # r
      <4>1. lease'[s] = lease[s] /\ answer'[s] = answer[s] /\ joined'[s] = joined[s]
        BY <2>6, <2>7, <3>2
      <4> QED BY <1>1, <1>4, <4>1, WaiterStays
    <3> QED BY <3>1, <3>2
  <2>13. QueueSound'
    <3>1. \A s \in (IF stage[r] = "settled" THEN {r} ELSE {}) :
              at'[s] = "returned" /\ stage'[joined'[s]] = "settled"
      BY <1>1, <1>4, <2>6
    <3>2. \A s \in Requests : at[s] = "returned" => at'[s] = "returned" /\ joined'[s] = joined[s]
      BY <1>1, <1>4, <2>6
    <3> QED BY <1>1, <2>7, <3>1, <3>2, QueueKept DEF FreshInv
  <2>14. SettingSound'
    BY <1>1 DEF FreshInv, SettingSound
  <2> QED BY <2>7, <2>8, <2>9, <2>10, <2>11, <2>12, <2>13, <2>14 DEF FreshInv
<1> QED BY <1>8, <1>9

\* A load that is not over goes on.
LEMMA LoadGoesOn ==
  ASSUME FreshInv, NEW r \in Requests, NEW g \in Stages, NEW e \in Outcomes,
         NEW n \in Generations, stage[r] \in {"lane", "loading"}, g # "none",
         stage' = [stage EXCEPT ![r] = g], result' = [result EXCEPT ![r] = e],
         read' = [read EXCEPT ![r] = n],
         g = "loading" \/ e = "ok" => n.stamp >= call[r].born,
         UNCHANGED <<rec, source, call, at, joined, lease, attached, setting, queue, answer>>
  PROVE  FreshInv'
<1>1. /\ \A s \in Requests : stage'[s] = IF s = r THEN g ELSE stage[s]
      /\ \A s \in Requests : result'[s] = IF s = r THEN e ELSE result[s]
      /\ \A s \in Requests : read'[s] = IF s = r THEN n ELSE read[s]
      /\ stage' \in [Requests -> Stages] /\ result' \in [Requests -> Outcomes]
      /\ read' \in [Requests -> Generations]
  BY DEF FreshInv, Typed
<1>2. Typed'
  BY <1>1 DEF FreshInv, Typed
<1>3. RecordsSound'
  BY DEF FreshInv, RecordsSound
<1>4. CallsSound'
  BY <1>1 DEF FreshInv, CallsSound
<1>5. LoadsSound'
  BY <1>1 DEF FreshInv, LoadsSound
<1>6. WaitersSound'
  <2> SUFFICES ASSUME NEW s \in Requests PROVE WaiterSound(s)'
    BY DEF WaitersSound
  <2> QED BY <1>1, WaiterStays
<1>7. AttachedSound'
  BY DEF FreshInv, AttachedSound
<1>8. QueueSound'
  <2>1. Grows(queue, queue', {})
    BY Stays DEF FreshInv, Typed
  <2> QED BY <1>1, <2>1, QueueKept DEF FreshInv
<1>9. SettingSound'
  BY <1>1 DEF FreshInv, SettingSound, Typed
<1> QED BY <1>2, <1>3, <1>4, <1>5, <1>6, <1>7, <1>8, <1>9 DEF FreshInv

LEMMA StartLoadKeeps == ASSUME FreshInv, NEW r \in Requests, StartLoad(r) PROVE FreshInv'
<1>1. /\ stage[r] = "lane"
      /\ UNCHANGED <<rec, source, call, at, joined, lease, attached, setting, queue, answer>>
  BY DEF StartLoad, recordVars, futureVars, pumpVars
<1>2. /\ call[r].asset \in Assets /\ call[r].born <= source[call[r].asset]
      /\ call[r].born \in 0..MaxSource /\ source[call[r].asset] \in 0..MaxSource
  BY <1>1 DEF FreshInv, CallsSound, Typed, Places, CallFacts
<1>3. /\ read \in [Requests -> Generations] /\ read[r] \in Generations
      /\ result \in [Requests -> Outcomes] /\ result[r] \in Outcomes
  BY DEF FreshInv, Typed
<1>4. CASE /\ stage' = [stage EXCEPT ![r] = "loaded"]
           /\ result' = [result EXCEPT ![r] = "cancelled"]
           /\ read' = read
  <2>1. read' = [read EXCEPT ![r] = read[r]]
    BY <1>3, <1>4
  <2> QED BY <1>1, <1>3, <1>4, <2>1, LoadGoesOn DEF Stages, Outcomes
<1>5. CASE /\ stage' = [stage EXCEPT ![r] = "loading"]
           /\ read' = [read EXCEPT ![r].stamp = source[call[r].asset]]
           /\ result' = result
  <2>1. result' = [result EXCEPT ![r] = result[r]]
    BY <1>3, <1>5
  <2>2. PICK n \in Generations : n = [read[r] EXCEPT !.stamp = source[call[r].asset]]
    BY <1>2, <1>3 DEF Generations
  <2>3. n.stamp = source[call[r].asset]
    BY <1>3, <2>2 DEF Generations
  <2>4. read' = [read EXCEPT ![r] = n]
    BY <1>5, <2>2
  <2>5. n.stamp >= call[r].born
    BY <1>2, <2>3
  <2> QED BY <1>1, <1>3, <1>5, <2>1, <2>4, <2>5, LoadGoesOn DEF Stages
<1> QED BY <1>4, <1>5 DEF StartLoad

LEMMA EndLoadKeeps == ASSUME FreshInv, NEW r \in Requests, EndLoad(r) PROVE FreshInv'
<1>1. /\ stage[r] = "loading" /\ stage' = [stage EXCEPT ![r] = "loaded"]
      /\ UNCHANGED <<rec, source, call, at, joined, lease, attached, setting, queue, answer>>
  BY DEF EndLoad, recordVars, futureVars, pumpVars
<1>2. read \in [Requests -> Generations] /\ read[r] \in Generations
      /\ read[r].stamp >= call[r].born
  BY <1>1 DEF FreshInv, LoadsSound, Typed
<1>3. CASE \E k \in {s \in Sizes : s <= MaxBytes} :
              /\ result' = [result EXCEPT ![r] = "ok"]
              /\ read' = [read EXCEPT ![r].size = k]
  <2>1. PICK k \in Sizes : /\ result' = [result EXCEPT ![r] = "ok"]
                           /\ read' = [read EXCEPT ![r].size = k]
    BY <1>3
  <2>2. k \in Nat
    BY ManagerAssumption DEF ManagerAssumption
  <2>3. PICK n \in Generations : n = [read[r] EXCEPT !.size = k]
    BY <1>2, <2>2 DEF Generations
  <2>4. n.stamp = read[r].stamp
    BY <1>2, <2>3 DEF Generations
  <2>5. read' = [read EXCEPT ![r] = n]
    BY <2>1, <2>3
  <2>6. n.stamp >= call[r].born
    BY <1>2, <2>4
  <2> QED BY <1>1, <2>1, <2>5, <2>6, LoadGoesOn DEF Stages, Outcomes
<1>4. CASE /\ \E e \in {"failed"} \cup (IF r \in revoked THEN {"cancelled"} ELSE {}) :
                 result' = [result EXCEPT ![r] = e]
           /\ read' = read
  <2>1. PICK e \in {"failed", "cancelled"} : result' = [result EXCEPT ![r] = e]
    BY <1>4
  <2>2. read' = [read EXCEPT ![r] = read[r]]
    BY <1>2, <1>4
  <2>3. e \in Outcomes /\ e # "ok" /\ "loaded" \in Stages
    BY DEF Outcomes, Stages
  <2> QED BY <1>1, <1>2, <2>1, <2>2, <2>3, LoadGoesOn
<1> QED BY <1>3, <1>4 DEF EndLoad

\* The publication of a load is queued once; refused, the load fails and those
\* who wait for it are told.
LEMMA PublicationKeeps ==
  ASSUME FreshInv, NEW r \in Requests, SubmitPublication(r) PROVE FreshInv'
<1>1. /\ stage[r] = "loaded"
      /\ UNCHANGED <<rec, source, call, at, read, joined, lease, setting>>
  BY DEF SubmitPublication, recordVars
<1>2. /\ stage \in [Requests -> Stages] /\ result \in [Requests -> Outcomes]
      /\ attached \in [Requests -> Seq(Requests)] /\ queue \in Seq(Publications)
  BY DEF FreshInv, Typed
<1>3. None \notin Requests
  BY ManagerAssumption DEF ManagerAssumption
<1>4. setting # r
  BY <1>1, <1>3 DEF FreshInv, SettingSound
<1>5. CASE /\ queue' = Append(queue, [kind |-> "publish", of |-> r])
           /\ stage' = [stage EXCEPT ![r] = "queued"]
           /\ UNCHANGED <<result, attached, answer>>
  <2>1. /\ \A s \in Requests : stage'[s] = IF s = r THEN "queued" ELSE stage[s]
        /\ stage' \in [Requests -> Stages]
    BY <1>2, <1>5 DEF Stages
  <2>2. [kind |-> "publish", of |-> r] \in Publications
    BY DEF Publications
  <2>3. /\ queue' \in Seq(Publications) /\ Len(queue') = Len(queue) + 1 /\ Len(queue) \in Nat
        /\ \A i \in 1..Len(queue) : queue'[i] = queue[i]
        /\ queue'[Len(queue) + 1] = [kind |-> "publish", of |-> r]
    BY <1>2, <1>5, <2>2, AppendProperties, LenProperties
  <2>4. Typed'
    BY <1>1, <1>5, <2>1, <2>3 DEF FreshInv, Typed
  <2>5. RecordsSound'
    BY <1>1 DEF FreshInv, RecordsSound
  <2>6. CallsSound'
    BY <1>1, <1>5, <2>1 DEF FreshInv, CallsSound
  <2>7. LoadsSound'
    BY <1>1, <1>5, <2>1 DEF FreshInv, LoadsSound
  <2>8. WaitersSound'
    <3> SUFFICES ASSUME NEW s \in Requests PROVE WaiterSound(s)'
      BY DEF WaitersSound
    <3> QED BY <1>1, <1>5, <2>1, WaiterStays
  <2>9. AttachedSound'
    BY <1>1, <1>5 DEF FreshInv, AttachedSound
  <2>10. QueueSound'
    <3>1. \A i \in 1..Len(queue) :
             /\ queue[i].of \in Requests
             /\ queue[i].kind = "publish" => stage[queue[i].of] = "queued" /\ queue[i].of # r
      BY <1>1, QueueTyped DEF FreshInv, QueueSound
    <3>2. ASSUME NEW i \in 1..Len(queue'), queue'[i].kind = "publish"
          PROVE  /\ stage'[queue'[i].of] = "queued" /\ setting' # queue'[i].of
                 /\ \A j \in 1..Len(queue') :
                       queue'[j].kind = "publish" /\ queue'[j].of = queue'[i].of => i = j
      <4>1. CASE i = Len(queue) + 1
        <5>1. queue'[i].of = r
          BY <2>3, <4>1
        <5> QED BY <1>1, <1>4, <2>1, <2>3, <3>1, <4>1, <5>1
      <4>2. CASE i # Len(queue) + 1
        <5>1. i \in 1..Len(queue) /\ queue'[i] = queue[i]
          BY <2>3, <4>2
        <5>2. /\ stage[queue[i].of] = "queued" /\ setting # queue[i].of
              /\ \A j \in 1..Len(queue) :
                    queue[j].kind = "publish" /\ queue[j].of = queue[i].of => i = j
          BY <3>2, <5>1 DEF FreshInv, QueueSound
        <5>3. queue[i].kind = "publish" /\ queue[i].of # r /\ queue[i].of \in Requests
          BY <3>1, <3>2, <5>1
        <5>4. stage'[queue'[i].of] = "queued" /\ setting' # queue'[i].of
          BY <1>1, <2>1, <5>1, <5>2, <5>3
        <5>5. ASSUME NEW j \in 1..Len(queue'), queue'[j].kind = "publish",
                     queue'[j].of = queue'[i].of
              PROVE  i = j
          <6>1. CASE j = Len(queue) + 1
            <7>1. queue'[j].of = r
              BY <2>3, <6>1
            <7> QED BY <5>1, <5>3, <5>5, <7>1
          <6>2. CASE j # Len(queue) + 1
            <7>1. j \in 1..Len(queue) /\ queue'[j] = queue[j]
              BY <2>3, <6>2
            <7> QED BY <5>1, <5>2, <5>5, <7>1
          <6> QED BY <6>1, <6>2
        <5> QED BY <5>4, <5>5
      <4> QED BY <4>1, <4>2
    <3>3. ASSUME NEW i \in 1..Len(queue'), queue'[i].kind = "answer"
          PROVE  /\ at'[queue'[i].of] = "returned"
                 /\ joined'[queue'[i].of] = None \/ stage'[joined'[queue'[i].of]] = "settled"
      <4>1. i \in 1..Len(queue) /\ queue'[i] = queue[i]
        BY <2>3, <3>3
      <4>2. PICK s \in Requests : s = queue[i].of
        BY <3>1, <4>1
      <4>3. at[s] = "returned" /\ (joined[s] = None \/ stage[joined[s]] = "settled")
        BY <3>3, <4>1, <4>2 DEF FreshInv, QueueSound
      <4>4. joined[s] \in Requests \cup {None}
        BY DEF FreshInv, Typed
      <4> QED BY <1>1, <2>1, <4>1, <4>2, <4>3, <4>4
    <3> QED BY <3>2, <3>3 DEF QueueSound
  <2>11. SettingSound'
    BY <1>1, <2>1 DEF FreshInv, SettingSound, Typed
  <2> QED BY <2>4, <2>5, <2>6, <2>7, <2>8, <2>9, <2>10, <2>11 DEF FreshInv
<1>6. CASE /\ stage' = [stage EXCEPT ![r] = "settled"]
           /\ result' = [result EXCEPT ![r] = "failed"]
           /\ attached' = [attached EXCEPT ![r] = <<>>]
           /\ SubmitAnswers(attached[r])
  <2>1. /\ \A s \in Requests : stage'[s] = IF s = r THEN "settled" ELSE stage[s]
        /\ \A s \in Requests : result'[s] = IF s = r THEN "failed" ELSE result[s]
        /\ \A s \in Requests : attached'[s] = IF s = r THEN <<>> ELSE attached[s]
        /\ stage' \in [Requests -> Stages] /\ result' \in [Requests -> Outcomes]
        /\ attached' \in [Requests -> Seq(Requests)]
    BY <1>2, <1>6, EmptySeq DEF Stages, Outcomes
  <2>2. PICK rs \in Seq(Requests) : rs = attached[r]
    BY <1>2
  <2>3. \A s \in Range(rs) : s \in Requests /\ joined[s] = r
    BY <2>2, LenProperties, ElementOfSeq DEF Range, FreshInv, AttachedSound
  <2>4. /\ Grows(queue, queue', Range(rs)) /\ answer' \in [Requests -> Outcomes]
        /\ \A s \in Requests : answer'[s] = answer[s] \/ (s \in Range(rs) /\ answer'[s] = "failed")
    BY <1>6, <2>2, Submitted DEF FreshInv
  <2>5. \A s \in Range(rs) : at[s] = "returned"
    BY <1>3, <2>3 DEF FreshInv, CallsSound
  <2>6. Typed'
    BY <1>1, <2>1, <2>4 DEF FreshInv, Typed, Grows
  <2>7. RecordsSound'
    BY <1>1 DEF FreshInv, RecordsSound
  <2>8. CallsSound'
    BY <1>1, <2>1, <2>4, <2>5 DEF FreshInv, CallsSound
  <2>9. LoadsSound'
    BY <1>1, <2>1 DEF FreshInv, LoadsSound
  <2>10. WaitersSound'
    <3> SUFFICES ASSUME NEW s \in Requests PROVE WaiterSound(s)'
      BY DEF WaitersSound
    <3>1. answer'[s] = answer[s] \/ answer'[s] # "ok"
      BY <2>4
    <3> QED BY <1>1, <2>1, <3>1, WaiterStays
  <2>11. AttachedSound'
    <3>1. Len(<<>>) = 0
      OBVIOUS
    <3> SUFFICES ASSUME NEW l \in Requests, NEW i \in 1..Len(attached'[l])
                 PROVE  joined'[attached'[l][i]] = l
      BY DEF AttachedSound
    <3>2. l # r
      <4>1. CASE l = r
        <5>1. Len(attached'[l]) = 0
          BY <2>1, <3>1, <4>1
        <5> QED BY <5>1
      <4> QED BY <4>1
    <3>3. attached'[l] = attached[l]
      BY <2>1, <3>2
    <3> QED BY <1>1, <3>3 DEF FreshInv, AttachedSound
  <2>12. QueueSound'
    <3>1. \A s \in Range(rs) : at'[s] = "returned" /\ stage'[joined'[s]] = "settled"
      BY <1>1, <2>1, <2>3, <2>5
    <3>2. /\ \A s \in Requests : stage[s] = "settled" => stage'[s] = "settled"
          /\ \A s \in Requests : stage[s] = "queued" => stage'[s] = "queued"
          /\ \A s \in Requests : at'[s] = at[s] /\ joined'[s] = joined[s]
      BY <1>1, <2>1
    <3>3. Typed /\ QueueSound /\ Grows(queue, queue', Range(rs)) /\ setting' = setting
      BY <1>1, <2>4 DEF FreshInv
    <3> QED BY <3>1, <3>2, <3>3, QueueKept
  <2>13. SettingSound'
    BY <1>1, <1>4, <2>1 DEF FreshInv, SettingSound, Typed
  <2> QED BY <2>6, <2>7, <2>8, <2>9, <2>10, <2>11, <2>12, <2>13 DEF FreshInv
<1> QED BY <1>5, <1>6 DEF SubmitPublication

\* The owner publishes the oldest publication: a product replaces the current
\* generation only when it was read at the current revision.
LEMMA PublishKeeps == FreshInv /\ Publish => FreshInv'
<1> SUFFICES ASSUME FreshInv, Publish PROVE FreshInv'
  OBVIOUS
<1>1. queue \in Seq(Publications) /\ queue # <<>> /\ queue' = Tail(queue)
  BY DEF Publish, FreshInv, Typed
<1>2. PICK n \in Nat : n = Len(queue)
  BY <1>1, LenProperties
<1>3. /\ Tail(queue) \in Seq(Publications) /\ Len(Tail(queue)) = n - 1 /\ n # 0
      /\ \A i \in 1..n - 1 : Tail(queue)[i] = queue[i + 1]
      /\ Head(queue) = queue[1] /\ 1 \in 1..n
  BY <1>1, <1>2, HeadTailProperties, EmptySeq
<1>4. PICK r \in Requests : r = Head(queue).of
  BY <1>2, <1>3, QueueTyped DEF FreshInv
<1>5. /\ Idle(Owner) /\ queue[1].kind = "publish" /\ queue[1].of = r /\ setting' = r
      /\ UNCHANGED <<joined, attached, lease, answer, source, call, at, stage>>
  BY <1>3, <1>4 DEF Publish, futureVars
<1>6. setting = None
  BY <1>5 DEF Idle
<1>7. stage[r] = "queued" /\ \A j \in 1..n : queue[j].kind = "publish" /\ queue[j].of = r => j = 1
  BY <1>2, <1>3, <1>5 DEF FreshInv, QueueSound
<1>8. PICK a \in Assets : a = call[r].asset
  BY <1>7 DEF FreshInv, CallsSound, Typed, Places
<1>9. /\ rec \in [Assets -> Records] /\ read \in [Requests -> Generations]
      /\ result \in [Requests -> Outcomes]
  BY DEF FreshInv, Typed
\* What it comes to: the same product with a number, published or not.
<1>10. PICK e \in Outcomes, g \in Generations, new \in Records :
          /\ result' = [result EXCEPT ![r] = e] /\ read' = [read EXCEPT ![r] = g]
          /\ rec' = [rec EXCEPT ![a] = new]
          /\ e = "ok" => result[r] = "ok"
          /\ g.stamp = read[r].stamp /\ new.revision = rec[a].revision
          /\ new.in_flight # None => new.in_flight = rec[a].in_flight
          /\ \/ new = rec[a] \/ new.state # "Ready"
             \/ /\ result[r] = "ok" /\ rec[a].revision = call[r].revision
                /\ new.current.stamp = read[r].stamp
  <2>1. CASE Stale(r)
    <3>1. result' = [result EXCEPT ![r] = "cancelled"] /\ UNCHANGED <<rec, read>>
      BY <1>4, <2>1 DEF Publish
    <3>2. rec' = [rec EXCEPT ![a] = rec[a]] /\ read' = [read EXCEPT ![r] = read[r]]
      BY <1>9, <3>1
    <3>3. "cancelled" \in Outcomes /\ rec[a] \in Records /\ read[r] \in Generations
      BY <1>9 DEF Outcomes
    <3> QED BY <3>1, <3>2, <3>3
  <2>2. CASE ~Stale(r) /\ result[r] = "ok" /\ Bytes(r) <= MaxBytes
    <3>0. PICK k \in Nat : k = rec[a].generation + 1
      BY <1>9 DEF Records
    <3>1. PICK g \in Generations : g = [read[r] EXCEPT !.number = rec[a].generation + 1]
      <4>1. [read[r] EXCEPT !.number = k] \in Generations
        BY <1>9 DEF Generations
      <4> QED BY <3>0, <4>1
    <3>2. g.stamp = read[r].stamp
      BY <1>9, <3>1 DEF Generations
    <3>3. PICK new \in Records :
             new = [rec[a] EXCEPT !.in_flight = None, !.waiters = {}, !.prefetch = FALSE,
                                  !.generation = @ + 1, !.current = g, !.state = "Ready"]
      <4>1. [rec[a] EXCEPT !.in_flight = None, !.waiters = {}, !.prefetch = FALSE,
                           !.generation = k, !.current = g, !.state = "Ready"] \in Records
        BY <1>9 DEF Records, States
      <4> QED BY <3>0, <4>1
    <3>4. new.revision = rec[a].revision /\ new.in_flight = None /\ new.current = g
      BY <1>9, <3>3 DEF Records
    <3>5. /\ rec' = [rec EXCEPT ![a] = [Published(a) EXCEPT !.generation = @ + 1,
                                           !.current = g, !.state = "Ready"]]
          /\ read' = [read EXCEPT ![r] = g] /\ result' = result
      BY <1>4, <1>8, <2>2, <3>1 DEF Publish
    <3>6. rec' = [rec EXCEPT ![a] = new]
      BY <1>9, <3>3, <3>5 DEF Published, Records
    <3>7. result' = [result EXCEPT ![r] = result[r]] /\ result[r] \in Outcomes
      BY <1>9, <3>5
    <3>8. rec[a].revision = call[r].revision
      BY <1>8, <2>2 DEF Stale
    <3> QED BY <2>2, <3>2, <3>4, <3>5, <3>6, <3>7, <3>8
  <2>3. CASE ~Stale(r) /\ ~(result[r] = "ok" /\ Bytes(r) <= MaxBytes)
    <3>1. PICK new \in Records :
             new = [rec[a] EXCEPT !.in_flight = None, !.waiters = {}, !.prefetch = FALSE,
                                  !.state = "Failed"]
      BY <1>9 DEF Records, States
    <3>2. new.revision = rec[a].revision /\ new.in_flight = None /\ new.state = "Failed"
      BY <1>9, <3>1 DEF Records
    <3>3. /\ rec' = [rec EXCEPT ![a] = FailedRecord(a)] /\ UNCHANGED read
          /\ result' = [result EXCEPT ![r] = IF @ = "ok" THEN "failed" ELSE @]
      BY <1>4, <1>8, <2>3 DEF Publish
    <3>4. rec' = [rec EXCEPT ![a] = new]
      BY <1>9, <3>1, <3>3 DEF FailedRecord, Published, Records
    <3>5. PICK e \in Outcomes : e = IF result[r] = "ok" THEN "failed" ELSE result[r]
      BY <1>9 DEF Outcomes
    <3>6. result' = [result EXCEPT ![r] = e] /\ e # "ok"
      BY <1>9, <3>3, <3>5
    <3>7. read' = [read EXCEPT ![r] = read[r]] /\ read[r] \in Generations
      BY <1>9, <3>3
    <3> QED BY <3>2, <3>4, <3>6, <3>7
  <2> QED BY <2>1, <2>2, <2>3
<1>11. /\ \A s \in Requests : result'[s] = IF s = r THEN e ELSE result[s]
       /\ \A s \in Requests : read'[s] = IF s = r THEN g ELSE read[s]
       /\ \A b \in Assets : rec'[b] = IF b = a THEN new ELSE rec[b]
       /\ rec' \in [Assets -> Records] /\ read' \in [Requests -> Generations]
       /\ result' \in [Requests -> Outcomes]
  BY <1>9, <1>10
<1>12. Typed'
  BY <1>1, <1>3, <1>5, <1>11 DEF FreshInv, Typed
<1>13. RecordsSound'
  <2> SUFFICES ASSUME NEW b \in Assets
        PROVE  /\ rec'[b].revision = source[b]
               /\ rec'[b].state = "Ready" => rec'[b].current.stamp >= source[b]
               /\ rec'[b].in_flight # None =>
                     /\ at[rec'[b].in_flight] = "returned"
                     /\ call[rec'[b].in_flight].born = source[b]
    BY <1>5 DEF RecordsSound
  <2>1. /\ rec[b].revision = source[b]
        /\ rec[b].state = "Ready" => rec[b].current.stamp >= source[b]
        /\ rec[b].in_flight # None =>
              at[rec[b].in_flight] = "returned" /\ call[rec[b].in_flight].born = source[b]
    BY DEF FreshInv, RecordsSound
  <2>2. CASE b # a
    BY <1>11, <2>1, <2>2
  <2>3. CASE b = a
    <3>1. result[r] = "ok" => read[r].stamp >= call[r].born
      BY DEF FreshInv, LoadsSound
    <3>2. call[r].revision = call[r].born
      BY DEF FreshInv, CallsSound
    <3>3. rec'[b] = new
      BY <1>11, <2>3
    <3>4. new.state = "Ready" => new.current.stamp >= source[b]
      BY <1>10, <2>1, <2>3, <3>1, <3>2
    <3> QED BY <1>10, <2>1, <2>3, <3>3, <3>4
  <2> QED BY <2>2, <2>3
<1>14. CallsSound'
  BY <1>5 DEF FreshInv, CallsSound
<1>15. LoadsSound'
  BY <1>5, <1>7, <1>10, <1>11 DEF FreshInv, LoadsSound
<1>16. WaitersSound'
  <2> SUFFICES ASSUME NEW s \in Requests PROVE WaiterSound(s)'
    BY DEF WaitersSound
  <2> QED BY <1>5, <1>7, <1>11, WaiterStays
<1>17. AttachedSound'
  BY <1>5 DEF FreshInv, AttachedSound
<1>18. QueueSound'
  <2>1. \A i \in 1..Len(queue') : i + 1 \in 1..n /\ queue'[i] = queue[i + 1] /\ i + 1 # 1
    BY <1>1, <1>2, <1>3
  <2>2. ASSUME NEW i \in 1..Len(queue')
        PROVE  /\ queue'[i].kind = "publish" =>
                     /\ stage[queue'[i].of] = "queued" /\ r # queue'[i].of
                     /\ \A j \in 1..Len(queue') :
                           queue'[j].kind = "publish" /\ queue'[j].of = queue'[i].of => i = j
               /\ queue'[i].kind = "answer" =>
                     /\ at[queue'[i].of] = "returned"
                     /\ joined[queue'[i].of] = None \/ stage[joined[queue'[i].of]] = "settled"
    <3>1. PICK k \in 1..n : k = i + 1
      BY <2>1
    <3>2. /\ queue[k].kind = "publish" =>
                /\ stage[queue[k].of] = "queued"
                /\ \A j \in 1..n :
                      queue[j].kind = "publish" /\ queue[j].of = queue[k].of => k = j
          /\ queue[k].kind = "answer" =>
                /\ at[queue[k].of] = "returned"
                /\ joined[queue[k].of] = None \/ stage[joined[queue[k].of]] = "settled"
      BY <1>2 DEF FreshInv, QueueSound
    <3>3. queue[k].kind = "publish" => queue[k].of # r
      BY <1>7, <2>1, <3>1
    <3>4. queue'[i] = queue[k]
      BY <2>1, <3>1
    <3>5. ASSUME queue[k].kind = "publish", NEW j \in 1..Len(queue'),
                 queue'[j].kind = "publish", queue'[j].of = queue[k].of
          PROVE  i = j
      <4>1. j + 1 \in 1..n /\ queue'[j] = queue[j + 1]
        BY <2>1
      <4>2. k = j + 1
        BY <3>2, <3>5, <4>1
      <4> QED BY <3>1, <4>2
    <3> QED BY <3>2, <3>3, <3>4, <3>5
  <2> QED BY <1>5, <2>2 DEF QueueSound
<1>19. SettingSound'
  BY <1>5, <1>7 DEF SettingSound
<1> QED BY <1>12, <1>13, <1>14, <1>15, <1>16, <1>17, <1>18, <1>19 DEF FreshInv

\* The owner sets the published future: those who wait for it get what was read.
LEMMA SettleKeeps == FreshInv /\ Settle => FreshInv'
<1> SUFFICES ASSUME FreshInv, Settle PROVE FreshInv'
  OBVIOUS
<1>1. PICK l \in Requests : l = setting
  BY DEF Settle, FreshInv, Typed
<1>2. PICK rs \in Seq(Requests) : rs = attached[l]
  BY DEF FreshInv, Typed
<1>3. /\ stage' = [stage EXCEPT ![l] = "settled"] /\ attached' = [attached EXCEPT ![l] = <<>>]
      /\ SubmitAnswers(rs) /\ setting' = None
      /\ lease' = [q \in Requests |-> IF q \in Range(rs) THEN read[l] ELSE lease[q]]
      /\ UNCHANGED <<rec, source, call, at, result, read, joined>>
  BY <1>1, <1>2 DEF Settle, Continuations, recordVars
<1>4. None \notin Requests
  BY ManagerAssumption DEF ManagerAssumption
<1>5. stage[l] = "queued"
  BY <1>1, <1>4 DEF FreshInv, SettingSound
<1>6. \A s \in Range(rs) : s \in Requests /\ joined[s] = l
  BY <1>2, LenProperties, ElementOfSeq DEF Range, FreshInv, AttachedSound
<1>7. \A s \in Range(rs) : at[s] = "returned"
  BY <1>4, <1>6 DEF FreshInv, CallsSound
<1>8. /\ \A s \in Requests : stage'[s] = IF s = l THEN "settled" ELSE stage[s]
      /\ \A s \in Requests : attached'[s] = IF s = l THEN <<>> ELSE attached[s]
      /\ \A s \in Requests : lease'[s] = IF s \in Range(rs) THEN read[l] ELSE lease[s]
      /\ stage' \in [Requests -> Stages] /\ attached' \in [Requests -> Seq(Requests)]
      /\ lease' \in [Requests -> Generations]
  BY <1>3, EmptySeq DEF FreshInv, Typed, Stages
<1>9. /\ Grows(queue, queue', Range(rs)) /\ answer' \in [Requests -> Outcomes]
      /\ \A s \in Requests : answer'[s] = answer[s] \/ (s \in Range(rs) /\ answer'[s] = "failed")
  BY <1>3, Submitted DEF FreshInv
<1>10. Typed'
  BY <1>3, <1>8, <1>9 DEF FreshInv, Typed, Grows
<1>11. RecordsSound'
  BY <1>3 DEF FreshInv, RecordsSound
<1>12. CallsSound'
  BY <1>3, <1>5, <1>7, <1>8, <1>9 DEF FreshInv, CallsSound
<1>13. LoadsSound'
  BY <1>3, <1>8 DEF FreshInv, LoadsSound
<1>14. WaitersSound'
  <2> SUFFICES ASSUME NEW s \in Requests PROVE WaiterSound(s)'
    BY DEF WaitersSound
  <2>0. answer'[s] = answer[s] \/ answer'[s] # "ok"
    BY <1>9
  <2>1. CASE s \in Range(rs)
    <3>1. joined[s] = l /\ lease'[s] = read[l] /\ stage'[l] = "settled"
      BY <1>6, <1>8, <2>1
    <3>2. /\ at[l] # "new" /\ call[l].born = call[s].born
          /\ answer[s] = "ok" => stage[l] = "settled" /\ result[l] = "ok"
      BY <1>4, <3>1 DEF FreshInv, WaitersSound, WaiterSound
    <3> QED BY <1>3, <1>4, <2>0, <3>1, <3>2 DEF WaiterSound
  <2>2. CASE s \notin Range(rs)
    <3>1. lease'[s] = lease[s]
      BY <1>8, <2>2
    <3> QED BY <1>3, <1>8, <2>0, <3>1, WaiterStays
  <2> QED BY <2>1, <2>2
<1>15. AttachedSound'
  <2>1. Len(<<>>) = 0
    OBVIOUS
  <2> SUFFICES ASSUME NEW k \in Requests, NEW i \in 1..Len(attached'[k])
               PROVE  joined'[attached'[k][i]] = k
    BY DEF AttachedSound
  <2>2. k # l
    <3>1. CASE k = l
      <4>1. Len(attached'[k]) = 0
        BY <1>8, <2>1, <3>1
      <4> QED BY <4>1
    <3> QED BY <3>1
  <2>3. attached'[k] = attached[k]
    BY <1>8, <2>2
  <2> QED BY <1>3, <2>3 DEF FreshInv, AttachedSound
<1>16. QueueSound'
  <2>1. \A s \in Range(rs) : at'[s] = "returned" /\ stage'[joined'[s]] = "settled"
    BY <1>3, <1>6, <1>7, <1>8
  <2>2. /\ \A s \in Requests : stage[s] = "settled" => stage'[s] = "settled"
        /\ \A s \in Requests : stage[s] = "queued" /\ s # setting => stage'[s] = "queued"
        /\ \A s \in Requests : at'[s] = at[s] /\ joined'[s] = joined[s]
    BY <1>1, <1>3, <1>8
  <2>3. Typed /\ QueueSound /\ Grows(queue, queue', Range(rs)) /\ setting' \in {setting, None}
    BY <1>3, <1>9 DEF FreshInv
  <2> QED BY <2>1, <2>2, <2>3, QueueKept
<1>17. SettingSound'
  BY <1>3 DEF SettingSound
<1> QED BY <1>10, <1>11, <1>12, <1>13, <1>14, <1>15, <1>16, <1>17 DEF FreshInv

\* The owner answers a waiter with what its load came to.
LEMMA AnswerKeeps == FreshInv /\ Answer => FreshInv'
<1> SUFFICES ASSUME FreshInv, Answer PROVE FreshInv'
  OBVIOUS
<1>1. queue \in Seq(Publications) /\ queue # <<>> /\ queue' = Tail(queue)
  BY DEF Answer, FreshInv, Typed
<1>2. PICK n \in Nat : n = Len(queue)
  BY <1>1, LenProperties
<1>3. /\ Tail(queue) \in Seq(Publications) /\ Len(Tail(queue)) = n - 1 /\ n # 0
      /\ \A i \in 1..n - 1 : Tail(queue)[i] = queue[i + 1]
      /\ Head(queue) = queue[1] /\ 1 \in 1..n
  BY <1>1, <1>2, HeadTailProperties, EmptySeq
<1>4. PICK r \in Requests : r = Head(queue).of
  BY <1>2, <1>3, QueueTyped DEF FreshInv
<1>5. /\ queue[1].kind = "answer" /\ queue[1].of = r
      /\ answer' = [answer EXCEPT ![r] = IF r \in cancelled THEN "cancelled"
                        ELSE IF joined[r] = None THEN "ok" ELSE result[joined[r]]]
      /\ UNCHANGED <<rec, source, stage, result, read, call, at, joined, attached, lease, setting>>
  BY <1>3, <1>4 DEF Answer, recordVars, loadVars
<1>6. at[r] = "returned" /\ (joined[r] = None \/ stage[joined[r]] = "settled")
  BY <1>2, <1>3, <1>5 DEF FreshInv, QueueSound
<1>7. joined[r] \in Requests \cup {None}
  BY DEF FreshInv, Typed
<1>8. PICK e \in Outcomes : /\ answer' = [answer EXCEPT ![r] = e]
                            /\ e = "ok" => joined[r] = None \/ result[joined[r]] = "ok"
  BY <1>5, <1>7 DEF FreshInv, Typed, Outcomes
<1>9. /\ \A s \in Requests : answer'[s] = IF s = r THEN e ELSE answer[s]
      /\ answer' \in [Requests -> Outcomes]
  BY <1>8 DEF FreshInv, Typed
<1>10. Typed'
  BY <1>1, <1>3, <1>5, <1>9 DEF FreshInv, Typed
<1>11. RecordsSound'
  BY <1>5 DEF FreshInv, RecordsSound
<1>12. CallsSound'
  BY <1>5, <1>6, <1>9 DEF FreshInv, CallsSound
<1>13. LoadsSound'
  BY <1>5 DEF FreshInv, LoadsSound
<1>14. WaitersSound'
  <2> SUFFICES ASSUME NEW s \in Requests PROVE WaiterSound(s)'
    BY DEF WaitersSound
  <2>1. CASE s = r
    <3>1. WaiterSound(r)
      BY DEF FreshInv, WaitersSound
    <3> QED BY <1>5, <1>6, <1>8, <1>9, <2>1, <3>1 DEF WaiterSound
  <2>2. CASE s # r
    BY <1>5, <1>9, <2>2, WaiterStays
  <2> QED BY <2>1, <2>2
<1>15. AttachedSound'
  BY <1>5 DEF FreshInv, AttachedSound
<1>16. QueueSound'
  <2>1. \A i \in 1..Len(queue') : i + 1 \in 1..n /\ queue'[i] = queue[i + 1]
    BY <1>1, <1>2, <1>3
  <2>2. ASSUME NEW i \in 1..Len(queue')
        PROVE  /\ queue'[i].kind = "publish" =>
                     /\ stage[queue'[i].of] = "queued" /\ setting # queue'[i].of
                     /\ \A j \in 1..Len(queue') :
                           queue'[j].kind = "publish" /\ queue'[j].of = queue'[i].of => i = j
               /\ queue'[i].kind = "answer" =>
                     /\ at[queue'[i].of] = "returned"
                     /\ joined[queue'[i].of] = None \/ stage[joined[queue'[i].of]] = "settled"
    <3>1. PICK k \in 1..n : k = i + 1
      BY <2>1
    <3>2. /\ queue[k].kind = "publish" =>
                /\ stage[queue[k].of] = "queued" /\ setting # queue[k].of
                /\ \A j \in 1..n :
                      queue[j].kind = "publish" /\ queue[j].of = queue[k].of => k = j
          /\ queue[k].kind = "answer" =>
                /\ at[queue[k].of] = "returned"
                /\ joined[queue[k].of] = None \/ stage[joined[queue[k].of]] = "settled"
      BY <1>2 DEF FreshInv, QueueSound
    <3>3. queue'[i] = queue[k]
      BY <2>1, <3>1
    <3>4. ASSUME queue[k].kind = "publish", NEW j \in 1..Len(queue'),
                 queue'[j].kind = "publish", queue'[j].of = queue[k].of
          PROVE  i = j
      <4>1. j + 1 \in 1..n /\ queue'[j] = queue[j + 1]
        BY <2>1
      <4>2. k = j + 1
        BY <3>2, <3>4, <4>1
      <4> QED BY <3>1, <4>2
    <3> QED BY <3>2, <3>3, <3>4
  <2> QED BY <1>5, <2>2 DEF QueueSound
<1>17. SettingSound'
  BY <1>5 DEF FreshInv, SettingSound
<1> QED BY <1>10, <1>11, <1>12, <1>13, <1>14, <1>15, <1>16, <1>17 DEF FreshInv

LEMMA FreshValues ==
  NoGeneration \in Generations /\ FreshRecord \in Records /\ MaxSource \in Nat
<1>1. MaxSource \in Nat /\ 0 \in 0..MaxSource
  BY ManagerAssumption DEF ManagerAssumption
<1>2. NoGeneration \in Generations
  BY <1>1 DEF NoGeneration, Generations
<1> QED BY <1>1, <1>2 DEF FreshRecord, Records, States

LEMMA CancelKeeps == ASSUME FreshInv, NEW r \in Requests, Cancel(r) PROVE FreshInv'
<1>1. UNCHANGED <<rec, source, stage, result, read, joined, attached, lease, answer, queue,
                  setting, call, at>>
  BY DEF Cancel, recordVars, loadVars, futureVars, pumpVars
<1> QED BY <1>1 DEF FreshInv, Typed, RecordsSound, CallsSound, LoadsSound, WaitersSound,
                    WaiterSound, AttachedSound, QueueSound, SettingSound

LEMMA DropKeeps == ASSUME FreshInv, NEW r \in Requests, Drop(r) PROVE FreshInv'
<1>1. /\ answer[r] # "none" /\ lease' = [lease EXCEPT ![r] = NoGeneration]
      /\ UNCHANGED <<rec, source, stage, result, read, joined, attached, answer, queue,
                     setting, call, at>>
  BY DEF Drop, recordVars, loadVars, pumpVars
<1>2. NoGeneration \in Generations
  BY FreshValues
<1>3. /\ \A s \in Requests : lease'[s] = IF s = r THEN NoGeneration ELSE lease[s]
      /\ lease' \in [Requests -> Generations]
  BY <1>1, <1>2 DEF FreshInv, Typed
<1>4. Typed'
  BY <1>1, <1>3 DEF FreshInv, Typed
<1>5. CallsSound'
  BY <1>1, <1>3 DEF FreshInv, CallsSound
<1>6. WaitersSound'
  <2> SUFFICES ASSUME NEW s \in Requests PROVE WaiterSound(s)'
    BY DEF WaitersSound
  <2> QED BY <1>1, <1>3, WaiterStays
<1>7. RecordsSound' /\ LoadsSound' /\ AttachedSound' /\ SettingSound'
  BY <1>1 DEF FreshInv, RecordsSound, LoadsSound, AttachedSound, SettingSound
<1>8. QueueSound'
  BY <1>1 DEF FreshInv, QueueSound
<1> QED BY <1>4, <1>5, <1>6, <1>7, <1>8 DEF FreshInv

\* An invalidation advances the revision with the source, and lets go of the
\* load in flight and of what said Ready.
LEMMA InvalidateKeeps ==
  ASSUME FreshInv, NEW t \in Threads, NEW a \in Assets, Invalidate(t, a) PROVE FreshInv'
<1>1. /\ source[a] < MaxSource /\ source' = [source EXCEPT ![a] = @ + 1]
      /\ rec' = [rec EXCEPT ![a] = Invalidated(a)]
      /\ UNCHANGED <<stage, result, read, joined, attached, lease, answer, queue,
                     setting, call, at>>
  BY DEF Invalidate, futureVars, pumpVars
<1>2. /\ rec \in [Assets -> Records] /\ source \in [Assets -> 0..MaxSource]
      /\ rec[a].revision = source[a] /\ MaxSource \in Nat
  BY ManagerAssumption DEF FreshInv, Typed, RecordsSound, ManagerAssumption
<1>3. PICK k \in 0..MaxSource : k = source[a] + 1
  BY <1>1, <1>2
<1>4. PICK new \in Records :
         new = [rec[a] EXCEPT !.revision = k, !.in_flight = None, !.state = "Unloaded"]
  BY <1>2 DEF Records, States
<1>5. new.revision = k /\ new.in_flight = None /\ new.state = "Unloaded"
  BY <1>2, <1>4 DEF Records
<1>6. /\ rec' \in [Assets -> Records] /\ source' \in [Assets -> 0..MaxSource]
      /\ \A b \in Assets : rec'[b] = IF b = a THEN new ELSE rec[b]
      /\ \A b \in Assets : source'[b] = IF b = a THEN k ELSE source[b]
  <2>1. Invalidated(a) = new
    BY <1>2, <1>3, <1>4 DEF Invalidated, Records
  <2>2. rec' = [rec EXCEPT ![a] = new] /\ source' = [source EXCEPT ![a] = k]
    BY <1>1, <1>2, <1>3, <2>1
  <2> QED BY <1>2, <2>2
<1>7. Typed'
  BY <1>1, <1>6 DEF FreshInv, Typed
<1>8. RecordsSound'
  <2> SUFFICES ASSUME NEW b \in Assets
        PROVE  /\ rec'[b].revision = source'[b]
               /\ rec'[b].state = "Ready" => rec'[b].current.stamp >= source'[b]
               /\ rec'[b].in_flight # None =>
                     /\ at[rec'[b].in_flight] = "returned"
                     /\ call[rec'[b].in_flight].born = source'[b]
    BY <1>1 DEF RecordsSound
  <2>1. CASE b = a
    BY <1>5, <1>6, <2>1
  <2>2. CASE b # a
    BY <1>6, <2>2 DEF FreshInv, RecordsSound
  <2> QED BY <2>1, <2>2
<1>9. CallsSound'
  <2> SUFFICES ASSUME NEW r \in Requests
        PROVE  /\ call[r].revision = call[r].born
               /\ at[r] # "new" => /\ call[r].asset \in Assets
                                   /\ call[r].born <= source'[call[r].asset]
               /\ at[r] \in {"new", "schedule", "refused"} => stage[r] = "none"
               /\ at[r] # "returned" =>
                     answer[r] = "none" /\ lease[r] = NoGeneration /\ joined[r] = None
    BY <1>1 DEF CallsSound
  <2>1. /\ call[r].revision = call[r].born
        /\ at[r] # "new" => /\ call[r].asset \in Assets
                            /\ call[r].born <= source[call[r].asset]
        /\ at[r] \in {"new", "schedule", "refused"} => stage[r] = "none"
        /\ at[r] # "returned" =>
              answer[r] = "none" /\ lease[r] = NoGeneration /\ joined[r] = None
    BY DEF FreshInv, CallsSound
  <2>2. call[r].born \in 0..MaxSource
    BY DEF FreshInv, Typed, CallFacts
  <2>3. \A b \in Assets : source[b] <= source'[b] /\ source[b] \in Nat /\ source'[b] \in Nat
    BY <1>2, <1>3, <1>6
  <2> QED BY <2>1, <2>2, <2>3
<1>10. WaitersSound'
  <2> SUFFICES ASSUME NEW s \in Requests PROVE WaiterSound(s)'
    BY DEF WaitersSound
  <2> QED BY <1>1, WaiterStays
<1>11. LoadsSound' /\ AttachedSound' /\ SettingSound'
  BY <1>1 DEF FreshInv, LoadsSound, AttachedSound, SettingSound
<1>12. QueueSound'
  BY <1>1 DEF FreshInv, QueueSound
<1> QED BY <1>7, <1>8, <1>9, <1>10, <1>11, <1>12 DEF FreshInv

\* Releasing and erasing records leave no record Ready, and a record that is
\* erased was never invalidated.
LEMMA ReleaseKeeps == ASSUME FreshInv, NEW t \in Threads, ReleaseUnused(t) PROVE FreshInv'
<1> PICK idle :
        idle = {a \in known : Resident(a) /\ ~Leased(a) /\ rec[a].in_flight = None}
  OBVIOUS
<1> PICK released :
        released = [a \in Assets |->
              IF a \in idle THEN [rec[a] EXCEPT !.current = NoGeneration, !.state = "Unloaded"]
              ELSE rec[a]]
  OBVIOUS
<1> PICK erased :
        erased = {a \in known : released[a].current = NoGeneration
                                /\ rec[a].in_flight = None /\ rec[a].revision = 0}
  OBVIOUS
<1>1. rec' = [a \in Assets |-> IF a \in erased THEN FreshRecord ELSE released[a]]
  BY DEF ReleaseUnused
<1>2. UNCHANGED <<source, stage, result, read, joined, attached, lease, answer, queue,
                  setting, call, at>>
  BY DEF ReleaseUnused, loadVars, futureVars, pumpVars
<1>3. NoGeneration \in Generations /\ FreshRecord \in Records /\ FreshRecord.revision = 0
      /\ FreshRecord.state = "Unloaded" /\ FreshRecord.in_flight = None
  BY FreshValues DEF FreshRecord
<1>4. ASSUME NEW a \in Assets
      PROVE  /\ rec'[a] \in Records /\ rec'[a].revision = rec[a].revision
             /\ rec'[a] = rec[a] \/ rec'[a].state = "Unloaded"
             /\ rec'[a].in_flight \in {rec[a].in_flight, None}
  <2>1. rec[a] \in Records
    BY DEF FreshInv, Typed
  <2>2. PICK new \in Records : new = [rec[a] EXCEPT !.current = NoGeneration, !.state = "Unloaded"]
    BY <1>3, <2>1 DEF Records, States
  <2>3. /\ new.revision = rec[a].revision /\ new.state = "Unloaded"
        /\ new.in_flight = rec[a].in_flight
    BY <2>1, <2>2 DEF Records
  <2>4. released[a] \in {new, rec[a]}
    BY <2>2
  <2>5. a \in erased => rec[a].revision = 0
    OBVIOUS
  <2>6. rec'[a] = IF a \in erased THEN FreshRecord ELSE released[a]
    BY <1>1
  <2> QED BY <1>3, <2>1, <2>3, <2>4, <2>5, <2>6
<1>5. rec' \in [Assets -> Records]
  BY <1>1, <1>4
<1>6. Typed'
  BY <1>2, <1>5 DEF FreshInv, Typed
<1>7. RecordsSound'
  <2> SUFFICES ASSUME NEW b \in Assets
        PROVE  /\ rec'[b].revision = source[b]
               /\ rec'[b].state = "Ready" => rec'[b].current.stamp >= source[b]
               /\ rec'[b].in_flight # None =>
                     /\ at[rec'[b].in_flight] = "returned"
                     /\ call[rec'[b].in_flight].born = source[b]
    BY <1>2 DEF RecordsSound
  <2>1. /\ rec[b].revision = source[b]
        /\ rec[b].state = "Ready" => rec[b].current.stamp >= source[b]
        /\ rec[b].in_flight # None =>
              at[rec[b].in_flight] = "returned" /\ call[rec[b].in_flight].born = source[b]
    BY DEF FreshInv, RecordsSound
  <2> QED BY <1>4, <2>1
<1>8. CallsSound' /\ LoadsSound' /\ AttachedSound' /\ SettingSound'
  BY <1>2 DEF FreshInv, CallsSound, LoadsSound, AttachedSound, SettingSound
<1>9. WaitersSound'
  <2> SUFFICES ASSUME NEW s \in Requests PROVE WaiterSound(s)'
    BY DEF WaitersSound
  <2> QED BY <1>2, WaiterStays
<1>10. QueueSound'
  BY <1>2 DEF FreshInv, QueueSound
<1> QED BY <1>6, <1>7, <1>8, <1>9, <1>10 DEF FreshInv

LEMMA FreshBegins == Init => FreshInv
<1> SUFFICES ASSUME Init PROVE FreshInv
  OBVIOUS
<1>1. NoGeneration \in Generations /\ FreshRecord \in Records /\ MaxSource \in Nat
  BY FreshValues
<1>2. [asset |-> None, prefetch |-> FALSE, revision |-> 0, born |-> 0] \in CallFacts
  BY <1>1 DEF CallFacts
<1>3. Len(<<>>) = 0 /\ <<>> \in Seq(Publications) /\ <<>> \in Seq(Requests)
  BY EmptySeq
<1>4. Typed
  BY <1>1, <1>2, <1>3 DEF Init, Typed, Places, Stages, Outcomes
<1>5. RecordsSound
  BY DEF Init, RecordsSound, FreshRecord
<1>6. CallsSound /\ LoadsSound /\ WaitersSound /\ SettingSound
  BY DEF Init, CallsSound, LoadsSound, WaitersSound, WaiterSound, SettingSound
<1>7. AttachedSound /\ QueueSound
  BY <1>3 DEF Init, AttachedSound, QueueSound
<1> QED BY <1>4, <1>5, <1>6, <1>7 DEF FreshInv

LEMMA FreshSteps == Batches = {} /\ FreshInv /\ [Next]_vars => FreshInv'
<1> SUFFICES ASSUME Batches = {}, FreshInv, [Next]_vars PROVE FreshInv'
  OBVIOUS
<1>1. ASSUME NEW t \in Threads, Calls(t) PROVE FreshInv'
  <2>1. ASSUME NEW r \in Requests, NEW a \in Assets, NEW p \in BOOLEAN,
               \/ Refused(t, r, a, p) \/ Join(t, r, a, p)
               \/ UseResident(t, r, a, p) \/ StartRequest(t, r, a, p)
        PROVE  FreshInv'
    BY <2>1, RefusedKeeps, JoinKeeps, UseResidentKeeps, StartKeeps
  <2>2. ASSUME NEW a \in Assets, Invalidate(t, a) PROVE FreshInv'
    BY <2>2, InvalidateKeeps
  <2>3. CASE ReleaseUnused(t)
    BY <2>3, ReleaseKeeps
  <2> QED BY <1>1, <2>1, <2>2, <2>3 DEF Calls
<1>2. ASSUME NEW t \in Threads, Goes(t) PROVE FreshInv'
  BY <1>2, ScheduleKeeps, RefusalKeeps, RegisterKeeps DEF Goes
<1>3. ASSUME NEW r \in Requests, Loading(r) \/ Cancel(r) \/ Drop(r) PROVE FreshInv'
  BY <1>3, StartLoadKeeps, EndLoadKeeps, PublicationKeeps, CancelKeeps, DropKeeps DEF Loading
<1>4. CASE Pump
  BY <1>4, PublishKeeps, SettleKeeps, AnswerKeeps DEF Pump
<1>5. CASE UNCHANGED vars
  BY <1>5 DEF vars, FreshInv, Typed, RecordsSound, CallsSound, LoadsSound, WaitersSound,
              WaiterSound, AttachedSound, QueueSound, SettingSound
<1> QED BY <1>1, <1>2, <1>3, <1>4, <1>5 DEF Next

LEMMA FreshPromises == FreshInv => NeverServesStale
<1> SUFFICES ASSUME FreshInv, NEW r \in Requests, answer[r] = "ok", lease[r] # NoGeneration
             PROVE  lease[r].stamp >= call[r].born
  BY DEF NeverServesStale
<1>1. WaiterSound(r) /\ joined[r] \in Requests \cup {None}
  BY DEF FreshInv, WaitersSound, Typed
<1>2. CASE joined[r] = None
  BY <1>1, <1>2 DEF WaiterSound
<1>3. CASE joined[r] # None
  <2>1. /\ call[joined[r]].born = call[r].born /\ lease[r].stamp = read[joined[r]].stamp
        /\ result[joined[r]] = "ok" /\ joined[r] \in Requests
    BY <1>1, <1>3 DEF WaiterSound
  <2>2. read[joined[r]].stamp >= call[joined[r]].born
    BY <2>1 DEF FreshInv, LoadsSound
  <2> QED BY <2>1, <2>2
<1> QED BY <1>2, <1>3

\* However many threads request however many assets, and whatever refuses, no
\* request is answered with a generation that is older than the last change the
\* manager had been told of when the request was made, as long as products come
\* from loads alone.
THEOREM AnswersAreFresh == Batches = {} => (ManagerSpec => []ServesFresh)
<1> SUFFICES ASSUME Batches = {} PROVE ManagerSpec => []ServesFresh
  OBVIOUS
<1> DEFINE Inv == part = "callers" => FreshInv
<1>1. ManagerInit => Inv
  BY FreshBegins DEF ManagerInit
<1>2. Inv /\ [ManagerNext]_<<part, vars>> => Inv'
  <2> SUFFICES ASSUME Inv, [ManagerNext]_<<part, vars>>, part' = "callers" PROVE FreshInv'
    OBVIOUS
  <2>1. part = "callers"
    BY DEF ManagerNext
  <2>2. [Next]_vars
    BY <2>1 DEF ManagerNext
  <2> QED BY <2>1, <2>2, FreshSteps
<1>3. Inv => ServesFresh
  BY FreshPromises DEF ServesFresh
<1> QED BY <1>1, <1>2, <1>3, PTL DEF ManagerSpec

-----------------------------------------------------------------------------
(* The prefetch slots, in the first part.                                     *)
Prefetched == {a \in Assets : rec[a].prefetch}

BoundsInv ==
    /\ IsFiniteSet(Prefetched) /\ prefetches \in Nat
    /\ Cardinality(Prefetched) <= prefetches /\ prefetches <= MaxPrefetch

\* A slot is given back by a record that takes up one.
LEMMA SlotGivenBack ==
  ASSUME FreshInv, BoundsInv, NEW a \in Assets, prefetches' = SlotsAfter(a),
         Prefetched' = Prefetched \ {a}
  PROVE  BoundsInv'
<1>1. /\ IsFiniteSet(Prefetched \ {a})
      /\ Cardinality(Prefetched \ {a}) = IF a \in Prefetched THEN Cardinality(Prefetched) - 1
                                         ELSE Cardinality(Prefetched)
  BY FS_RemoveElement DEF BoundsInv
<1>2. Cardinality(Prefetched) \in Nat /\ MaxPrefetch \in Nat
  BY FS_CardinalityType, ManagerAssumption DEF BoundsInv, ManagerAssumption
<1>3. a \in Prefetched <=> rec[a].prefetch
  BY DEF Prefetched
<1>4. Cardinality(Prefetched') \in Nat
  BY <1>1, FS_CardinalityType
<1>5. CASE rec[a].prefetch
  <2>1. prefetches' = prefetches - 1 /\ Cardinality(Prefetched') = Cardinality(Prefetched) - 1
    BY <1>1, <1>3, <1>5 DEF SlotsAfter
  <2> QED BY <1>1, <1>2, <1>4, <2>1 DEF BoundsInv
<1>6. CASE ~rec[a].prefetch
  <2>1. prefetches' = prefetches /\ Cardinality(Prefetched') = Cardinality(Prefetched)
    BY <1>1, <1>3, <1>6 DEF SlotsAfter
  <2> QED BY <1>1, <1>2, <1>4, <2>1 DEF BoundsInv
<1> QED BY <1>5, <1>6

\* Fewer records that take up a slot.
LEMMA FewerPrefetched ==
  ASSUME BoundsInv, prefetches' = prefetches, Prefetched' \subseteq Prefetched
  PROVE  BoundsInv'
<1>1. /\ IsFiniteSet(Prefetched')
      /\ Cardinality(Prefetched') <= Cardinality(Prefetched)
  BY FS_Subset DEF BoundsInv
<1>2. Cardinality(Prefetched) \in Nat /\ Cardinality(Prefetched') \in Nat
  BY <1>1, FS_CardinalityType DEF BoundsInv
<1>3. MaxPrefetch \in Nat
  BY ManagerAssumption DEF ManagerAssumption
<1> QED BY <1>1, <1>2, <1>3 DEF BoundsInv

LEMMA BoundsSteps ==
  FreshInv /\ BoundsInv /\ Batches = {} /\ [Next]_vars => BoundsInv'
<1> SUFFICES ASSUME FreshInv, BoundsInv, Batches = {}, [Next]_vars PROVE BoundsInv'
  OBVIOUS
<1>0. rec \in [Assets -> Records]
  BY DEF FreshInv, Typed
<1>1. ASSUME rec' = rec, prefetches' = prefetches PROVE BoundsInv'
  <2>1. Prefetched' = Prefetched
    BY <1>1 DEF Prefetched
  <2> QED BY <1>1, <2>1, FewerPrefetched
<1>2. ASSUME NEW t \in Threads, NEW r \in Requests, NEW a \in Assets, NEW p \in BOOLEAN,
             Join(t, r, a, p)
      PROVE  BoundsInv'
  <2>1. prefetches' = prefetches /\ rec' = [rec EXCEPT ![a].waiters = @ \cup {r}]
    BY <1>2 DEF Join
  <2>2. \A b \in Assets : rec'[b].prefetch = rec[b].prefetch
    BY <1>0, <2>1 DEF Records
  <2>3. Prefetched' = Prefetched
    BY <2>2 DEF Prefetched
  <2> QED BY <2>1, <2>3, FewerPrefetched
<1>3. ASSUME NEW t \in Threads, NEW r \in Requests, NEW a \in Assets, NEW p \in BOOLEAN,
             StartRequest(t, r, a, p)
      PROVE  BoundsInv'
  <2>1. /\ p => prefetches < MaxPrefetch
        /\ prefetches' = IF p THEN prefetches + 1 ELSE prefetches
        /\ rec' = [rec EXCEPT ![a].state = "Queued", ![a].load = r,
                              ![a].waiters = {r}, ![a].prefetch = p]
    BY <1>3 DEF StartRequest
  <2>2. \A b \in Assets : rec'[b].prefetch = IF b = a THEN p ELSE rec[b].prefetch
    BY <1>0, <2>1 DEF Records
  <2>3. CASE ~p
    <3>1. Prefetched' \subseteq Prefetched
      BY <2>2, <2>3 DEF Prefetched
    <3> QED BY <2>1, <2>3, <3>1, FewerPrefetched
  <2>4. CASE p
    <3>1. Prefetched' = Prefetched \cup {a}
      BY <2>2, <2>4 DEF Prefetched
    <3>2. /\ IsFiniteSet(Prefetched \cup {a})
          /\ Cardinality(Prefetched \cup {a}) = IF a \in Prefetched THEN Cardinality(Prefetched)
                                                ELSE Cardinality(Prefetched) + 1
      BY FS_AddElement DEF BoundsInv
    <3>3. Cardinality(Prefetched) \in Nat /\ MaxPrefetch \in Nat
      BY FS_CardinalityType, ManagerAssumption DEF BoundsInv, ManagerAssumption
    <3>4. Cardinality(Prefetched') <= Cardinality(Prefetched) + 1 /\ Cardinality(Prefetched') \in Nat
      BY <3>1, <3>2, <3>3
    <3> QED BY <2>1, <2>4, <3>1, <3>2, <3>3, <3>4 DEF BoundsInv
  <2> QED BY <2>3, <2>4
<1>4. ASSUME NEW t \in Threads, NEW r \in Requests, RecordRefusal(t, r) PROVE BoundsInv'
  <2>1. PICK a \in Assets : a = call[r].asset
    BY <1>4 DEF RecordRefusal, FreshInv, CallsSound
  <2>2. /\ prefetches' = SlotsAfter(a)
        /\ rec' = [rec EXCEPT ![a].prefetch = FALSE, ![a].state = "Failed"]
    BY <1>4, <2>1 DEF RecordRefusal
  <2>3. \A b \in Assets : rec'[b].prefetch = IF b = a THEN FALSE ELSE rec[b].prefetch
    BY <1>0, <2>2 DEF Records
  <2>4. Prefetched' = Prefetched \ {a}
    BY <2>3 DEF Prefetched
  <2> QED BY <2>2, <2>4, SlotGivenBack
<1>5. ASSUME NEW t \in Threads, NEW r \in Requests, Register(t, r) PROVE BoundsInv'
  <2>1. /\ prefetches' = prefetches
        /\ \/ rec' = rec
           \/ rec' = [rec EXCEPT ![call[r].asset] = Registered(call[r].asset, r)]
    BY <1>5 DEF Register
  <2>2. PICK a \in Assets : a = call[r].asset
    BY <1>5 DEF Register, FreshInv, CallsSound
  <2>3. Registered(a, r).prefetch = rec[a].prefetch
    BY <1>0 DEF Records, Registered
  <2>4. \A b \in Assets : rec'[b].prefetch = rec[b].prefetch
    BY <1>0, <2>1, <2>2, <2>3
  <2>5. Prefetched' = Prefetched
    BY <2>4 DEF Prefetched
  <2> QED BY <2>1, <2>5, FewerPrefetched
<1>6. CASE Publish
  <2>1. PICK r \in Requests : r = Head(queue).of /\ Head(queue).kind = "publish"
                              /\ stage[r] = "queued"
    <3>1. queue \in Seq(Publications) /\ queue # <<>>
      BY <1>6 DEF Publish, FreshInv, Typed
    <3>2. Head(queue) = queue[1] /\ 1 \in 1..Len(queue)
      BY <3>1, EmptySeq, LenProperties
    <3>3. Head(queue).kind = "publish"
      BY <1>6 DEF Publish
    <3>4. Head(queue).of \in Requests
      BY <3>2, QueueTyped DEF FreshInv
    <3>5. stage[Head(queue).of] = "queued"
      BY <3>2, <3>3 DEF FreshInv, QueueSound
    <3> QED BY <3>3, <3>4, <3>5
  <2>2. PICK a \in Assets : a = call[r].asset
    BY <2>1 DEF FreshInv, CallsSound, Typed, Places
  <2>3. CASE Stale(r)
    <3>1. rec' = rec /\ prefetches' = prefetches
      BY <1>6, <2>1, <2>3 DEF Publish
    <3> QED BY <1>1, <3>1
  <2>4. CASE ~Stale(r)
    <3>1. prefetches' = SlotsAfter(a)
      BY <1>6, <2>1, <2>2, <2>4 DEF Publish
    <3>2. PICK new : rec' = [rec EXCEPT ![a] = new] /\ new.prefetch = FALSE
      <4>1. CASE result[r] = "ok" /\ Bytes(r) <= MaxBytes
        <5>1. rec' = [rec EXCEPT ![a] =
                 [Published(a) EXCEPT !.generation = @ + 1,
                     !.current = [read[r] EXCEPT !.number = rec[a].generation + 1],
                     !.state = "Ready"]]
          BY <1>6, <2>1, <2>2, <2>4, <4>1 DEF Publish
        <5>2. PICK g : g = [read[r] EXCEPT !.number = rec[a].generation + 1]
          OBVIOUS
        <5>3. [Published(a) EXCEPT !.generation = @ + 1, !.current = g,
                                   !.state = "Ready"].prefetch = FALSE
          BY <1>0 DEF Published, Records
        <5> QED BY <5>1, <5>2, <5>3
      <4>2. CASE ~(result[r] = "ok" /\ Bytes(r) <= MaxBytes)
        <5>1. rec' = [rec EXCEPT ![a] = FailedRecord(a)]
          BY <1>6, <2>1, <2>2, <2>4, <4>2 DEF Publish
        <5>2. FailedRecord(a).prefetch = FALSE
          BY <1>0 DEF FailedRecord, Published, Records
        <5> QED BY <5>1, <5>2
      <4> QED BY <4>1, <4>2
    <3>3. \A b \in Assets : rec'[b].prefetch = IF b = a THEN FALSE ELSE rec[b].prefetch
      BY <1>0, <3>2
    <3>4. Prefetched' = Prefetched \ {a}
      BY <3>3 DEF Prefetched
    <3> QED BY <3>1, <3>4, SlotGivenBack
  <2> QED BY <2>3, <2>4
<1>7. ASSUME NEW t \in Threads, NEW a \in Assets, Invalidate(t, a) PROVE BoundsInv'
  <2>1. prefetches' = prefetches /\ rec' = [rec EXCEPT ![a] = Invalidated(a)]
    BY <1>7 DEF Invalidate
  <2>2. Invalidated(a).prefetch = rec[a].prefetch
    BY <1>0 DEF Invalidated, Records
  <2>3. \A b \in Assets : rec'[b].prefetch = rec[b].prefetch
    BY <1>0, <2>1, <2>2
  <2>4. Prefetched' = Prefetched
    BY <2>3 DEF Prefetched
  <2> QED BY <2>1, <2>4, FewerPrefetched
<1>8. ASSUME NEW t \in Threads, ReleaseUnused(t) PROVE BoundsInv'
  <2> PICK idle :
        idle = {a \in known : Resident(a) /\ ~Leased(a) /\ rec[a].in_flight = None}
    OBVIOUS
  <2> PICK released :
        released = [a \in Assets |->
              IF a \in idle THEN [rec[a] EXCEPT !.current = NoGeneration, !.state = "Unloaded"]
              ELSE rec[a]]
    OBVIOUS
  <2> PICK erased :
        erased = {a \in known : released[a].current = NoGeneration
                                /\ rec[a].in_flight = None /\ rec[a].revision = 0}
    OBVIOUS
  <2>1. rec' = [a \in Assets |-> IF a \in erased THEN FreshRecord ELSE released[a]]
        /\ prefetches' = prefetches
    BY <1>8 DEF ReleaseUnused
  <2>2. FreshRecord.prefetch = FALSE
    BY DEF FreshRecord
  <2>3. \A a \in Assets : released[a].prefetch = rec[a].prefetch
    BY <1>0 DEF Records
  <2>4. \A a \in Assets : rec'[a].prefetch => rec[a].prefetch
    BY <2>1, <2>2, <2>3
  <2>5. Prefetched' \subseteq Prefetched
    BY <2>4 DEF Prefetched
  <2> QED BY <2>1, <2>5, FewerPrefetched
<1>9. CASE UNCHANGED vars
  BY <1>1, <1>9 DEF vars
<1>10. ASSUME NEW t \in Threads, NEW r \in Requests, NEW a \in Assets, NEW p \in BOOLEAN,
              Refused(t, r, a, p) \/ UseResident(t, r, a, p)
       PROVE  BoundsInv'
  BY <1>1, <1>10 DEF Refused, UseResident
<1>11. ASSUME NEW t \in Threads, NEW r \in Requests, ScheduleLoad(t, r) PROVE BoundsInv'
  BY <1>1, <1>11 DEF ScheduleLoad, recordVars
<1>12. ASSUME NEW r \in Requests, Loading(r) \/ Cancel(r) \/ Drop(r) PROVE BoundsInv'
  BY <1>1, <1>12 DEF Loading, StartLoad, EndLoad, SubmitPublication, Cancel, Drop, recordVars
<1>13. CASE Settle \/ Answer
  BY <1>1, <1>13 DEF Settle, Answer, recordVars
<1> QED BY <1>2, <1>3, <1>4, <1>5, <1>6, <1>7, <1>8, <1>9, <1>10, <1>11, <1>12, <1>13
       DEF Next, Calls, Goes, Pump

LEMMA BoundsBegin == Init => BoundsInv
<1> SUFFICES ASSUME Init PROVE BoundsInv
  OBVIOUS
<1>1. Prefetched = {} /\ prefetches = 0
  BY DEF Init, Prefetched, FreshRecord
<1> QED BY <1>1, FS_EmptySet, ManagerAssumption DEF BoundsInv, ManagerAssumption

-----------------------------------------------------------------------------
(* Sums of functions over a finite set, taken in the order o of its elements. *)
SumsTo(f, o, n, v) ==
    \E g \in [0..n -> Int] :
        /\ g[0] = 0
        /\ \A k \in 1..n : g[k] = g[k - 1] + f[o[k]]
        /\ v = g[n]

-----------------------------------------------------------------------------
(* The resident bytes, in the second part.                                    *)
LEMMA BudgetCardinality == ASSUME NEW S PROVE Budget!Cardinality(S) = Cardinality(S)
BY DEF Budget!Cardinality, Cardinality

LEMMA BudgetBijection ==
  ASSUME NEW S, NEW T PROVE Budget!Bijection(S, T) = Bijection(S, T)
BY DEF Budget!Bijection, Budget!Injection, Budget!Surjection, Budget!IsInjective,
       Bijection, Injection, Surjection, IsInjective

Pool == Cardinality(BudgetAssets)

LEMMA OrderFound ==
  Pool \in Nat /\ Budget!Order \in Bijection(1..Pool, BudgetAssets)
<1>1. IsFiniteSet(BudgetAssets)
  BY BudgetAssumption DEF Budget!ManagerAssumption, Budget!IsFiniteSet, IsFiniteSet
<1>2. Pool \in Nat /\ ExistsBijection(1..Pool, BudgetAssets)
  BY <1>1, FS_CardinalityType DEF Pool
<1>3. \E o : o \in Bijection(1..Pool, BudgetAssets)
  BY <1>2 DEF ExistsBijection
<1>4. Budget!Order = CHOOSE o \in Bijection(1..Pool, BudgetAssets) : TRUE
  BY BudgetCardinality, BudgetBijection DEF Budget!Order, Pool
<1> QED BY <1>2, <1>3, <1>4

LEMMA TotalSums ==
  ASSUME NEW f \in [BudgetAssets -> Int]
  PROVE  SumsTo(f, Budget!Order, Pool, Budget!Total(f))
<1>1. PICK n \in Nat : n = Pool
  BY OrderFound
<1>2. PICK o \in [1..n -> BudgetAssets] : o = Budget!Order
  BY <1>1, OrderFound DEF Bijection, Injection
<1>3. PICK step : step = [k \in 1..n |-> [w \in Int |-> w + f[o[k]]]]
  OBVIOUS
<1>4. step \in Steps(n, Int)
  BY <1>3 DEF Steps
<1>5. PICK h : FoldOf(h, n, Int, 0, step)
  BY <1>4, FoldExists
<1>6. h \in [0..n -> Int] /\ h[0] = 0 /\ \A k \in 1..n : h[k] = step[k][h[k - 1]]
  BY <1>5 DEF FoldOf
<1> DEFINE Sums(s) == s = [k \in 0..n |-> IF k = 0 THEN 0 ELSE s[k - 1] + f[o[k]]]
<1>7. Sums(h)
  <2>1. ASSUME NEW k \in 0..n PROVE h[k] = IF k = 0 THEN 0 ELSE h[k - 1] + f[o[k]]
    <3>1. CASE k # 0
      <4>1. k \in 1..n /\ k - 1 \in 0..n /\ h[k - 1] \in Int
        BY <1>6, <3>1
      <4> QED BY <1>3, <1>6, <3>1, <4>1
    <3> QED BY <1>6, <3>1
  <2> QED BY <1>6, <2>1
<1>8. PICK g : g = CHOOSE s : Sums(s)
  OBVIOUS
<1>9. Sums(g)
  BY <1>7, <1>8
<1>10. Budget!Total(f) = g[n]
  <2>1. Budget!Cardinality(BudgetAssets) = n
    BY <1>1, BudgetCardinality DEF Pool
  <2> QED BY <1>2, <1>8, <2>1 DEF Budget!Total
<1>11. g[0] = 0 /\ \A k \in 1..n : g[k] = g[k - 1] + f[o[k]]
  <2>1. g[0] = 0
    BY <1>9
  <2>2. ASSUME NEW k \in 1..n PROVE g[k] = g[k - 1] + f[o[k]]
    <3>1. k \in 0..n /\ k # 0
      OBVIOUS
    <3> QED BY <1>9, <3>1
  <2> QED BY <2>1, <2>2
<1>12. g = [k \in 0..n |-> g[k]]
  BY <1>9
<1> HIDE DEF Sums
<1>13. \A k \in 0..n : g[k] \in Int
  <2>1. \A k \in 1..n : g[k - 1] \in Int => g[k] \in Int
    <3> SUFFICES ASSUME NEW k \in 1..n, g[k - 1] \in Int PROVE g[k] \in Int
      OBVIOUS
    <3>1. f[o[k]] \in Int
      OBVIOUS
    <3> QED BY <1>11, <3>1
  <2>2. PICK W : W = Int
    OBVIOUS
  <2>3. g[0] \in W /\ \A k \in 1..n : g[k - 1] \in W => g[k] \in W
    BY <1>11, <2>1, <2>2
  <2>4. \A k \in 0..n : g[k] \in W
    BY <2>3, KeptByFold
  <2> QED BY <2>2, <2>4
<1>14. g \in [0..n -> Int]
  BY <1>12, <1>13
<1> QED BY <1>1, <1>2, <1>10, <1>11, <1>14 DEF SumsTo

\* The total of the sums of two functions is the sum of their totals.
LEMMA TotalSplits ==
  ASSUME NEW f \in [BudgetAssets -> Int], NEW g \in [BudgetAssets -> Int],
         NEW h \in [BudgetAssets -> Int], \A b \in BudgetAssets : f[b] = g[b] + h[b]
  PROVE  /\ Budget!Total(f) = Budget!Total(g) + Budget!Total(h)
         /\ Budget!Total(f) \in Int /\ Budget!Total(g) \in Int /\ Budget!Total(h) \in Int
<1>1. PICK n \in Nat, o \in [1..Pool -> BudgetAssets] : n = Pool /\ o = Budget!Order
  BY OrderFound DEF Bijection, Injection
<1>2. PICK u, v, w : /\ u = Budget!Total(f) /\ v = Budget!Total(g)
                     /\ w = Budget!Total(h)
  OBVIOUS
<1>3. SumsTo(f, o, n, u) /\ SumsTo(g, o, n, v) /\ SumsTo(h, o, n, w)
  BY <1>1, <1>2, TotalSums
<1>4. PICK F \in [0..n -> Int] : /\ F[0] = 0 /\ u = F[n]
                                 /\ \A k \in 1..n : F[k] = F[k - 1] + f[o[k]]
  BY <1>3 DEF SumsTo
<1>5. PICK G \in [0..n -> Int] : /\ G[0] = 0 /\ v = G[n]
                                 /\ \A k \in 1..n : G[k] = G[k - 1] + g[o[k]]
  BY <1>3 DEF SumsTo
<1>6. PICK H \in [0..n -> Int] : /\ H[0] = 0 /\ w = H[n]
                                 /\ \A k \in 1..n : H[k] = H[k - 1] + h[o[k]]
  BY <1>3 DEF SumsTo
<1>7. PICK d : d = [k \in 0..n |-> F[k] - G[k] - H[k]]
  OBVIOUS
<1>8. d[0] \in {0}
  BY <1>4, <1>5, <1>6, <1>7
<1>9. \A k \in 1..n : d[k - 1] \in {0} => d[k] \in {0}
  <2> SUFFICES ASSUME NEW k \in 1..n, d[k - 1] = 0 PROVE d[k] = 0
    OBVIOUS
  <2>1. k - 1 \in 0..n /\ k \in 0..n /\ o[k] \in BudgetAssets
    BY <1>1
  <2>2. /\ F[k] \in Int /\ G[k] \in Int /\ H[k] \in Int
        /\ F[k - 1] \in Int /\ G[k - 1] \in Int /\ H[k - 1] \in Int
        /\ f[o[k]] \in Int /\ g[o[k]] \in Int /\ h[o[k]] \in Int
    BY <2>1
  <2>3. F[k - 1] - G[k - 1] - H[k - 1] = 0 /\ d[k] = F[k] - G[k] - H[k]
    BY <1>7, <2>1
  <2>4. f[o[k]] = g[o[k]] + h[o[k]]
    BY <2>1
  <2>5. PICK x \in Int, y \in Int, z \in Int : x = f[o[k]] /\ y = g[o[k]] /\ z = h[o[k]]
    BY <2>1
  <2>6. F[k] = F[k - 1] + x /\ G[k] = G[k - 1] + y /\ H[k] = H[k - 1] + z
    BY <1>4, <1>5, <1>6, <2>5
  <2>7. PICK i \in Int, j \in Int, l \in Int : i = F[k - 1] /\ j = G[k - 1] /\ l = H[k - 1]
    BY <2>1
  <2>8. i - j - l = 0
    BY <1>7, <2>1, <2>7
  <2>9. d[k] = (i + x) - (j + y) - (l + z)
    BY <1>7, <2>1, <2>6, <2>7
  <2>10. x = y + z
    BY <2>4, <2>5
  <2>11. (i + x) - (j + y) - (l + z) = 0
    BY <2>8, <2>10
  <2> QED BY <2>9, <2>11
<1>10. \A k \in 0..n : d[k] \in {0}
  <2>1. PICK W : W = {0}
    OBVIOUS
  <2>2. \A k \in 0..n : d[k] \in W
    BY <1>8, <1>9, <2>1, KeptByFold
  <2> QED BY <2>1, <2>2
<1>11. n \in 0..n /\ d[n] = 0
  BY <1>10
<1>12. F[n] - G[n] - H[n] = 0 /\ F[n] \in Int /\ G[n] \in Int /\ H[n] \in Int
  BY <1>7, <1>11
<1>13. PICK x \in Int, y \in Int, z \in Int : x = F[n] /\ y = G[n] /\ z = H[n]
  BY <1>12
<1>14. x - y - z = 0
  BY <1>12, <1>13
<1>15. x = y + z
  BY <1>14
<1>16. u = x /\ v = y /\ w = z
  BY <1>4, <1>5, <1>6, <1>13
<1> QED BY <1>2, <1>15, <1>16

\* The total of a function that is zero everywhere but at a.
LEMMA TotalSingle ==
  ASSUME NEW f \in [BudgetAssets -> Int], NEW a \in BudgetAssets, NEW s \in Int,
         \A b \in BudgetAssets : f[b] = IF b = a THEN s ELSE 0
  PROVE  Budget!Total(f) = s
<1>1. PICK n \in Nat, o \in Bijection(1..Pool, BudgetAssets) : n = Pool /\ o = Budget!Order
  BY OrderFound
<1>2. PICK v : v = Budget!Total(f)
  OBVIOUS
<1>3. SumsTo(f, o, n, v)
  BY <1>1, <1>2, TotalSums
<1>4. PICK F \in [0..n -> Int] : /\ F[0] = 0 /\ v = F[n]
                                 /\ \A k \in 1..n : F[k] = F[k - 1] + f[o[k]]
  BY <1>3 DEF SumsTo
<1>5. /\ o \in [1..n -> BudgetAssets]
      /\ \A j, k \in 1..n : o[j] = o[k] => j = k
      /\ \A b \in BudgetAssets : \E k \in 1..n : o[k] = b
  BY <1>1 DEF Bijection, Injection, Surjection, IsInjective
<1>6. PICK p \in 1..n : o[p] = a
  BY <1>5
<1>7. PICK W : W = [k \in 0..n |-> {IF k >= p THEN s ELSE 0}]
  OBVIOUS
<1>8. F[0] \in W[0]
  BY <1>4, <1>7
<1>9. ASSUME NEW k \in 1..n, F[k - 1] \in W[k - 1] PROVE F[k] \in W[k]
  <2>1. k - 1 \in 0..n /\ k \in 0..n /\ o[k] \in BudgetAssets
    BY <1>5
  <2>2. F[k - 1] = IF k - 1 >= p THEN s ELSE 0
    BY <1>7, <1>9, <2>1
  <2>3. f[o[k]] = IF k = p THEN s ELSE 0
    BY <1>5, <1>6, <2>1
  <2>4. F[k] = IF k >= p THEN s ELSE 0
    BY <1>4, <2>2, <2>3
  <2> QED BY <1>7, <2>1, <2>4
<1>10. \A k \in 0..n : F[k] \in W[k]
  BY <1>8, <1>9, KeptAlongFold
<1>11. n \in 0..n /\ n >= p
  OBVIOUS
<1> QED BY <1>2, <1>4, <1>7, <1>10, <1>11

\* What the sum becomes when the function changes in one place.
LEMMA TotalChanges ==
  ASSUME NEW f \in [BudgetAssets -> Int], NEW a \in BudgetAssets, NEW s \in Int
  PROVE  /\ Budget!Total([f EXCEPT ![a] = s]) = Budget!Total(f) - f[a] + s
         /\ Budget!Total(f) \in Int
<1>3. PICK v \in Int : v = f[a]
  OBVIOUS
<1>4. PICK z \in [BudgetAssets -> Int], x \in [BudgetAssets -> Int],
           y \in [BudgetAssets -> Int], q \in [BudgetAssets -> Int] :
        /\ z = [b \in BudgetAssets |-> IF b = a THEN 0 ELSE f[b]]
        /\ x = [b \in BudgetAssets |-> IF b = a THEN v ELSE 0]
        /\ y = [b \in BudgetAssets |-> IF b = a THEN s ELSE 0]
        /\ q = [b \in BudgetAssets |-> IF b = a THEN s ELSE f[b]]
  <2>1. [b \in BudgetAssets |-> IF b = a THEN 0 ELSE f[b]] \in [BudgetAssets -> Int]
    OBVIOUS
  <2>2. [b \in BudgetAssets |-> IF b = a THEN v ELSE 0] \in [BudgetAssets -> Int]
    OBVIOUS
  <2>3. [b \in BudgetAssets |-> IF b = a THEN s ELSE 0] \in [BudgetAssets -> Int]
    OBVIOUS
  <2>4. [b \in BudgetAssets |-> IF b = a THEN s ELSE f[b]] \in [BudgetAssets -> Int]
    OBVIOUS
  <2> QED BY <2>1, <2>2, <2>3, <2>4
<1>5. q = [f EXCEPT ![a] = s]
  BY <1>4
<1>8. \A b \in BudgetAssets : f[b] = z[b] + x[b] /\ q[b] = z[b] + y[b]
  BY <1>3, <1>4
<1>9. /\ Budget!Total(f) = Budget!Total(z) + Budget!Total(x)
      /\ Budget!Total(f) \in Int /\ Budget!Total(z) \in Int
  BY <1>8, TotalSplits
<1>10. Budget!Total(q) = Budget!Total(z) + Budget!Total(y)
  BY <1>8, TotalSplits
<1>11. Budget!Total(x) = v
  BY <1>4, TotalSingle
<1>12. Budget!Total(y) = s
  BY <1>4, TotalSingle
<1>13. PICK tf \in Int, tz \in Int : tf = Budget!Total(f) /\ tz = Budget!Total(z)
  BY <1>9
<1>14. tf = tz + v /\ Budget!Total(q) = tz + s
  BY <1>9, <1>10, <1>11, <1>12, <1>13
<1>15. Budget!Total(q) = tf - v + s
  BY <1>14
<1> QED BY <1>3, <1>5, <1>13, <1>15

\* The total of a function that is nowhere negative is not negative.
LEMMA TotalNatural ==
  ASSUME NEW f \in [BudgetAssets -> Int], \A b \in BudgetAssets : 0 <= f[b]
  PROVE  0 <= Budget!Total(f)
<1>1. PICK n \in Nat, o \in [1..Pool -> BudgetAssets] : n = Pool /\ o = Budget!Order
  BY OrderFound DEF Bijection, Injection
<1>2. PICK v : v = Budget!Total(f)
  OBVIOUS
<1>3. SumsTo(f, o, n, v)
  BY <1>1, <1>2, TotalSums
<1>4. PICK F \in [0..n -> Int] : /\ F[0] = 0 /\ v = F[n]
                                 /\ \A k \in 1..n : F[k] = F[k - 1] + f[o[k]]
  BY <1>3 DEF SumsTo
<1>5. PICK W : W = Nat
  OBVIOUS
<1>6. F[0] \in W
  BY <1>4, <1>5
<1>7. \A k \in 1..n : F[k - 1] \in W => F[k] \in W
  <2> SUFFICES ASSUME NEW k \in 1..n, F[k - 1] \in Nat PROVE F[k] \in Nat
    BY <1>5
  <2>1. o[k] \in BudgetAssets
    BY <1>1
  <2>2. PICK i \in Int : i = f[o[k]] /\ 0 <= i
    BY <2>1
  <2>3. PICK j \in Nat : j = F[k - 1]
    OBVIOUS
  <2> QED BY <1>4, <2>2, <2>3
<1>8. \A k \in 0..n : F[k] \in W
  BY <1>6, <1>7, KeptByFold
<1>9. F[n] \in Nat
  BY <1>5, <1>8
<1> QED BY <1>2, <1>4, <1>9

\* A total is that of a part and that of the rest.
LEMMA TotalOfParts ==
  ASSUME NEW f \in [BudgetAssets -> Nat], NEW idle, NEW g, NEW h,
         g = [a \in BudgetAssets |-> IF a \in idle THEN 0 ELSE f[a]],
         h = [a \in BudgetAssets |-> IF a \in idle THEN f[a] ELSE 0]
  PROVE  /\ Budget!Total(f) \in Int /\ Budget!Total(g) \in Int /\ Budget!Total(h) \in Int
         /\ Budget!Total(f) - Budget!Total(h) = Budget!Total(g)
         /\ Budget!Total(g) <= Budget!Total(f)
<1>1. ASSUME NEW b \in BudgetAssets
      PROVE  /\ f[b] \in Int /\ g[b] \in Int /\ h[b] \in Int /\ 0 <= h[b]
             /\ f[b] = g[b] + h[b]
  <2>1. PICK n \in Nat : n = f[b]
    OBVIOUS
  <2>2. CASE b \in idle
    <3>1. f[b] = n /\ g[b] = 0 /\ h[b] = n
      BY <2>1, <2>2
    <3> QED BY <3>1
  <2>3. CASE b \notin idle
    <3>1. f[b] = n /\ g[b] = n /\ h[b] = 0
      BY <2>1, <2>3
    <3> QED BY <3>1
  <2> QED BY <2>2, <2>3
<1>2. f \in [BudgetAssets -> Int] /\ g \in [BudgetAssets -> Int] /\ h \in [BudgetAssets -> Int]
  BY <1>1, Zenon
<1>3. /\ \A b \in BudgetAssets : f[b] = g[b] + h[b]
      /\ \A b \in BudgetAssets : 0 <= h[b]
  BY <1>1
<1>4. /\ Budget!Total(f) = Budget!Total(g) + Budget!Total(h)
      /\ Budget!Total(f) \in Int /\ Budget!Total(g) \in Int /\ Budget!Total(h) \in Int
  BY ONLY <1>2, <1>3, TotalSplits
<1>5. 0 <= Budget!Total(h)
  BY ONLY <1>2, <1>3, TotalNatural
<1>6. PICK x \in Int : x = Budget!Total(f)
  BY <1>4
<1>7. PICK y \in Int : y = Budget!Total(g)
  BY <1>4
<1>8. PICK z \in Int : z = Budget!Total(h)
  BY <1>4
<1>9. x = y + z /\ 0 <= z
  BY <1>4, <1>5, <1>6, <1>7, <1>8
<1>10. x - z = y /\ y <= x
  BY ONLY <1>9, x \in Int, y \in Int, z \in Int
<1> QED BY <1>6, <1>7, <1>8, <1>10

LEMMA TotalTyped == ASSUME NEW f \in [BudgetAssets -> Int] PROVE Budget!Total(f) \in Int
<1>1. PICK n \in Nat : n = Pool
  BY OrderFound
<1>2. SumsTo(f, Budget!Order, n, Budget!Total(f))
  BY <1>1, TotalSums
<1>3. PICK F \in [0..n -> Int] : Budget!Total(f) = F[n]
  BY <1>2 DEF SumsTo
<1> QED BY <1>3

\* A batch that replaces what h says of distinct assets, one after the other,
\* comes to the total of what it leaves.
Replaces(n, b, s, h, d, new) ==
    /\ b \in [1..n -> BudgetAssets] /\ \A j, k \in 1..n : b[j] = b[k] => j = k
    /\ s \in [1..n -> Int] /\ h \in [BudgetAssets -> Int] /\ new \in [BudgetAssets -> Int]
    /\ d[0] = Budget!Total(h)
    /\ \A k \in 1..n : d[k] = d[k - 1] - h[b[k]] + s[k]
    /\ \A k \in 1..n : new[b[k]] = s[k]
    /\ \A a \in BudgetAssets : (\A k \in 1..n : b[k] # a) => new[a] = h[a]

LEMMA BatchTotal ==
  ASSUME NEW n \in Nat, NEW b, NEW s, NEW h, NEW d, NEW new, Replaces(n, b, s, h, d, new)
  PROVE  d[n] = Budget!Total(new)
<1> USE DEF Replaces
<1>1. PICK after : after = [k \in 0..n |-> [a \in BudgetAssets |->
                               IF \E j \in 1..k : b[j] = a THEN new[a] ELSE h[a]]]
  OBVIOUS
<1>2. \A k \in 0..n : after[k] \in [BudgetAssets -> Int]
  BY <1>1
<1>3. after[0] = h /\ after[n] = new
  BY <1>1
<1>4. PICK V : V = [k \in 0..n |-> {Budget!Total(after[k])}]
  OBVIOUS
<1>5. d[0] \in V[0]
  BY <1>3, <1>4
<1>6. ASSUME NEW k \in 1..n, d[k - 1] \in V[k - 1] PROVE d[k] \in V[k]
  <2>1. k - 1 \in 0..n /\ k \in 0..n /\ b[k] \in BudgetAssets /\ s[k] \in Int
    OBVIOUS
  <2>2. PICK p \in [BudgetAssets -> Int] : p = after[k - 1]
    BY <1>2, <2>1
  <2>3. p[b[k]] = h[b[k]]
    <3>1. ~ \E j \in 1..(k - 1) : b[j] = b[k]
      OBVIOUS
    <3> QED BY <1>1, <2>1, <2>2, <3>1
  <2>4. after[k] = [p EXCEPT ![b[k]] = s[k]]
    <3>1. \A a \in BudgetAssets :
             (\E j \in 1..k : b[j] = a) <=> (b[k] = a \/ \E j \in 1..(k - 1) : b[j] = a)
      OBVIOUS
    <3>2. \A a \in BudgetAssets : after[k][a] = [p EXCEPT ![b[k]] = s[k]][a]
      BY <1>1, <2>1, <2>2, <3>1
    <3>3. after[k] \in [BudgetAssets -> Int] /\ [p EXCEPT ![b[k]] = s[k]] \in [BudgetAssets -> Int]
      BY <1>2, <2>1
    <3> QED BY <3>2, <3>3
  <2>5. Budget!Total(after[k]) = Budget!Total(p) - p[b[k]] + s[k]
    <3>1. PICK a \in BudgetAssets : a = b[k]
      BY <2>1
    <3>2. PICK i \in Int : i = s[k]
      BY <2>1
    <3>3. Budget!Total([p EXCEPT ![a] = i]) = Budget!Total(p) - p[a] + i
      <4>1. p \in [BudgetAssets -> Int] /\ a \in BudgetAssets /\ i \in Int
        BY <2>2, <3>1, <3>2
      <4> QED BY ONLY <4>1, TotalChanges
    <3> QED BY <2>4, <3>1, <3>2, <3>3
  <2>6. d[k - 1] = Budget!Total(p)
    BY <1>4, <1>6, <2>1, <2>2
  <2>7. d[k] = Budget!Total(after[k])
    BY <2>3, <2>5, <2>6
  <2> QED BY <1>4, <2>1, <2>7
<1>7. \A k \in 0..n : d[k] \in V[k]
  BY <1>5, <1>6, KeptAlongFold
<1>8. n \in 0..n
  OBVIOUS
<1> QED BY <1>3, <1>4, <1>7, <1>8

-----------------------------------------------------------------------------
\* What the accounting needs to know of the types.
HeldGenerations == [number : Nat, stamp : Nat, size : Nat]
HeldRecords == [state : States, revision : Nat, generation : Nat,
                current : HeldGenerations, in_flight : Requests \cup {None},
                load : Requests \cup {None}, waiters : SUBSET Requests, prefetch : BOOLEAN]
Callers == [asset : BudgetAssets \cup {None}, prefetch : BOOLEAN, revision : Nat, born : Nat]

HeldTyped ==
    /\ known \subseteq BudgetAssets
    /\ rec \in [BudgetAssets -> HeldRecords]
    /\ source \in [BudgetAssets -> Nat]
    /\ read \in [Requests -> HeldGenerations]
    /\ call \in [Requests -> Callers] /\ at \in [Requests -> Places]
    /\ \A r \in Requests : at[r] # "new" => call[r].asset \in BudgetAssets
    /\ attached \in [Requests -> Seq(Requests)]
    /\ queue \in Seq(Publications)
    /\ setting \in Requests \cup {None}

\* The sizes of the resident generations.
Held(records) == [a \in BudgetAssets |-> records[a].current.size]

HeldExact == resident = Budget!Total(Held(rec)) /\ resident <= BudgetBytes

LEMMA BudgetBounds ==
  /\ BudgetSizes \subseteq Nat /\ BudgetBytes \in Nat /\ BudgetBatches \subseteq Seq(BudgetAssets)
  /\ \A b \in BudgetBatches : \A j, k \in DOMAIN b : b[j] = b[k] => j = k
BY BudgetAssumption DEF Budget!ManagerAssumption

LEMMA HeldIsTyped == HeldTyped => Held(rec) \in [BudgetAssets -> Int]
BY DEF HeldTyped, Held, HeldRecords, HeldGenerations

\* An action that leaves the resident generations alone.
LEMMA NothingHeld ==
  ASSUME HeldExact, resident' = resident,
         \A a \in BudgetAssets : rec'[a].current.size = rec[a].current.size
  PROVE  HeldExact'
<1>1. Held(rec') = Held(rec)
  BY DEF Held
<1> QED BY <1>1 DEF HeldExact

\* An action that replaces one resident generation.
LEMMA OneHeld ==
  ASSUME HeldTyped, HeldExact, NEW a \in BudgetAssets, NEW s \in Nat, NEW v,
         v = resident - rec[a].current.size + s, resident' = v, v <= BudgetBytes,
         \A b \in BudgetAssets :
            rec'[b].current.size = IF b = a THEN s ELSE rec[b].current.size
  PROVE  HeldExact'
<1>1. PICK f \in [BudgetAssets -> Int] : f = Held(rec)
  BY HeldIsTyped
<1>2. Held(rec') = [f EXCEPT ![a] = s]
  BY <1>1 DEF Held
<1>3. f[a] = rec[a].current.size
  BY <1>1 DEF Held
<1>4. Budget!Total([f EXCEPT ![a] = s]) = Budget!Total(f) - f[a] + s
  <2>1. s \in Int
    OBVIOUS
  <2> QED BY <2>1, TotalChanges
<1> QED BY <1>1, <1>2, <1>3, <1>4 DEF HeldExact

\* Answers are added to the queue.
LEMMA BudgetSubmits ==
  ASSUME HeldTyped, NEW rs \in Seq(Requests), Budget!SubmitAnswers(rs)
  PROVE  queue' \in Seq(Publications)
<1>1. PICK taken : queue' = queue \o Budget!Answers(rs, taken)
  BY DEF Budget!SubmitAnswers
<1>2. PICK s : s = Answers(rs, taken)
  OBVIOUS
<1>3. Budget!Answers(rs, taken) = s
  BY <1>2 DEF Budget!Answers, Answers
<1>4. Range(rs) \subseteq Requests
  BY LenProperties, ElementOfSeq DEF Range
<1>5. AnswersTo(Range(rs)) \subseteq Publications
  BY <1>4 DEF AnswersTo, Publications
<1>6. s \in Seq(AnswersTo(Range(rs)))
  BY <1>2, AnswersOnly
<1>7. s \in [1..Len(s) -> Publications] /\ Len(s) \in Nat
  BY <1>5, <1>6, LenProperties, ElementOfSeq
<1>8. s \in Seq(Publications)
  BY <1>7, FunctionIsSeq
<1> QED BY <1>1, <1>3, <1>8, ConcatProperties DEF HeldTyped

HeldInv == HeldTyped /\ HeldExact

\* What every outcome of a request's first section leaves in order.
BegunHeld ==
    /\ known' \subseteq BudgetAssets /\ source' \in [BudgetAssets -> Nat]
    /\ read' \in [Requests -> HeldGenerations]
    /\ call' \in [Requests -> Callers] /\ at' \in [Requests -> Places]
    /\ \A s \in Requests : at'[s] # "new" => call'[s].asset \in BudgetAssets
    /\ setting' \in Requests \cup {None}
    /\ resident' = resident

LEMMA BudgetBegins ==
  ASSUME HeldTyped, NEW t, NEW r \in Requests, NEW a \in BudgetAssets, NEW p \in BOOLEAN,
         NEW q \in Places, Budget!Begin(t, r, a, p), at' = [at EXCEPT ![r] = q]
  PROVE  BegunHeld
<1>1. /\ known' = known \cup {a} /\ source' = source /\ read' = read /\ setting' = setting
      /\ resident' = resident
      /\ call' = [call EXCEPT ![r] = [asset |-> a, prefetch |-> p,
                                      revision |-> rec[a].revision, born |-> source[a]]]
  BY DEF Budget!Begin, Budget!loadVars
<1>2. PICK c \in Callers : c = [asset |-> a, prefetch |-> p, revision |-> rec[a].revision,
                                born |-> source[a]] /\ c.asset = a
  <2>1. rec[a].revision \in Nat /\ source[a] \in Nat
    BY DEF HeldTyped, HeldRecords
  <2>2. [asset |-> a, prefetch |-> p, revision |-> rec[a].revision, born |-> source[a]]
           \in Callers
    BY <2>1 DEF Callers
  <2> QED BY <2>2
<1>3. call' \in [Requests -> Callers] /\ \A s \in Requests : call'[s] = IF s = r THEN c ELSE call[s]
  BY <1>1, <1>2 DEF HeldTyped
<1>4. at' \in [Requests -> Places] /\ \A s \in Requests : at'[s] = IF s = r THEN q ELSE at[s]
  BY DEF HeldTyped
<1>5. \A s \in Requests : at'[s] # "new" => call'[s].asset \in BudgetAssets
  BY <1>2, <1>3, <1>4 DEF HeldTyped
<1> QED BY <1>1, <1>3, <1>4, <1>5 DEF HeldTyped, BegunHeld

LEMMA BudgetRefused ==
  ASSUME HeldInv, NEW t, NEW r \in Requests, NEW a \in BudgetAssets, NEW p \in BOOLEAN,
         Budget!Refused(t, r, a, p)
  PROVE  HeldInv'
<1>1. /\ Budget!Begin(t, r, a, p) /\ at' = [at EXCEPT ![r] = "returned"]
      /\ rec' = rec /\ attached' = attached /\ queue' = queue /\ "returned" \in Places
  BY DEF Budget!Refused, Places
<1>2. BegunHeld
  BY <1>1, BudgetBegins DEF HeldInv
<1>3. HeldTyped' /\ resident' = resident
  BY <1>1, <1>2 DEF HeldInv, HeldTyped, BegunHeld
<1> QED BY <1>1, <1>3, NothingHeld DEF HeldInv

LEMMA BudgetJoin ==
  ASSUME HeldInv, NEW t, NEW r \in Requests, NEW a \in BudgetAssets, NEW p \in BOOLEAN,
         Budget!Join(t, r, a, p)
  PROVE  HeldInv'
<1>1. PICK l \in Requests : l = rec[a].in_flight
  BY DEF Budget!Join, HeldInv, HeldTyped, HeldRecords
<1>2. /\ Budget!Begin(t, r, a, p) /\ at' = [at EXCEPT ![r] = "returned"]
      /\ rec' = [rec EXCEPT ![a].waiters = @ \cup {r}]
      /\ \/ Budget!SubmitAnswers(<<r>>) /\ attached' = attached
         \/ queue' = queue /\ attached' = [attached EXCEPT ![l] = Append(@, r)]
  BY <1>1 DEF Budget!Join
<1>3. rec' \in [BudgetAssets -> HeldRecords]
      /\ \A b \in BudgetAssets : rec'[b].current = rec[b].current
  <2>1. rec[a] \in HeldRecords
    BY DEF HeldInv, HeldTyped
  <2>2. PICK one \in HeldRecords : one = [rec[a] EXCEPT !.waiters = @ \cup {r}]
    <3>1. [rec[a] EXCEPT !.waiters = @ \cup {r}] \in HeldRecords
      BY <2>1 DEF HeldRecords
    <3> QED BY <3>1
  <2>3. one.current = rec[a].current
    BY <2>1, <2>2 DEF HeldRecords
  <2>4. rec' = [rec EXCEPT ![a] = one]
    BY <1>2, <2>2
  <2> QED BY <2>3, <2>4 DEF HeldInv, HeldTyped
<1>4. queue' \in Seq(Publications) /\ attached' \in [Requests -> Seq(Requests)]
  <2>1. CASE Budget!SubmitAnswers(<<r>>) /\ attached' = attached
    <3>1. <<r>> \in Seq(Requests)
      OBVIOUS
    <3> QED BY <2>1, <3>1, BudgetSubmits DEF HeldInv, HeldTyped
  <2>2. CASE queue' = queue /\ attached' = [attached EXCEPT ![l] = Append(@, r)]
    BY <2>2, AppendProperties DEF HeldInv, HeldTyped
  <2> QED BY <1>2, <2>1, <2>2
<1>5. "returned" \in Places
  BY DEF Places
<1>6. BegunHeld
  BY <1>2, <1>5, BudgetBegins DEF HeldInv
<1>7. HeldTyped' /\ resident' = resident
  BY <1>3, <1>4, <1>6 DEF HeldTyped, BegunHeld
<1> QED BY <1>3, <1>7, NothingHeld DEF HeldInv

LEMMA BudgetUseResident ==
  ASSUME HeldInv, NEW t, NEW r \in Requests, NEW a \in BudgetAssets, NEW p \in BOOLEAN,
         Budget!UseResident(t, r, a, p)
  PROVE  HeldInv'
<1>1. /\ Budget!Begin(t, r, a, p) /\ at' = [at EXCEPT ![r] = "returned"]
      /\ rec' = rec /\ attached' = attached /\ Budget!SubmitAnswers(<<r>>)
      /\ "returned" \in Places /\ <<r>> \in Seq(Requests)
  BY DEF Budget!UseResident, Places
<1>2. queue' \in Seq(Publications)
  BY <1>1, BudgetSubmits DEF HeldInv
<1>3. BegunHeld
  BY <1>1, BudgetBegins DEF HeldInv
<1>4. HeldTyped' /\ resident' = resident
  BY <1>1, <1>2, <1>3 DEF HeldInv, HeldTyped, BegunHeld
<1> QED BY <1>1, <1>4, NothingHeld DEF HeldInv

LEMMA BudgetStart ==
  ASSUME HeldInv, NEW t, NEW r \in Requests, NEW a \in BudgetAssets, NEW p \in BOOLEAN,
         Budget!StartRequest(t, r, a, p)
  PROVE  HeldInv'
<1>1. /\ Budget!Begin(t, r, a, p) /\ at' = [at EXCEPT ![r] = "schedule"]
      /\ rec' = [rec EXCEPT ![a].state = "Queued", ![a].load = r,
                            ![a].waiters = {r}, ![a].prefetch = p]
      /\ attached' = attached /\ queue' = queue /\ "schedule" \in Places
  BY DEF Budget!StartRequest, Budget!futureVars, Places
<1>2. PICK one \in HeldRecords : /\ one = [rec[a] EXCEPT !.state = "Queued", !.load = r,
                                                    !.waiters = {r}, !.prefetch = p]
                                 /\ one.current = rec[a].current
  <2>1. rec[a] \in HeldRecords
    BY DEF HeldInv, HeldTyped
  <2>2. [rec[a] EXCEPT !.state = "Queued", !.load = r, !.waiters = {r}, !.prefetch = p]
           \in HeldRecords
    BY <2>1 DEF HeldRecords, States
  <2>3. [rec[a] EXCEPT !.state = "Queued", !.load = r, !.waiters = {r},
                       !.prefetch = p].current = rec[a].current
    BY <2>1 DEF HeldRecords
  <2> QED BY <2>2, <2>3
<1>3. rec' = [rec EXCEPT ![a] = one]
  BY <1>1, <1>2 DEF HeldInv, HeldTyped
<1>4. rec' \in [BudgetAssets -> HeldRecords]
      /\ \A b \in BudgetAssets : rec'[b].current = rec[b].current
  BY <1>2, <1>3 DEF HeldInv, HeldTyped
<1>5. BegunHeld
  BY <1>1, BudgetBegins DEF HeldInv
<1>6. HeldTyped' /\ resident' = resident
  BY <1>1, <1>4, <1>5 DEF HeldInv, HeldTyped, BegunHeld
<1> QED BY <1>4, <1>6, NothingHeld DEF HeldInv

\* What the actions of a caller that is under way leave in order.
LEMMA BudgetGoes ==
  ASSUME HeldInv, NEW t, NEW r \in Requests,
         Budget!ScheduleLoad(t, r) \/ Budget!RecordRefusal(t, r) \/ Budget!Register(t, r)
  PROVE  HeldInv'
<1>0. {"register", "refused", "returned"} \subseteq Places /\ at[r] # "new"
      /\ call[r].asset \in BudgetAssets
  BY DEF Places, Budget!ScheduleLoad, Budget!RecordRefusal, Budget!Register, HeldInv, HeldTyped
<1>a. PICK a \in BudgetAssets : a = call[r].asset
  BY <1>0
<1>b. ASSUME NEW q \in Places, at' = [at EXCEPT ![r] = q], call' = call
      PROVE  /\ at' \in [Requests -> Places] /\ call' \in [Requests -> Callers]
             /\ \A s \in Requests : at'[s] # "new" => call'[s].asset \in BudgetAssets
  BY <1>0, <1>b DEF HeldInv, HeldTyped
<1>1. CASE Budget!ScheduleLoad(t, r)
  <2>1. /\ \/ at' = [at EXCEPT ![r] = "register"]
           \/ at' = [at EXCEPT ![r] = "refused"]
        /\ known' = known /\ rec' = rec /\ resident' = resident /\ source' = source
        /\ attached' = attached /\ queue' = queue /\ setting' = setting /\ read' = read
        /\ call' = call
    BY <1>1 DEF Budget!ScheduleLoad, Budget!recordVars, Budget!futureVars, Budget!pumpVars
  <2>2. HeldTyped'
    BY <1>0, <1>b, <2>1 DEF HeldInv, HeldTyped
  <2> QED BY <2>1, <2>2, NothingHeld DEF HeldInv
<1>2. CASE Budget!RecordRefusal(t, r)
  <2>1. /\ known' = known \cup {a} /\ at' = [at EXCEPT ![r] = "returned"]
        /\ rec' = [rec EXCEPT ![a].prefetch = FALSE, ![a].state = "Failed"]
        /\ resident' = resident /\ source' = source /\ read' = read /\ call' = call
        /\ attached' = attached /\ queue' = queue /\ setting' = setting
    BY <1>a, <1>2 DEF Budget!RecordRefusal, Budget!loadVars, Budget!pumpVars
  <2>2. PICK one \in HeldRecords : /\ one = [rec[a] EXCEPT !.prefetch = FALSE, !.state = "Failed"]
                                   /\ one.current = rec[a].current
    <3>1. rec[a] \in HeldRecords
      BY DEF HeldInv, HeldTyped
    <3>2. [rec[a] EXCEPT !.prefetch = FALSE, !.state = "Failed"] \in HeldRecords
      BY <3>1 DEF HeldRecords, States
    <3>3. [rec[a] EXCEPT !.prefetch = FALSE, !.state = "Failed"].current = rec[a].current
      BY <3>1 DEF HeldRecords
    <3> QED BY <3>2, <3>3
  <2>3. rec' = [rec EXCEPT ![a] = one]
    BY <2>1, <2>2 DEF HeldInv, HeldTyped
  <2>4. rec' \in [BudgetAssets -> HeldRecords]
        /\ \A b \in BudgetAssets : rec'[b].current = rec[b].current
    BY <2>2, <2>3 DEF HeldInv, HeldTyped
  <2>5. HeldTyped'
    BY <1>0, <1>b, <2>1, <2>4 DEF HeldInv, HeldTyped
  <2> QED BY <2>1, <2>4, <2>5, NothingHeld DEF HeldInv
<1>3. CASE Budget!Register(t, r)
  <2>1. /\ known' = known \cup {a} /\ at' = [at EXCEPT ![r] = "returned"]
        /\ \/ rec' = rec
           \/ rec' = [rec EXCEPT ![a] = Budget!Registered(a, r)]
        /\ \/ queue' = queue /\ attached' = attached
           \/ Budget!SubmitAnswers(<<r>>) /\ attached' = attached
           \/ queue' = queue /\ attached' = [attached EXCEPT ![r] = Append(@, r)]
        /\ resident' = resident /\ source' = source /\ read' = read /\ call' = call
        /\ setting' = setting
    BY <1>a, <1>3 DEF Budget!Register, Budget!loadVars
  <2>2. PICK one \in HeldRecords : /\ one = Budget!Registered(a, r)
                                   /\ one.current = rec[a].current
    <3>1. rec[a] \in HeldRecords
      BY DEF HeldInv, HeldTyped
    <3>2. Budget!Registered(a, r) \in HeldRecords
      BY <3>1 DEF HeldRecords, States, Budget!Registered
    <3>3. Budget!Registered(a, r).current = rec[a].current
      BY <3>1 DEF HeldRecords, Budget!Registered
    <3> QED BY <3>2, <3>3
  <2>3. rec' \in [BudgetAssets -> HeldRecords]
        /\ \A b \in BudgetAssets : rec'[b].current = rec[b].current
    <3>1. rec \in [BudgetAssets -> HeldRecords]
      BY DEF HeldInv, HeldTyped
    <3>2. rec' = rec \/ rec' = [rec EXCEPT ![a] = one]
      BY <2>1, <2>2
    <3> QED BY <2>2, <3>1, <3>2
  <2>4. queue' \in Seq(Publications) /\ attached' \in [Requests -> Seq(Requests)]
    <3>1. <<r>> \in Seq(Requests)
      OBVIOUS
    <3>2. CASE Budget!SubmitAnswers(<<r>>) /\ attached' = attached
      BY <3>1, <3>2, BudgetSubmits DEF HeldInv, HeldTyped
    <3>3. CASE queue' = queue /\ attached' = [attached EXCEPT ![r] = Append(@, r)]
      BY <3>3, AppendProperties DEF HeldInv, HeldTyped
    <3>4. CASE queue' = queue /\ attached' = attached
      BY <3>4 DEF HeldInv, HeldTyped
    <3> QED BY <2>1, <3>2, <3>3, <3>4
  <2>5. HeldTyped'
    BY <1>0, <1>b, <2>1, <2>3, <2>4 DEF HeldInv, HeldTyped
  <2> QED BY <2>1, <2>3, <2>5, NothingHeld DEF HeldInv
<1> QED BY <1>1, <1>2, <1>3

\* What the actions outside a request's sections leave alone.
LEMMA CallersKept ==
  ASSUME HeldTyped, call' = call, at' = at
  PROVE  /\ call' \in [Requests -> Callers] /\ at' \in [Requests -> Places]
         /\ \A s \in Requests : at'[s] # "new" => call'[s].asset \in BudgetAssets
BY DEF HeldTyped

LEMMA BudgetStartLoad ==
  ASSUME HeldInv, NEW r \in Requests, Budget!StartLoad(r)
  PROVE  HeldInv'
<1>1. /\ known' = known /\ rec' = rec /\ resident' = resident /\ source' = source
      /\ attached' = attached /\ queue' = queue /\ setting' = setting
      /\ call' = call /\ at' = at
      /\ \/ read' = read
         \/ /\ call[r].asset \in known
            /\ read' = [read EXCEPT ![r].stamp = source[call[r].asset]]
  BY DEF Budget!StartLoad, Budget!recordVars, Budget!futureVars, Budget!pumpVars
<1>2. read' \in [Requests -> HeldGenerations]
  <2>1. CASE /\ call[r].asset \in known
             /\ read' = [read EXCEPT ![r].stamp = source[call[r].asset]]
    <3>1. PICK n \in Nat : n = source[call[r].asset]
      BY <2>1 DEF HeldInv, HeldTyped
    <3>2. read[r] \in HeldGenerations
      BY DEF HeldInv, HeldTyped
    <3>3. [read[r] EXCEPT !.stamp = n] \in HeldGenerations
      BY <3>2 DEF HeldGenerations
    <3> QED BY <2>1, <3>1, <3>3 DEF HeldInv, HeldTyped
  <2> QED BY <1>1, <2>1 DEF HeldInv, HeldTyped
<1>3. HeldTyped'
  BY <1>1, <1>2, CallersKept DEF HeldInv, HeldTyped
<1> QED BY <1>1, <1>3, NothingHeld DEF HeldInv

LEMMA BudgetEndLoad ==
  ASSUME HeldInv, NEW r \in Requests, Budget!EndLoad(r)
  PROVE  HeldInv'
<1>1. /\ known' = known /\ rec' = rec /\ resident' = resident /\ source' = source
      /\ attached' = attached /\ queue' = queue /\ setting' = setting
      /\ call' = call /\ at' = at
      /\ \/ read' = read
         \/ \E n \in BudgetSizes : read' = [read EXCEPT ![r].size = n]
  BY DEF Budget!EndLoad, Budget!recordVars, Budget!futureVars, Budget!pumpVars
<1>2. read' \in [Requests -> HeldGenerations]
  <2>1. ASSUME NEW n \in BudgetSizes, read' = [read EXCEPT ![r].size = n]
        PROVE  read' \in [Requests -> HeldGenerations]
    <3>1. n \in Nat
      BY BudgetBounds
    <3>2. read[r] \in HeldGenerations
      BY DEF HeldInv, HeldTyped
    <3>3. [read[r] EXCEPT !.size = n] \in HeldGenerations
      BY <3>1, <3>2 DEF HeldGenerations
    <3> QED BY <2>1, <3>3 DEF HeldInv, HeldTyped
  <2> QED BY <1>1, <2>1 DEF HeldInv, HeldTyped
<1>3. HeldTyped'
  BY <1>1, <1>2, CallersKept DEF HeldInv, HeldTyped
<1> QED BY <1>1, <1>3, NothingHeld DEF HeldInv

LEMMA BudgetPublication ==
  ASSUME HeldInv, NEW r \in Requests, Budget!SubmitPublication(r)
  PROVE  HeldInv'
<1>1. /\ known' = known /\ rec' = rec /\ resident' = resident /\ source' = source
      /\ read' = read /\ setting' = setting /\ call' = call /\ at' = at
      /\ \/ queue' = Append(queue, [kind |-> "publish", of |-> r]) /\ attached' = attached
         \/ Budget!SubmitAnswers(attached[r]) /\ attached' = [attached EXCEPT ![r] = <<>>]
  BY DEF Budget!SubmitPublication, Budget!recordVars
<1>2. queue' \in Seq(Publications) /\ attached' \in [Requests -> Seq(Requests)]
  <2>1. CASE queue' = Append(queue, [kind |-> "publish", of |-> r]) /\ attached' = attached
    <3>1. [kind |-> "publish", of |-> r] \in Publications
      BY DEF Publications
    <3> QED BY <2>1, <3>1, AppendProperties DEF HeldInv, HeldTyped
  <2>2. CASE Budget!SubmitAnswers(attached[r]) /\ attached' = [attached EXCEPT ![r] = <<>>]
    <3>1. attached[r] \in Seq(Requests) /\ <<>> \in Seq(Requests)
      BY DEF HeldInv, HeldTyped
    <3> QED BY <2>2, <3>1, BudgetSubmits DEF HeldInv, HeldTyped
  <2> QED BY <1>1, <2>1, <2>2
<1>3. HeldTyped'
  BY <1>1, <1>2, CallersKept DEF HeldInv, HeldTyped
<1> QED BY <1>1, <1>3, NothingHeld DEF HeldInv

LEMMA BudgetSettle == ASSUME HeldInv, Budget!Settle PROVE HeldInv'
<1>1. /\ known' = known /\ rec' = rec /\ resident' = resident /\ source' = source
      /\ read' = read /\ setting' = None /\ call' = call /\ at' = at
      /\ setting # None /\ attached' = [attached EXCEPT ![setting] = <<>>]
      /\ Budget!SubmitAnswers(attached[setting])
  BY DEF Budget!Settle, Budget!recordVars, Budget!Continuations
<1>2. attached[setting] \in Seq(Requests) /\ <<>> \in Seq(Requests)
  BY <1>1 DEF HeldInv, HeldTyped
<1>3. queue' \in Seq(Publications)
  BY <1>1, <1>2, BudgetSubmits DEF HeldInv
<1>4. attached' \in [Requests -> Seq(Requests)]
  BY <1>1, <1>2 DEF HeldInv, HeldTyped
<1>5. HeldTyped'
  BY <1>1, <1>3, <1>4, CallersKept DEF HeldInv, HeldTyped
<1> QED BY <1>1, <1>5, NothingHeld DEF HeldInv

LEMMA BudgetAnswer == ASSUME HeldInv, Budget!Answer PROVE HeldInv'
<1>1. /\ known' = known /\ rec' = rec /\ resident' = resident /\ source' = source
      /\ read' = read /\ setting' = setting /\ call' = call /\ at' = at
      /\ attached' = attached /\ queue # <<>> /\ queue' = Tail(queue)
  BY DEF Budget!Answer, Budget!recordVars, Budget!loadVars
<1>2. queue' \in Seq(Publications)
  BY <1>1, HeadTailProperties DEF HeldInv, HeldTyped
<1>3. HeldTyped'
  BY <1>1, <1>2, CallersKept DEF HeldInv, HeldTyped
<1> QED BY <1>1, <1>3, NothingHeld DEF HeldInv

LEMMA BudgetLetsGo ==
  ASSUME HeldInv, NEW r \in Requests, Budget!Cancel(r) \/ Budget!Drop(r) PROVE HeldInv'
<1>1. /\ known' = known /\ rec' = rec /\ resident' = resident /\ source' = source
      /\ read' = read /\ setting' = setting /\ call' = call /\ at' = at
      /\ attached' = attached /\ queue' = queue
  BY DEF Budget!Cancel, Budget!Drop, Budget!recordVars, Budget!loadVars, Budget!futureVars,
         Budget!pumpVars
<1>2. HeldTyped'
  BY <1>1, CallersKept DEF HeldInv, HeldTyped
<1> QED BY <1>1, <1>2, NothingHeld DEF HeldInv

LEMMA BudgetInvalidate ==
  ASSUME HeldInv, NEW t, NEW a \in BudgetAssets, Budget!Invalidate(t, a) PROVE HeldInv'
<1>1. /\ known' = known \cup {a} /\ resident' = resident /\ source' = [source EXCEPT ![a] = @ + 1]
      /\ rec' = [rec EXCEPT ![a] = Budget!Invalidated(a)]
      /\ read' = read /\ setting' = setting /\ call' = call /\ at' = at
      /\ attached' = attached /\ queue' = queue
  BY DEF Budget!Invalidate, Budget!futureVars, Budget!pumpVars
<1>2. PICK one \in HeldRecords : one = Budget!Invalidated(a) /\ one.current = rec[a].current
  <2>1. rec[a] \in HeldRecords
    BY DEF HeldInv, HeldTyped
  <2>2. PICK n \in Nat : n = rec[a].revision + 1
    BY <2>1 DEF HeldRecords
  <2>3. Budget!Invalidated(a) = [rec[a] EXCEPT !.revision = n, !.in_flight = None,
                                               !.state = "Unloaded"]
    BY <2>1, <2>2 DEF HeldRecords, Budget!Invalidated
  <2>4. [rec[a] EXCEPT !.revision = n, !.in_flight = None, !.state = "Unloaded"]
           \in HeldRecords
    BY <2>1 DEF HeldRecords, States
  <2>5. Budget!Invalidated(a).current = rec[a].current
    BY <2>1 DEF HeldRecords, Budget!Invalidated
  <2> QED BY <2>3, <2>4, <2>5
<1>3. rec' \in [BudgetAssets -> HeldRecords]
      /\ \A b \in BudgetAssets : rec'[b].current = rec[b].current
  BY <1>1, <1>2 DEF HeldInv, HeldTyped
<1>4. source' \in [BudgetAssets -> Nat]
  BY <1>1 DEF HeldInv, HeldTyped
<1>5. HeldTyped'
  BY <1>1, <1>3, <1>4, CallersKept DEF HeldInv, HeldTyped
<1> QED BY <1>1, <1>3, <1>5, NothingHeld DEF HeldInv

LEMMA BudgetPublish == ASSUME HeldInv, Budget!Publish PROVE HeldInv'
<1>1. PICK r \in Requests : r = Head(queue).of /\ queue' \in Seq(Publications)
  <2>1. queue # <<>> /\ queue' = Tail(queue) /\ queue \in Seq(Publications)
    BY DEF Budget!Publish, HeldInv, HeldTyped
  <2>2. queue' \in Seq(Publications) /\ Head(queue) \in Publications
    BY <2>1, HeadTailProperties
  <2> QED BY <2>2 DEF Publications
<1>2. /\ known' = known /\ source' = source /\ attached' = attached /\ call' = call
      /\ at' = at /\ setting' = r
  BY <1>1 DEF Budget!Publish, Budget!futureVars
<1>3. CASE Budget!Stale(r)
  <2>1. rec' = rec /\ resident' = resident /\ read' = read
    BY <1>1, <1>3 DEF Budget!Publish
  <2>2. HeldTyped'
    BY <1>1, <1>2, <2>1, CallersKept DEF HeldInv, HeldTyped
  <2> QED BY <2>1, <2>2, NothingHeld DEF HeldInv
<1>4. CASE ~Budget!Stale(r)
  <2>1. PICK a \in BudgetAssets : a = call[r].asset
    BY <1>4 DEF Budget!Stale, HeldInv, HeldTyped
  <2>2. rec[a] \in HeldRecords /\ read[r] \in HeldGenerations
    BY DEF HeldInv, HeldTyped
  <2>3. PICK g \in HeldGenerations : /\ g = [read[r] EXCEPT !.number = rec[a].generation + 1]
                                     /\ g.size = read[r].size
    <3>1. PICK n \in Nat : n = rec[a].generation + 1
      BY <2>2 DEF HeldRecords
    <3>2. [read[r] EXCEPT !.number = n] \in HeldGenerations
          /\ [read[r] EXCEPT !.number = n].size = read[r].size
      BY <2>2 DEF HeldGenerations
    <3> QED BY <3>1, <3>2
  <2>4. PICK s \in Nat : s = read[r].size
    BY <2>2 DEF HeldGenerations
  <2>5. CASE result[r] = "ok" /\ Budget!Bytes(r) <= BudgetBytes
    <3>1. /\ rec' = [rec EXCEPT ![a] = [Budget!Published(a) EXCEPT !.generation = @ + 1,
                                           !.current = g, !.state = "Ready"]]
          /\ resident' = Budget!Bytes(r) /\ read' = [read EXCEPT ![r] = g]
      BY <1>1, <1>4, <2>1, <2>3, <2>5 DEF Budget!Publish
    <3>2. PICK one \in HeldRecords :
             /\ one = [Budget!Published(a) EXCEPT !.generation = @ + 1,
                                              !.current = g, !.state = "Ready"]
             /\ one.current = g
      <4>1. PICK n \in Nat : n = rec[a].generation + 1
        BY <2>2 DEF HeldRecords
      <4>2. PICK p \in HeldRecords : p = Budget!Published(a) /\ p.generation = rec[a].generation
        <5>1. Budget!Published(a) \in HeldRecords
          BY <2>2 DEF HeldRecords, Budget!Published
        <5>2. Budget!Published(a).generation = rec[a].generation
          BY <2>2 DEF HeldRecords, Budget!Published
        <5> QED BY <5>1, <5>2
      <4>3. [p EXCEPT !.generation = n, !.current = g, !.state = "Ready"] \in HeldRecords
            /\ [p EXCEPT !.generation = n, !.current = g, !.state = "Ready"].current = g
        BY DEF HeldRecords, States
      <4>4. [p EXCEPT !.generation = @ + 1, !.current = g, !.state = "Ready"]
               = [p EXCEPT !.generation = n, !.current = g, !.state = "Ready"]
        BY <4>1, <4>2
      <4> QED BY <4>2, <4>3, <4>4
    <3>3. /\ rec' \in [BudgetAssets -> HeldRecords] /\ read' \in [Requests -> HeldGenerations]
          /\ \A b \in BudgetAssets :
                rec'[b].current.size = IF b = a THEN s ELSE rec[b].current.size
      BY <2>3, <2>4, <3>1, <3>2 DEF HeldInv, HeldTyped
    <3>4. HeldTyped'
      BY <1>1, <1>2, <3>3, CallersKept DEF HeldInv, HeldTyped
    <3>5. PICK v : v = Budget!Bytes(r)
      OBVIOUS
    <3>6. v = resident - rec[a].current.size + s
      BY <2>1, <2>4, <3>5 DEF Budget!Bytes
    <3>7. HeldExact'
      BY <2>5, <3>1, <3>3, <3>5, <3>6, OneHeld DEF HeldInv
    <3> QED BY <3>4, <3>7 DEF HeldInv
  <2>6. CASE ~(result[r] = "ok" /\ Budget!Bytes(r) <= BudgetBytes)
    <3>1. /\ rec' = [rec EXCEPT ![a] = Budget!FailedRecord(a)]
          /\ resident' = resident /\ read' = read
      BY <1>1, <1>4, <2>1, <2>6 DEF Budget!Publish
    <3>2. PICK one \in HeldRecords : one = Budget!FailedRecord(a) /\ one.current = rec[a].current
      <4>1. Budget!FailedRecord(a) \in HeldRecords
        BY <2>2 DEF HeldRecords, States, Budget!FailedRecord, Budget!Published
      <4>2. Budget!FailedRecord(a).current = rec[a].current
        BY <2>2 DEF HeldRecords, Budget!FailedRecord, Budget!Published
      <4> QED BY <4>1, <4>2
    <3>3. rec' \in [BudgetAssets -> HeldRecords]
          /\ \A b \in BudgetAssets : rec'[b].current = rec[b].current
      BY <3>1, <3>2 DEF HeldInv, HeldTyped
    <3>4. HeldTyped'
      BY <1>1, <1>2, <3>1, <3>3, CallersKept DEF HeldInv, HeldTyped
    <3> QED BY <3>1, <3>3, <3>4, NothingHeld DEF HeldInv
  <2> QED BY <2>5, <2>6
<1> QED BY <1>3, <1>4

LEMMA BudgetRelease == ASSUME HeldInv, NEW t, Budget!ReleaseUnused(t) PROVE HeldInv'
<1> PICK idle : idle = {a \in known : /\ Budget!Resident(a) /\ ~Budget!Leased(a)
                                      /\ rec[a].in_flight = None}
  OBVIOUS
<1> PICK released :
      released = [a \in BudgetAssets |->
            IF a \in idle
            THEN [rec[a] EXCEPT !.current = Budget!NoGeneration, !.state = "Unloaded"]
            ELSE rec[a]]
  OBVIOUS
<1> PICK erased :
      erased = {a \in known : /\ released[a].current = Budget!NoGeneration
                              /\ rec[a].in_flight = None /\ rec[a].revision = 0}
  OBVIOUS
<1>1. /\ rec' = [a \in BudgetAssets |-> IF a \in erased THEN Budget!FreshRecord ELSE released[a]]
      /\ known' = known \ erased
      /\ resident' = resident - Budget!Total([a \in BudgetAssets |->
                                    IF a \in idle THEN rec[a].current.size ELSE 0])
      /\ source' = source /\ read' = read /\ setting' = setting /\ call' = call /\ at' = at
      /\ attached' = attached /\ queue' = queue
  BY DEF Budget!ReleaseUnused, Budget!loadVars, Budget!futureVars, Budget!pumpVars
<1>2. rec \in [BudgetAssets -> HeldRecords]
  BY DEF HeldInv, HeldTyped
<1>3. PICK no \in HeldGenerations : no = Budget!NoGeneration /\ no.size = 0
  <2>1. Budget!NoGeneration \in HeldGenerations /\ Budget!NoGeneration.size = 0
    BY DEF Budget!NoGeneration, HeldGenerations
  <2> QED BY <2>1
<1>4. PICK fresh \in HeldRecords : fresh = Budget!FreshRecord /\ fresh.current = no
  <2>1. Budget!FreshRecord \in HeldRecords /\ Budget!FreshRecord.current = no
    BY <1>3 DEF Budget!FreshRecord, HeldRecords, States
  <2> QED BY <2>1
<1>5. ASSUME NEW a \in BudgetAssets
      PROVE  /\ released[a] \in HeldRecords
             /\ released[a].current = IF a \in idle THEN no ELSE rec[a].current
  <2>1. rec[a] \in HeldRecords
    BY <1>2
  <2>2. [rec[a] EXCEPT !.current = no, !.state = "Unloaded"] \in HeldRecords
        /\ [rec[a] EXCEPT !.current = no, !.state = "Unloaded"].current = no
    BY <2>1 DEF HeldRecords, States
  <2>3. released[a] = IF a \in idle THEN [rec[a] EXCEPT !.current = no, !.state = "Unloaded"]
                      ELSE rec[a]
    BY <1>3
  <2> QED BY <2>1, <2>2, <2>3
<1>6. ASSUME NEW a \in BudgetAssets
      PROVE  /\ rec'[a] \in HeldRecords
             /\ rec'[a].current = IF a \in idle THEN no ELSE rec[a].current
  <2>1. CASE a \in erased
    <3>1. rec'[a] = fresh /\ released[a].current = no
      BY <1>1, <1>3, <1>4, <2>1
    <3> QED BY <1>4, <1>5, <3>1
  <2>2. CASE a \notin erased
    <3>1. rec'[a] = released[a]
      BY <1>1, <2>2
    <3> QED BY <1>5, <3>1
  <2> QED BY <2>1, <2>2
<1>7. rec' \in [BudgetAssets -> HeldRecords]
  BY <1>1, <1>6
<1>8. HeldTyped'
  <2>1. known' \subseteq BudgetAssets
    BY <1>1 DEF HeldInv, HeldTyped
  <2> QED BY <1>1, <1>7, <2>1, CallersKept DEF HeldInv, HeldTyped
<1>9. PICK size : size = [a \in BudgetAssets |-> rec[a].current.size]
  OBVIOUS
<1>10. size \in [BudgetAssets -> Nat]
  <2>1. ASSUME NEW a \in BudgetAssets PROVE rec[a].current.size \in Nat
    <3>1. rec[a] \in HeldRecords
      BY <1>2
    <3>2. rec[a].current \in HeldGenerations
      BY <3>1 DEF HeldRecords
    <3> QED BY <3>2 DEF HeldGenerations
  <2> QED BY <1>9, <2>1
<1>11. Held(rec) = size
  BY <1>9 DEF Held
<1>12. PICK g : g = [a \in BudgetAssets |-> IF a \in idle THEN 0 ELSE size[a]]
  OBVIOUS
<1>13. PICK h : h = [a \in BudgetAssets |-> IF a \in idle THEN size[a] ELSE 0]
  OBVIOUS
<1>14. Held(rec') = g
  <2>1. \A a \in BudgetAssets : rec'[a].current.size = IF a \in idle THEN 0 ELSE size[a]
    BY <1>3, <1>6, <1>9
  <2> QED BY <1>12, <2>1 DEF Held
<1>15. [a \in BudgetAssets |-> IF a \in idle THEN rec[a].current.size ELSE 0] = h
  BY <1>9, <1>13
<1>16. /\ Budget!Total(size) \in Int /\ Budget!Total(g) \in Int /\ Budget!Total(h) \in Int
       /\ Budget!Total(size) - Budget!Total(h) = Budget!Total(g)
       /\ Budget!Total(g) <= Budget!Total(size)
  BY ONLY <1>10, <1>12, <1>13, TotalOfParts
<1>17. HeldExact'
  <2>1. PICK all : all = Budget!Total(size)
    OBVIOUS
  <2>2. PICK left : left = Budget!Total(g)
    OBVIOUS
  <2>3. all \in Int /\ left \in Int /\ all - Budget!Total(h) = left /\ left <= all
    BY <1>16, <2>1, <2>2
  <2>4. all = resident /\ all <= BudgetBytes /\ BudgetBytes \in Int
    <3>1. resident = Budget!Total(Held(rec)) /\ resident <= BudgetBytes
      BY DEF HeldInv, HeldExact
    <3>2. BudgetBytes \in Int
      <4>1. BudgetBytes \in Nat
        BY BudgetBounds
      <4> QED BY ONLY <4>1
    <3>3. all = resident
      BY <1>11, <2>1, <3>1
    <3> QED BY ONLY <3>1, <3>2, <3>3
  <2>5. left <= BudgetBytes
    BY ONLY <2>3, <2>4
  <2>6. resident' = left
    BY <1>1, <1>15, <2>3, <2>4
  <2> QED BY <1>14, <2>2, <2>5, <2>6 DEF HeldExact
<1> QED BY <1>8, <1>17 DEF HeldInv

LEMMA BudgetRange ==
  ASSUME NEW b \in Seq(BudgetAssets)
  PROVE  /\ Budget!Range(b) \subseteq BudgetAssets
         /\ \A a : a \in Budget!Range(b) <=> \E k \in 1..Len(b) : b[k] = a
<1>1. DOMAIN b = 1..Len(b) /\ \A k \in 1..Len(b) : b[k] \in BudgetAssets
  BY LenProperties, ElementOfSeq
<1> QED BY <1>1 DEF Budget!Range

LEMMA BudgetBatch ==
  ASSUME HeldInv, NEW t, NEW b \in BudgetBatches, NEW size \in [DOMAIN b -> BudgetSizes],
         Budget!PublishAtomic(t, b, size)
  PROVE  HeldInv'
<1>1. PICK n \in Nat : n = Len(b)
  BY BudgetBounds, LenProperties
<1>2. /\ b \in Seq(BudgetAssets) /\ DOMAIN b = 1..n /\ b \in [1..n -> BudgetAssets]
      /\ \A j, k \in 1..n : b[j] = b[k] => j = k
  BY <1>1, BudgetBounds, LenProperties
<1>3. size \in [1..n -> Nat]
  BY <1>2, BudgetBounds
<1>4. PICK held \in [BudgetAssets -> Nat] : held = Held(rec)
  <2>1. ASSUME NEW a \in BudgetAssets PROVE rec[a].current.size \in Nat
    <3>1. rec[a] \in HeldRecords
      BY DEF HeldInv, HeldTyped
    <3>2. rec[a].current \in HeldGenerations
      BY <3>1 DEF HeldRecords
    <3> QED BY <3>2 DEF HeldGenerations
  <2>2. Held(rec) \in [BudgetAssets -> Nat]
    BY <2>1 DEF Held
  <2> QED BY <2>2
<1>5. \A a \in BudgetAssets : held[a] = rec[a].current.size
  BY <1>4 DEF Held
<1>6. PICK all \in Int : all = resident /\ all = Budget!Total(held)
  <2>1. resident = Budget!Total(held)
    BY <1>4 DEF HeldInv, HeldExact
  <2>2. held \in [BudgetAssets -> Int]
    OBVIOUS
  <2>3. Budget!Total(held) \in Int
    BY ONLY <2>2, TotalTyped
  <2> QED BY <2>1, <2>3
<1> DEFINE Admits(d) == d = [k \in 0..Len(b) |-> IF k = 0 THEN resident
                               ELSE d[k - 1] - rec[b[k]].current.size + size[k]]
<1>7. PICK d : d = CHOOSE c : Admits(c)
  OBVIOUS
<1>8. /\ \A a \in Budget!Range(b) : source[a] < BudgetSource
      /\ \A k \in DOMAIN b : d[k] <= BudgetBytes
      /\ source' = [a \in BudgetAssets |->
                       IF a \in Budget!Range(b) THEN source[a] + 1 ELSE source[a]]
      /\ known' = known \cup Budget!Range(b)
      /\ rec' = [a \in BudgetAssets |->
           IF a \notin Budget!Range(b) THEN rec[a]
           ELSE [rec[a] EXCEPT !.in_flight = None, !.prefetch = FALSE,
                    !.generation = @ + 1, !.state = "Ready",
                    !.current = [number |-> rec[a].generation + 1,
                                 stamp |-> source[a] + 1,
                                 size |-> size[CHOOSE k \in DOMAIN b : b[k] = a]]]]
      /\ resident' = d[Len(b)]
      /\ read' = read /\ setting' = setting /\ call' = call /\ at' = at
      /\ attached' = attached /\ queue' = queue
  BY <1>7 DEF Budget!PublishAtomic, Budget!futureVars, Budget!pumpVars
<1>9. Admits(d)
  <2>1. PICK step : step = [k \in 1..n |-> [w \in Int |-> w - held[b[k]] + size[k]]]
    OBVIOUS
  <2>2. ASSUME NEW k \in 1..n PROVE held[b[k]] \in Int /\ size[k] \in Int /\ b[k] \in BudgetAssets
    BY <1>2, <1>3
  <2>3. step \in Steps(n, Int)
    BY <2>1, <2>2 DEF Steps
  <2>4. PICK c : FoldOf(c, n, Int, all, step)
    BY <2>3, FoldExists
  <2>5. c \in [0..n -> Int] /\ c[0] = all /\ \A k \in 1..n : c[k] = step[k][c[k - 1]]
    BY <2>4 DEF FoldOf
  <2>6. ASSUME NEW k \in 0..n
        PROVE  c[k] = IF k = 0 THEN resident
                      ELSE c[k - 1] - rec[b[k]].current.size + size[k]
    <3>1. CASE k # 0
      <4>1. k \in 1..n /\ k - 1 \in 0..n /\ c[k - 1] \in Int
        BY <2>5, <3>1
      <4>2. c[k] = c[k - 1] - held[b[k]] + size[k]
        BY <2>1, <2>5, <4>1
      <4>3. held[b[k]] = rec[b[k]].current.size
        BY <1>5, <2>2, <4>1
      <4> QED BY <3>1, <4>2, <4>3
    <3> QED BY <1>6, <2>5, <3>1
  <2>7. Admits(c)
    BY <1>1, <2>5, <2>6
  <2> QED BY <1>7, <2>7
<1>10. /\ d[0] = all
       /\ \A k \in 1..n : d[k] = d[k - 1] - held[b[k]] + size[k]
  <2>1. d[0] = resident
    BY <1>1, <1>9
  <2>2. ASSUME NEW k \in 1..n PROVE d[k] = d[k - 1] - held[b[k]] + size[k]
    <3>1. k \in 0..Len(b) /\ k # 0 /\ b[k] \in BudgetAssets
      BY <1>1, <1>2
    <3>2. d[k] = d[k - 1] - rec[b[k]].current.size + size[k]
      BY <1>9, <3>1
    <3> QED BY <1>5, <3>1, <3>2
  <2> QED BY <1>6, <2>1, <2>2
<1> HIDE DEF Admits
<1>11. /\ Budget!Range(b) \subseteq BudgetAssets
       /\ \A a : a \in Budget!Range(b) <=> \E k \in 1..n : b[k] = a
  BY <1>1, <1>2, BudgetRange
<1>12. ASSUME NEW a \in BudgetAssets
       PROVE  /\ rec'[a] \in HeldRecords
              /\ a \notin Budget!Range(b) => rec'[a].current.size = held[a]
              /\ \A k \in 1..n : b[k] = a => rec'[a].current.size = size[k]
  <2>1. rec[a] \in HeldRecords /\ source[a] \in Nat
    BY DEF HeldInv, HeldTyped
  <2>2. CASE a \notin Budget!Range(b)
    BY <1>5, <1>8, <1>11, <2>1, <2>2
  <2>3. CASE a \in Budget!Range(b)
    <3>1. PICK k \in 1..n : b[k] = a
      BY <1>11, <2>3
    <3>2. (CHOOSE j \in DOMAIN b : b[j] = a) = k
      BY <1>2, <3>1
    <3>3. PICK s \in Nat : s = size[k]
      BY <1>3
    <3>4. PICK m \in Nat : m = rec[a].generation + 1
      BY <2>1 DEF HeldRecords
    <3>5. PICK g \in HeldGenerations :
             g = [number |-> m, stamp |-> source[a] + 1, size |-> s] /\ g.size = s
      <4>1. [number |-> m, stamp |-> source[a] + 1, size |-> s] \in HeldGenerations
        BY <2>1 DEF HeldGenerations
      <4> QED BY <4>1
    <3>6. rec'[a] = [rec[a] EXCEPT !.in_flight = None, !.prefetch = FALSE,
                        !.generation = m, !.state = "Ready", !.current = g]
      <4>1. rec'[a] = [rec[a] EXCEPT !.in_flight = None, !.prefetch = FALSE,
                        !.generation = @ + 1, !.state = "Ready",
                        !.current = [number |-> rec[a].generation + 1,
                                     stamp |-> source[a] + 1,
                                     size |-> size[CHOOSE j \in DOMAIN b : b[j] = a]]]
        BY <1>8, <2>3
      <4> QED BY <2>1, <3>2, <3>3, <3>4, <3>5, <4>1 DEF HeldRecords
    <3>7. [rec[a] EXCEPT !.in_flight = None, !.prefetch = FALSE, !.generation = m,
                         !.state = "Ready", !.current = g] \in HeldRecords
      BY <2>1 DEF HeldRecords, States
    <3>8. [rec[a] EXCEPT !.in_flight = None, !.prefetch = FALSE, !.generation = m,
                         !.state = "Ready", !.current = g].current = g
      BY <2>1 DEF HeldRecords
    <3>9. rec'[a] \in HeldRecords /\ rec'[a].current.size = s
      BY <3>5, <3>6, <3>7, <3>8
    <3>10. \A j \in 1..n : b[j] = a => j = k
      BY <1>2, <3>1
    <3> QED BY <2>3, <3>3, <3>9, <3>10
  <2> QED BY <2>2, <2>3
<1>13. HeldTyped'
  <2>1. rec' \in [BudgetAssets -> HeldRecords]
    BY <1>8, <1>12
  <2>2. source' \in [BudgetAssets -> Nat]
    <3>1. ASSUME NEW a \in BudgetAssets PROVE source[a] \in Nat /\ source[a] + 1 \in Nat
      BY DEF HeldInv, HeldTyped
    <3> QED BY <1>8, <3>1, Zenon
  <2>3. known' \subseteq BudgetAssets
    BY <1>8, <1>11 DEF HeldInv, HeldTyped
  <2> QED BY <1>8, <2>1, <2>2, <2>3, CallersKept DEF HeldInv, HeldTyped
<1>14. PICK new \in [BudgetAssets -> Int] : new = Held(rec')
  <2>1. ASSUME NEW a \in BudgetAssets PROVE rec'[a].current.size \in Int
    <3>1. rec'[a].current \in HeldGenerations
      BY <1>12 DEF HeldRecords
    <3> QED BY <3>1 DEF HeldGenerations
  <2>2. Held(rec') \in [BudgetAssets -> Int]
    BY <2>1 DEF Held
  <2> QED BY <2>2
<1>15. \A a \in BudgetAssets : new[a] = rec'[a].current.size
  BY <1>14 DEF Held
<1>16. \A k \in 1..n : new[b[k]] = size[k]
  BY <1>2, <1>12, <1>15
<1>17. \A a \in BudgetAssets : (\A k \in 1..n : b[k] # a) => new[a] = held[a]
  BY <1>11, <1>12, <1>15
<1>18. d[n] = Budget!Total(new)
  <2>1. d[0] = Budget!Total(held)
    BY <1>6, <1>10
  <2>2. size \in [1..n -> Int] /\ held \in [BudgetAssets -> Int]
    BY <1>3
  <2>3. Replaces(n, b, size, held, d, new)
    BY <1>2, <1>10, <1>16, <1>17, <2>1, <2>2 DEF Replaces
  <2> QED BY <2>3, BatchTotal
<1>19. d[n] <= BudgetBytes
  <2>1. CASE n = 0
    BY <1>6, <1>10, <2>1 DEF HeldInv, HeldExact
  <2>2. CASE n # 0
    <3>1. n \in DOMAIN b
      BY <1>2, <2>2
    <3> QED BY <1>8, <3>1
  <2> QED BY <2>1, <2>2
<1>20. HeldExact'
  BY <1>1, <1>8, <1>14, <1>18, <1>19 DEF HeldExact
<1> QED BY <1>13, <1>20 DEF HeldInv

LEMMA BudgetBegin == Budget!Init => HeldInv
<1> SUFFICES ASSUME Budget!Init PROVE HeldInv
  OBVIOUS
<1>1. PICK no \in HeldGenerations : no = Budget!NoGeneration /\ no.size = 0
  <2>1. Budget!NoGeneration \in HeldGenerations /\ Budget!NoGeneration.size = 0
    BY DEF Budget!NoGeneration, HeldGenerations
  <2> QED BY <2>1
<1>2. PICK fresh \in HeldRecords : fresh = Budget!FreshRecord /\ fresh.current = no
  <2>1. Budget!FreshRecord \in HeldRecords /\ Budget!FreshRecord.current = no
    BY <1>1 DEF Budget!FreshRecord, HeldRecords, States
  <2> QED BY <2>1
<1>3. HeldTyped
  <2>1. /\ known = {} /\ rec = [a \in BudgetAssets |-> fresh]
        /\ source = [a \in BudgetAssets |-> 0] /\ read = [r \in Requests |-> no]
        /\ at = [r \in Requests |-> "new"] /\ attached = [r \in Requests |-> <<>>]
        /\ queue = <<>> /\ setting = None
        /\ call = [r \in Requests |->
                      [asset |-> None, prefetch |-> FALSE, revision |-> 0, born |-> 0]]
    BY <1>1, <1>2 DEF Budget!Init
  <2>2. [asset |-> None, prefetch |-> FALSE, revision |-> 0, born |-> 0] \in Callers
    BY DEF Callers
  <2>3. <<>> \in Seq(Publications) /\ <<>> \in Seq(Requests) /\ "new" \in Places
    BY DEF Places
  <2> QED BY <2>1, <2>2, <2>3 DEF HeldTyped
<1>4. PICK zero \in [BudgetAssets -> Int] : zero = Held(rec) /\ \A a \in BudgetAssets : zero[a] = 0
  <2>1. \A a \in BudgetAssets : rec[a].current.size = 0
    BY <1>1, <1>2 DEF Budget!Init
  <2>2. Held(rec) \in [BudgetAssets -> Int] /\ \A a \in BudgetAssets : Held(rec)[a] = 0
    BY <2>1 DEF Held
  <2> QED BY <2>2
<1>5. Budget!Total(zero) = Budget!Total(zero) + Budget!Total(zero)
  <2>1. \A a \in BudgetAssets : zero[a] = zero[a] + zero[a]
    BY <1>4
  <2> QED BY <2>1, TotalSplits
<1>6. PICK z \in Int : z = Budget!Total(zero)
  BY TotalTyped
<1>7. z = 0
  <2>1. z = z + z
    BY <1>5, <1>6
  <2> QED BY <2>1
<1>8. resident = 0 /\ BudgetBytes \in Nat
  BY BudgetBounds DEF Budget!Init
<1>9. HeldExact
  BY <1>4, <1>6, <1>7, <1>8 DEF HeldExact
<1> QED BY <1>3, <1>9 DEF HeldInv

LEMMA BudgetSteps == HeldInv /\ [Budget!Next]_vars => HeldInv'
<1> SUFFICES ASSUME HeldInv, [Budget!Next]_vars PROVE HeldInv'
  OBVIOUS
<1>1. ASSUME NEW t \in BudgetThreads, Budget!Calls(t) PROVE HeldInv'
  <2>1. ASSUME NEW r \in Requests, NEW a \in BudgetAssets, NEW p \in BOOLEAN,
               \/ Budget!Refused(t, r, a, p) \/ Budget!Join(t, r, a, p)
               \/ Budget!UseResident(t, r, a, p) \/ Budget!StartRequest(t, r, a, p)
        PROVE  HeldInv'
    BY <2>1, BudgetRefused, BudgetJoin, BudgetUseResident, BudgetStart
  <2>2. ASSUME NEW a \in BudgetAssets, Budget!Invalidate(t, a) PROVE HeldInv'
    BY <2>2, BudgetInvalidate
  <2>3. CASE Budget!ReleaseUnused(t)
    BY <2>3, BudgetRelease
  <2>4. ASSUME NEW b \in BudgetBatches, NEW size \in [DOMAIN b -> BudgetSizes],
               Budget!PublishAtomic(t, b, size)
        PROVE  HeldInv'
    BY <2>4, BudgetBatch
  <2> QED BY <1>1, <2>1, <2>2, <2>3, <2>4 DEF Budget!Calls
<1>2. ASSUME NEW t \in BudgetThreads, Budget!Goes(t) PROVE HeldInv'
  BY <1>2, BudgetGoes DEF Budget!Goes
<1>3. ASSUME NEW r \in Requests, Budget!Loading(r) \/ Budget!Cancel(r) \/ Budget!Drop(r)
      PROVE  HeldInv'
  BY <1>3, BudgetStartLoad, BudgetEndLoad, BudgetPublication, BudgetLetsGo DEF Budget!Loading
<1>4. CASE Budget!Pump
  BY <1>4, BudgetPublish, BudgetSettle, BudgetAnswer DEF Budget!Pump
<1>5. CASE UNCHANGED vars
  BY <1>5 DEF vars, HeldInv, HeldTyped, HeldExact
<1> QED BY <1>1, <1>2, <1>3, <1>4, <1>5 DEF Budget!Next

\* Whoever requests what while what is refused, the prefetch slots cover the
\* records being prefetched and stay within max_prefetch_requests; and whatever
\* loads, batches and releases replace or let go, resident_bytes is the sum of
\* the resident generations and within max_resident_bytes.  The batches are of
\* the second part; in the first, products come from loads alone.
THEOREM AccountsExact == Batches = {} => (ManagerSpec => []WithinBounds)
<1> SUFFICES ASSUME Batches = {} PROVE ManagerSpec => []WithinBounds
  OBVIOUS
<1> DEFINE Inv == IF part = "callers" THEN FreshInv /\ BoundsInv ELSE HeldInv
<1>1. ManagerInit => Inv
  BY FreshBegins, BoundsBegin, BudgetBegin DEF ManagerInit
<1>2. Inv /\ [ManagerNext]_<<part, vars>> => Inv'
  <2> SUFFICES ASSUME Inv, [ManagerNext]_<<part, vars>> PROVE Inv'
    OBVIOUS
  <2>1. part' = part
    BY DEF ManagerNext
  <2>2. CASE part = "callers"
    <3>1. [Next]_vars
      BY <2>2 DEF ManagerNext
    <3> QED BY <2>1, <2>2, <3>1, FreshSteps, BoundsSteps
  <2>3. CASE part # "callers"
    <3>1. [Budget!Next]_vars
      BY <2>3 DEF ManagerNext
    <3> QED BY <2>1, <2>3, <3>1, BudgetSteps
  <2> QED BY <2>2, <2>3
<1>3. Inv => WithinBounds
  BY DEF BoundsInv, Prefetched, PrefetchesBounded, WithinBounds, HeldInv, HeldExact, Held,
         Budget!ResidentAccounted
<1> QED BY <1>1, <1>2, <1>3, PTL DEF ManagerSpec
=============================================================================
