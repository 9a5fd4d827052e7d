--------------------------- MODULE SequenceFacts --------------------------
(* Facts about sequences that the proofs on the work queues share: moving a  *)
(* work from one queue to another keeps their concatenation, and the parts   *)
(* of a sequence without repetitions have nothing in common.                 *)
EXTENDS SequenceTheorems, FiniteSetTheorems, TLAPS

\* Nothing occurs twice in s.
Distinct(s) == \A j, k \in 1..Len(s) : s[j] = s[k] => j = k

\* Moving the head of the second sequence to the end of the first one leaves
\* their concatenation as it was.
LEMMA MoveHead ==
  ASSUME NEW S, NEW s \in Seq(S), NEW q \in Seq(S), q # <<>>
  PROVE  Append(s, Head(q)) \o Tail(q) = s \o q
<1>1. Head(q) \in S /\ Tail(q) \in Seq(S) /\ Len(Tail(q)) = Len(q) - 1
      /\ \A i \in 1..Len(Tail(q)) : Tail(q)[i] = q[i + 1]
  BY HeadTailProperties
<1>2. Append(s, Head(q)) \in Seq(S) /\ Len(Append(s, Head(q))) = Len(s) + 1
  BY <1>1
<1>3. /\ Append(s, Head(q)) \o Tail(q) \in Seq(S)
      /\ s \o q \in Seq(S)
      /\ Len(Append(s, Head(q)) \o Tail(q)) = Len(s \o q)
  BY <1>1, <1>2, LenProperties, EmptySeq
<1>4. ASSUME NEW i \in 1..Len(s \o q)
      PROVE  (Append(s, Head(q)) \o Tail(q))[i] = (s \o q)[i]
  BY <1>1, <1>2, <1>3, LenProperties, ConcatProperties, AppendProperties
<1> QED BY <1>3, <1>4, SeqEqual

\* Appending to the second sequence appends to the concatenation.
LEMMA AppendConcat ==
  ASSUME NEW S, NEW s \in Seq(S), NEW q \in Seq(S), NEW e \in S
  PROVE  s \o Append(q, e) = Append(s \o q, e)
<1>1. <<e>> \in Seq(S) /\ s \o q \in Seq(S)
  OBVIOUS
<1>2. s \o Append(q, e) = s \o (q \o <<e>>)
  BY AppendIsConcat
<1>3. Append(s \o q, e) = (s \o q) \o <<e>>
  BY <1>1, AppendIsConcat
<1> QED BY <1>1, <1>2, <1>3, ConcatAssociative

\* Append adds its element to the range.
LEMMA RangeAppend ==
  ASSUME NEW S, NEW s \in Seq(S), NEW e \in S
  PROVE  Range(Append(s, e)) = Range(s) \cup {e}
<1>1. /\ Append(s, e) \in Seq(S) /\ Len(Append(s, e)) = Len(s) + 1
      /\ \A i \in 1..Len(s) : Append(s, e)[i] = s[i]
      /\ Append(s, e)[Len(s) + 1] = e
      /\ Len(s) \in Nat
  BY AppendProperties, LenProperties
<1>2. /\ Range(s) = {s[i] : i \in 1..Len(s)}
      /\ Range(Append(s, e)) = {Append(s, e)[i] : i \in 1..(Len(s) + 1)}
  BY <1>1, RangeEquality
<1>3. 1..(Len(s) + 1) = (1..Len(s)) \cup {Len(s) + 1}
  BY <1>1
<1> QED BY <1>1, <1>2, <1>3

\* In a sequence without repetitions the two parts of a concatenation have no
\* element in common.
LEMMA DistinctParts ==
  ASSUME NEW S, NEW s \in Seq(S), NEW t \in Seq(S),
         Distinct(s \o t)
  PROVE  Range(s) \cap Range(t) = {}
<1>1. Len(s \o t) = Len(s) + Len(t) /\ Len(s) \in Nat /\ Len(t) \in Nat
  BY ConcatProperties, LenProperties
<1>2. \A k \in 1..Len(s \o t) :
          (s \o t)[k] = IF k <= Len(s) THEN s[k] ELSE t[k - Len(s)]
  BY <1>1, ConcatProperties
<1>3. ASSUME NEW j \in 1..Len(s), NEW k \in 1..Len(t), s[j] = t[k]
      PROVE  FALSE
  <2>1. /\ j \in 1..Len(s \o t) /\ (s \o t)[j] = s[j]
        /\ k + Len(s) \in 1..Len(s \o t) /\ (s \o t)[k + Len(s)] = t[k]
    BY <1>1, <1>2
  <2>2. j = k + Len(s)
    BY <1>3, <2>1 DEF Distinct
  <2> QED BY <1>1, <2>2
<1> QED BY <1>3 DEF Range

\* The range of four sequences put together, and what they have in common when
\* nothing is repeated in them.
LEMMA FourParts ==
  ASSUME NEW S, NEW a \in Seq(S), NEW b \in Seq(S), NEW c \in Seq(S), NEW d \in Seq(S)
  PROVE  /\ Range(a \o b \o c \o d)
               = Range(a) \cup Range(b) \cup Range(c) \cup Range(d)
         /\ Distinct(a \o b \o c \o d) =>
               /\ Range(a) \cap Range(b) = {}
               /\ (Range(a) \cup Range(b) \cup Range(c)) \cap Range(d) = {}
<1> DEFINE ab == a \o b
           abc == ab \o c
           all == abc \o d
<1>1. ab \in Seq(S) /\ Range(ab) = Range(a) \cup Range(b)
  BY RangeConcatenation
<1> HIDE DEF ab
<1>2. abc \in Seq(S) /\ Range(abc) = Range(ab) \cup Range(c)
  BY <1>1, RangeConcatenation
<1> HIDE DEF abc
<1>3. all = abc \o d
  OBVIOUS
<1> HIDE DEF all
<1>4. Range(all) = Range(abc) \cup Range(d)
  BY <1>2, <1>3, RangeConcatenation
<1>5. ASSUME Distinct(all)
      PROVE  /\ Range(a) \cap Range(b) = {}
             /\ (Range(a) \cup Range(b) \cup Range(c)) \cap Range(d) = {}
  <2>1. Range(abc) \cap Range(d) = {}
    BY <1>2, <1>3, <1>5, DistinctParts
  <2>2. Distinct(ab)
    <3>1. /\ Len(abc) = Len(ab) + Len(c) /\ Len(all) = Len(abc) + Len(d)
          /\ Len(ab) \in Nat /\ Len(c) \in Nat /\ Len(d) \in Nat
      BY <1>1, <1>2, <1>3, ConcatProperties, LenProperties DEF abc
    <3>2. \A j \in 1..Len(abc) : abc[j] = all[j]
      BY <1>2, <1>3, <3>1, ConcatProperties
    <3>3. \A j \in 1..Len(ab) : ab[j] = abc[j]
      BY <1>1, <3>1, ConcatProperties DEF abc
    <3>4. \A j \in 1..Len(ab) : j \in 1..Len(abc) /\ j \in 1..Len(all)
      BY <3>1
    <3>5. ASSUME NEW j \in 1..Len(ab), NEW k \in 1..Len(ab), ab[j] = ab[k]
          PROVE  j = k
      <4>1. all[j] = ab[j] /\ all[k] = ab[k]
        BY <3>2, <3>3, <3>4
      <4> QED BY <1>5, <3>4, <3>5, <4>1 DEF Distinct
    <3> QED BY <3>5 DEF Distinct
  <2>3. Range(a) \cap Range(b) = {}
    BY <2>2, DistinctParts DEF ab
  <2> QED BY <1>1, <1>2, <2>1, <2>3
<1> QED BY <1>1, <1>2, <1>4, <1>5 DEF all, abc, ab

\* The shortest sequences have no repetitions.
LEMMA FewElements ==
  /\ Range(<<>>) = {} /\ Distinct(<<>>)
  /\ \A e : Range(<<e>>) = {e} /\ Distinct(<<e>>) /\ <<e>> # <<>>
            /\ Head(<<e>>) = e /\ Tail(<<e>>) = <<>>
BY DEF Range, Distinct

\* A new element appended leaves a sequence without repetitions.
LEMMA DistinctAppend ==
  ASSUME NEW S, NEW s \in Seq(S), NEW e \in S, Distinct(s), e \notin Range(s)
  PROVE  Distinct(Append(s, e))
<1>1. /\ Append(s, e) \in Seq(S) /\ Len(Append(s, e)) = Len(s) + 1
      /\ \A i \in 1..Len(s) : Append(s, e)[i] = s[i]
      /\ Append(s, e)[Len(s) + 1] = e
      /\ Len(s) \in Nat /\ DOMAIN s = 1..Len(s)
  BY AppendProperties, LenProperties
<1>2. \A i \in 1..Len(s) : s[i] # e
  BY <1>1 DEF Range
<1> QED BY <1>1, <1>2 DEF Distinct

\* Its head occurs no more in its tail, which has no repetitions either.
LEMMA DistinctTail ==
  ASSUME NEW S, NEW s \in Seq(S), s # <<>>, Distinct(s)
  PROVE  /\ Head(s) \in S /\ Tail(s) \in Seq(S)
         /\ Distinct(Tail(s))
         /\ Head(s) \in Range(s) /\ Range(Tail(s)) = Range(s) \ {Head(s)}
<1>1. /\ Tail(s) \in Seq(S) /\ Len(Tail(s)) = Len(s) - 1
      /\ \A i \in 1..Len(Tail(s)) : Tail(s)[i] = s[i + 1]
      /\ Head(s) \in S /\ Head(s) = s[1]
      /\ Len(s) \in Nat \ {0}
  BY HeadTailProperties, EmptySeq
<1>2. /\ Range(s) = {s[i] : i \in 1..Len(s)}
      /\ Range(Tail(s)) = {Tail(s)[i] : i \in 1..Len(Tail(s))}
  BY <1>1, RangeEquality
<1>3. Distinct(Tail(s))
  <2> SUFFICES ASSUME NEW j \in 1..Len(Tail(s)), NEW k \in 1..Len(Tail(s)),
                      Tail(s)[j] = Tail(s)[k]
               PROVE  j = k
    BY DEF Distinct
  <2>1. j + 1 \in 1..Len(s) /\ k + 1 \in 1..Len(s) /\ s[j + 1] = s[k + 1]
    BY <1>1
  <2> QED BY <1>1, <2>1 DEF Distinct
<1>4. Head(s) \in Range(s)
  BY <1>1, <1>2
<1>5. ASSUME NEW e \in Range(s), e # Head(s) PROVE e \in Range(Tail(s))
  <2>1. PICK i \in 1..Len(s) : s[i] = e
    BY <1>2
  <2>2. i - 1 \in 1..Len(Tail(s)) /\ Tail(s)[i - 1] = e
    BY <1>1, <1>5, <2>1
  <2> QED BY <1>2, <2>2
<1>6. ASSUME NEW e \in Range(Tail(s)) PROVE e \in Range(s) /\ e # Head(s)
  <2>1. PICK i \in 1..Len(Tail(s)) : Tail(s)[i] = e
    BY <1>2
  <2>2. i + 1 \in 1..Len(s) /\ s[i + 1] = e
    BY <1>1, <2>1
  <2>3. i + 1 # 1 /\ 1 \in 1..Len(s)
    BY <1>1
  <2>4. s[i + 1] # s[1]
    BY <2>2, <2>3 DEF Distinct
  <2> QED BY <1>1, <1>2, <2>2, <2>4
<1> QED BY <1>1, <1>3, <1>4, <1>5, <1>6

(* Induction over the numbers, as a statement about a set: one that holds zero *)
(* and the successor of each of its elements holds every number.  Without it   *)
(* the numbers below a missing one would be a finite set that the successor    *)
(* maps into itself one to one, and so onto itself; but nothing precedes zero. *)
LEMMA AllNaturals ==
  ASSUME NEW T \in SUBSET Nat, 0 \in T, \A n \in T : n + 1 \in T
  PROVE  T = Nat
<1> SUFFICES ASSUME NEW n \in Nat, n \notin T PROVE FALSE
  OBVIOUS
<1> DEFINE L == {m \in Nat : \A k \in 0..m : k \in T}
           f == [m \in L |-> m + 1]
<1>1. \A m \in L : m < n
  OBVIOUS
<1>2. L \in SUBSET (0..n) /\ IsFiniteSet(L)
  <2>1. L \in SUBSET (0..n)
    BY <1>1
  <2>2. IsFiniteSet(0..n)
    BY FS_Interval
  <2> HIDE DEF L
  <2> QED BY <2>1, <2>2, FS_Subset
<1>3. 0 \in L /\ \A m \in L : m + 1 \in L
  <2>1. ASSUME NEW m \in L PROVE m + 1 \in L
    <3>1. m \in Nat /\ m \in T /\ m + 1 \in T
      OBVIOUS
    <3>2. \A k \in 0..(m + 1) : k \in 0..m \/ k = m + 1
      BY <3>1
    <3> QED BY <3>1, <3>2
  <2> QED BY <2>1
<1> HIDE DEF L
<1>4. f \in Injection(L, L)
  BY <1>2, <1>3 DEF Injection, IsInjective
<1>5. f \in Surjection(L, L)
  BY <1>2, <1>4, FS_Injection
<1>6. PICK m \in L : f[m] = 0
  BY <1>3, <1>5 DEF Surjection
<1> QED BY <1>2, <1>6

(* A set of numbers that is not empty has a least one.                         *)
LEMMA LeastOf ==
  ASSUME NEW S \in SUBSET Nat, S # {}
  PROVE  \E i \in S : \A j \in S : i <= j
<1> SUFFICES ASSUME \A i \in S : \E j \in S : ~(i <= j) PROVE FALSE
  OBVIOUS
<1> DEFINE T == {n \in Nat : \A k \in 0..n : k \notin S}
<1>1. 0 \in T
  <2>1. 0 \notin S
    OBVIOUS
  <2> QED BY <2>1
<1>2. ASSUME NEW n \in T PROVE n + 1 \in T
  <2>1. n \in Nat /\ \A k \in 0..n : k \notin S
    OBVIOUS
  <2>2. n + 1 \notin S
    BY <2>1
  <2>3. \A k \in 0..(n + 1) : k \in 0..n \/ k = n + 1
    BY <2>1
  <2> QED BY <2>1, <2>2, <2>3
<1>3. \A n \in T : n \notin S
  OBVIOUS
<1>4. T \in SUBSET Nat
  OBVIOUS
<1> HIDE DEF T
<1>5. T = Nat
  BY <1>1, <1>2, <1>4, AllNaturals
<1> QED BY <1>3, <1>5

(* What holds of the base of a fold and is kept by each step holds at the end:  *)
(* one set for all positions, or a set for each.                               *)
LEMMA KeptAlongFold ==
  ASSUME NEW n \in Nat, NEW f, NEW W, f[0] \in W[0],
         \A i \in 1..n : f[i - 1] \in W[i - 1] => f[i] \in W[i]
  PROVE  \A i \in 0..n : f[i] \in W[i]
<1> DEFINE T == {i \in Nat : i <= n => f[i] \in W[i]}
<1>1. 0 \in T
  OBVIOUS
<1>2. ASSUME NEW i \in T PROVE i + 1 \in T
  <2>1. CASE i + 1 <= n
    <3>1. i + 1 \in 1..n /\ (i + 1) - 1 = i /\ f[i] \in W[i]
      BY <2>1
    <3> QED BY <3>1
  <2> QED BY <2>1
<1> HIDE DEF T
<1>3. T = Nat
  BY <1>1, <1>2, AllNaturals DEF T
<1> QED BY <1>3 DEF T

LEMMA KeptByFold ==
  ASSUME NEW n \in Nat, NEW f, NEW W, f[0] \in W,
         \A i \in 1..n : f[i - 1] \in W => f[i] \in W
  PROVE  \A i \in 0..n : f[i] \in W
<1>1. PICK V : V = [i \in 0..n |-> W]
  OBVIOUS
<1>2. f[0] \in V[0] /\ \A i \in 1..n : f[i - 1] \in V[i - 1] => f[i] \in V[i]
  BY <1>1
<1>3. \A i \in 0..n : f[i] \in V[i]
  BY <1>2, KeptAlongFold
<1> QED BY <1>1, <1>3

(* There is a fold of any step over 1..n: what a recursive function defines.   *)
Steps(n, W) == [1..n -> [W -> W]]
FoldOf(f, n, W, base, step) ==
    f \in [0..n -> W] /\ f[0] = base /\ \A i \in 1..n : f[i] = step[i][f[i - 1]]

LEMMA FoldExists ==
  ASSUME NEW n \in Nat, NEW W, NEW base \in W, NEW step \in Steps(n, W)
  PROVE  \E f : FoldOf(f, n, W, base, step)
<1> USE DEF Steps
<1> DEFINE Good(k, f) == f \in [0..k -> W] /\ f[0] = base /\ \A i \in 1..k : f[i] = step[i][f[i - 1]]
           T == {k \in Nat : k <= n => \E f : Good(k, f)}
<1>1. 0 \in T
  <2>1. Good(0, [i \in 0..0 |-> base])
    OBVIOUS
  <2> QED BY <2>1
<1>2. ASSUME NEW k \in T PROVE k + 1 \in T
  <2>0. k \in Nat /\ (k <= n => \E f : Good(k, f))
    OBVIOUS
  <2> SUFFICES ASSUME k + 1 <= n PROVE \E f : Good(k + 1, f)
    BY <2>0 DEF T
  <2>1. PICK f : Good(k, f)
    BY <2>0
  <2> DEFINE g == [i \in 0..(k + 1) |-> IF i <= k THEN f[i] ELSE step[k + 1][f[k]]]
  <2>2. f[k] \in W /\ k + 1 \in 1..n /\ step[k + 1][f[k]] \in W
    BY <2>1
  <2>3. g \in [0..(k + 1) -> W] /\ g[0] = base
    BY <2>1, <2>2
  <2>4. ASSUME NEW i \in 1..(k + 1) PROVE g[i] = step[i][g[i - 1]]
    <3>1. CASE i <= k
      BY <2>1, <3>1
    <3>2. CASE i = k + 1
      <4>1. g[i] = step[k + 1][f[k]] /\ g[i - 1] = f[k] /\ ~(k + 1 <= k)
        BY <3>2
      <4> QED BY <3>2, <4>1
    <3> QED BY <3>1, <3>2
  <2> QED BY <2>3, <2>4
<1>0. T \in SUBSET Nat
  OBVIOUS
<1> HIDE DEF T
<1>3. T = Nat
  BY <1>0, <1>1, <1>2, AllNaturals
<1>4. PICK f : Good(n, f)
  BY <1>3 DEF T
<1> QED BY <1>4 DEF FoldOf

(* What is left of a list when its last element takes the place of the one at  *)
(* position p.                                                                 *)
Swapped(s, p) == SubSeq([s EXCEPT ![p] = s[Len(s)]], 1, Len(s) - 1)

LEMMA SwapOut ==
  ASSUME NEW S, NEW s \in Seq(S), NEW p \in 1..Len(s)
  PROVE  /\ Swapped(s, p) \in Seq(S) /\ Len(Swapped(s, p)) = Len(s) - 1
         /\ DOMAIN Swapped(s, p) = 1..(Len(s) - 1)
         /\ \A i \in 1..(Len(s) - 1) : Swapped(s, p)[i] = IF i = p THEN s[Len(s)] ELSE s[i]
<1>0. PICK n \in Nat : n = Len(s)
  BY LenProperties
<1>1. n \in 1..n /\ DOMAIN s = 1..n /\ s[n] \in S
  BY <1>0, LenProperties, ElementOfSeq
<1>2. PICK t : t = [s EXCEPT ![p] = s[Len(s)]]
  OBVIOUS
<1>3. /\ t \in Seq(S) /\ Len(t) = n /\ DOMAIN t = 1..n
      /\ \A i \in 1..n : t[i] = IF i = p THEN s[n] ELSE s[i]
  <2>1. t \in Seq(S) /\ Len(t) = Len(s)
    BY <1>0, <1>1, <1>2, ExceptSeq
  <2> QED BY <1>0, <1>1, <1>2, <2>1
<1>4. PICK u : u = SubSeq(t, 1, n - 1)
  OBVIOUS
<1>5. u \in Seq(S) /\ Len(u) = n - 1 /\ \A i \in 1..(n - 1) : u[i] = t[i]
  <2>1. \A i \in 1 .. n - 1 : t[i] \in S
    BY <1>3, ElementOfSeq
  <2>2. /\ SubSeq(t, 1, n - 1) \in Seq(S)
        /\ Len(SubSeq(t, 1, n - 1)) = IF 1 <= n - 1 THEN (n - 1) - 1 + 1 ELSE 0
        /\ \A i \in 1 .. (n - 1) - 1 + 1 : SubSeq(t, 1, n - 1)[i] = t[1 + i - 1]
    BY <2>1, <1>1, SubSeqProperties
  <2>3. \A i \in 1..(n - 1) : 1 + i - 1 = i /\ i \in 1 .. (n - 1) - 1 + 1
    OBVIOUS
  <2> QED BY <1>1, <1>4, <2>2, <2>3
<1>6. Swapped(s, p) = u
  BY <1>0, <1>2, <1>4 DEF Swapped
<1> QED BY <1>0, <1>3, <1>5, <1>6, LenProperties
(* A list without its last element.                                            *)
LEMMA Shorter ==
  ASSUME NEW S, NEW s \in Seq(S), s # << >>
  PROVE  /\ Len(s) \in Nat \ {0} /\ s[Len(s)] \in S
         /\ SubSeq(s, 1, Len(s) - 1) \in Seq(S) /\ Len(SubSeq(s, 1, Len(s) - 1)) = Len(s) - 1
         /\ \A i \in 1..(Len(s) - 1) : SubSeq(s, 1, Len(s) - 1)[i] = s[i]
<1>1. PICK n \in Nat : n = Len(s)
  BY LenProperties
<1>2. n # 0
  BY <1>1, EmptySeq
<1>3. n \in 1..n /\ DOMAIN s = 1..n /\ s[n] \in S /\ \A i \in 1 .. n - 1 : s[i] \in S
  BY <1>1, <1>2, LenProperties, ElementOfSeq
<1>4. PICK u : u = SubSeq(s, 1, n - 1)
  OBVIOUS
<1>5. u \in Seq(S) /\ Len(u) = n - 1 /\ \A i \in 1..(n - 1) : u[i] = s[i]
  <2>1. /\ SubSeq(s, 1, n - 1) \in Seq(S)
        /\ Len(SubSeq(s, 1, n - 1)) = IF 1 <= n - 1 THEN (n - 1) - 1 + 1 ELSE 0
        /\ \A i \in 1 .. (n - 1) - 1 + 1 : SubSeq(s, 1, n - 1)[i] = s[1 + i - 1]
    BY <1>3, SubSeqProperties
  <2>2. \A i \in 1..(n - 1) : 1 + i - 1 = i /\ i \in 1 .. (n - 1) - 1 + 1
    OBVIOUS
  <2> QED BY <1>2, <1>4, <2>1, <2>2
<1> QED BY <1>1, <1>2, <1>3, <1>4, <1>5

\* A function on 1..n is a sequence.
LEMMA FunctionIsSeq ==
  ASSUME NEW n \in Nat, NEW S, NEW f \in [1..n -> S]
  PROVE  f \in Seq(S) /\ Len(f) = n
<1>1. f \in Seq(S)
  BY SeqDef
<1> QED BY <1>1, LenProperties

\* The first n of a sequence.
LEMMA FirstOf ==
  ASSUME NEW S, NEW q \in Seq(S), NEW n \in Nat, n <= Len(q)
  PROVE  /\ SubSeq(q, 1, n) \in Seq(S) /\ Len(SubSeq(q, 1, n)) = n
         /\ \A i \in 1..n : SubSeq(q, 1, n)[i] = q[i]
<1>1. \A i \in 1..n : q[i] \in S
  BY LenProperties, ElementOfSeq
<1>2. /\ SubSeq(q, 1, n) \in Seq(S)
      /\ Len(SubSeq(q, 1, n)) = IF 1 <= n THEN n - 1 + 1 ELSE 0
      /\ \A i \in 1..n - 1 + 1 : SubSeq(q, 1, n)[i] = q[1 + i - 1]
  BY <1>1, SubSeqProperties
<1>3. Len(SubSeq(q, 1, n)) = n
  BY <1>2
<1>4. \A i \in 1..n : SubSeq(q, 1, n)[i] = q[i]
  BY <1>2
<1> QED BY <1>2, <1>3, <1>4
=============================================================================
