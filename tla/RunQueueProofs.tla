--------------------------- MODULE RunQueueProofs ---------------------------
(***************************************************************************)
(* What the run queue's methods do to its contents and to its cached mask, *)
(* for every number of levels and every pool size.                         *)
(***************************************************************************)
EXTENDS RunQueue, FiniteSetTheorems, SequenceTheorems, TLAPS

USE RunQueueAssumption

(***************************************************************************)
(* Ascending order.  Rank is an injection of a finite W into the numbers   *)
(* up to its cardinality, hence onto them: each position of Ascending(W)   *)
(* has exactly one member of W.                                            *)
(***************************************************************************)

\* A larger member of a finite set of naturals has a larger rank.
LEMMA RankMonotonic ==
    ASSUME NEW W \in SUBSET Nat, IsFiniteSet(W), NEW v \in W, NEW w \in W, v < w
    PROVE  Rank(W, v) < Rank(W, w)
<1> DEFINE A == {x \in W : x <= v}
           B == {x \in W : x <= w}
<1>1. IsFiniteSet(B) /\ Cardinality(B) \in Nat
  BY FS_Subset, FS_CardinalityType
<1>2. A \in SUBSET B
  <2>1. \A x \in W : x <= v => x <= w
    OBVIOUS
  <2> QED
    BY <2>1
<1>3. w \in B /\ w \notin A
  BY SMT
<1>4. IsFiniteSet(A) /\ Cardinality(A) \in Nat /\ Cardinality(A) <= Cardinality(B)
  BY <1>1, <1>2, FS_Subset, FS_CardinalityType
<1>5. Cardinality(A) # Cardinality(B)
  BY <1>1, <1>2, <1>3, FS_Subset
<1>6. Cardinality(A) < Cardinality(B)
  BY <1>1, <1>4, <1>5
<1> QED
  BY <1>6 DEF Rank

\* Every rank lies between 1 and the cardinality.
LEMMA RankRange ==
    ASSUME NEW W \in SUBSET Nat, IsFiniteSet(W), NEW w \in W
    PROVE  Rank(W, w) \in 1 .. Cardinality(W)
<1> DEFINE B == {x \in W : x <= w}
<1>1. B \in SUBSET W /\ w \in B
  BY SMT
<1>2. IsFiniteSet(B) /\ Cardinality(B) \in Nat /\ Cardinality(B) <= Cardinality(W)
  BY <1>1, FS_Subset, FS_CardinalityType
<1>3. Cardinality(B) # 0
  BY <1>1, <1>2, FS_EmptySet
<1>4. Cardinality(W) \in Nat
  BY FS_CardinalityType
<1>5. Cardinality(B) \in 1 .. Cardinality(W)
  BY <1>2, <1>3, <1>4
<1> QED
  BY <1>5 DEF Rank

\* Every number up to the cardinality is the rank of some member.
LEMMA RankOnto ==
    ASSUME NEW W \in SUBSET Nat, IsFiniteSet(W), NEW k \in 1 .. Cardinality(W)
    PROVE  \E w \in W : Rank(W, w) = k
<1> DEFINE n == Cardinality(W)
           f == [w \in W |-> Rank(W, w)]
<1>1. n \in Nat /\ IsFiniteSet(1 .. n) /\ Cardinality(1 .. n) = n
  BY FS_CardinalityType, FS_Interval
<1>2. f \in [W -> 1 .. n]
  BY RankRange
<1>3. ASSUME NEW v \in W, NEW w \in W, v # w
      PROVE  f[v] # f[w]
  <2>1. v < w \/ w < v
    BY <1>3
  <2>2. Rank(W, v) \in Nat /\ Rank(W, w) \in Nat
    BY <1>1, RankRange
  <2>3. Rank(W, v) < Rank(W, w) \/ Rank(W, w) < Rank(W, v)
    BY <2>1, RankMonotonic
  <2> QED
    BY <2>2, <2>3
<1>4. f \in Injection(W, 1 .. n)
  BY <1>2, <1>3 DEF Injection, IsInjective
<1>5. f \in Surjection(W, 1 .. n)
  BY <1>1, <1>4, FS_Injection
<1> QED
  BY <1>5 DEF Surjection

\* Ascending(W) lists exactly the members of W, in increasing order.
LEMMA AscendingLemma ==
    ASSUME NEW W \in SUBSET Nat, IsFiniteSet(W)
    PROVE  /\ Ascending(W) \in Seq(W)
           /\ Len(Ascending(W)) = Cardinality(W)
           /\ \A w \in W : Holds(Ascending(W), w)
           /\ \A k \in 1 .. Cardinality(W) : Rank(W, Ascending(W)[k]) = k
<1> DEFINE n == Cardinality(W)
           e == Ascending(W)
<1>1. n \in Nat
  BY FS_CardinalityType
<1>2. \A k \in 1 .. n : e[k] \in W /\ Rank(W, e[k]) = k
  BY RankOnto DEF Ascending
<1>3. e = [k \in 1 .. n |-> e[k]]
  BY DEF Ascending
<1>4. e \in Seq(W) /\ Len(e) = n
  <2>1. e \in [1 .. n -> W]
    BY <1>2, <1>3
  <2> QED
    BY <1>1, <2>1
<1>5. ASSUME NEW w \in W PROVE Holds(e, w)
  <2> DEFINE k == Rank(W, w)
  <2>1. k \in 1 .. n
    BY RankRange
  <2>2. e[k] \in W /\ Rank(W, e[k]) = k
    BY <1>2, <2>1
  <2>3. ~(e[k] < w) /\ ~(w < e[k])
    <3>1. k \in Nat
      BY <1>1, <2>1
    <3>2. CASE e[k] < w
      <4>1. Rank(W, e[k]) < Rank(W, w)
        BY <2>2, <3>2, RankMonotonic
      <4> QED
        BY <2>2, <3>1, <4>1
    <3>3. CASE w < e[k]
      <4>1. Rank(W, w) < Rank(W, e[k])
        BY <2>2, <3>3, RankMonotonic
      <4> QED
        BY <2>2, <3>1, <4>1
    <3> QED
      BY <3>2, <3>3
  <2>4. e[k] = w
    <3>1. \A x, y \in Nat : ~(x < y) /\ ~(y < x) => x = y
      OBVIOUS
    <3>2. e[k] \in Nat /\ w \in Nat
      BY <2>2
    <3> QED
      BY <2>3, <3>1, <3>2
  <2> QED
    BY <1>4, <2>1, <2>4 DEF Holds
<1> QED
  BY <1>2, <1>4, <1>5

\* First(W) is the least member of W.
LEMMA FirstLemma ==
    ASSUME NEW W \in SUBSET Nat, IsFiniteSet(W), W # {}
    PROVE  First(W) \in W /\ \A w \in W : First(W) <= w
<1> DEFINE f == First(W)
<1>1. 1 \in 1 .. Cardinality(W)
  BY FS_CardinalityType, FS_EmptySet
<1>2. f \in W /\ Rank(W, f) = 1
  <2>1. Ascending(W)[1] \in W
    BY <1>1, AscendingLemma, ElementOfSeq
  <2> QED
    BY <1>1, <2>1, AscendingLemma DEF First
<1>3. ASSUME NEW w \in W PROVE ~(w < f)
  <2>1. SUFFICES ASSUME w < f PROVE FALSE
    OBVIOUS
  <2>2. Rank(W, w) < 1
    BY <1>2, <2>1, RankMonotonic
  <2>3. Rank(W, w) \in 1 .. Cardinality(W)
    BY RankRange
  <2> QED
    BY <2>2, <2>3, FS_CardinalityType
<1>4. ASSUME NEW w \in W PROVE f <= w
  <2> HIDE DEF f
  <2>1. f \in Nat /\ w \in Nat
    BY <1>2
  <2> QED
    BY <1>3, <2>1
<1> QED
  BY <1>2, <1>4

(***************************************************************************)
(* Finite sets of slots and of levels.                                     *)
(***************************************************************************)

\* Sets of slots are finite sets of naturals.
LEMMA PidFinite ==
    ASSUME NEW W \in SUBSET Slot
    PROVE  W \in SUBSET Nat /\ IsFiniteSet(W)
<1>1. Slot \in SUBSET Nat /\ IsFiniteSet(Slot)
  BY FS_Interval DEF Slot
<1> QED
  BY <1>1, FS_Subset

\* So are sets of levels.
LEMMA LevelFinite ==
    ASSUME NEW W \in SUBSET Level
    PROVE  W \in SUBSET Nat /\ IsFiniteSet(W)
<1>1. Level \in SUBSET Nat /\ IsFiniteSet(Level)
  BY FS_Interval DEF Level
<1> QED
  BY <1>1, FS_Subset

(***************************************************************************)
(* One level.                                                              *)
(***************************************************************************)

\* retain() keeps exactly the entries of the other pids.
LEMMA RetainLemma ==
    ASSUME NEW q \in Seq(Pid), NEW p \in Pid
    PROVE  /\ Retain(q, p) \in Seq(Pid)
           /\ \A x : Holds(Retain(q, p), x) <=> Holds(q, x) /\ x # p
           /\ q = <<>> => Retain(q, p) = <<>>
<1> DEFINE I == {i \in 1 .. Len(q) : q[i] # p}
           e == Ascending(I)
           r == Retain(q, p)
<1>1. I \in SUBSET Nat /\ IsFiniteSet(I)
  <2>1. IsFiniteSet(1 .. Len(q)) /\ I \in SUBSET (1 .. Len(q))
    BY FS_Interval, LenProperties
  <2> QED
    BY <2>1, FS_Subset
<1>2. e \in Seq(I) /\ Len(e) = Cardinality(I) /\ \A i \in I : Holds(e, i)
  BY <1>1, AscendingLemma
<1>3. Len(e) \in Nat /\ \A k \in 1 .. Len(e) : e[k] \in I
  BY <1>2, LenProperties, ElementOfSeq
<1>4. r = [k \in 1 .. Len(e) |-> q[e[k]]]
  BY DEF Retain
<1> HIDE DEF e, r
<1>5. \A k \in 1 .. Len(e) : q[e[k]] \in Pid
  BY <1>3, ElementOfSeq
<1>6. r \in Seq(Pid) /\ Len(r) = Len(e)
  <2>1. r \in [1 .. Len(e) -> Pid]
    BY <1>4, <1>5
  <2> QED
    BY <1>3, <2>1
<1>7. ASSUME NEW x, Holds(r, x) PROVE Holds(q, x) /\ x # p
  <2>1. PICK k \in 1 .. Len(e) : q[e[k]] = x
    BY <1>4, <1>6, <1>7 DEF Holds
  <2> QED
    BY <1>3, <2>1 DEF Holds
<1>8. ASSUME NEW x, Holds(q, x), x # p PROVE Holds(r, x)
  <2>1. PICK i \in 1 .. Len(q) : q[i] = x
    BY <1>8 DEF Holds
  <2>2. PICK k \in 1 .. Len(e) : e[k] = i
    BY <1>2, <1>8, <2>1 DEF Holds
  <2> QED
    BY <1>4, <1>6, <2>1, <2>2 DEF Holds
<1>9. ASSUME q = <<>> PROVE r = <<>>
  <2>1. Len(q) = 0
    BY <1>9, EmptySeq
  <2>2. I = {}
    BY <2>1
  <2>3. Len(e) = 0
    BY <1>2, <2>2, FS_EmptySet
  <2> QED
    BY <1>6, <2>3, EmptySeq
<1> QED
  BY <1>6, <1>7, <1>8, <1>9 DEF r

\* Appending adds one pid and keeps the others.
LEMMA AppendHolds ==
    ASSUME NEW q \in Seq(Pid), NEW p \in Pid
    PROVE  /\ Append(q, p) \in Seq(Pid)
           /\ Append(q, p) # <<>>
           /\ \A x : Holds(Append(q, p), x) <=> Holds(q, x) \/ x = p
<1>1. /\ Append(q, p) \in Seq(Pid)
      /\ Len(q) \in Nat
      /\ Len(Append(q, p)) = Len(q) + 1
      /\ \A i \in 1 .. Len(q) : Append(q, p)[i] = q[i]
      /\ Append(q, p)[Len(q) + 1] = p
  BY AppendProperties, LenProperties
<1>2. \A i : i \in 1 .. Len(q) + 1 <=> i \in 1 .. Len(q) \/ i = Len(q) + 1
  BY <1>1
<1>3. Append(q, p) # <<>>
  BY <1>1, EmptySeq
<1> QED
  BY <1>1, <1>2, <1>3 DEF Holds

\* Taking the head drops one entry of the head and none of another pid.
LEMMA TailHolds ==
    ASSUME NEW q \in Seq(Pid), q # <<>>
    PROVE  /\ Head(q) \in Pid
           /\ Tail(q) \in Seq(Pid)
           /\ Holds(q, Head(q))
           /\ \A x : Holds(Tail(q), x) => Holds(q, x)
           /\ \A x : Holds(q, x) /\ x # Head(q) => Holds(Tail(q), x)
<1>1. /\ Head(q) \in Pid
      /\ Tail(q) \in Seq(Pid)
      /\ Len(q) \in Nat \ {0}
      /\ Len(Tail(q)) = Len(q) - 1
      /\ \A i \in 1 .. Len(q) - 1 : Tail(q)[i] = q[i + 1]
      /\ Head(q) = q[1]
  BY HeadTailProperties, EmptySeq, LenProperties
<1>2. ASSUME NEW x, Holds(Tail(q), x) PROVE Holds(q, x)
  BY <1>1, <1>2 DEF Holds
<1>3. ASSUME NEW x, Holds(q, x), x # Head(q) PROVE Holds(Tail(q), x)
  <2>1. PICK i \in 1 .. Len(q) : q[i] = x
    BY <1>3 DEF Holds
  <2>2. i # 1
    BY <1>1, <1>3, <2>1
  <2>3. i - 1 \in 1 .. Len(q) - 1 /\ (i - 1) + 1 = i
    BY <1>1, <2>2
  <2> QED
    BY <1>1, <2>1, <2>3 DEF Holds
<1>4. Holds(q, Head(q))
  BY <1>1 DEF Holds
<1> QED
  BY <1>1, <1>2, <1>3, <1>4

\* Concatenation holds what either part holds.
LEMMA ConcatHolds ==
    ASSUME NEW q \in Seq(Pid), NEW r \in Seq(Pid)
    PROVE  /\ q \o r \in Seq(Pid)
           /\ \A x : Holds(q \o r, x) <=> Holds(q, x) \/ Holds(r, x)
           /\ q \o r = <<>> <=> q = <<>> /\ r = <<>>
<1>1. /\ q \o r \in Seq(Pid)
      /\ Len(q) \in Nat /\ Len(r) \in Nat
      /\ Len(q \o r) = Len(q) + Len(r)
      /\ \A i \in 1 .. Len(q) + Len(r) :
            (q \o r)[i] = IF i <= Len(q) THEN q[i] ELSE r[i - Len(q)]
  BY ConcatProperties, LenProperties
<1>2. ASSUME NEW x, Holds(q \o r, x) PROVE Holds(q, x) \/ Holds(r, x)
  <2>1. PICK i \in 1 .. Len(q) + Len(r) : (q \o r)[i] = x
    BY <1>1, <1>2 DEF Holds
  <2>2. CASE i <= Len(q)
    BY <1>1, <2>1, <2>2 DEF Holds
  <2>3. CASE ~(i <= Len(q))
    <3>1. i - Len(q) \in 1 .. Len(r)
      BY <1>1, <2>3
    <3> QED
      BY <1>1, <2>1, <2>3, <3>1 DEF Holds
  <2> QED
    BY <2>2, <2>3
<1>3. ASSUME NEW x, Holds(q, x) PROVE Holds(q \o r, x)
  BY <1>1, <1>3 DEF Holds
<1>4. ASSUME NEW x, Holds(r, x) PROVE Holds(q \o r, x)
  <2>1. PICK i \in 1 .. Len(r) : r[i] = x
    BY <1>4 DEF Holds
  <2>2. /\ Len(q) + i \in 1 .. Len(q) + Len(r)
        /\ ~(Len(q) + i <= Len(q))
        /\ (Len(q) + i) - Len(q) = i
    BY <1>1
  <2>3. (q \o r)[Len(q) + i] = x
    BY <1>1, <2>1, <2>2
  <2> QED
    BY <1>1, <2>2, <2>3 DEF Holds
<1>5. q \o r = <<>> <=> q = <<>> /\ r = <<>>
  BY ConcatEqualIffEmpty
<1> QED
  BY <1>1, <1>2, <1>3, <1>4, <1>5

(***************************************************************************)
(* The methods.                                                            *)
(***************************************************************************)

\* push_with_nice() adds one pid; the mask stays exact.
LEMMA PushLemma ==
    ASSUME NEW rq \in Queues, MaskExact(rq), NEW p \in Pid, NEW l \in Level
    PROVE  /\ push_with_nice(rq, p, l) \in Queues
           /\ MaskExact(push_with_nice(rq, p, l))
           /\ \A x : Queued(push_with_nice(rq, p, l), x) <=> Queued(rq, x) \/ x = p
<1> DEFINE q == rq.levels[l]
           r == push_with_nice(rq, p, l)
<1>1. q \in Seq(Pid) /\ rq.levels \in [Level -> Seq(Pid)]
  BY DEF Queues
<1>2. /\ Append(q, p) \in Seq(Pid)
      /\ Append(q, p) # <<>>
      /\ \A x : Holds(Append(q, p), x) <=> Holds(q, x) \/ x = p
  BY <1>1, AppendHolds
<1>3. /\ r.levels = [rq.levels EXCEPT ![l] = Append(q, p)]
      /\ r.mask = rq.mask \cup {l}
      /\ r \in Queues
  BY <1>1, <1>2 DEF push_with_nice, Queues
<1>4. \A k \in Level : r.levels[k] = IF k = l THEN Append(q, p) ELSE rq.levels[k]
  BY <1>1, <1>3
<1>5. MaskExact(r)
  BY <1>2, <1>3, <1>4 DEF MaskExact
<1>6. \A x : Queued(r, x) <=> Queued(rq, x) \/ x = p
  BY <1>2, <1>4 DEF Queued
<1> QED
  BY <1>3, <1>5, <1>6

\* push_all() adds every pid it is given; the mask stays exact.
LEMMA PushAllLemma ==
    ASSUME NEW rq \in Queues, MaskExact(rq), NEW woken \in [Level -> SUBSET Pid]
    PROVE  /\ push_all(rq, woken) \in Queues
           /\ MaskExact(push_all(rq, woken))
           /\ \A x : Queued(rq, x) => Queued(push_all(rq, woken), x)
           /\ \A l \in Level : \A x \in woken[l] : Queued(push_all(rq, woken), x)
<1> DEFINE r == push_all(rq, woken)
           a(l) == Ascending(woken[l])
<1>1. ASSUME NEW l \in Level
      PROVE  /\ a(l) \in Seq(Pid)
             /\ \A x \in woken[l] : Holds(a(l), x)
             /\ a(l) = <<>> <=> woken[l] = {}
  <2>1. woken[l] \in SUBSET Pid /\ woken[l] \in SUBSET Slot
    BY DEF Pid, Slot
  <2>2. woken[l] \in SUBSET Nat /\ IsFiniteSet(woken[l])
    BY <2>1, PidFinite
  <2>3. /\ a(l) \in Seq(woken[l])
        /\ Len(a(l)) = Cardinality(woken[l])
        /\ \A x \in woken[l] : Holds(a(l), x)
    BY <2>2, AscendingLemma
  <2>4. a(l) \in Seq(Pid)
    BY <2>1, <2>3, SeqMonotonic
  <2>5. a(l) = <<>> <=> Len(a(l)) = 0
    BY <2>4, EmptySeq
  <2>6. Cardinality(woken[l]) = 0 <=> woken[l] = {}
    BY <2>2, FS_EmptySet
  <2> QED
    BY <2>3, <2>4, <2>5, <2>6
<1>2. \A l \in Level : rq.levels[l] \in Seq(Pid)
  BY DEF Queues
<1>3. \A l \in Level : /\ rq.levels[l] \o a(l) \in Seq(Pid)
                       /\ \A x : Holds(rq.levels[l] \o a(l), x)
                                    <=> Holds(rq.levels[l], x) \/ Holds(a(l), x)
                       /\ rq.levels[l] \o a(l) = <<>>
                             <=> rq.levels[l] = <<>> /\ a(l) = <<>>
  BY <1>1, <1>2, ConcatHolds
<1>4. /\ r.levels = [l \in Level |-> rq.levels[l] \o a(l)]
      /\ r.mask = rq.mask \cup {l \in Level : woken[l] # {}}
  BY DEF push_all
<1>5. \A l \in Level : r.levels[l] = rq.levels[l] \o a(l)
  BY <1>4
<1>6. r \in Queues
  <2>1. r.levels \in [Level -> Seq(Pid)]
    BY <1>3, <1>4
  <2>2. r.mask \in SUBSET Level
    BY <1>4 DEF Queues
  <2>3. r = [levels |-> r.levels, mask |-> r.mask]
    BY DEF push_all
  <2> QED
    BY <2>1, <2>2, <2>3 DEF Queues
<1> HIDE DEF r, a
<1>7. MaskExact(r)
  BY <1>1, <1>3, <1>4, <1>5 DEF MaskExact
<1>8. \A x : Queued(rq, x) => Queued(r, x)
  BY <1>3, <1>5 DEF Queued
<1>9. \A l \in Level : \A x \in woken[l] : Queued(r, x)
  BY <1>1, <1>3, <1>5 DEF Queued
<1> QED
  BY <1>6, <1>7, <1>8, <1>9 DEF r

\* pop() takes the front of one level and disturbs no other pid; with an exact
\* mask it finds a pid whenever one is queued, and the mask stays exact.
LEMMA PopLemma ==
    ASSUME NEW rq \in Queues, MaskExact(rq)
    PROVE  /\ PopRest(rq) \in Queues
           /\ MaskExact(PopRest(rq))
           /\ PopPid(rq) \in Pid \cup {NoPid}
           /\ \A x : Queued(PopRest(rq), x) => Queued(rq, x)
           /\ \A x : Queued(rq, x) /\ x # PopPid(rq) => Queued(PopRest(rq), x)
           /\ PopPid(rq) # NoPid => Queued(rq, PopPid(rq))
<1>1. CASE rq.mask = {}
  BY <1>1 DEF PopRest, PopPid
<1>2. CASE rq.mask # {}
  <2> DEFINE l == First(rq.mask)
             q == rq.levels[l]
             r == PopRest(rq)
  <2>1. rq.mask \in SUBSET Level /\ rq.levels \in [Level -> Seq(Pid)]
    BY DEF Queues
  <2>2. l \in rq.mask /\ l \in Level
    BY <1>2, <2>1, LevelFinite, FirstLemma
  <2>3. q \in Seq(Pid) /\ q # <<>>
    BY <2>1, <2>2 DEF MaskExact
  <2>4. /\ Head(q) \in Pid
        /\ Tail(q) \in Seq(Pid)
        /\ Holds(q, Head(q))
        /\ \A x : Holds(Tail(q), x) => Holds(q, x)
        /\ \A x : Holds(q, x) /\ x # Head(q) => Holds(Tail(q), x)
    BY <2>3, TailHolds
  <2>5. /\ r.levels = [rq.levels EXCEPT ![l] = Tail(q)]
        /\ r.mask = IF Tail(q) = <<>> THEN rq.mask \ {l} ELSE rq.mask
        /\ r = [levels |-> r.levels, mask |-> r.mask]
    BY <1>2 DEF PopRest, PopLevel
  <2>6. PopPid(rq) = Head(q)
    BY <1>2 DEF PopPid
  <2> HIDE DEF r, l
  <2>7. r \in Queues
    <3>1. r.levels \in [Level -> Seq(Pid)]
      BY <2>1, <2>4, <2>5
    <3>2. r.mask \in SUBSET Level
      BY <2>1, <2>5
    <3> QED
      BY <2>5, <3>1, <3>2 DEF Queues
  <2>8. \A k \in Level : r.levels[k] = IF k = l THEN Tail(q) ELSE rq.levels[k]
    BY <2>1, <2>2, <2>5
  <2>9. MaskExact(r)
    BY <2>2, <2>5, <2>8 DEF MaskExact
  <2>10. \A x : Queued(r, x) => Queued(rq, x)
    BY <2>2, <2>4, <2>8 DEF Queued
  <2>11. \A x : Queued(rq, x) /\ x # Head(q) => Queued(r, x)
    BY <2>2, <2>4, <2>8 DEF Queued
  <2>12. Queued(rq, Head(q))
    BY <2>2, <2>4 DEF Queued
  <2> QED
    BY <2>4, <2>6, <2>7, <2>9, <2>10, <2>11, <2>12 DEF r
<1> QED
  BY <1>1, <1>2

\* remove() drops every entry of one pid and no other; the mask stays exact.
LEMMA RemoveLemma ==
    ASSUME NEW rq \in Queues, MaskExact(rq), NEW p \in Pid
    PROVE  /\ remove(rq, p) \in Queues
           /\ MaskExact(remove(rq, p))
           /\ \A x : Queued(remove(rq, p), x) <=> Queued(rq, x) /\ x # p
<1> DEFINE r == remove(rq, p)
           kept(l) == Retain(rq.levels[l], p)
<1>1. rq.mask \in SUBSET Level /\ \A l \in Level : rq.levels[l] \in Seq(Pid)
  BY DEF Queues
<1>2. \A l \in Level : /\ kept(l) \in Seq(Pid)
                       /\ \A x : Holds(kept(l), x) <=> Holds(rq.levels[l], x) /\ x # p
                       /\ rq.levels[l] = <<>> => kept(l) = <<>>
  BY <1>1, RetainLemma
<1>3. /\ r.levels = [l \in Level |-> kept(l)]
      /\ r.mask = rq.mask \ {l \in Level : /\ Len(kept(l)) < Len(rq.levels[l])
                                           /\ kept(l) = <<>>}
      /\ r = [levels |-> r.levels, mask |-> r.mask]
  BY DEF remove
<1> HIDE DEF r, kept
<1>4. r \in Queues
  <2>1. r.levels \in [Level -> Seq(Pid)]
    BY <1>2, <1>3
  <2>2. r.mask \in SUBSET Level
    BY <1>1, <1>3
  <2> QED
    BY <1>3, <2>1, <2>2 DEF Queues
<1>5. \A l \in Level : kept(l) = <<>> /\ rq.levels[l] # <<>>
                          => Len(kept(l)) < Len(rq.levels[l])
  <2> SUFFICES ASSUME NEW l \in Level, kept(l) = <<>>, rq.levels[l] # <<>>
               PROVE  Len(kept(l)) < Len(rq.levels[l])
    OBVIOUS
  <2>1. Len(rq.levels[l]) \in Nat \ {0}
    BY <1>1, EmptySeq
  <2>2. Len(kept(l)) = 0
    BY EmptySeq
  <2> QED
    BY <2>1, <2>2
<1>6. MaskExact(r)
  BY <1>2, <1>3, <1>5 DEF MaskExact
<1>7. \A x : Queued(r, x) <=> Queued(rq, x) /\ x # p
  BY <1>2, <1>3 DEF Queued
<1> QED
  BY <1>4, <1>6, <1>7 DEF r

\* pop() serves the highest priority: while the mask is exact, no level below
\* the one it serves holds a pid, and it fails only on an empty queue.
THEOREM PopServesHighestPriority ==
    ASSUME NEW rq \in Queues, MaskExact(rq)
    PROVE  /\ PopPid(rq) = NoPid <=> \A l \in Level : rq.levels[l] = <<>>
           /\ PopPid(rq) # NoPid =>
                \E l \in Level : /\ rq.levels[l] # <<>>
                                 /\ PopPid(rq) = Head(rq.levels[l])
                                 /\ \A k \in Level : k < l => rq.levels[k] = <<>>
<1>1. CASE rq.mask = {}
  BY <1>1 DEF PopPid, MaskExact
<1>2. CASE rq.mask # {}
  <2> DEFINE l == First(rq.mask)
  <2>1. rq.mask \in SUBSET Level
    BY DEF Queues
  <2>2. l \in rq.mask /\ l \in Level /\ \A k \in rq.mask : l <= k
    BY <1>2, <2>1, LevelFinite, FirstLemma
  <2>3. rq.levels[l] # <<>> /\ rq.levels[l] \in Seq(Pid)
    BY <2>2 DEF MaskExact, Queues
  <2>4. PopPid(rq) = Head(rq.levels[l]) /\ PopPid(rq) \in Pid
    BY <1>2, <2>3, TailHolds DEF PopPid
  <2>5. PopPid(rq) # NoPid
    BY <2>4 DEF Pid, NoPid
  <2>6. \A k \in Level : k < l => rq.levels[k] = <<>>
    <3> SUFFICES ASSUME NEW k \in Level, k < l, rq.levels[k] # <<>>
                 PROVE  FALSE
      OBVIOUS
    <3>1. k \in rq.mask
      BY DEF MaskExact
    <3>2. l <= k
      BY <2>2, <3>1
    <3>3. k \in Nat /\ l \in Nat
      BY <2>2 DEF Level
    <3> QED
      BY <3>2, <3>3
  <2> QED
    BY <2>2, <2>3, <2>4, <2>5, <2>6
<1> QED
  BY <1>1, <1>2

=============================================================================
