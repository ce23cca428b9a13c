-------------------------- MODULE SharedQueueProofs --------------------------
(***************************************************************************)
(* What the operators of SharedQueue return, for queues of any length.     *)
(***************************************************************************)
EXTENDS SharedQueue, FiniteSetTheorems, TLAPS

\* The rank of a place grows from place to place, and every rank up to the
\* number of places is taken: what queue_remove_if leaves has no gaps.
LEMMA RankIsOnto ==
    ASSUME NEW n \in Nat, NEW at, at \subseteq 1 .. n
    PROVE  /\ Cardinality(at) \in Nat
           /\ \A i \in at : Rank(at, i) \in 1 .. Cardinality(at)
           /\ \A i, j \in at : i < j => Rank(at, i) < Rank(at, j)
           /\ \A r \in 1 .. Cardinality(at) : \E i \in at : Rank(at, i) = r
<1> DEFINE below(i) == {k \in at : k <= i}
           R == [i \in at |-> Rank(at, i)]
<1>1. IsFiniteSet(at) /\ Cardinality(at) \in Nat
  <2>1. IsFiniteSet(1 .. n)
    BY FS_Interval
  <2>2. IsFiniteSet(at)
    BY <2>1, FS_Subset
  <2> QED
    BY <2>2, FS_CardinalityType
<1>2. ASSUME NEW i \in at
      PROVE  /\ IsFiniteSet(below(i)) /\ Rank(at, i) = Cardinality(below(i))
             /\ Rank(at, i) \in 1 .. Cardinality(at)
  <2>1. below(i) \subseteq at /\ i \in below(i)
    OBVIOUS
  <2>2. IsFiniteSet(below(i)) /\ Cardinality(below(i)) <= Cardinality(at)
    BY <1>1, <2>1, FS_Subset
  <2>3. Cardinality(below(i)) \in Nat /\ Cardinality(below(i)) # 0
    BY <2>1, <2>2, FS_CardinalityType, FS_EmptySet
  <2> QED
    BY <1>1, <2>2, <2>3 DEF Rank
<1>3. ASSUME NEW i \in at, NEW j \in at, i < j
      PROVE  Rank(at, i) < Rank(at, j)
  <2>1. below(i) \subseteq below(j) /\ j \in below(j) /\ j \notin below(i)
    <3>1. i \in Nat /\ j \in Nat /\ i < j
      BY <1>3
    <3>2. ~(j <= i) /\ j <= j
      BY <3>1
    <3>3. \A k \in at : k <= i => k <= j
      BY <3>1
    <3>4. \A k \in below(i) : k \in below(j)
      BY <3>3
    <3>5. j \in below(j)
      BY <3>2
    <3>6. j \notin below(i)
      BY <3>2
    <3> QED
      BY <3>4, <3>5, <3>6
  <2>2. Cardinality(below(i)) <= Cardinality(below(j))
    BY <1>2, <2>1, FS_Subset
  <2>3. Cardinality(below(i)) # Cardinality(below(j))
    BY <1>2, <2>1, FS_Subset
  <2> QED
    BY <1>2, <2>2, <2>3
<1> HIDE DEF below
<1>7. \A i \in at : Rank(at, i) \in 1 .. Cardinality(at)
  BY <1>2
<1>8. \A i, j \in at : i < j => Rank(at, i) < Rank(at, j)
  BY <1>3
<1>4. R \in Injection(at, 1 .. Cardinality(at))
  <2>1. R \in [at -> 1 .. Cardinality(at)]
    BY <1>7
  <2>2. \A i, j \in at : R[i] = R[j] => i = j
    <3> SUFFICES ASSUME NEW i \in at, NEW j \in at, i # j
                 PROVE  R[i] # R[j]
      OBVIOUS
    <3>1. i \in Nat /\ j \in Nat
      OBVIOUS
    <3>2. Rank(at, i) < Rank(at, j) \/ Rank(at, j) < Rank(at, i)
      BY <3>1, <1>8
    <3>3. Rank(at, i) \in Int /\ Rank(at, j) \in Int
      BY <1>1, <1>7
    <3> QED
      BY <3>2, <3>3
  <2> QED
    BY <2>1, <2>2 DEF Injection, IsInjective
<1>5. R \in Surjection(at, 1 .. Cardinality(at))
  <2>1. /\ IsFiniteSet(1 .. Cardinality(at))
        /\ Cardinality(1 .. Cardinality(at)) = Cardinality(at)
    BY <1>1, FS_Interval
  <2> QED
    BY <1>4, <2>1, FS_Injection
<1>6. \A r \in 1 .. Cardinality(at) : \E i \in at : Rank(at, i) = r
  BY <1>5 DEF Surjection
<1> QED
  BY <1>1, <1>7, <1>8, <1>6

\* Some entry comes first among those that a search may stop at.
LEMMA FirstPlace ==
    ASSUME NEW n \in Nat, NEW at, at \subseteq 1 .. n, at # {}
    PROVE  \E i \in at : \A j \in at : i <= j
<1>1. PICK k \in at : TRUE
  OBVIOUS
<1>2. Rank(at, k) \in 1 .. Cardinality(at) /\ Cardinality(at) \in Nat
  BY RankIsOnto
<1>3. PICK i \in at : Rank(at, i) = 1
  <2>1. 1 \in 1 .. Cardinality(at)
    BY <1>2
  <2> QED
    BY <2>1, RankIsOnto
<1>4. \A j \in at : ~(j < i)
  <2> SUFFICES ASSUME NEW j \in at, j < i
               PROVE  FALSE
    OBVIOUS
  <2>1. Rank(at, j) < 1 /\ Rank(at, j) \in 1 .. Cardinality(at)
    BY <1>3, RankIsOnto
  <2> QED
    BY <1>2, <2>1
<1>5. \A j \in at : j \in Nat
  OBVIOUS
<1>6. \A j \in at : i <= j
  BY <1>4, <1>5
<1> QED
  BY <1>6

\* Where the entries of what queue_remove_if leaves were: at the places that do
\* not hold a datum to remove, all of them, in the same order.
LEMMA WithoutPlaces ==
    ASSUME NEW S, NEW q \in Seq(S), NEW gone
    PROVE  \E f \in [DOMAIN Without(q, gone) -> {i \in DOMAIN q : q[i] \notin gone}] :
              /\ Without(q, gone) \in Seq(S)
              /\ \A a \in DOMAIN Without(q, gone) : Without(q, gone)[a] = q[f[a]]
              /\ \A a, b \in DOMAIN Without(q, gone) : a < b => f[a] < f[b]
              /\ \A i \in DOMAIN q : q[i] \notin gone =>
                    \E a \in DOMAIN Without(q, gone) : f[a] = i
<1> DEFINE kept == {i \in DOMAIN q : q[i] \notin gone}
           n == Cardinality(kept)
           w == Without(q, gone)
           Goal(f) == /\ w \in Seq(S)
                      /\ \A a \in DOMAIN w : w[a] = q[f[a]]
                      /\ \A a, b \in DOMAIN w : a < b => f[a] < f[b]
                      /\ \A i \in kept : \E a \in DOMAIN w : f[a] = i
<1> SUFFICES \E f \in [DOMAIN w -> kept] : Goal(f)
  OBVIOUS
<1>1. CASE kept = DOMAIN q
  <2>1. w = q
    BY <1>1 DEF Without
  <2> DEFINE f == [a \in DOMAIN w |-> a]
  <2>2. f \in [DOMAIN w -> kept] /\ Goal(f)
    BY <2>1, <1>1
  <2> QED
    BY <2>2
<1>2. CASE kept # DOMAIN q
  <2>1. w = EntriesAt(q, kept)
    BY <1>2 DEF Without
  <2> DEFINE pick(a) == CHOOSE i \in kept : Rank(kept, i) = a
             f == [a \in 1 .. n |-> pick(a)]
  <2>2. kept \subseteq 1 .. Len(q) /\ kept \subseteq DOMAIN q /\ Len(q) \in Nat
    OBVIOUS
  <2> HIDE DEF kept, w
  <2>3. /\ n \in Nat
        /\ \A i \in kept : Rank(kept, i) \in 1 .. n
        /\ \A i, j \in kept : i < j => Rank(kept, i) < Rank(kept, j)
        /\ \A r \in 1 .. n : \E i \in kept : Rank(kept, i) = r
    BY <2>2, RankIsOnto
  <2>4. \A a \in 1 .. n : pick(a) \in kept /\ Rank(kept, pick(a)) = a
    BY <2>3
  <2>5. w = [a \in 1 .. n |-> q[f[a]]]
    BY <2>1 DEF EntriesAt
  <2>6. f \in [1 .. n -> kept] /\ \A a \in 1 .. n : Rank(kept, f[a]) = a
    BY <2>4
  <2> HIDE DEF f
  <2>7. DOMAIN w = 1 .. n /\ \A a \in 1 .. n : w[a] = q[f[a]]
    BY <2>5
  <2>8. w \in Seq(S)
    <3>1. \A a \in 1 .. n : q[f[a]] \in S
      BY <2>6, <2>2
    <3> QED
      BY <3>1, <2>5, <2>3
  <2>9. \A a, b \in 1 .. n : a < b => f[a] < f[b]
    <3> SUFFICES ASSUME NEW a \in 1 .. n, NEW b \in 1 .. n, a < b
                 PROVE  f[a] < f[b]
      OBVIOUS
    <3>1. f[a] \in kept /\ f[b] \in kept
      BY <2>6
    <3>2. f[a] \in 1 .. Len(q) /\ f[b] \in 1 .. Len(q)
      BY <3>1, <2>2
    <3>3. ~(f[b] < f[a]) /\ f[a] # f[b]
      BY <2>3, <2>6, <3>1
    <3> QED
      BY <3>2, <3>3
  <2>10. \A i \in kept : \E a \in 1 .. n : f[a] = i
    <3> SUFFICES ASSUME NEW i \in kept
                 PROVE  \E a \in 1 .. n : f[a] = i
      OBVIOUS
    <3> DEFINE a == Rank(kept, i)
    <3>1. a \in 1 .. n /\ f[a] \in kept /\ Rank(kept, f[a]) = a
      BY <2>3, <2>6
    <3>2. i \in 1 .. Len(q) /\ f[a] \in 1 .. Len(q)
      BY <3>1, <2>2
    <3>3. ~(f[a] < i) /\ ~(i < f[a])
      BY <3>1, <2>3
    <3>4. f[a] = i
      BY <3>2, <3>3
    <3> QED
      BY <3>1, <3>4
  <2>11. f \in [DOMAIN w -> kept] /\ Goal(f)
    BY <2>6, <2>7, <2>8, <2>9, <2>10
  <2> QED
    BY <2>11
<1> QED
  BY <1>1, <1>2

\* queue_remove_if keeps the data that are not to be removed, and no others; a
\* datum that was queued once still is; and whoever was before somebody still is.
LEMMA WithoutKeeps ==
    ASSUME NEW S, NEW q \in Seq(S), NEW gone
    PROVE  /\ Without(q, gone) \in Seq(S)
           /\ InSeq(Without(q, gone)) = InSeq(q) \ gone
           /\ NoRepeat(q) => NoRepeat(Without(q, gone))
           /\ \A a, b \in DOMAIN Without(q, gone) : a < b =>
                 \E i, j \in DOMAIN q : /\ i < j
                                        /\ q[i] = Without(q, gone)[a]
                                        /\ q[j] = Without(q, gone)[b]
<1> DEFINE kept == {i \in DOMAIN q : q[i] \notin gone}
           w == Without(q, gone)
<1>1. PICK f \in [DOMAIN w -> kept] :
           /\ w \in Seq(S)
           /\ \A a \in DOMAIN w : w[a] = q[f[a]]
           /\ \A a, b \in DOMAIN w : a < b => f[a] < f[b]
           /\ \A i \in kept : \E a \in DOMAIN w : f[a] = i
  BY WithoutPlaces
<1> HIDE DEF w
<1>2. \A a \in DOMAIN w : f[a] \in DOMAIN q /\ q[f[a]] \notin gone
  OBVIOUS
<1>3. InSeq(w) = InSeq(q) \ gone
  BY <1>1, <1>2 DEF InSeq
<1>4. ASSUME NoRepeat(q)
      PROVE  NoRepeat(w)
  <2> SUFFICES ASSUME NEW a \in DOMAIN w, NEW b \in DOMAIN w, w[a] = w[b], a # b
               PROVE  FALSE
    BY DEF NoRepeat
  <2>1. a \in Nat /\ b \in Nat
    BY <1>1
  <2>2. a < b \/ b < a
    BY <2>1
  <2>3. f[a] = f[b]
    BY <1>1, <1>2, <1>4 DEF NoRepeat
  <2>4. f[a] \in Nat
    BY <1>2
  <2> QED
    BY <1>1, <2>2, <2>3, <2>4
<1>5. \A a, b \in DOMAIN w : a < b =>
         \E i, j \in DOMAIN q : i < j /\ q[i] = w[a] /\ q[j] = w[b]
  BY <1>1, <1>2
<1> QED
  BY <1>1, <1>3, <1>4, <1>5 DEF w

\* queue_push_tail adds its datum and keeps the others.
LEMMA AppendKeeps ==
    ASSUME NEW S, NEW q \in Seq(S), NEW x \in S
    PROVE  /\ Append(q, x) \in Seq(S)
           /\ InSeq(Append(q, x)) = InSeq(q) \cup {x}
           /\ NoRepeat(q) /\ x \notin InSeq(q) => NoRepeat(Append(q, x))
<1>1. /\ Append(q, x) \in Seq(S) /\ DOMAIN Append(q, x) = 1 .. Len(q) + 1
      /\ \A i \in DOMAIN q : Append(q, x)[i] = q[i]
      /\ Append(q, x)[Len(q) + 1] = x /\ Len(q) \in Nat /\ DOMAIN q = 1 .. Len(q)
  OBVIOUS
<1>2. \A i \in DOMAIN Append(q, x) : i \in DOMAIN q \/ i = Len(q) + 1
  BY <1>1
<1>3. DOMAIN q \subseteq DOMAIN Append(q, x) /\ Len(q) + 1 \in DOMAIN Append(q, x)
  BY <1>1
<1>4. InSeq(Append(q, x)) = InSeq(q) \cup {x}
  BY <1>1, <1>2, <1>3 DEF InSeq
<1>5. NoRepeat(q) /\ x \notin InSeq(q) => NoRepeat(Append(q, x))
  BY <1>1, <1>2 DEF NoRepeat, InSeq
<1> QED
  BY <1>1, <1>4, <1>5

\* queue_pop_head takes the head and keeps the rest.
LEMMA TailKeeps ==
    ASSUME NEW S, NEW q \in Seq(S), q # <<>>
    PROVE  /\ Head(q) \in S /\ Tail(q) \in Seq(S)
           /\ InSeq(q) = InSeq(Tail(q)) \cup {Head(q)}
           /\ NoRepeat(q) => NoRepeat(Tail(q)) /\ Head(q) \notin InSeq(Tail(q))
<1>1. /\ Tail(q) \in Seq(S) /\ Len(q) \in Nat \ {0} /\ DOMAIN q = 1 .. Len(q)
      /\ DOMAIN Tail(q) = 1 .. Len(q) - 1 /\ Head(q) = q[1] /\ Head(q) \in S
      /\ \A i \in DOMAIN Tail(q) : Tail(q)[i] = q[i + 1]
  OBVIOUS
<1>2. \A i \in DOMAIN Tail(q) : i + 1 \in DOMAIN q /\ i + 1 # 1
  BY <1>1
<1>3. \A i \in DOMAIN q : i = 1 \/ (i - 1 \in DOMAIN Tail(q) /\ (i - 1) + 1 = i)
  BY <1>1
<1>4. InSeq(q) = InSeq(Tail(q)) \cup {Head(q)}
  <2>1. InSeq(q) \subseteq InSeq(Tail(q)) \cup {Head(q)}
    BY <1>1, <1>3 DEF InSeq
  <2>2. InSeq(Tail(q)) \cup {Head(q)} \subseteq InSeq(q)
    BY <1>1, <1>2 DEF InSeq
  <2> QED
    BY <2>1, <2>2
<1>5. ASSUME NoRepeat(q)
      PROVE  NoRepeat(Tail(q)) /\ Head(q) \notin InSeq(Tail(q))
  <2>1. ASSUME NEW i \in DOMAIN Tail(q), NEW j \in DOMAIN Tail(q),
               Tail(q)[i] = Tail(q)[j]
        PROVE  i = j
    <3>1. i + 1 = j + 1
      BY <1>1, <1>2, <1>5, <2>1 DEF NoRepeat
    <3> QED
      BY <1>1, <3>1
  <2>2. \A i \in DOMAIN Tail(q) : Tail(q)[i] # Head(q)
    BY <1>1, <1>2, <1>5 DEF NoRepeat
  <2> QED
    BY <2>1, <2>2 DEF NoRepeat, InSeq
<1> QED
  BY <1>1, <1>4, <1>5

=============================================================================
