--------------------------------- MODULE Facts ---------------------------------
(***************************************************************************)
(* Facts about the data of the schedulers, for the proofs.                 *)
(*                                                                         *)
(* First, sequences, for the queues of jobs and the list of horizon        *)
(* points: what inserting, appending and removing an element do to the     *)
(* other elements, to their order and to their set; and induction over an  *)
(* interval of numbers, with what rests on it: that running sums and other *)
(* recursions over an interval are satisfied, and that a finite set can be *)
(* enumerated in a given order.  Then the sizes of sets, for the           *)
(* algorithms that count machines, and the queues of Queue: what           *)
(* selecting, sorting, joining and leaving keep.                           *)
(*                                                                         *)
(* Last, the operators of Schedule.  A profile is sound if it is a         *)
(* partition of the future, as IsProfile and IsContiguous say, in which no *)
(* two neighbours could be merged and the last slice is empty.  Inserting  *)
(* and removing a job keep it so, do what they promise for this job and    *)
(* nothing to any other.  The code inserts and removes by splitting,       *)
(* editing and merging slices.  Splitting and merging change the list but  *)
(* not what it says: one profile is coarser than another if its slices are *)
(* groups of equal neighbours of the other one, and then every job has the *)
(* same allocation in both.                                                *)
(***************************************************************************)
EXTENDS Integers, SequencesExt, SequenceTheorems, FiniteSetTheorems,
        WellFoundedInduction, TLAPS, Queue, Schedule

-------------------------------------------------------------------------------
(* Numbers.  The induction theorems of the library are about operators; a  *)
(* set of numbers without a least element serves as well.                  *)

\* A set of numbers has a least element.
LEMMA LeastElement ==
  ASSUME NEW S \in SUBSET Nat, S # {}
  PROVE  \E m \in S : \A k \in S : m <= k
<1>1. IsWellFoundedOn(OpToRel(<, Nat), Nat)
  BY NatLessThanWellFounded
<1>2. PICK m \in S : \A k \in S : ~(<<k, m>> \in OpToRel(<, Nat))
  BY <1>1, WFMin
<1>3. \A k \in S : ~(k < m)
  BY <1>2 DEF OpToRel
<1>. QED  BY <1>3

\* Products grow with their second factor.
LEMMA ProductGrows ==
  ASSUME NEW K \in Nat, NEW V \in Nat, NEW W \in Nat, V <= W
  PROVE  /\ K * V \in Nat /\ K * V <= K * W
         /\ (K + 1) * V = K * V + V
<1>1. K * (W - V) >= 0 /\ K * V >= 0
  OBVIOUS
<1>2. K * (W - V) = K * W - K * V
  OBVIOUS
<1>3. K * V \in Int /\ K * W \in Int
  OBVIOUS
<1>4. (K + 1) * V = K * V + V
  OBVIOUS
<1>. QED  BY <1>1, <1>2, <1>3, <1>4

\* Induction over 0 .. n, for a property given as a set.
LEMMA IntervalInduction ==
  ASSUME NEW n \in Nat, NEW S, 0 \in S,
         \A i \in 0 .. n - 1 : i \in S => i + 1 \in S
  PROVE  \A i \in 0 .. n : i \in S
<1>. SUFFICES ASSUME NEW j \in 0 .. n, j \notin S
              PROVE  FALSE
  OBVIOUS
<1>. DEFINE Others == {i \in 0 .. n : i \notin S}
<1>1. Others \in SUBSET Nat /\ Others # {}
  OBVIOUS
<1>2. PICK m \in Others : \A k \in Others : m <= k
  BY <1>1, LeastElement
<1>3. m \in 1 .. n /\ m - 1 \in 0 .. n - 1 /\ m - 1 \notin Others
  BY <1>2
<1>. QED  BY <1>2, <1>3

\* The recursive definition of the running sum of v, from c, is satisfied.
LEMMA RunningSum ==
  ASSUME NEW n \in Nat, NEW v, \A i \in 1 .. n : v[i] \in Int, NEW c \in Int
  PROVE  \E g : g = [i \in 0 .. n |-> IF i = 0 THEN c ELSE g[i - 1] + v[i]]
<1>. DEFINE Sums(g, m) == /\ g \in [0 .. m -> Int]
                          /\ g[0] = c
                          /\ \A i \in 1 .. m : g[i] = g[i - 1] + v[i]
            S == {m \in 0 .. n : \E g : Sums(g, m)}
<1>1. 0 \in S
  <2>1. Sums([i \in 0 .. 0 |-> c], 0)
    OBVIOUS
  <2>. HIDE DEF Sums
  <2>. QED  BY <2>1
<1>2. ASSUME NEW m \in 0 .. n - 1, m \in S
      PROVE  m + 1 \in S
  <2>1. PICK g : Sums(g, m)
    BY <1>2
  <2>. DEFINE h == [i \in 0 .. m + 1 |->
                      IF i = m + 1 THEN g[m] + v[m + 1] ELSE g[i]]
  <2>2. h \in [0 .. m + 1 -> Int]
    BY <2>1
  <2>3. h[0] = c
    BY <2>1
  <2>4. ASSUME NEW i \in 1 .. m + 1
        PROVE  h[i] = h[i - 1] + v[i]
    <3>1. CASE i = m + 1
      BY <2>1, <3>1
    <3>2. CASE i # m + 1
      BY <2>1, <3>2
    <3>. QED  BY <3>1, <3>2
  <2>. HIDE DEF h
  <2>5. Sums(h, m + 1)
    BY <2>2, <2>3, <2>4
  <2>. QED  BY <2>5
<1>3. n \in S
  <2>1. \A m \in 0 .. n - 1 : m \in S => m + 1 \in S
    BY <1>2
  <2>. HIDE DEF S
  <2>2. \A m \in 0 .. n : m \in S
    BY <1>1, <2>1, IntervalInduction
  <2>. QED  BY <2>2
<1>4. PICK g : Sums(g, n)
  BY <1>3
<1>5. g = [i \in 0 .. n |-> IF i = 0 THEN c ELSE g[i - 1] + v[i]]
  BY <1>4
<1>. QED  BY <1>5

-------------------------------------------------------------------------------
(* Enumerations.                                                           *)

\* The places of an order on K, given as a set of pairs.
Enumerates(p, K, before) ==
  /\ p \in [1 .. Cardinality(K) -> K]
  /\ \A i, j \in 1 .. Cardinality(K) : i < j => <<p[i], p[j]>> \in before
  /\ \A k \in K : \E i \in 1 .. Cardinality(K) : p[i] = k

IsEnumerable(K, before) == \E p : Enumerates(p, K, before)

\* A finite set that is strictly and totally ordered by a set of pairs can be
\* enumerated in that order: the place of an element is the number of those
\* before it, plus one.
LEMMA Enumeration ==
  ASSUME NEW K, IsFiniteSet(K), NEW R,
         \A a \in K : <<a, a>> \notin R,
         \A a, b \in K : a # b => <<a, b>> \in R \/ <<b, a>> \in R,
         \A a, b, c \in K : <<a, b>> \in R /\ <<b, c>> \in R => <<a, c>> \in R
  PROVE  IsEnumerable(K, R)
<1>. DEFINE n == Cardinality(K)
            below == [k \in K |-> {h \in K : <<h, k>> \in R}]
            rank == [k \in K |-> Cardinality(below[k]) + 1]
<1>1. n \in Nat
  BY FS_CardinalityType
<1>2. ASSUME NEW k \in K
      PROVE  /\ IsFiniteSet(below[k]) /\ Cardinality(below[k]) \in Nat
             /\ IsFiniteSet(below[k] \cup {k})
             /\ rank[k] = Cardinality(below[k]) + 1
             /\ Cardinality(below[k] \cup {k}) = rank[k]
  <2>1. IsFiniteSet(below[k])
    BY FS_Subset
  <2>2. k \notin below[k]
    OBVIOUS
  <2>. HIDE DEF below
  <2>3. Cardinality(below[k]) \in Nat /\ IsFiniteSet(below[k] \cup {k})
        /\ Cardinality(below[k] \cup {k}) = Cardinality(below[k]) + 1
    BY <2>1, <2>2, FS_CardinalityType, FS_AddElement
  <2>. QED  BY <2>1, <2>3
<1>3. ASSUME NEW k \in K
      PROVE  rank[k] \in 1 .. n
  <2>1. below[k] \cup {k} \in SUBSET K
    OBVIOUS
  <2>. HIDE DEF below, rank
  <2>2. Cardinality(below[k] \cup {k}) <= n
    BY <2>1, FS_Subset
  <2>3. /\ Cardinality(below[k]) \in Nat
        /\ rank[k] = Cardinality(below[k]) + 1
        /\ Cardinality(below[k] \cup {k}) = rank[k]
    BY <1>2
  <2>. HIDE DEF n
  <2>. QED  BY <1>1, <2>2, <2>3
<1>4. ASSUME NEW a \in K, NEW b \in K, <<a, b>> \in R
      PROVE  rank[a] < rank[b]
  <2>1. below[a] \cup {a} \in SUBSET below[b]
    BY <1>4
  <2>. HIDE DEF below, rank
  <2>2. Cardinality(below[a] \cup {a}) <= Cardinality(below[b])
    BY <1>2, <2>1, FS_Subset
  <2>3. /\ Cardinality(below[b]) \in Nat
        /\ rank[b] = Cardinality(below[b]) + 1
        /\ Cardinality(below[a]) \in Nat
        /\ rank[a] = Cardinality(below[a]) + 1
        /\ Cardinality(below[a] \cup {a}) = rank[a]
    BY <1>2
  <2>. QED  BY <2>2, <2>3
<1>5. rank \in Injection(K, 1 .. n)
  <2>1. \A a, b \in K : a # b => rank[a] # rank[b]
    <3>. HIDE DEF rank, n
    <3>1. \A a, b \in K : <<a, b>> \in R => rank[a] < rank[b]
      BY <1>4
    <3>2. \A a \in K : rank[a] \in Int
      BY <1>1, <1>3
    <3>3. ASSUME NEW a \in K, NEW b \in K, a # b
          PROVE  rank[a] # rank[b]
      <4>1. <<a, b>> \in R \/ <<b, a>> \in R
        BY <3>3
      <4>2. rank[a] < rank[b] \/ rank[b] < rank[a]
        BY <3>1, <4>1
      <4>. QED  BY <3>2, <4>2
    <3>. QED  BY <3>3
  <2>2. rank \in [K -> 1 .. n]
    BY <1>3
  <2>. HIDE DEF rank
  <2>. QED  BY <2>1, <2>2 DEF Injection, IsInjective
<1>6. rank \in Surjection(K, 1 .. n)
  <2>1. IsFiniteSet(1 .. n) /\ Cardinality(1 .. n) = n
    BY <1>1, FS_Interval
  <2>. HIDE DEF rank
  <2>. QED  BY <1>5, <2>1, FS_Injection
<1>. DEFINE p == [i \in 1 .. n |-> CHOOSE k \in K : rank[k] = i]
<1>7. \A i \in 1 .. n : p[i] \in K /\ rank[p[i]] = i
  <2>. HIDE DEF rank
  <2>1. \A i \in 1 .. n : \E k \in K : rank[k] = i
    BY <1>6 DEF Surjection
  <2>. QED  BY <2>1
<1>8. ASSUME NEW i \in 1 .. n, NEW j \in 1 .. n, i < j
      PROVE  <<p[i], p[j]>> \in R
  <2>. HIDE DEF p, rank
  <2>1. p[i] # p[j]
    BY <1>7, <1>8
  <2>2. <<p[j], p[i]>> \notin R
    BY <1>1, <1>4, <1>7, <1>8
  <2>. QED  BY <1>7, <2>1, <2>2
<1>9. ASSUME NEW k \in K
      PROVE  \E i \in 1 .. n : p[i] = k
  <2>. HIDE DEF p, rank
  <2>1. rank[k] \in 1 .. n
    BY <1>3
  <2>2. p[rank[k]] \in K /\ rank[p[rank[k]]] = rank[k]
    BY <1>7, <2>1
  <2>3. p[rank[k]] = k
    BY <1>5, <2>2 DEF Injection, IsInjective
  <2>. QED  BY <2>1, <2>3
<1>10. p \in [1 .. n -> K]
  BY <1>7
<1>. HIDE DEF p
<1>. QED  BY <1>8, <1>9, <1>10 DEF IsEnumerable, Enumerates

\* A function over 0 .. n that starts with base and goes on as step says.
Iterates(g, n, S, base, step) ==
  /\ g \in [0 .. n -> S]
  /\ g[0] = base
  /\ \A k \in 1 .. n : g[k] = step[k][g[k - 1]]

\* A recursion over 0 .. n whose steps stay in a set is satisfied by a function
\* into that set.
LEMMA Recursion ==
  ASSUME NEW n \in Nat, NEW S, NEW base \in S,
         NEW step \in [1 .. n -> [S -> S]]
  PROVE  \E g : Iterates(g, n, S, base, step)
<1>. DEFINE Steps(g, m) == /\ g \in [0 .. m -> S]
                           /\ g[0] = base
                           /\ \A i \in 1 .. m : g[i] = step[i][g[i - 1]]
            T == {m \in 0 .. n : \E g : Steps(g, m)}
<1>1. 0 \in T
  <2>1. Steps([i \in 0 .. 0 |-> base], 0)
    OBVIOUS
  <2>. HIDE DEF Steps
  <2>. QED  BY <2>1
<1>2. ASSUME NEW m \in 0 .. n - 1, m \in T
      PROVE  m + 1 \in T
  <2>1. PICK g : Steps(g, m)
    BY <1>2
  <2>. DEFINE h == [i \in 0 .. m + 1 |->
                      IF i = m + 1 THEN step[m + 1][g[m]] ELSE g[i]]
  <2>2. h \in [0 .. m + 1 -> S]
    BY <2>1
  <2>3. h[0] = base
    BY <2>1
  <2>4. ASSUME NEW i \in 1 .. m + 1
        PROVE  h[i] = step[i][h[i - 1]]
    <3>1. CASE i = m + 1
      BY <2>1, <3>1
    <3>2. CASE i # m + 1
      BY <2>1, <3>2
    <3>. QED  BY <3>1, <3>2
  <2>. HIDE DEF h
  <2>5. Steps(h, m + 1)
    BY <2>2, <2>3, <2>4
  <2>. QED  BY <2>5
<1>3. n \in T
  <2>1. \A m \in 0 .. n - 1 : m \in T => m + 1 \in T
    BY <1>2
  <2>. HIDE DEF T
  <2>2. \A m \in 0 .. n : m \in T
    BY <1>1, <2>1, IntervalInduction
  <2>. QED  BY <2>2
<1>. QED  BY <1>3 DEF Iterates

-------------------------------------------------------------------------------
(* Sequences and the sets of their elements.                               *)

\* Tail forgets the head, and only the head.
LEMMA TailOfInjective ==
  ASSUME NEW S, NEW s \in Seq(S), s # <<>>, IsInjective(s)
  PROVE  /\ Tail(s) \in Seq(S)
         /\ Head(s) \in S
         /\ Head(s) \in ToSet(s)
         /\ IsInjective(Tail(s))
         /\ ToSet(Tail(s)) = ToSet(s) \ {Head(s)}
<1>1. /\ Tail(s) \in Seq(S)
      /\ Len(s) \in Nat \ {0}
      /\ Len(Tail(s)) = Len(s) - 1
      /\ \A i \in 1 .. Len(Tail(s)) : Tail(s)[i] = s[i + 1]
      /\ Head(s) = s[1]
      /\ DOMAIN s = 1 .. Len(s)
      /\ DOMAIN Tail(s) = 1 .. Len(Tail(s))
  OBVIOUS
<1>2. Head(s) \in S /\ Head(s) \in ToSet(s)
  BY <1>1 DEF ToSet
<1>3. IsInjective(Tail(s))
  BY <1>1 DEF IsInjective
<1>4. ToSet(Tail(s)) \subseteq ToSet(s) \ {Head(s)}
  <2>. SUFFICES ASSUME NEW i \in DOMAIN Tail(s)
                PROVE  Tail(s)[i] \in ToSet(s) \ {Head(s)}
    BY DEF ToSet
  <2>1. i + 1 \in DOMAIN s /\ i + 1 # 1 /\ Tail(s)[i] = s[i + 1]
    BY <1>1
  <2>. QED  BY <1>1, <2>1 DEF ToSet, IsInjective
<1>5. ToSet(s) \ {Head(s)} \subseteq ToSet(Tail(s))
  <2>. SUFFICES ASSUME NEW i \in DOMAIN s, s[i] # s[1]
                PROVE  s[i] \in ToSet(Tail(s))
    BY <1>1 DEF ToSet
  <2>1. i - 1 \in DOMAIN Tail(s) /\ Tail(s)[i - 1] = s[i]
    BY <1>1
  <2>. QED  BY <2>1 DEF ToSet
<1>. QED  BY <1>1, <1>2, <1>3, <1>4, <1>5

\* Appending an element adds it; a new one keeps the sequence injective.
LEMMA AppendToInjective ==
  ASSUME NEW S, NEW s \in Seq(S), NEW e \in S
  PROVE  /\ Append(s, e) \in Seq(S)
         /\ ToSet(Append(s, e)) = ToSet(s) \cup {e}
         /\ IsInjective(s) /\ e \notin ToSet(s) => IsInjective(Append(s, e))
<1>1. /\ Append(s, e) \in Seq(S)
      /\ Len(Append(s, e)) = Len(s) + 1
      /\ \A i \in 1 .. Len(s) : Append(s, e)[i] = s[i]
      /\ Append(s, e)[Len(s) + 1] = e
      /\ Len(s) \in Nat
      /\ DOMAIN s = 1 .. Len(s)
      /\ DOMAIN Append(s, e) = 1 .. Len(s) + 1
  OBVIOUS
<1>2. ToSet(Append(s, e)) \subseteq ToSet(s) \cup {e}
  BY <1>1 DEF ToSet
<1>3. e \in ToSet(Append(s, e))
  BY <1>1 DEF ToSet
<1>4. ToSet(s) \subseteq ToSet(Append(s, e))
  <2>. SUFFICES ASSUME NEW i \in DOMAIN s
                PROVE  s[i] \in ToSet(Append(s, e))
    BY DEF ToSet
  <2>1. i \in DOMAIN Append(s, e) /\ Append(s, e)[i] = s[i]
    BY <1>1
  <2>. QED  BY <2>1 DEF ToSet
<1>5. ASSUME IsInjective(s), e \notin ToSet(s)
      PROVE  IsInjective(Append(s, e))
  BY <1>1, <1>5 DEF IsInjective, ToSet
<1>. QED  BY <1>1, <1>2, <1>3, <1>4, <1>5

\* RemoveAt moves the elements behind the position forward by one.
LEMMA RemoveAtProperties ==
  ASSUME NEW S, NEW s \in Seq(S), NEW p \in 1 .. Len(s)
  PROVE  /\ RemoveAt(s, p) \in Seq(S)
         /\ Len(RemoveAt(s, p)) = Len(s) - 1
         /\ \A i \in 1 .. Len(s) - 1 :
              RemoveAt(s, p)[i] = IF i < p THEN s[i] ELSE s[i + 1]
<1>. DEFINE r == RemoveAt(s, p)
            a == SubSeq(s, 1, p - 1)
            b == SubSeq(s, p + 1, Len(s))
<1>1. /\ a \in Seq(S) /\ Len(a) = p - 1
      /\ \A i \in 1 .. p - 1 : a[i] = s[i]
  OBVIOUS
<1>2. /\ b \in Seq(S) /\ Len(b) = Len(s) - p
      /\ \A i \in 1 .. Len(s) - p : b[i] = s[i + p]
  OBVIOUS
<1>3. r = a \o b
  BY DEF RemoveAt
<1>. HIDE DEF a, b, r
<1>4. /\ a \o b \in Seq(S)
      /\ Len(a \o b) = Len(a) + Len(b)
      /\ \A i \in 1 .. Len(a) + Len(b) :
           (a \o b)[i] = IF i <= Len(a) THEN a[i] ELSE b[i - Len(a)]
  BY <1>1, <1>2, ConcatProperties
<1>5. ASSUME NEW i \in 1 .. Len(s) - 1
      PROVE  r[i] = IF i < p THEN s[i] ELSE s[i + 1]
  <2>1. CASE i < p
    BY <1>1, <1>2, <1>3, <1>4, <2>1
  <2>2. CASE ~(i < p)
    <3>1. i - (p - 1) \in 1 .. Len(s) - p /\ (i - (p - 1)) + p = i + 1
      BY <2>2
    <3>2. r[i] = b[i - (p - 1)]
      BY <1>1, <1>2, <1>3, <1>4, <2>2
    <3>3. b[i - (p - 1)] = s[i + 1]
      BY <1>2, <3>1
    <3>. QED  BY <2>2, <3>2, <3>3
  <2>. QED  BY <2>1, <2>2
<1>6. r \in Seq(S) /\ Len(r) = Len(s) - 1
  BY <1>1, <1>2, <1>3, <1>4
<1>. QED  BY <1>5, <1>6 DEF r

\* InsertAt moves the elements from the position on back by one.
LEMMA InsertAtProperties ==
  ASSUME NEW S, NEW s \in Seq(S), NEW e \in S, NEW p \in 1 .. Len(s) + 1
  PROVE  /\ InsertAt(s, p, e) \in Seq(S)
         /\ Len(InsertAt(s, p, e)) = Len(s) + 1
         /\ \A i \in 1 .. Len(s) + 1 :
              InsertAt(s, p, e)[i] = IF i < p THEN s[i]
                                     ELSE IF i = p THEN e ELSE s[i - 1]
<1>. DEFINE r == InsertAt(s, p, e)
            a == SubSeq(s, 1, p - 1)
            b == SubSeq(s, p, Len(s))
            c == Append(a, e)
<1>1. /\ a \in Seq(S) /\ Len(a) = p - 1
      /\ \A i \in 1 .. p - 1 : a[i] = s[i]
  OBVIOUS
<1>2. /\ b \in Seq(S) /\ Len(b) = Len(s) - (p - 1)
      /\ \A i \in 1 .. Len(s) - (p - 1) : b[i] = s[i + (p - 1)]
  OBVIOUS
<1>3. r = (a \o <<e>>) \o b
  BY DEF InsertAt
<1>. HIDE DEF a, b, r
<1>4. a \o <<e>> = c
  BY <1>1, AppendIsConcat
<1>5. /\ c \in Seq(S) /\ Len(c) = p /\ c[p] = e
      /\ \A i \in 1 .. p - 1 : c[i] = s[i]
  BY <1>1, AppendProperties
<1>. HIDE DEF c
<1>6. /\ c \o b \in Seq(S)
      /\ Len(c \o b) = Len(c) + Len(b)
      /\ \A i \in 1 .. Len(c) + Len(b) :
           (c \o b)[i] = IF i <= Len(c) THEN c[i] ELSE b[i - Len(c)]
  BY <1>2, <1>5, ConcatProperties
<1>7. Len(s) \in Nat /\ Len(c) + Len(b) = Len(s) + 1
  BY <1>2, <1>5, LenProperties
<1>8. r = c \o b
  BY <1>3, <1>4
<1>9. ASSUME NEW i \in 1 .. Len(s) + 1
      PROVE  r[i] = IF i < p THEN s[i] ELSE IF i = p THEN e ELSE s[i - 1]
  <2>1. CASE i <= p
    BY <1>5, <1>6, <1>7, <1>8, <2>1
  <2>2. CASE ~(i <= p)
    <3>1. i - p \in 1 .. Len(s) - (p - 1) /\ (i - p) + (p - 1) = i - 1
      BY <1>7, <2>2
    <3>2. (c \o b)[i] = b[i - p]
      BY <1>5, <1>6, <1>7, <2>2
    <3>. QED  BY <1>2, <1>8, <2>2, <3>1, <3>2
  <2>. QED  BY <2>1, <2>2
<1>10. r \in Seq(S) /\ Len(r) = Len(s) + 1
  BY <1>6, <1>7, <1>8
<1>. QED  BY <1>9, <1>10 DEF r

\* RemoveAt forgets the element at the position, and only that one.
LEMMA RemoveAtOfInjective ==
  ASSUME NEW S, NEW s \in Seq(S), NEW p \in 1 .. Len(s), IsInjective(s)
  PROVE  /\ RemoveAt(s, p) \in Seq(S)
         /\ s[p] \in S
         /\ s[p] \in ToSet(s)
         /\ IsInjective(RemoveAt(s, p))
         /\ ToSet(RemoveAt(s, p)) = ToSet(s) \ {s[p]}
<1>. DEFINE r == RemoveAt(s, p)
<1>1. /\ r \in Seq(S)
      /\ Len(r) = Len(s) - 1
      /\ \A i \in 1 .. Len(s) - 1 : r[i] = IF i < p THEN s[i] ELSE s[i + 1]
  BY RemoveAtProperties
<1>2. /\ Len(s) \in Nat
      /\ DOMAIN s = 1 .. Len(s)
      /\ DOMAIN r = 1 .. Len(s) - 1
  BY <1>1
<1>3. s[p] \in S /\ s[p] \in ToSet(s)
  BY <1>2 DEF ToSet
<1>. HIDE DEF r
<1>4. IsInjective(r)
  <2>. SUFFICES ASSUME NEW i \in DOMAIN r, NEW k \in DOMAIN r, r[i] = r[k]
                PROVE  i = k
    BY DEF IsInjective
  <2>. DEFINE I(n) == IF n < p THEN n ELSE n + 1
  <2>1. I(i) \in DOMAIN s /\ I(k) \in DOMAIN s /\ s[I(i)] = s[I(k)]
    BY <1>1, <1>2
  <2>2. I(i) = I(k)
    BY <2>1 DEF IsInjective
  <2>. QED  BY <1>2, <2>2
<1>5. ToSet(r) \subseteq ToSet(s) \ {s[p]}
  <2>. SUFFICES ASSUME NEW i \in DOMAIN r
                PROVE  r[i] \in ToSet(s) \ {s[p]}
    BY DEF ToSet
  <2>. DEFINE k == IF i < p THEN i ELSE i + 1
  <2>1. k \in DOMAIN s /\ k # p /\ r[i] = s[k]
    BY <1>1, <1>2
  <2>. HIDE DEF k
  <2>. QED  BY <1>2, <2>1 DEF ToSet, IsInjective
<1>6. ToSet(s) \ {s[p]} \subseteq ToSet(r)
  <2>. SUFFICES ASSUME NEW i \in DOMAIN s, s[i] # s[p]
                PROVE  s[i] \in ToSet(r)
    BY DEF ToSet
  <2>. DEFINE k == IF i < p THEN i ELSE i - 1
  <2>1. k \in DOMAIN r /\ r[k] = s[i]
    BY <1>1, <1>2
  <2>. HIDE DEF k
  <2>. QED  BY <2>1 DEF ToSet
<1>. QED  BY <1>1, <1>3, <1>4, <1>5, <1>6 DEF r

\* InsertAt adds the element, wherever it puts it.
LEMMA InsertAtAdds ==
  ASSUME NEW S, NEW s \in Seq(S), NEW e \in S, NEW p \in 1 .. Len(s) + 1
  PROVE  ToSet(InsertAt(s, p, e)) = ToSet(s) \cup {e}
<1>. DEFINE r == InsertAt(s, p, e)
<1>1. /\ DOMAIN s = 1 .. Len(s) /\ Len(s) \in Nat
      /\ DOMAIN r = 1 .. Len(s) + 1
      /\ \A i \in 1 .. Len(s) + 1 :
           r[i] = IF i < p THEN s[i] ELSE IF i = p THEN e ELSE s[i - 1]
  BY InsertAtProperties, LenProperties
<1>. HIDE DEF r
<1>2. ASSUME NEW i \in DOMAIN s
      PROVE  s[i] \in ToSet(r)
  <2>. DEFINE k == IF i < p THEN i ELSE i + 1
  <2>1. k \in DOMAIN r /\ r[k] = s[i]
    BY <1>1
  <2>. HIDE DEF k
  <2>. QED  BY <2>1 DEF ToSet
<1>3. e \in ToSet(r)
  BY <1>1 DEF ToSet
<1>4. ASSUME NEW i \in DOMAIN r
      PROVE  r[i] \in ToSet(s) \cup {e}
  <2>1. i < p => i \in DOMAIN s
    BY <1>1
  <2>2. i > p => i - 1 \in DOMAIN s
    BY <1>1
  <2>. QED  BY <1>1, <2>1, <2>2 DEF ToSet
<1>5. ToSet(r) \subseteq ToSet(s) \cup {e}
  BY <1>4 DEF ToSet
<1>6. ToSet(s) \subseteq ToSet(r)
  BY <1>2 DEF ToSet
<1>. QED  BY <1>3, <1>5, <1>6 DEF r

-------------------------------------------------------------------------------
(* Order.                                                                  *)

\* Later elements are larger.
Ascending(s) == \A i, k \in DOMAIN s : i < k => s[i] < s[k]

\* The head of an ascending sequence is its least element, and its tail holds
\* the others, in order.
LEMMA TailOfAscending ==
  ASSUME NEW s \in Seq(Int), s # <<>>, Ascending(s)
  PROVE  /\ Ascending(Tail(s))
         /\ Head(s) \in ToSet(s)
         /\ ToSet(Tail(s)) = ToSet(s) \ {Head(s)}
         /\ \A x \in ToSet(s) : x # Head(s) => Head(s) < x
<1>1. /\ Len(s) \in Nat \ {0}
      /\ DOMAIN s = 1 .. Len(s)
      /\ \A i \in DOMAIN s : s[i] \in Int
      /\ Head(s) = s[1]
      /\ DOMAIN Tail(s) = 1 .. Len(s) - 1
      /\ \A i \in 1 .. Len(s) - 1 : Tail(s)[i] = s[i + 1]
  OBVIOUS
<1>2. IsInjective(s)
  BY <1>1 DEF Ascending, IsInjective
<1>3. Ascending(Tail(s))
  BY <1>1 DEF Ascending
<1>4. \A x \in ToSet(s) : x # Head(s) => Head(s) < x
  BY <1>1 DEF Ascending, ToSet
<1>. QED  BY <1>2, <1>3, <1>4, TailOfInjective

\* Appending an element larger than all others keeps the order.
LEMMA AppendToAscending ==
  ASSUME NEW s \in Seq(Int), NEW e \in Int, Ascending(s),
         \A x \in ToSet(s) : x < e
  PROVE  Ascending(Append(s, e))
<1>1. /\ Len(s) \in Nat
      /\ DOMAIN s = 1 .. Len(s)
      /\ DOMAIN Append(s, e) = 1 .. Len(s) + 1
      /\ \A i \in 1 .. Len(s) : Append(s, e)[i] = s[i]
      /\ Append(s, e)[Len(s) + 1] = e
  OBVIOUS
<1>2. \A i \in 1 .. Len(s) : s[i] < e
  BY <1>1 DEF ToSet
<1>. QED  BY <1>1, <1>2 DEF Ascending

-------------------------------------------------------------------------------
(* Counting.                                                               *)

\* Taking elements out of a set counts exactly.
LEMMA CountRemoved ==
  ASSUME NEW S, IsFiniteSet(S), NEW T \in SUBSET S
  PROVE  Cardinality(S \ T) = Cardinality(S) - Cardinality(T)
<1>1. S \cap T = T
  OBVIOUS
<1>. QED  BY <1>1, FS_Difference

\* Putting in others, that were not there, counts exactly as well.
LEMMA CountAdded ==
  ASSUME NEW S, IsFiniteSet(S), NEW T, IsFiniteSet(T), S \cap T = {}
  PROVE  Cardinality(S \cup T) = Cardinality(S) + Cardinality(T)
<1>1. Cardinality(S) \in Nat /\ Cardinality(T) \in Nat
  BY FS_CardinalityType
<1>2. Cardinality(S \cap T) = 0
  BY FS_EmptySet
<1>3. Cardinality(S \cup T) = Cardinality(S) + Cardinality(T) - Cardinality(S \cap T)
  BY FS_Union
<1>. QED  BY <1>1, <1>2, <1>3

\* A larger set has more elements.
LEMMA CountMonotonic ==
  ASSUME NEW T, IsFiniteSet(T), NEW S \in SUBSET T
  PROVE  Cardinality(S) <= Cardinality(T)
  BY FS_Subset

-------------------------------------------------------------------------------
(* Selecting.                                                              *)

\* A selection keeps the order and exactly the positions asked for.
LEMMA SelectionPositions ==
  ASSUME NEW S, NEW s \in Seq(S), NEW K \in SUBSET (1 .. Len(s))
  PROVE  \E p \in [1 .. Cardinality(K) -> K] :
           /\ \A i, j \in 1 .. Cardinality(K) : i < j => p[i] < p[j]
           /\ \A k \in K : \E i \in 1 .. Cardinality(K) : p[i] = k
           /\ Selection(s, K) = [i \in 1 .. Cardinality(K) |-> s[p[i]]]
<1>. DEFINE n == Cardinality(K)
            Ascends(p) == \A h, i \in DOMAIN p : h < i => p[h] < p[i]
            p == CHOOSE p \in [1 .. n -> K] : Ascends(p)
            R == {x \in K \X K : x[1] < x[2]}
<1>0. Len(s) \in Nat
  BY LenProperties
<1>1. IsFiniteSet(K) /\ n \in Nat
  <2>1. IsFiniteSet(1 .. Len(s))
    BY <1>0, FS_Interval
  <2>. QED  BY <2>1, FS_Subset, FS_CardinalityType
<1>2. \E f \in [1 .. n -> K] : \A i, j \in 1 .. n : i < j => <<f[i], f[j]>> \in R
  <2>1. \A a \in K : <<a, a>> \notin R
    BY <1>0
  <2>2. \A a, b \in K : a # b => <<a, b>> \in R \/ <<b, a>> \in R
    BY <1>0
  <2>3. \A a, b, c \in K : <<a, b>> \in R /\ <<b, c>> \in R => <<a, c>> \in R
    BY <1>0
  <2>. HIDE DEF R
  <2>4. IsEnumerable(K, R)
    BY <1>1, <2>1, <2>2, <2>3, Enumeration
  <2>. QED  BY <2>4 DEF IsEnumerable, Enumerates
<1>3. PICK f \in [1 .. n -> K] : \A i, j \in 1 .. n : i < j => f[i] < f[j]
  BY <1>2
<1>4. p \in [1 .. n -> K] /\ Ascends(p)
  <2>1. Ascends(f)
    BY <1>3
  <2>. HIDE DEF Ascends
  <2>. QED  BY <2>1
<1>. HIDE DEF p
<1>5. \A i, j \in 1 .. n : i < j => p[i] < p[j]
  BY <1>4
<1>6. p \in Injection(1 .. n, K)
  <2>1. \A i \in 1 .. n : p[i] \in Int
    <3>1. \A k \in K : k \in Int
      BY <1>0
    <3>2. \A i \in 1 .. n : p[i] \in K
      BY <1>4
    <3>. QED  BY <3>1, <3>2
  <2>2. \A i, j \in 1 .. n : i # j => p[i] # p[j]
    <3>1. ASSUME NEW i \in 1 .. n, NEW j \in 1 .. n, i # j
          PROVE  p[i] # p[j]
      <4>1. i < j \/ j < i
        BY <1>1, <3>1
      <4>2. p[i] < p[j] \/ p[j] < p[i]
        BY <1>5, <4>1
      <4>. QED  BY <2>1, <4>2
    <3>. QED  BY <3>1
  <2>. QED  BY <1>4, <2>2 DEF Injection, IsInjective
<1>7. \A k \in K : \E i \in 1 .. n : p[i] = k
  <2>1. IsFiniteSet(1 .. n) /\ Cardinality(1 .. n) = n
    BY <1>1, FS_Interval
  <2>2. p \in Surjection(1 .. n, K)
    BY <1>1, <1>6, <2>1, FS_Injection
  <2>. QED  BY <2>2 DEF Surjection
<1>8. Selection(s, K) = [i \in 1 .. n |-> s[p[i]]]
  BY DEF Selection, p
<1>. QED  BY <1>4, <1>5, <1>7, <1>8

\* What is selected are elements of the sequence at these positions, each once.
LEMMA SelectionElements ==
  ASSUME NEW S, NEW s \in Seq(S), NEW K \in SUBSET (1 .. Len(s))
  PROVE  /\ Selection(s, K) \in Seq(S)
         /\ {Selection(s, K)[i] : i \in 1 .. Len(Selection(s, K))}
              = {s[k] : k \in K}
         /\ IsInjective(s) => IsInjective(Selection(s, K))
<1>1. PICK p \in [1 .. Cardinality(K) -> K] :
           /\ \A i, j \in 1 .. Cardinality(K) : i < j => p[i] < p[j]
           /\ \A k \in K : \E i \in 1 .. Cardinality(K) : p[i] = k
           /\ Selection(s, K) = [i \in 1 .. Cardinality(K) |-> s[p[i]]]
  BY SelectionPositions
<1>2. Cardinality(K) \in Nat
  <2>1. IsFiniteSet(1 .. Len(s))
    BY LenProperties, FS_Interval
  <2>. QED  BY <2>1, FS_Subset, FS_CardinalityType
<1>. DEFINE t == Selection(s, K)
<1>3. /\ t \in Seq(S) /\ Len(t) = Cardinality(K)
      /\ \A i \in 1 .. Len(t) : t[i] = s[p[i]]
  <2>1. \A i \in 1 .. Cardinality(K) : s[p[i]] \in S
    BY ElementOfSeq, <1>1
  <2>. QED  BY <1>1, <1>2, <2>1
<1>. HIDE DEF t
<1>4. {t[i] : i \in 1 .. Len(t)} = {s[k] : k \in K}
  <2>1. ASSUME NEW i \in 1 .. Len(t)
        PROVE  \E k \in K : t[i] = s[k]
    <3>1. p[i] \in K /\ t[i] = s[p[i]]
      BY <1>1, <1>3, <2>1
    <3>. QED  BY <3>1
  <2>2. ASSUME NEW k \in K
        PROVE  \E i \in 1 .. Len(t) : t[i] = s[k]
    <3>1. PICK i \in 1 .. Cardinality(K) : p[i] = k
      BY <1>1
    <3>. QED  BY <1>3, <3>1
  <2>3. {t[i] : i \in 1 .. Len(t)} \subseteq {s[k] : k \in K}
    BY <2>1, Zenon
  <2>4. {s[k] : k \in K} \subseteq {t[i] : i \in 1 .. Len(t)}
    BY <2>2, Zenon
  <2>. QED  BY <2>3, <2>4, Zenon
<1>5. ASSUME IsInjective(s), NEW i \in DOMAIN t, NEW j \in DOMAIN t, t[i] = t[j]
      PROVE  i = j
  <2>1. i \in 1 .. Len(t) /\ j \in 1 .. Len(t) /\ DOMAIN s = 1 .. Len(s)
    BY <1>3
  <2>2. s[p[i]] = s[p[j]] /\ p[i] \in DOMAIN s /\ p[j] \in DOMAIN s
    BY <1>1, <1>3, <1>5, <2>1
  <2>3. p[i] = p[j]
    BY <1>5, <2>2 DEF IsInjective
  <2>4. \A a, b \in 1 .. Cardinality(K) : a < b => p[a] < p[b]
    BY <1>1
  <2>5. p[i] \in Int /\ i \in 1 .. Cardinality(K) /\ j \in 1 .. Cardinality(K)
    <3>1. \A k \in K : k \in Int
      BY LenProperties
    <3>2. i \in 1 .. Cardinality(K) /\ j \in 1 .. Cardinality(K)
      BY <1>3, <2>1
    <3>3. p[i] \in K
      BY <3>2
    <3>. QED  BY <3>1, <3>2, <3>3
  <2>. QED  BY <1>2, <2>3, <2>4, <2>5
<1>6. IsInjective(s) => IsInjective(t)
  BY <1>5 DEF IsInjective
<1>. QED  BY <1>3, <1>4, <1>6 DEF t


-------------------------------------------------------------------------------
(* Sorting.                                                                *)

\* The elements of a queue over the jobs J.
Entries(J) == [job : J, release : Int]

\* s has the elements of q, at other places.
Rearranges(s, q) ==
  \E f \in [1 .. Len(q) -> 1 .. Len(q)] :
    /\ \A h, i \in 1 .. Len(q) : h # i => f[h] # f[i]
    /\ \A k \in 1 .. Len(q) : s[k] = q[f[k]]

\* No job is in the queue twice.
OnePerJob(q) == \A h, i \in DOMAIN q : h # i => q[h].job # q[i].job

\* Each of the eight orders compares a number and, if it is the same, the jobs.
LEMMA OrderHasKeys ==
  ASSUME NEW order \in QueueOrders, NEW J \in SUBSET Int,
         NEW size \in [J -> Int], NEW walltime \in [J -> Int], NEW date \in Int
  PROVE  \E key \in [Entries(J) -> Int] : \A a, b \in Entries(J) :
           Precedes(order, size, walltime, date, a, b)
             <=> ByKey(key[a], key[b], a, b)
<1>. DEFINE E == Entries(J)
            Keys(key) == \A a, b \in E :
                           Precedes(order, size, walltime, date, a, b)
                             <=> ByKey(key[a], key[b], a, b)
<1>0. \A a \in E : /\ a.job \in J /\ a.job \in Int /\ a.release \in Int
                   /\ size[a.job] \in Int /\ walltime[a.job] \in Int
  BY DEF Entries
<1>. SUFFICES \E key \in [E -> Int] : Keys(key)
  OBVIOUS
<1>1. CASE order = "fcfs"
  <2>. DEFINE key == [a \in E |-> a.release]
  <2>1. key \in [E -> Int] /\ Keys(key)
    BY <1>0, <1>1 DEF Precedes, FCFSOrder
  <2>. QED  BY <2>1
<1>2. CASE order = "lcfs"
  <2>. DEFINE key == [a \in E |-> -a.release]
  <2>1. key \in [E -> Int] /\ Keys(key)
    BY <1>0, <1>2 DEF Precedes, LCFSOrder
  <2>. QED  BY <2>1
<1>3. CASE order \in {"desc_slowdown", "desc_bounded_slowdown"}
  <2>. DEFINE key == [a \in E |-> -Slowdown(date, a)]
  <2>1. key \in [E -> Int]
    BY <1>0 DEF Slowdown
  <2>2. Keys(key)
    BY <1>3 DEF Precedes, DescendingSlowdownOrder, DescendingBoundedSlowdownOrder
  <2>. QED  BY <2>1, <2>2
<1>4. CASE order = "asc_size"
  <2>. DEFINE key == [a \in E |-> size[a.job]]
  <2>1. key \in [E -> Int] /\ Keys(key)
    BY <1>0, <1>4 DEF Precedes, AscendingSizeOrder
  <2>. QED  BY <2>1
<1>5. CASE order = "desc_size"
  <2>. DEFINE key == [a \in E |-> -size[a.job]]
  <2>1. key \in [E -> Int] /\ Keys(key)
    BY <1>0, <1>5 DEF Precedes, DescendingSizeOrder
  <2>. QED  BY <2>1
<1>6. CASE order = "asc_walltime"
  <2>. DEFINE key == [a \in E |-> walltime[a.job]]
  <2>1. key \in [E -> Int] /\ Keys(key)
    BY <1>0, <1>6 DEF Precedes, AscendingWalltimeOrder
  <2>. QED  BY <2>1
<1>7. CASE order = "desc_walltime"
  <2>. DEFINE key == [a \in E |-> -walltime[a.job]]
  <2>1. key \in [E -> Int] /\ Keys(key)
    BY <1>0, <1>7 DEF Precedes, DescendingWalltimeOrder
  <2>. QED  BY <2>1
<1>. QED  BY <1>1, <1>2, <1>3, <1>4, <1>5, <1>6, <1>7 DEF QueueOrders

\* Sorting rearranges the queue, and leaves no element after one it precedes.
LEMMA SortQueuePositions ==
  ASSUME NEW order \in QueueOrders, NEW J \in SUBSET Int,
         NEW size \in [J -> Int], NEW walltime \in [J -> Int], NEW date \in Int,
         NEW q \in Seq(Entries(J))
  PROVE  /\ SortQueue(order, size, walltime, date, q) \in Seq(Entries(J))
         /\ Len(SortQueue(order, size, walltime, date, q)) = Len(q)
         /\ Rearranges(SortQueue(order, size, walltime, date, q), q)
         /\ \A h, i \in 1 .. Len(q) : h < i =>
              ~Precedes(order, size, walltime, date,
                        SortQueue(order, size, walltime, date, q)[i],
                        SortQueue(order, size, walltime, date, q)[h])
<1>. DEFINE E == Entries(J)
            D == 1 .. Len(q)
            Sorted(t) == \A h, i \in DOMAIN t :
              h < i => ~Precedes(order, size, walltime, date, t[i], t[h])
<1>1. PICK key \in [E -> Int] : \A a, b \in E :
           Precedes(order, size, walltime, date, a, b)
             <=> ByKey(key[a], key[b], a, b)
  BY OrderHasKeys
<1>2. /\ Len(q) \in Nat /\ DOMAIN q = D
      /\ \A i \in D : q[i] \in E /\ key[q[i]] \in Int /\ q[i].job \in Int
  <2>1. Len(q) \in Nat /\ DOMAIN q = D
    BY LenProperties
  <2>2. ASSUME NEW i \in D
        PROVE  q[i] \in E /\ key[q[i]] \in Int /\ q[i].job \in Int
    <3>1. q[i] \in E
      BY ElementOfSeq
    <3>2. q[i].job \in J
      BY <3>1 DEF Entries
    <3>. QED  BY <3>1, <3>2
  <2>. QED  BY <2>1, <2>2
<1>. DEFINE Before(h, i) == \/ ByKey(key[q[h]], key[q[i]], q[h], q[i])
                            \/ h < i /\ ~ByKey(key[q[i]], key[q[h]], q[i], q[h])
            R == {x \in D \X D : Before(x[1], x[2])}
<1>3. IsFiniteSet(D) /\ Cardinality(D) = Len(q)
  <2>1. Len(q) \in Int /\ 1 \in Int /\ Len(q) >= 0
    BY <1>2
  <2>2. /\ IsFiniteSet(1 .. Len(q))
        /\ Cardinality(1 .. Len(q)) = IF 1 > Len(q) THEN 0 ELSE Len(q) - 1 + 1
    <3>. HIDE DEF R, D
    <3>. QED  BY <2>1, FS_Interval
  <2>. QED  BY <2>1, <2>2
<1>4. PICK p \in [D -> D] :
        /\ \A i, j \in D : i < j => <<p[i], p[j]>> \in R
        /\ \A k \in D : \E i \in D : p[i] = k
  <2>1. \A a \in D : <<a, a>> \notin R
    BY <1>2 DEF ByKey
  <2>2. \A a, b \in D : a # b => <<a, b>> \in R \/ <<b, a>> \in R
    BY <1>2 DEF ByKey
  <2>3. ASSUME NEW a \in D, NEW b \in D, NEW c \in D,
               <<a, b>> \in R, <<b, c>> \in R
        PROVE  <<a, c>> \in R
    <3>1. Before(a, b) /\ Before(b, c)
      BY <2>3
    <3>2. /\ a \in Int /\ b \in Int /\ c \in Int
          /\ key[q[a]] \in Int /\ key[q[b]] \in Int /\ key[q[c]] \in Int
          /\ q[a].job \in Int /\ q[b].job \in Int /\ q[c].job \in Int
      BY <1>2
    <3>. DEFINE lower(h, i) == \/ key[q[h]] < key[q[i]]
                               \/ key[q[h]] = key[q[i]] /\ q[h].job < q[i].job
                same(h, i)  == key[q[h]] = key[q[i]] /\ q[h].job = q[i].job /\ h < i
    <3>3. ASSUME NEW h \in D, NEW i \in D
          PROVE  Before(h, i) <=> (lower(h, i) \/ same(h, i))
      <4>1. /\ h \in Int /\ i \in Int
            /\ key[q[h]] \in Int /\ key[q[i]] \in Int
            /\ q[h].job \in Int /\ q[i].job \in Int
        BY <1>2
      <4>. QED  BY <4>1, SMTT(30) DEF ByKey
    <3>4. (lower(a, b) \/ same(a, b)) /\ (lower(b, c) \/ same(b, c))
      BY <3>1, <3>3
    <3>5. CASE lower(a, b)
      <4>1. lower(a, c)
        BY <3>2, <3>4, <3>5
      <4>. QED  BY <3>3, <4>1
    <3>6. CASE same(a, b)
      <4>1. lower(a, c) \/ same(a, c)
        BY <3>2, <3>4, <3>6
      <4>. QED  BY <3>3, <4>1
    <3>. QED  BY <3>4, <3>5, <3>6
  <2>4. \A a, b, c \in D : <<a, b>> \in R /\ <<b, c>> \in R => <<a, c>> \in R
    BY <2>3
  <2>. HIDE DEF R, D
  <2>5. IsFiniteSet(D)
    BY <1>3
  <2>6. IsEnumerable(D, R)
    BY <2>1, <2>2, <2>4, <2>5, Enumeration
  <2>7. 1 .. Cardinality(D) = D
    BY <1>3 DEF D
  <2>. QED  BY <2>6, <2>7 DEF IsEnumerable, Enumerates
<1>5. \A h, i \in D : h # i => p[h] # p[i]
  <2>1. \A a \in D : <<a, a>> \notin R
    BY <1>2 DEF ByKey
  <2>2. \A h, i \in D : h < i \/ i < h \/ h = i
    BY <1>2
  <2>. HIDE DEF R
  <2>. QED  BY <1>4, <2>1, <2>2
<1>6. [k \in D |-> q[p[k]]] \in Arrangements(q) /\ Sorted([k \in D |-> q[p[k]]])
  <2>. DEFINE t == [k \in D |-> q[p[k]]]
  <2>1. t \in Arrangements(q)
    <3>1. p \in {f \in [DOMAIN q -> DOMAIN q] :
                   \A h, i \in DOMAIN q : h # i => f[h] # f[i]}
      BY <1>2, <1>5
    <3>2. t = [k \in DOMAIN q |-> q[p[k]]]
      BY <1>2
    <3>. HIDE DEF t
    <3>. QED  BY <3>1, <3>2 DEF Arrangements
  <2>2. ASSUME NEW h \in D, NEW i \in D, h < i
        PROVE  ~Precedes(order, size, walltime, date, t[i], t[h])
    <3>1. Before(p[h], p[i])
      BY <1>4, <2>2
    <3>2. t[h] = q[p[h]] /\ t[i] = q[p[i]] /\ p[h] \in D /\ p[i] \in D
      OBVIOUS
    <3>3. ~ByKey(key[q[p[i]]], key[q[p[h]]], q[p[i]], q[p[h]])
      BY <1>2, <3>1, <3>2 DEF ByKey
    <3>. QED  BY <1>1, <1>2, <3>2, <3>3
  <2>. QED  BY <2>1, <2>2
<1>. DEFINE s == SortQueue(order, size, walltime, date, q)
<1>7. s \in Arrangements(q) /\ Sorted(s)
  <2>1. \E t \in Arrangements(q) : Sorted(t)
    BY <1>6
  <2>2. s = CHOOSE t \in Arrangements(q) : Sorted(t)
    BY DEF SortQueue
  <2>. HIDE DEF Sorted, s
  <2>. QED  BY <2>1, <2>2
<1>. HIDE DEF s
<1>8. PICK f \in {g \in [DOMAIN q -> DOMAIN q] :
                   \A h, i \in DOMAIN q : h # i => g[h] # g[i]} :
        s = [k \in DOMAIN q |-> q[f[k]]]
  BY <1>7 DEF Arrangements
<1>9. f \in [D -> D] /\ \A h, i \in D : h # i => f[h] # f[i]
  BY <1>2, <1>8
<1>10. \A k \in D : s[k] = q[f[k]]
  BY <1>2, <1>8
<1>11. s \in Seq(E) /\ Len(s) = Len(q) /\ DOMAIN s = D
  BY <1>2, <1>8, <1>9
<1>12. Rearranges(s, q)
  BY <1>9, <1>10 DEF Rearranges
<1>. QED  BY <1>7, <1>11, <1>12 DEF s

\* Sorting loses and invents no element.
LEMMA SortQueueElements ==
  ASSUME NEW order \in QueueOrders, NEW J \in SUBSET Int,
         NEW size \in [J -> Int], NEW walltime \in [J -> Int], NEW date \in Int,
         NEW q \in Seq(Entries(J))
  PROVE  /\ SortQueue(order, size, walltime, date, q) \in Seq(Entries(J))
         /\ Len(SortQueue(order, size, walltime, date, q)) = Len(q)
         /\ JobsOf(SortQueue(order, size, walltime, date, q)) = JobsOf(q)
         /\ OnePerJob(q) => OnePerJob(SortQueue(order, size, walltime, date, q))
<1>. DEFINE s == SortQueue(order, size, walltime, date, q)
            D == 1 .. Len(q)
<1>0. Rearranges(s, q)
  BY SortQueuePositions
<1>1. PICK f \in [D -> D] : /\ \A h, i \in D : h # i => f[h] # f[i]
                            /\ \A k \in D : s[k] = q[f[k]]
  BY <1>0 DEF Rearranges
<1>2. Len(q) \in Nat /\ DOMAIN q = D /\ \A i \in D : q[i] \in Entries(J)
  BY LenProperties, ElementOfSeq
<1>3. s \in Seq(Entries(J)) /\ Len(s) = Len(q) /\ DOMAIN s = D
  BY SortQueuePositions, LenProperties
<1>. HIDE DEF s, D
<1>4. \A k \in D : \E i \in D : f[i] = k
  <2>1. IsFiniteSet(D)
    BY <1>2, FS_Interval DEF D
  <2>2. f \in Injection(D, D)
    BY <1>1 DEF Injection, IsInjective
  <2>3. f \in Surjection(D, D)
    BY <2>1, <2>2, FS_Injection
  <2>. QED  BY <2>3 DEF Surjection
<1>5. JobsOf(s) = JobsOf(q)
  <2>1. ASSUME NEW k \in D
        PROVE  s[k].job \in JobsOf(q)
    <3>1. f[k] \in DOMAIN q /\ s[k] = q[f[k]]
      BY <1>1, <1>2
    <3>. QED  BY <3>1 DEF JobsOf
  <2>2. ASSUME NEW k \in D
        PROVE  q[k].job \in JobsOf(s)
    <3>1. PICK i \in D : f[i] = k
      BY <1>4
    <3>2. s[i] = q[k] /\ i \in DOMAIN s
      BY <1>1, <1>3, <3>1
    <3>. QED  BY <3>2 DEF JobsOf
  <2>. QED  BY <1>2, <1>3, <2>1, <2>2 DEF JobsOf
<1>6. ASSUME OnePerJob(q), NEW h \in D, NEW i \in D, h # i
      PROVE  s[h].job # s[i].job
  <2>1. f[h] # f[i] /\ f[h] \in D /\ f[i] \in D
    BY <1>1, <1>6
  <2>2. q[f[h]].job # q[f[i]].job
    BY <1>2, <1>6, <2>1 DEF OnePerJob
  <2>. QED  BY <1>1, <2>2
<1>7. OnePerJob(q) => OnePerJob(s)
  BY <1>3, <1>6 DEF OnePerJob
<1>. QED  BY <1>3, <1>5, <1>7 DEF s

\* The positions of a concatenation.
LEMMA ConcatPositions ==
  ASSUME NEW S, NEW a \in Seq(S), NEW b \in Seq(S)
  PROVE  /\ a \o b \in Seq(S) /\ Len(a \o b) = Len(a) + Len(b)
         /\ Len(a) \in Nat /\ Len(b) \in Nat
         /\ \A k \in 1 .. Len(a) : k \in 1 .. Len(a \o b) /\ (a \o b)[k] = a[k]
         /\ \A k \in 1 .. Len(b) :
              Len(a) + k \in 1 .. Len(a \o b) /\ (a \o b)[Len(a) + k] = b[k]
         /\ \A k \in 1 .. Len(a \o b) :
              k \in 1 .. Len(a) \/ \E i \in 1 .. Len(b) : k = Len(a) + i
<1>1. Len(a) \in Nat /\ Len(b) \in Nat
  BY LenProperties
<1>2. a \o b \in Seq(S) /\ Len(a \o b) = Len(a) + Len(b)
  BY ConcatProperties
<1>3. \A k \in 1 .. Len(a \o b) : (a \o b)[k] = IF k <= Len(a) THEN a[k] ELSE b[k - Len(a)]
  BY ConcatProperties
<1>4. ASSUME NEW k \in 1 .. Len(a)
      PROVE  k \in 1 .. Len(a \o b) /\ (a \o b)[k] = a[k]
  <2>1. k \in 1 .. Len(a \o b) /\ k <= Len(a)
    BY <1>1, <1>2
  <2>. QED  BY <1>3, <2>1
<1>5. ASSUME NEW k \in 1 .. Len(b)
      PROVE  Len(a) + k \in 1 .. Len(a \o b) /\ (a \o b)[Len(a) + k] = b[k]
  <2>1. Len(a) + k \in 1 .. Len(a \o b) /\ ~(Len(a) + k <= Len(a))
        /\ Len(a) + k - Len(a) = k
    BY <1>1, <1>2
  <2>. QED  BY <1>3, <2>1
<1>6. ASSUME NEW k \in 1 .. Len(a \o b), k \notin 1 .. Len(a)
      PROVE  \E i \in 1 .. Len(b) : k = Len(a) + i
  <2>1. k - Len(a) \in 1 .. Len(b) /\ k = Len(a) + (k - Len(a))
    BY <1>1, <1>2, <1>6
  <2>. QED  BY <2>1
<1>. QED  BY <1>1, <1>2, <1>4, <1>5, <1>6

-------------------------------------------------------------------------------
(* Joining and leaving a queue.                                            *)

\* The jobs of a queue, by the positions of their entries.
LEMMA JobsByPosition ==
  ASSUME NEW J, NEW q \in Seq(Entries(J))
  PROVE  /\ DOMAIN q = 1 .. Len(q) /\ Len(q) \in Nat
         /\ \A k \in 1 .. Len(q) : q[k] \in Entries(J) /\ q[k].job \in J
         /\ \A x : x \in JobsOf(q) <=> \E k \in 1 .. Len(q) : x = q[k].job
<1>1. DOMAIN q = 1 .. Len(q) /\ Len(q) \in Nat
  BY LenProperties
<1>2. \A k \in 1 .. Len(q) : q[k] \in Entries(J)
  BY ElementOfSeq
<1>3. \A k \in 1 .. Len(q) : q[k].job \in J
  BY <1>2 DEF Entries
<1>4. \A x : x \in JobsOf(q) <=> \E k \in 1 .. Len(q) : x = q[k].job
  BY <1>1 DEF JobsOf
<1>. QED  BY <1>1, <1>2, <1>3, <1>4

\* Removing a job removes it, and no other.
LEMMA RemoveFromQueueElements ==
  ASSUME NEW J, NEW q \in Seq(Entries(J)), NEW j
  PROVE  /\ RemoveFromQueue(q, j) \in Seq(Entries(J))
         /\ JobsOf(RemoveFromQueue(q, j)) = JobsOf(q) \ {j}
         /\ OnePerJob(q) => OnePerJob(RemoveFromQueue(q, j))
<1>. DEFINE K == {k \in DOMAIN q : q[k].job # j}
<1>1. PICK r : r = RemoveFromQueue(q, j)
  OBVIOUS
<1>2. DOMAIN q = 1 .. Len(q) /\ Len(q) \in Nat
  BY LenProperties
<1>3. K \in SUBSET (1 .. Len(q)) /\ \A k \in 1 .. Len(q) : k \in K <=> q[k].job # j
  BY <1>2
<1>4. r = Selection(q, K)
  BY <1>1 DEF RemoveFromQueue
<1>. HIDE DEF K
<1>5. PICK p \in [1 .. Cardinality(K) -> K] :
           /\ \A h, i \in 1 .. Cardinality(K) : h < i => p[h] < p[i]
           /\ \A k \in K : \E i \in 1 .. Cardinality(K) : p[i] = k
           /\ r = [i \in 1 .. Cardinality(K) |-> q[p[i]]]
  BY <1>3, <1>4, SelectionPositions
<1>6. PICK n : n = Cardinality(K)
  OBVIOUS
<1>7. n \in Nat
  <2>1. IsFiniteSet(1 .. Len(q))
    BY <1>2, FS_Interval
  <2>2. IsFiniteSet(K)
    BY <1>3, <2>1, FS_Subset
  <2>. QED  BY <1>6, <2>2, FS_CardinalityType
<1>8. /\ r \in Seq(Entries(J)) /\ DOMAIN r = 1 .. n /\ Len(r) = n
      /\ \A i \in 1 .. n : r[i] = q[p[i]] /\ p[i] \in K
      /\ \A h, i \in 1 .. n : h < i => p[h] < p[i]
      /\ \A k \in K : \E i \in 1 .. n : p[i] = k
  <2>1. r \in Seq(Entries(J))
    BY <1>3, <1>4, SelectionElements
  <2>2. DOMAIN r = 1 .. n
    BY <1>5, <1>6
  <2>3. Len(r) = n
    BY <1>7, <2>1, <2>2, LenProperties
  <2>. QED  BY <1>5, <1>6, <2>1, <2>2, <2>3
<1>9. ASSUME OnePerJob(q)  PROVE OnePerJob(r)
  <2>. SUFFICES ASSUME NEW h \in 1 .. n, NEW i \in 1 .. n, h # i
                PROVE  r[h].job # r[i].job
    BY <1>8 DEF OnePerJob
  <2>1. p[h] \in 1 .. Len(q) /\ p[i] \in 1 .. Len(q)
    BY <1>3, <1>8
  <2>2. p[h] # p[i]
    <3>1. h < i \/ i < h
      OBVIOUS
    <3>2. p[h] < p[i] \/ p[i] < p[h]
      BY <1>8, <3>1
    <3>. QED  BY <2>1, <3>2
  <2>. QED  BY <1>2, <1>8, <1>9, <2>1, <2>2 DEF OnePerJob
<1>10. JobsOf(r) = JobsOf(q) \ {j}
  <2>1. ASSUME NEW i \in 1 .. n
        PROVE  r[i].job \in JobsOf(q) \ {j}
    <3>1. p[i] \in 1 .. Len(q) /\ q[p[i]].job # j /\ r[i] = q[p[i]]
      BY <1>3, <1>8
    <3>. QED  BY <3>1, JobsByPosition
  <2>2. ASSUME NEW k \in 1 .. Len(q), q[k].job # j
        PROVE  \E i \in 1 .. n : q[k].job = r[i].job
    <3>1. PICK i \in 1 .. n : p[i] = k
      BY <1>3, <1>8, <2>2
    <3>. QED  BY <1>8, <3>1
  <2>3. /\ \A x : x \in JobsOf(r) <=> \E i \in 1 .. n : x = r[i].job
        /\ \A x : x \in JobsOf(q) <=> \E k \in 1 .. Len(q) : x = q[k].job
    BY <1>8, JobsByPosition
  <2>. QED  BY <2>1, <2>2, <2>3
<1>. QED  BY <1>1, <1>8, <1>9, <1>10

\* Jobs join a queue; it has one entry for each if it had, and if none of them
\* comes twice or was in the queue.
LEMMA AppendJobsElements ==
  ASSUME NEW J, NEW q \in Seq(Entries(J)), NEW js \in Seq(J), NEW d \in Int
  PROVE  /\ AppendJobs(q, js, d) \in Seq(Entries(J))
         /\ JobsOf(AppendJobs(q, js, d)) = JobsOf(q) \cup ToSet(js)
         /\ OnePerJob(q) /\ IsInjective(js) /\ JobsOf(q) \cap ToSet(js) = {}
              => OnePerJob(AppendJobs(q, js, d))
<1>. DEFINE new == [k \in 1 .. Len(js) |-> [job |-> js[k], release |-> d]]
<1>1. /\ DOMAIN js = 1 .. Len(js) /\ Len(js) \in Nat
      /\ \A k \in 1 .. Len(js) : js[k] \in J
  BY LenProperties, ElementOfSeq
<1>2. /\ new \in Seq(Entries(J)) /\ Len(new) = Len(js)
      /\ \A k \in 1 .. Len(js) : new[k].job = js[k]
  <2>1. new \in Seq(Entries(J))
    BY <1>1 DEF Entries
  <2>2. Len(new) = Len(js)
    BY <1>1, <2>1, LenProperties
  <2>. QED  BY <2>1, <2>2
<1>3. PICK r : r = AppendJobs(q, js, d)
  OBVIOUS
<1>4. r = q \o new
  BY <1>1, <1>3 DEF AppendJobs
<1>. HIDE DEF new
<1>5. PICK b \in Seq(Entries(J)) : b = new
  BY <1>2
<1>6. /\ r \in Seq(Entries(J)) /\ Len(r) = Len(q) + Len(js)
      /\ \A k \in 1 .. Len(q) : k \in 1 .. Len(r) /\ r[k] = q[k]
      /\ \A k \in 1 .. Len(js) :
           Len(q) + k \in 1 .. Len(r) /\ r[Len(q) + k].job = js[k]
      /\ \A k \in 1 .. Len(r) :
           k \in 1 .. Len(q) \/ \E i \in 1 .. Len(js) : k = Len(q) + i
  <2>1. /\ r \in Seq(Entries(J)) /\ Len(r) = Len(q) + Len(b)
        /\ \A k \in 1 .. Len(q) : k \in 1 .. Len(r) /\ r[k] = q[k]
        /\ \A k \in 1 .. Len(b) : Len(q) + k \in 1 .. Len(r) /\ r[Len(q) + k] = b[k]
        /\ \A k \in 1 .. Len(r) :
             k \in 1 .. Len(q) \/ \E i \in 1 .. Len(b) : k = Len(q) + i
    <3>1. r = q \o b
      BY <1>4, <1>5
    <3>. QED  BY <3>1, ConcatPositions
  <2>. QED  BY <1>2, <1>5, <2>1
<1>7. \A x : x \in ToSet(js) <=> \E i \in 1 .. Len(js) : x = js[i]
  BY <1>1 DEF ToSet
<1>8. JobsOf(r) = JobsOf(q) \cup ToSet(js)
  <2>1. /\ \A x : x \in JobsOf(r) <=> \E k \in 1 .. Len(r) : x = r[k].job
        /\ \A x : x \in JobsOf(q) <=> \E k \in 1 .. Len(q) : x = q[k].job
    BY <1>6, JobsByPosition
  <2>2. ASSUME NEW k \in 1 .. Len(r)
        PROVE  r[k].job \in JobsOf(q) \cup ToSet(js)
    <3>1. CASE k \in 1 .. Len(q)
      BY <1>6, <2>1, <3>1
    <3>2. ASSUME NEW i \in 1 .. Len(js), k = Len(q) + i
          PROVE  r[k].job \in ToSet(js)
      BY <1>6, <1>7, <3>2
    <3>. QED  BY <1>6, <3>1, <3>2
  <2>3. ASSUME NEW x \in JobsOf(q) \cup ToSet(js)
        PROVE  \E k \in 1 .. Len(r) : x = r[k].job
    <3>1. CASE x \in JobsOf(q)
      <4>1. PICK k \in 1 .. Len(q) : x = q[k].job
        BY <2>1, <3>1
      <4>. QED  BY <1>6, <4>1
    <3>2. CASE x \in ToSet(js)
      <4>1. PICK i \in 1 .. Len(js) : x = js[i]
        BY <1>7, <3>2
      <4>. QED  BY <1>6, <4>1
    <3>. QED  BY <3>1, <3>2
  <2>. QED  BY <2>1, <2>2, <2>3
<1>9. ASSUME OnePerJob(q), IsInjective(js), JobsOf(q) \cap ToSet(js) = {}
       PROVE  OnePerJob(r)
  <2>1. \A h, i \in 1 .. Len(q) : h # i => q[h].job # q[i].job
    BY <1>9, LenProperties DEF OnePerJob
  <2>2. \A h, i \in 1 .. Len(js) : js[h] = js[i] => h = i
    BY <1>1, <1>9 DEF IsInjective
  <2>3. \A h \in 1 .. Len(q) : \A i \in 1 .. Len(js) : q[h].job # js[i]
    BY <1>7, <1>9, JobsByPosition
  <2>4. DOMAIN r = 1 .. Len(r)
    BY <1>6, LenProperties
  <2>. SUFFICES ASSUME NEW h \in 1 .. Len(r), NEW k \in 1 .. Len(r), h # k
                PROVE  r[h].job # r[k].job
    BY <2>4 DEF OnePerJob
  <2>5. CASE h \in 1 .. Len(q) /\ k \in 1 .. Len(q)
    BY <1>6, <2>1, <2>5
  <2>6. ASSUME NEW i \in 1 .. Len(js), k = Len(q) + i, h \in 1 .. Len(q)
        PROVE  r[h].job # r[k].job
    BY <1>6, <2>3, <2>6
  <2>7. ASSUME NEW i \in 1 .. Len(js), h = Len(q) + i, k \in 1 .. Len(q)
        PROVE  r[h].job # r[k].job
    BY <1>6, <2>3, <2>7
  <2>8. ASSUME NEW i \in 1 .. Len(js), h = Len(q) + i, NEW g \in 1 .. Len(js), k = Len(q) + g
        PROVE  r[h].job # r[k].job
    <3>1. i # g
      BY <2>8
    <3>. QED  BY <1>6, <2>2, <2>8, <3>1
  <2>. QED  BY <1>6, <2>5, <2>6, <2>7, <2>8
<1>. QED  BY <1>3, <1>6, <1>8, <1>9

-------------------------------------------------------------------------------
(* Profiles.                                                               *)

\* The slices with which M is shared out among jobs of J.
Mappings(J, M) == UNION {[S -> SUBSET M] : S \in SUBSET J}

SlicesOver(J, M) ==
  [begin : Int, end : Int, available : SUBSET M, nb : Int,
   jobs : Mappings(J, M)]

\* The parts of IsSlice, without sets of sets: a machine is free unless a job
\* has it, no machine is given twice, and each job j has n[j] machines.
FreeUnlessGiven(s, M) ==
  \A m \in M : m \in s.available <=> \A j \in DOMAIN s.jobs : m \notin s.jobs[j]
GivenOnce(s) ==
  \A j, k \in DOMAIN s.jobs : j # k => s.jobs[j] \cap s.jobs[k] = {}
AsRequested(s, n) ==
  \A j \in DOMAIN s.jobs : Cardinality(s.jobs[j]) = n[j]

IsShared(s, M, n) ==
  /\ s.nb = Cardinality(s.available)
  /\ FreeUnlessGiven(s, M)
  /\ GivenOnce(s)
  /\ AsRequested(s, n)

\* The slices follow each other; only the first one may be empty.
Follow(p) ==
  /\ p[1].begin <= p[1].end
  /\ \A i \in 2 .. Len(p) :
       /\ p[i].begin = p[i - 1].end
       /\ p[i].begin < p[i].end

\* Every slice is shared out, and the slices follow each other.
IsPartition(p, J, M, n) ==
  /\ p \in Seq(SlicesOver(J, M))
  /\ Len(p) >= 1
  /\ \A i \in 1 .. Len(p) : IsShared(p[i], M, n)
  /\ Follow(p)
  /\ p[Len(p)].end = Infinity
  /\ DOMAIN p[Len(p)].jobs = {}

NeighboursDiffer(p) == \A i \in 2 .. Len(p) : p[i - 1].jobs # p[i].jobs

IsSound(p, J, M, n) ==
  /\ IsPartition(p, J, M, n)
  /\ \A j \in J : IsContiguous(p, j)
  /\ NeighboursDiffer(p)

\* The allocation of a job: when it begins and ends, on which machines, and
\* whether it is in the first slice.
Allocation(p, j) ==
  [begin |-> BeginOf(p, j), end |-> EndOf(p, j),
   machines |-> p[Min(SlicesOf(p, j))].jobs[j],
   present |-> 1 \in SlicesOf(p, j)]

SameAllocation(p, q, j) ==
  /\ ContainsJob(p, j) <=> ContainsJob(q, j)
  /\ ContainsJob(p, j) => Allocation(q, j) = Allocation(p, j)

-------------------------------------------------------------------------------
(* First facts.                                                            *)

\* The least and the greatest of some numbers up to n.
LEMMA Extremes ==
  ASSUME NEW n \in Nat, NEW T \in SUBSET (0 .. n), T # {}
  PROVE  /\ Min(T) \in T /\ \A y \in T : Min(T) <= y
         /\ Max(T) \in T /\ \A y \in T : y <= Max(T)
<1>1. \E x \in T : \A y \in T : x <= y
  <2>1. T \in SUBSET Nat
    OBVIOUS
  <2>. QED  BY <2>1, LeastElement
<1>2. \E x \in T : \A y \in T : x >= y
  <2>. DEFINE U == {k \in 0 .. n : n - k \in T}
  <2>1. U \in SUBSET Nat
    OBVIOUS
  <2>2. \A y \in T : n - y \in U
    OBVIOUS
  <2>3. U # {}
    BY <2>2
  <2>4. PICK u \in U : \A v \in U : u <= v
    BY <2>1, <2>3, LeastElement
  <2>5. n - u \in T
    OBVIOUS
  <2>6. u \in 0 .. n
    OBVIOUS
  <2>. HIDE DEF U
  <2>7. \A y \in T : n - u >= y
    BY <2>2, <2>4, <2>6
  <2>. QED  BY <2>5, <2>7
<1>3. Min(T) \in T /\ \A y \in T : Min(T) <= y
  BY <1>1 DEF Min
<1>4. Max(T) \in T /\ \A y \in T : Max(T) >= y
  BY <1>2 DEF Max
<1>5. T \subseteq Int
  OBVIOUS
<1>. QED  BY <1>3, <1>4, <1>5

\* The first and the last slice of a job.
LEMMA SlicesOfJob ==
  ASSUME NEW S, NEW p \in Seq(S), NEW j, ContainsJob(p, j)
  PROVE  /\ SlicesOf(p, j) \subseteq 1 .. Len(p)
         /\ Min(SlicesOf(p, j)) \in SlicesOf(p, j)
         /\ Max(SlicesOf(p, j)) \in SlicesOf(p, j)
         /\ \A x \in SlicesOf(p, j) : /\ Min(SlicesOf(p, j)) <= x
                                      /\ x <= Max(SlicesOf(p, j))
<1>1. Len(p) \in Nat /\ DOMAIN p = 1 .. Len(p)
  BY LenProperties
<1>2. SlicesOf(p, j) \subseteq 1 .. Len(p) /\ SlicesOf(p, j) # {}
  BY <1>1 DEF SlicesOf, ContainsJob
<1>3. SlicesOf(p, j) \in SUBSET (0 .. Len(p))
  BY <1>1, <1>2
<1>. QED  BY <1>1, <1>2, <1>3, Extremes

-------------------------------------------------------------------------------
(* Splitting and merging.                                                  *)

\* The slices of q are groups of neighbours of p, g[x] is the group of slice x:
\* it has the same jobs, begins with the first of the group and ends with the
\* last one.
Coarsens(q, p, g) ==
  /\ g \in [1 .. Len(p) -> 1 .. Len(q)]
  /\ \A x, y \in 1 .. Len(p) : x <= y => g[x] <= g[y]
  /\ \A k \in 1 .. Len(q) : \E x \in 1 .. Len(p) : g[x] = k
  /\ \A x \in 1 .. Len(p) :
       /\ q[g[x]].jobs = p[x].jobs
       /\ (\A y \in 1 .. Len(p) : y < x => g[y] < g[x])
            => q[g[x]].begin = p[x].begin
       /\ (\A y \in 1 .. Len(p) : x < y => g[x] < g[y])
            => q[g[x]].end = p[x].end

\* In a coarser profile every job has the allocation it has in the finer one.
LEMMA CoarserAllocation ==
  ASSUME NEW S, NEW p \in Seq(S), NEW q \in Seq(S), NEW g, Coarsens(q, p, g),
         NEW j
  PROVE  /\ SameAllocation(p, q, j)
         /\ IsContiguous(p, j) <=> IsContiguous(q, j)
<1>. DEFINE n == Len(p)
<1>1. /\ n \in Nat /\ DOMAIN p = 1 .. n
      /\ Len(q) \in Nat /\ DOMAIN q = 1 .. Len(q)
  BY LenProperties
<1>2. /\ \A x \in 1 .. n : g[x] \in 1 .. Len(q)
      /\ \A x, y \in 1 .. n : x <= y => g[x] <= g[y]
      /\ \A k \in 1 .. Len(q) : \E x \in 1 .. n : g[x] = k
      /\ \A x \in 1 .. n : q[g[x]].jobs = p[x].jobs
  BY DEF Coarsens
<1>3. \A x \in 1 .. n : x \in SlicesOf(p, j) <=> g[x] \in SlicesOf(q, j)
  BY <1>1, <1>2 DEF SlicesOf
<1>4. SlicesOf(p, j) \subseteq 1 .. n /\ SlicesOf(q, j) \subseteq 1 .. Len(q)
  BY <1>1 DEF SlicesOf
<1>5. ContainsJob(p, j) <=> ContainsJob(q, j)
  BY <1>2, <1>3, <1>4 DEF ContainsJob
<1>6. 1 \in SlicesOf(p, j) <=> 1 \in SlicesOf(q, j)
  <2>1. CASE n = 0
    BY <1>2, <1>4, <2>1
  <2>2. CASE n # 0
    <3>1. 1 \in 1 .. n /\ g[1] \in 1 .. Len(q)
      BY <1>1, <1>2, <2>2
    <3>2. PICK x \in 1 .. n : g[x] = 1
      BY <1>1, <1>2, <3>1
    <3>3. g[1] = 1
      BY <1>2, <3>1, <3>2
    <3>. QED  BY <1>3, <3>1, <3>3
  <2>. QED  BY <2>1, <2>2
<1>7. ASSUME ContainsJob(p, j)
      PROVE  Allocation(q, j) = Allocation(p, j)
  <2>. DEFINE T == SlicesOf(p, j)
              U == SlicesOf(q, j)
  <2>1. /\ Min(T) \in T /\ Max(T) \in T
        /\ \A x \in T : Min(T) <= x /\ x <= Max(T)
    BY <1>7, SlicesOfJob
  <2>2. /\ Min(U) \in U /\ Max(U) \in U
        /\ \A x \in U : Min(U) <= x /\ x <= Max(U)
    BY <1>5, <1>7, SlicesOfJob
  <2>. DEFINE a == Min(T)
              b == Max(T)
  <2>3. a \in 1 .. n /\ b \in 1 .. n
    BY <1>4, <2>1
  <2>4. \A k \in U : g[a] <= k /\ k <= g[b]
    <3>. SUFFICES ASSUME NEW k \in U
                  PROVE  g[a] <= k /\ k <= g[b]
      OBVIOUS
    <3>1. PICK x \in 1 .. n : g[x] = k
      BY <1>2, <1>4
    <3>2. x \in T
      BY <1>3, <3>1
    <3>. QED  BY <1>2, <2>1, <2>3, <3>1, <3>2
  <2>5. g[a] \in U /\ g[b] \in U
    BY <1>3, <2>1, <2>3
  <2>6. Min(U) = g[a] /\ Max(U) = g[b]
    <3>1. U \subseteq Int
      BY <1>4
    <3>. HIDE DEF U, a, b
    <3>2. /\ Min(U) \in Int /\ Max(U) \in Int
          /\ g[a] \in Int /\ g[b] \in Int
      BY <2>2, <2>5, <3>1
    <3>3. /\ Min(U) <= g[a] /\ g[a] <= Min(U)
          /\ Max(U) <= g[b] /\ g[b] <= Max(U)
      BY <2>2, <2>4, <2>5
    <3>. QED  BY <3>2, <3>3
  <2>7. \A y \in 1 .. n : y < a => g[y] < g[a]
    <3>. SUFFICES ASSUME NEW y \in 1 .. n, y < a
                  PROVE  g[y] < g[a]
      OBVIOUS
    <3>1. y \notin T
      BY <2>1, <2>3
    <3>2. g[y] # g[a]
      BY <1>3, <2>5, <3>1
    <3>. QED  BY <1>2, <2>3, <3>2
  <2>8. \A y \in 1 .. n : b < y => g[b] < g[y]
    <3>. SUFFICES ASSUME NEW y \in 1 .. n, b < y
                  PROVE  g[b] < g[y]
      OBVIOUS
    <3>1. y \notin T
      BY <2>1, <2>3
    <3>2. g[y] # g[b]
      BY <1>3, <2>5, <3>1
    <3>. QED  BY <1>2, <2>3, <3>2
  <2>9. q[g[a]].begin = p[a].begin /\ q[g[b]].end = p[b].end
    BY <2>3, <2>7, <2>8 DEF Coarsens
  <2>10. q[g[a]].jobs = p[a].jobs
    BY <1>2, <2>3
  <2>. HIDE DEF T, U
  <2>. QED  BY <1>6, <2>6, <2>9, <2>10 DEF Allocation, BeginOf, EndOf, T, U
<1>8. ASSUME IsContiguous(p, j)
      PROVE  IsContiguous(q, j)
  <2>. SUFFICES ASSUME NEW i \in SlicesOf(q, j), NEW k \in SlicesOf(q, j)
                PROVE  /\ q[i].jobs[j] = q[k].jobs[j]
                       /\ \A l \in i .. k : l \in SlicesOf(q, j)
    BY DEF IsContiguous
  <2>1. PICK x \in 1 .. n : g[x] = i
    BY <1>2, <1>4
  <2>2. PICK y \in 1 .. n : g[y] = k
    BY <1>2, <1>4
  <2>3. x \in SlicesOf(p, j) /\ y \in SlicesOf(p, j)
    BY <1>3, <2>1, <2>2
  <2>4. q[i].jobs[j] = q[k].jobs[j]
    <3>1. p[x].jobs[j] = p[y].jobs[j]
      BY <1>8, <2>3 DEF IsContiguous
    <3>2. q[i].jobs = p[x].jobs /\ q[k].jobs = p[y].jobs
      BY <1>2, <2>1, <2>2
    <3>. QED  BY <3>1, <3>2
  <2>5. ASSUME NEW l \in i .. k
        PROVE  l \in SlicesOf(q, j)
    <3>1. l \in 1 .. Len(q) /\ i \in Int /\ k \in Int
      BY <1>4
    <3>2. PICK z \in 1 .. n : g[z] = l
      BY <1>2, <3>1
    <3>3. CASE z < x
      <4>1. l = i
        BY <1>2, <2>1, <3>1, <3>2, <3>3
      <4>. QED  BY <4>1
    <3>4. CASE y < z
      <4>1. l = k
        BY <1>2, <2>2, <3>1, <3>2, <3>4
      <4>. QED  BY <4>1
    <3>5. CASE z \in x .. y
      BY <1>3, <1>8, <2>3, <3>2, <3>5 DEF IsContiguous
    <3>. QED  BY <1>1, <3>3, <3>4, <3>5
  <2>. QED  BY <2>4, <2>5
<1>9. ASSUME IsContiguous(q, j)
      PROVE  IsContiguous(p, j)
  <2>. SUFFICES ASSUME NEW x \in SlicesOf(p, j), NEW y \in SlicesOf(p, j)
                PROVE  /\ p[x].jobs[j] = p[y].jobs[j]
                       /\ \A z \in x .. y : z \in SlicesOf(p, j)
    BY DEF IsContiguous
  <2>1. x \in 1 .. n /\ y \in 1 .. n
    BY <1>4
  <2>2. g[x] \in SlicesOf(q, j) /\ g[y] \in SlicesOf(q, j)
    BY <1>3, <2>1
  <2>3. p[x].jobs[j] = p[y].jobs[j]
    <3>1. q[g[x]].jobs[j] = q[g[y]].jobs[j]
      BY <1>9, <2>2 DEF IsContiguous
    <3>2. q[g[x]].jobs = p[x].jobs /\ q[g[y]].jobs = p[y].jobs
      BY <1>2, <2>1
    <3>. QED  BY <3>1, <3>2
  <2>4. ASSUME NEW z \in x .. y
        PROVE  z \in SlicesOf(p, j)
    <3>1. z \in 1 .. n /\ g[x] <= g[z] /\ g[z] <= g[y]
      BY <1>2, <2>1
    <3>2. g[x] \in Int /\ g[y] \in Int /\ g[z] \in Int
      BY <1>2, <2>1, <3>1
    <3>3. g[z] \in g[x] .. g[y]
      BY <3>1, <3>2
    <3>. QED  BY <1>3, <1>9, <2>2, <3>1, <3>3 DEF IsContiguous
  <2>. QED  BY <2>3, <2>4
<1>. QED  BY <1>5, <1>7, <1>8, <1>9 DEF SameAllocation


\* r is p with others in the place of the elements from the first to the last.
IsSplice(r, p, first, last, mid) ==
  /\ Len(r) = Len(p) - (last - first + 1) + Len(mid)
  /\ \A x \in 1 .. Len(r) :
       r[x] = IF x < first THEN p[x]
              ELSE IF x < first + Len(mid) THEN mid[x - first + 1]
              ELSE p[x - Len(mid) + (last - first + 1)]

\* One sequence after another.
IsJoin(c, a, b) ==
  /\ Len(c) = Len(a) + Len(b)
  /\ \A x \in 1 .. Len(c) :
       c[x] = IF x <= Len(a) THEN a[x] ELSE b[x - Len(a)]

\* Concatenation makes one.
LEMMA Joined ==
  ASSUME NEW S, NEW a \in Seq(S), NEW b \in Seq(S), NEW c, c = a \o b
  PROVE  c \in Seq(S) /\ IsJoin(c, a, b)
<1>1. /\ a \o b \in Seq(S)
      /\ Len(a \o b) = Len(a) + Len(b)
      /\ \A x \in 1 .. Len(a) + Len(b) :
           (a \o b)[x] = IF x <= Len(a) THEN a[x] ELSE b[x - Len(a)]
  BY ConcatProperties, Zenon
<1>. QED  BY <1>1, Zenon DEF IsJoin

\* Such a sequence is put together of a front, the others and a rest.
LEMMA Spliced ==
  ASSUME NEW S, NEW p \in Seq(S), NEW mid \in Seq(S),
         NEW first \in 1 .. Len(p), NEW last \in first .. Len(p)
  PROVE  \E r \in Seq(S) :
           /\ r = SubSeq(p, 1, first - 1) \o mid \o SubSeq(p, last + 1, Len(p))
           /\ IsSplice(r, p, first, last, mid)
<1>. DEFINE n == Len(p)
            a == SubSeq(p, 1, first - 1)
            b == SubSeq(p, last + 1, n)
<1>1. n \in Nat /\ Len(mid) \in Nat
  BY LenProperties
<1>2. /\ a \in Seq(S) /\ Len(a) = first - 1
      /\ \A x \in 1 .. first - 1 : a[x] = p[x]
  BY <1>1
<1>3. /\ b \in Seq(S) /\ Len(b) = n - last
      /\ \A x \in 1 .. n - last : b[x] = p[last + x]
  BY <1>1
<1>. HIDE DEF a, b
<1>4. PICK c : c = a \o mid
  OBVIOUS
<1>5. /\ c \in Seq(S)
      /\ Len(c) = first - 1 + Len(mid)
      /\ \A x \in 1 .. Len(c) :
           c[x] = IF x <= Len(a) THEN a[x] ELSE mid[x - Len(a)]
  <2>1. c \in Seq(S) /\ IsJoin(c, a, mid)
    BY <1>2, <1>4, Joined, Zenon
  <2>. QED  BY <1>2, <2>1, Zenon DEF IsJoin
<1>6. PICK w : w = c \o b
  OBVIOUS
<1>7. /\ w \in Seq(S)
      /\ Len(w) = Len(c) + Len(b)
      /\ \A x \in 1 .. Len(w) :
           w[x] = IF x <= Len(c) THEN c[x] ELSE b[x - Len(c)]
  <2>1. w \in Seq(S) /\ IsJoin(w, c, b)
    BY <1>3, <1>5, <1>6, Joined, Zenon
  <2>. QED  BY <2>1, Zenon DEF IsJoin
<1>8. Len(w) = n - (last - first + 1) + Len(mid)
  BY <1>1, <1>3, <1>5, <1>7
<1>9. ASSUME NEW x \in 1 .. Len(w)
      PROVE  w[x] = IF x < first THEN p[x]
                    ELSE IF x < first + Len(mid) THEN mid[x - first + 1]
                    ELSE p[x - Len(mid) + (last - first + 1)]
  <2>1. CASE x < first
    <3>1. x \in 1 .. first - 1 /\ x <= Len(c) /\ x <= Len(a) /\ x \in 1 .. Len(c)
      BY <1>1, <1>2, <1>5, <2>1
    <3>2. w[x] = c[x] /\ c[x] = a[x] /\ a[x] = p[x]
      BY <1>2, <1>5, <1>7, <3>1
    <3>. QED  BY <2>1, <3>2
  <2>2. CASE ~(x < first) /\ x < first + Len(mid)
    <3>1. /\ x <= Len(c) /\ ~(x <= Len(a)) /\ x \in 1 .. Len(c)
          /\ x - Len(a) = x - first + 1
      BY <1>1, <1>2, <1>5, <2>2
    <3>2. w[x] = c[x] /\ c[x] = mid[x - Len(a)]
      BY <1>5, <1>7, <3>1
    <3>. QED  BY <2>2, <3>1, <3>2
  <2>3. CASE ~(x < first) /\ ~(x < first + Len(mid))
    <3>1. /\ ~(x <= Len(c)) /\ x - Len(c) \in 1 .. n - last
          /\ last + (x - Len(c)) = x - Len(mid) + (last - first + 1)
      BY <1>1, <1>5, <1>8, <2>3
    <3>2. w[x] = b[x - Len(c)] /\ b[x - Len(c)] = p[last + (x - Len(c))]
      BY <1>3, <1>7, <3>1
    <3>. QED  BY <2>3, <3>1, <3>2
  <2>. QED  BY <2>1, <2>2, <2>3
<1>10. w = SubSeq(p, 1, first - 1) \o mid \o SubSeq(p, last + 1, Len(p))
  BY <1>4, <1>6 DEF a, b
<1>. QED  BY <1>7, <1>8, <1>9, <1>10 DEF IsSplice

\* q is p with slice i cut in two.
HalvedAt(q, p, i, d) ==
  /\ Len(q) = Len(p) + 1
  /\ \A x \in 1 .. Len(q) :
       q[x] = IF x < i THEN p[x]
              ELSE IF x = i THEN [p[i] EXCEPT !.end = d]
              ELSE IF x = i + 1 THEN [p[i] EXCEPT !.begin = d]
              ELSE p[x - 1]

\* split_slice does it.
LEMMA SplitElements ==
  ASSUME NEW J, NEW M, NEW p \in Seq(SlicesOver(J, M)), NEW i \in 1 .. Len(p),
         NEW d \in Int, p[i].begin < d, d < p[i].end,
         NEW q, q = SplitSlice(p, i, d)
  PROVE  q \in Seq(SlicesOver(J, M)) /\ HalvedAt(q, p, i, d)
<1>1. Len(p) \in Nat /\ p[i] \in SlicesOver(J, M)
  BY LenProperties, ElementOfSeq
<1>2. PICK s, t : s = [p[i] EXCEPT !.end = d] /\ t = [p[i] EXCEPT !.begin = d]
  OBVIOUS
<1>3. s \in SlicesOver(J, M) /\ t \in SlicesOver(J, M)
  BY <1>1, <1>2 DEF SlicesOver
<1>4. PICK mid : mid = <<s, t>>
  OBVIOUS
<1>5. /\ mid \in Seq(SlicesOver(J, M)) /\ Len(mid) = 2
      /\ mid[1] = s /\ mid[2] = t
  BY <1>3, <1>4
<1>6. q = SubSeq(p, 1, i - 1) \o mid \o SubSeq(p, i + 1, Len(p))
  BY <1>2, <1>4 DEF SplitSlice
<1>7. q \in Seq(SlicesOver(J, M)) /\ IsSplice(q, p, i, i, mid)
  <2>1. i \in i .. Len(p)
    BY <1>1
  <2>2. \E r \in Seq(SlicesOver(J, M)) :
          /\ r = SubSeq(p, 1, i - 1) \o mid \o SubSeq(p, i + 1, Len(p))
          /\ IsSplice(r, p, i, i, mid)
    <3>1. /\ p \in Seq(SlicesOver(J, M)) /\ mid \in Seq(SlicesOver(J, M))
          /\ i \in 1 .. Len(p) /\ i \in i .. Len(p)
      BY <1>5, <2>1
    <3>. QED  BY <3>1, Spliced, Zenon
  <2>. QED  BY <1>6, <2>2, Zenon
<1>8. /\ Len(q) = Len(p) - (i - i + 1) + Len(mid)
      /\ \A x \in 1 .. Len(q) :
           q[x] = IF x < i THEN p[x]
                  ELSE IF x < i + Len(mid) THEN mid[x - i + 1]
                  ELSE p[x - Len(mid) + (i - i + 1)]
  BY <1>7, Zenon DEF IsSplice
<1>9. Len(q) = Len(p) + 1
  BY <1>1, <1>5, <1>8
<1>10. ASSUME NEW x \in 1 .. Len(q)
       PROVE  q[x] = IF x < i THEN p[x]
                     ELSE IF x = i THEN s ELSE IF x = i + 1 THEN t
                     ELSE p[x - 1]
  <2>1. CASE x < i
    BY <1>8, <2>1
  <2>2. CASE x = i
    <3>1. x - i + 1 = 1 /\ ~(x < i) /\ x < i + Len(mid)
      BY <1>5, <2>2
    <3>2. q[x] = mid[x - i + 1]
      BY <1>8, <3>1
    <3>. QED  BY <1>5, <2>2, <3>1, <3>2
  <2>3. CASE x = i + 1
    <3>1. x - i + 1 = 2 /\ ~(x < i) /\ x < i + Len(mid) /\ x # i
      BY <1>5, <2>3
    <3>2. q[x] = mid[x - i + 1]
      BY <1>8, <3>1
    <3>. QED  BY <1>5, <2>3, <3>1, <3>2
  <2>4. CASE x > i + 1
    <3>1. /\ ~(x < i) /\ ~(x < i + Len(mid)) /\ x # i /\ x # i + 1
          /\ x - Len(mid) + (i - i + 1) = x - 1
      BY <1>5, <2>4
    <3>. QED  BY <1>8, <3>1
  <2>. QED  BY <2>1, <2>2, <2>3, <2>4
<1>. QED  BY <1>2, <1>7, <1>9, <1>10 DEF HalvedAt


\* Splitting a slice keeps the partition and every allocation.
LEMMA SplitSound ==
  ASSUME NEW J, NEW M, NEW n, NEW p, IsPartition(p, J, M, n),
         NEW i \in 1 .. Len(p), NEW d \in Int, p[i].begin < d, d < p[i].end,
         NEW q, q = SplitSlice(p, i, d)
  PROVE  /\ IsPartition(q, J, M, n)
         /\ \A j : /\ SameAllocation(q, p, j)
                   /\ IsContiguous(q, j) <=> IsContiguous(p, j)
<1>. DEFINE k == Len(p)
<1>1. /\ p \in Seq(SlicesOver(J, M)) /\ k \in Nat \ {0}
      /\ \A x \in 1 .. k : p[x] \in SlicesOver(J, M)
  BY LenProperties, ElementOfSeq DEF IsPartition
<1>2. \A x \in 1 .. k : p[x].begin \in Int /\ p[x].end \in Int
  BY <1>1 DEF SlicesOver
<1>3. /\ q \in Seq(SlicesOver(J, M)) /\ Len(q) = k + 1
      /\ \A x \in 1 .. k + 1 :
           q[x] = IF x < i THEN p[x]
                  ELSE IF x = i THEN [p[i] EXCEPT !.end = d]
                  ELSE IF x = i + 1 THEN [p[i] EXCEPT !.begin = d]
                  ELSE p[x - 1]
  <2>1. q \in Seq(SlicesOver(J, M)) /\ HalvedAt(q, p, i, d)
    BY <1>1, SplitElements, Zenon
  <2>. QED  BY <2>1 DEF HalvedAt
<1>. DEFINE g == [x \in 1 .. k + 1 |-> IF x <= i THEN x ELSE x - 1]
<1>4. /\ i \in 1 .. k /\ i \in Int
      /\ g \in [1 .. k + 1 -> 1 .. k]
      /\ \A x \in 1 .. k + 1 : g[x] = IF x <= i THEN x ELSE x - 1
  BY <1>1
<1>5. \A x \in 1 .. k + 1 :
        /\ q[x].jobs = p[g[x]].jobs
        /\ q[x].nb = p[g[x]].nb
        /\ q[x].available = p[g[x]].available
        /\ x # i + 1 => q[x].begin = p[g[x]].begin
        /\ x # i => q[x].end = p[g[x]].end
  <2>. SUFFICES ASSUME NEW x \in 1 .. k + 1
                PROVE  /\ q[x].jobs = p[g[x]].jobs
                       /\ q[x].nb = p[g[x]].nb
                       /\ q[x].available = p[g[x]].available
                       /\ x # i + 1 => q[x].begin = p[g[x]].begin
                       /\ x # i => q[x].end = p[g[x]].end
    OBVIOUS
  <2>1. CASE x < i \/ x > i + 1
    <3>1. q[x] = p[g[x]]
      BY <1>1, <1>3, <1>4, <2>1
    <3>. QED  BY <3>1
  <2>2. CASE x = i
    <3>1. q[x] = [p[i] EXCEPT !.end = d] /\ g[x] = i
      BY <1>3, <1>4, <2>2
    <3>. QED  BY <1>1, <2>2, <3>1 DEF SlicesOver
  <2>3. CASE x = i + 1
    <3>1. q[x] = [p[i] EXCEPT !.begin = d] /\ g[x] = i
      <4>1. ~(x < i) /\ x # i /\ ~(x <= i) /\ x - 1 = i
        BY <1>1, <2>3
      <4>. QED  BY <1>3, <1>4, <2>3, <4>1
    <3>. QED  BY <1>1, <1>4, <2>3, <3>1 DEF SlicesOver
  <2>. QED  BY <1>1, <1>4, <2>1, <2>2, <2>3
<1>6. q[i].end = d /\ q[i + 1].begin = d
  <2>1. /\ i \in 1 .. k + 1 /\ i + 1 \in 1 .. k + 1 /\ ~(i + 1 < i)
        /\ i + 1 # i /\ ~(i < i)
    BY <1>1
  <2>2. q[i] = [p[i] EXCEPT !.end = d] /\ q[i + 1] = [p[i] EXCEPT !.begin = d]
    BY <1>3, <2>1
  <2>. QED  BY <1>1, <2>2 DEF SlicesOver
<1>. HIDE DEF g
<1>7. IsPartition(q, J, M, n)
  <2>1. ASSUME NEW x \in 1 .. k + 1
        PROVE  IsShared(q[x], M, n)
    <3>1. IsShared(p[g[x]], M, n)
      BY <1>4 DEF IsPartition
    <3>. QED  BY <1>5, <3>1 DEF IsShared, FreeUnlessGiven, GivenOnce, AsRequested
  <2>2. q[1].begin <= q[1].end
    <3>1. 1 \in 1 .. k + 1 /\ g[1] = 1 /\ 1 # i + 1 /\ p[1].begin <= p[1].end
      BY <1>1, <1>4 DEF IsPartition, Follow
    <3>2. CASE i = 1
      <4>1. q[1].begin = p[1].begin /\ q[1].end = d
        BY <1>5, <1>6, <3>1, <3>2
      <4>. QED  BY <1>2, <3>2, <4>1
    <3>3. CASE i # 1
      BY <1>5, <3>1, <3>3
    <3>. QED  BY <3>2, <3>3
  <2>3. ASSUME NEW x \in 2 .. k + 1
        PROVE  q[x].begin = q[x - 1].end /\ q[x].begin < q[x].end
    <3>1. \A y \in 2 .. k : p[y].begin = p[y - 1].end /\ p[y].begin < p[y].end
      BY DEF IsPartition, Follow
    <3>2. x \in 1 .. k + 1 /\ x - 1 \in 1 .. k + 1
      BY <1>1
    <3>3. CASE x = i + 1
      <4>1. q[x].end = p[i].end /\ x - 1 = i
        BY <1>4, <1>5, <3>2, <3>3
      <4>. QED  BY <1>6, <3>3, <4>1
    <3>4. CASE x = i
      <4>1. /\ g[x] = i /\ g[x - 1] = i - 1 /\ x # i + 1 /\ x - 1 # i
            /\ i \in 2 .. k
        BY <1>4, <3>2, <3>4
      <4>2. q[x].begin = p[i].begin /\ q[x - 1].end = p[i - 1].end /\ q[x].end = d
        BY <1>5, <1>6, <3>2, <3>4, <4>1
      <4>. QED  BY <3>1, <4>1, <4>2
    <3>5. CASE x < i
      <4>1. /\ g[x] = x /\ g[x - 1] = x - 1 /\ x # i + 1 /\ x # i /\ x - 1 # i
            /\ x \in 2 .. k
        BY <1>1, <1>4, <3>2, <3>5
      <4>2. /\ q[x].begin = p[x].begin /\ q[x].end = p[x].end
            /\ q[x - 1].end = p[x - 1].end
        BY <1>5, <3>2, <4>1
      <4>. QED  BY <3>1, <4>1, <4>2
    <3>6. CASE x > i + 1
      <4>1. /\ g[x] = x - 1 /\ g[x - 1] = (x - 1) - 1 /\ x # i + 1 /\ x # i
            /\ x - 1 # i /\ x - 1 \in 2 .. k
        BY <1>1, <1>4, <3>2, <3>6
      <4>2. /\ q[x].begin = p[x - 1].begin /\ q[x].end = p[x - 1].end
            /\ q[x - 1].end = p[(x - 1) - 1].end
        BY <1>5, <3>2, <4>1
      <4>. QED  BY <3>1, <4>1, <4>2
    <3>. QED  BY <1>1, <3>3, <3>4, <3>5, <3>6
  <2>4. q[k + 1].end = Infinity /\ DOMAIN q[k + 1].jobs = {}
    <3>1. k + 1 \in 1 .. k + 1 /\ g[k + 1] = k /\ k + 1 # i
      BY <1>1, <1>4
    <3>2. q[k + 1].end = p[k].end /\ q[k + 1].jobs = p[k].jobs
      BY <1>5, <3>1
    <3>. QED  BY <3>2 DEF IsPartition
  <2>. QED  BY <1>1, <1>3, <2>1, <2>2, <2>3, <2>4 DEF IsPartition, Follow
<1>8. Coarsens(p, q, g)
  <2>1. \A x, y \in 1 .. k + 1 : x <= y => g[x] <= g[y]
    BY <1>1, <1>4
  <2>2. ASSUME NEW z \in 1 .. k
        PROVE  \E x \in 1 .. k + 1 : g[x] = z
    <3>1. CASE z <= i
      <4>1. z \in 1 .. k + 1 /\ g[z] = z
        BY <1>1, <1>4, <3>1
      <4>. QED  BY <4>1
    <3>2. CASE ~(z <= i)
      <4>1. z + 1 \in 1 .. k + 1 /\ g[z + 1] = z
        BY <1>1, <1>4, <3>2
      <4>. QED  BY <4>1
    <3>. QED  BY <3>1, <3>2
  <2>3. ASSUME NEW x \in 1 .. k + 1,
               \A y \in 1 .. k + 1 : y < x => g[y] < g[x]
        PROVE  p[g[x]].begin = q[x].begin
    <3>1. x # i + 1
      <4>1. i \in 1 .. k + 1 /\ g[i] = i /\ g[i + 1] = i /\ i < i + 1
        BY <1>1, <1>4
      <4>. QED  BY <2>3, <4>1
    <3>. QED  BY <1>5, <3>1
  <2>4. ASSUME NEW x \in 1 .. k + 1,
               \A y \in 1 .. k + 1 : x < y => g[x] < g[y]
        PROVE  p[g[x]].end = q[x].end
    <3>1. x # i
      <4>1. i + 1 \in 1 .. k + 1 /\ g[i] = i /\ g[i + 1] = i /\ i < i + 1
        BY <1>1, <1>4
      <4>. QED  BY <2>4, <4>1
    <3>. QED  BY <1>5, <3>1
  <2>5. \A x \in 1 .. k + 1 : p[g[x]].jobs = q[x].jobs
    BY <1>5
  <2>. QED  BY <1>3, <1>4, <2>1, <2>2, <2>3, <2>4, <2>5 DEF Coarsens
<1>. QED  BY <1>1, <1>3, <1>7, <1>8, CoarserAllocation


-------------------------------------------------------------------------------
(* Giving machines to a job, and taking them back.                         *)

\* r is q with the machines X, c of them, given to job j from the first to the
\* last of these slices.
Gives(r, q, j, X, c, first, last) ==
  /\ Len(r) = Len(q)
  /\ \A x \in 1 .. Len(q) :
       /\ r[x].begin = q[x].begin /\ r[x].end = q[x].end
       /\ x \in first .. last =>
            /\ j \notin DOMAIN q[x].jobs
            /\ X \subseteq q[x].available
            /\ r[x].available = q[x].available \ X
            /\ r[x].nb = q[x].nb - c
            /\ DOMAIN r[x].jobs = DOMAIN q[x].jobs \cup {j}
            /\ r[x].jobs[j] = X
            /\ \A k \in DOMAIN q[x].jobs : r[x].jobs[k] = q[x].jobs[k]
       /\ x \notin first .. last => r[x] = q[x]

\* Nothing changes for the other jobs.
LEMMA GivesNoOther ==
  ASSUME NEW S, NEW q \in Seq(S), NEW r \in Seq(S), NEW j, NEW X, NEW c,
         NEW first, NEW last, Gives(r, q, j, X, c, first, last), NEW k, k # j
  PROVE  /\ SlicesOf(r, k) = SlicesOf(q, k)
         /\ SameAllocation(q, r, k)
         /\ IsContiguous(r, k) <=> IsContiguous(q, k)
<1>1. /\ Len(q) \in Nat /\ DOMAIN q = 1 .. Len(q) /\ DOMAIN r = 1 .. Len(q)
      /\ Len(r) = Len(q)
  BY LenProperties DEF Gives
<1>2. \A x \in 1 .. Len(q) :
        /\ k \in DOMAIN r[x].jobs <=> k \in DOMAIN q[x].jobs
        /\ k \in DOMAIN q[x].jobs => r[x].jobs[k] = q[x].jobs[k]
        /\ r[x].begin = q[x].begin /\ r[x].end = q[x].end
  <2>. SUFFICES ASSUME NEW x \in 1 .. Len(q)
                PROVE  /\ k \in DOMAIN r[x].jobs <=> k \in DOMAIN q[x].jobs
                       /\ k \in DOMAIN q[x].jobs => r[x].jobs[k] = q[x].jobs[k]
                       /\ r[x].begin = q[x].begin /\ r[x].end = q[x].end
    OBVIOUS
  <2>1. CASE x \in first .. last
    BY <2>1 DEF Gives
  <2>2. CASE x \notin first .. last
    BY <2>2 DEF Gives
  <2>. QED  BY <2>1, <2>2
<1>3. SlicesOf(r, k) = SlicesOf(q, k)
  BY <1>1, <1>2 DEF SlicesOf
<1>4. ContainsJob(q, k) => Allocation(r, k) = Allocation(q, k)
  <2>. HAVE ContainsJob(q, k)
  <2>1. /\ SlicesOf(q, k) \subseteq 1 .. Len(q)
        /\ Min(SlicesOf(q, k)) \in SlicesOf(q, k)
        /\ Max(SlicesOf(q, k)) \in SlicesOf(q, k)
    BY SlicesOfJob
  <2>2. k \in DOMAIN q[Min(SlicesOf(q, k))].jobs
    BY <2>1 DEF SlicesOf
  <2>. QED  BY <1>2, <1>3, <2>1, <2>2 DEF Allocation, BeginOf, EndOf
<1>5. \A x \in SlicesOf(q, k) : r[x].jobs[k] = q[x].jobs[k]
  BY <1>1, <1>2 DEF SlicesOf
<1>. QED  BY <1>3, <1>4, <1>5 DEF SameAllocation, ContainsJob, IsContiguous

\* The job has these machines in these slices and no others.
LEMMA GivesThem ==
  ASSUME NEW S, NEW q \in Seq(S), NEW r \in Seq(S), NEW j, NEW X, NEW c,
         NEW first \in 1 .. Len(q), NEW last \in first .. Len(q),
         Gives(r, q, j, X, c, first, last)
  PROVE  /\ ContainsJob(r, j)
         /\ ~ContainsJob(q, j) =>
              /\ SlicesOf(r, j) = first .. last
              /\ IsContiguous(r, j)
              /\ Allocation(r, j) = [begin |-> q[first].begin,
                                     end |-> q[last].end, machines |-> X,
                                     present |-> first = 1]
<1>1. /\ Len(q) \in Nat /\ DOMAIN q = 1 .. Len(q) /\ DOMAIN r = 1 .. Len(q)
      /\ Len(r) = Len(q)
  BY LenProperties DEF Gives
<1>2. \A x \in first .. last :
        /\ x \in 1 .. Len(q) /\ j \in DOMAIN r[x].jobs /\ r[x].jobs[j] = X
        /\ r[x].begin = q[x].begin /\ r[x].end = q[x].end
  BY <1>1 DEF Gives
<1>3. first .. last \subseteq SlicesOf(r, j)
  BY <1>1, <1>2 DEF SlicesOf
<1>4. ContainsJob(r, j)
  BY <1>3 DEF ContainsJob
<1>. SUFFICES ASSUME ~ContainsJob(q, j)
              PROVE  /\ SlicesOf(r, j) = first .. last
                     /\ IsContiguous(r, j)
                     /\ Allocation(r, j) = [begin |-> q[first].begin,
                                            end |-> q[last].end, machines |-> X,
                                            present |-> first = 1]
  BY <1>4
<1>5. SlicesOf(r, j) = first .. last
  <2>1. \A x \in 1 .. Len(q) : j \notin DOMAIN q[x].jobs
    BY <1>1 DEF ContainsJob, SlicesOf
  <2>2. \A x \in 1 .. Len(q) : x \notin first .. last => j \notin DOMAIN r[x].jobs
    BY <2>1 DEF Gives
  <2>3. SlicesOf(r, j) \subseteq first .. last
    BY <1>1, <2>2 DEF SlicesOf
  <2>. QED  BY <1>3, <2>3
<1>6. IsContiguous(r, j)
  <2>. SUFFICES ASSUME NEW i \in first .. last, NEW k \in first .. last
                PROVE  /\ r[i].jobs[j] = r[k].jobs[j]
                       /\ i .. k \subseteq first .. last
    BY <1>5 DEF IsContiguous
  <2>. QED  BY <1>1, <1>2
<1>7. Min(SlicesOf(r, j)) = first /\ Max(SlicesOf(r, j)) = last
  <2>1. /\ Min(SlicesOf(r, j)) \in first .. last
        /\ Max(SlicesOf(r, j)) \in first .. last
        /\ \A x \in first .. last : /\ Min(SlicesOf(r, j)) <= x
                                    /\ x <= Max(SlicesOf(r, j))
    BY <1>4, <1>5, SlicesOfJob
  <2>2. first \in first .. last /\ last \in first .. last
    BY <1>1
  <2>3. /\ Min(SlicesOf(r, j)) <= first /\ last <= Max(SlicesOf(r, j))
    BY <2>1, <2>2
  <2>. QED  BY <1>1, <2>1, <2>3
<1>8. 1 \in SlicesOf(r, j) <=> first = 1
  BY <1>1, <1>5
<1>9. first \in first .. last /\ last \in first .. last
  BY <1>1
<1>. QED  BY <1>2, <1>5, <1>6, <1>7, <1>8, <1>9 DEF Allocation, BeginOf, EndOf


\* One slice is shared out before as well as after.
LEMMA GivenSlice ==
  ASSUME NEW J, NEW M, IsFiniteSet(M), NEW n,
         NEW s \in SlicesOver(J, M), NEW t \in SlicesOver(J, M), NEW j, NEW X,
         Cardinality(X) = n[j],
         j \notin DOMAIN s.jobs, X \subseteq s.available,
         t.available = s.available \ X, t.nb = s.nb - n[j],
         DOMAIN t.jobs = DOMAIN s.jobs \cup {j}, t.jobs[j] = X,
         \A k \in DOMAIN s.jobs : t.jobs[k] = s.jobs[k]
  PROVE  IsShared(s, M, n) <=> IsShared(t, M, n)
<1>1. s.available \subseteq M /\ s.nb \in Int /\ t.nb \in Int
  BY DEF SlicesOver
<1>2. IsFiniteSet(s.available) /\ IsFiniteSet(X) /\ IsFiniteSet(t.available)
  BY <1>1, FS_Subset
<1>3. Cardinality(s.available) \in Nat /\ Cardinality(X) \in Nat
  BY <1>2, FS_CardinalityType
<1>4. Cardinality(t.available) = Cardinality(s.available) - n[j]
  <2>1. t.available = s.available \ X /\ s.available \cap X = X
    OBVIOUS
  <2>2. Cardinality(s.available \ X)
          = Cardinality(s.available) - Cardinality(s.available \cap X)
    BY <1>2, FS_Difference
  <2>. QED  BY <2>1, <2>2
<1>5. t.nb = Cardinality(t.available) <=> s.nb = Cardinality(s.available)
  BY <1>1, <1>3, <1>4
<1>6. AsRequested(t, n) <=> AsRequested(s, n)
  BY DEF AsRequested
<1>7. ASSUME FreeUnlessGiven(s, M), GivenOnce(s)
      PROVE  FreeUnlessGiven(t, M) /\ GivenOnce(t)
  <2>1. ASSUME NEW m \in M
        PROVE  m \in t.available <=> \A k \in DOMAIN t.jobs : m \notin t.jobs[k]
    BY <1>7 DEF FreeUnlessGiven
  <2>2. \A k \in DOMAIN s.jobs : X \cap s.jobs[k] = {}
    BY <1>1, <1>7 DEF FreeUnlessGiven
  <2>3. GivenOnce(t)
    BY <1>7, <2>2 DEF GivenOnce
  <2>. QED  BY <2>1, <2>3 DEF FreeUnlessGiven
<1>8. ASSUME FreeUnlessGiven(t, M), GivenOnce(t)
      PROVE  FreeUnlessGiven(s, M) /\ GivenOnce(s)
  <2>1. \A k \in DOMAIN s.jobs : X \cap s.jobs[k] = {}
    BY <1>8 DEF GivenOnce
  <2>2. ASSUME NEW m \in M
        PROVE  m \in s.available <=> \A k \in DOMAIN s.jobs : m \notin s.jobs[k]
    <3>1. m \in t.available <=> \A k \in DOMAIN t.jobs : m \notin t.jobs[k]
      BY <1>8 DEF FreeUnlessGiven
    <3>2. CASE m \in X
      BY <2>1, <3>2
    <3>3. CASE m \notin X
      BY <3>1, <3>3
    <3>. QED  BY <3>2, <3>3
  <2>3. GivenOnce(s)
    BY <1>8 DEF GivenOnce
  <2>. QED  BY <2>2, <2>3 DEF FreeUnlessGiven
<1>. QED  BY <1>5, <1>6, <1>7, <1>8 DEF IsShared

\* So is the profile, as long as the last slice is left alone.
LEMMA GivesPartition ==
  ASSUME NEW J, NEW M, IsFiniteSet(M), NEW n,
         NEW q \in Seq(SlicesOver(J, M)), NEW r \in Seq(SlicesOver(J, M)),
         NEW j, NEW X, Cardinality(X) = n[j],
         NEW first \in 1 .. Len(q), NEW last \in first .. Len(q), last < Len(q),
         Gives(r, q, j, X, n[j], first, last)
  PROVE  IsPartition(q, J, M, n) <=> IsPartition(r, J, M, n)
<1>1. /\ Len(q) \in Nat /\ Len(r) = Len(q)
      /\ \A x \in 1 .. Len(q) : /\ q[x] \in SlicesOver(J, M)
                                /\ r[x] \in SlicesOver(J, M)
  BY LenProperties, ElementOfSeq DEF Gives
<1>2. ASSUME NEW x \in 1 .. Len(q)
      PROVE  IsShared(q[x], M, n) <=> IsShared(r[x], M, n)
  <2>1. CASE x \in first .. last
    <3>1. /\ j \notin DOMAIN q[x].jobs
          /\ X \subseteq q[x].available
          /\ r[x].available = q[x].available \ X
          /\ r[x].nb = q[x].nb - n[j]
          /\ DOMAIN r[x].jobs = DOMAIN q[x].jobs \cup {j}
          /\ r[x].jobs[j] = X
          /\ \A k \in DOMAIN q[x].jobs : r[x].jobs[k] = q[x].jobs[k]
      BY <2>1 DEF Gives
    <3>2. q[x] \in SlicesOver(J, M) /\ r[x] \in SlicesOver(J, M)
      BY <1>1
    <3>. HIDE DEF Gives
    <3>. QED  BY <3>1, <3>2, GivenSlice
  <2>2. CASE x \notin first .. last
    BY <2>2 DEF Gives
  <2>. QED  BY <2>1, <2>2
<1>3. \A x \in 1 .. Len(q) : q[x].begin = r[x].begin /\ q[x].end = r[x].end
  BY DEF Gives
<1>4. Follow(q) <=> Follow(r)
  <2>1. CASE Len(q) = 0
    BY <1>1, <2>1
  <2>2. CASE Len(q) # 0
    <3>1. 1 \in 1 .. Len(q)
      BY <1>1, <2>2
    <3>2. \A x \in 2 .. Len(q) : x \in 1 .. Len(q) /\ x - 1 \in 1 .. Len(q)
      BY <1>1
    <3>. QED  BY <1>1, <1>3, <3>1, <3>2 DEF Follow
  <2>. QED  BY <2>1, <2>2
<1>5. r[Len(q)] = q[Len(q)]
  <2>1. Len(q) \in 1 .. Len(q) /\ Len(q) \notin first .. last
    BY <1>1
  <2>. QED  BY <2>1 DEF Gives
<1>. QED  BY <1>1, <1>2, <1>4, <1>5 DEF IsPartition

-------------------------------------------------------------------------------
(* Adding and erasing a job are such steps.                                *)

\* r is p with the elements of F from the first to the last.
IsEdit(r, p, first, last, F) ==
  /\ Len(r) = Len(p)
  /\ \A x \in 1 .. Len(p) : r[x] = IF x \in first .. last THEN F[x] ELSE p[x]

\* MapSlices puts such a sequence together.
LEMMA Edited ==
  ASSUME NEW S, NEW p \in Seq(S),
         NEW first \in 1 .. Len(p), NEW last \in first .. Len(p),
         NEW F \in [first .. last -> S]
  PROVE  \E r \in Seq(S) :
           /\ r = SubSeq(p, 1, first - 1)
                    \o [x \in 1 .. last - first + 1 |-> F[first + x - 1]]
                    \o SubSeq(p, last + 1, Len(p))
           /\ IsEdit(r, p, first, last, F)
<1>. DEFINE n == last - first + 1
<1>1. Len(p) \in Nat /\ n \in Nat /\ first \in Int /\ last \in Int
  BY LenProperties
<1>2. PICK mid : mid = [x \in 1 .. n |-> F[first + x - 1]]
  OBVIOUS
<1>3. \A x \in 1 .. n : first + x - 1 \in first .. last /\ F[first + x - 1] \in S
  BY <1>1
<1>4. mid \in Seq(S) /\ Len(mid) = n /\ \A x \in 1 .. n : mid[x] = F[first + x - 1]
  BY <1>1, <1>2, <1>3
<1>5. PICK r \in Seq(S) :
        /\ r = SubSeq(p, 1, first - 1) \o mid \o SubSeq(p, last + 1, Len(p))
        /\ IsSplice(r, p, first, last, mid)
  BY <1>4, Spliced, Zenon
<1>6. /\ Len(r) = Len(p) - (last - first + 1) + Len(mid)
      /\ \A x \in 1 .. Len(r) :
           r[x] = IF x < first THEN p[x]
                  ELSE IF x < first + Len(mid) THEN mid[x - first + 1]
                  ELSE p[x - Len(mid) + (last - first + 1)]
  BY <1>5, Zenon DEF IsSplice
<1>7. Len(r) = Len(p)
  BY <1>1, <1>4, <1>6
<1>8. ASSUME NEW x \in 1 .. Len(p)
      PROVE  r[x] = IF x \in first .. last THEN F[x] ELSE p[x]
  <2>1. x \in 1 .. Len(r)
    BY <1>7
  <2>2. CASE x \in first .. last
    <3>1. /\ ~(x < first) /\ x < first + Len(mid) /\ x - first + 1 \in 1 .. n
          /\ first + (x - first + 1) - 1 = x
      BY <1>1, <1>4, <2>2
    <3>2. mid[x - first + 1] = F[x]
      BY <1>4, <3>1
    <3>. QED  BY <1>6, <2>1, <2>2, <3>1, <3>2
  <2>3. CASE x < first
    <3>1. x \notin first .. last
      BY <1>1, <2>3
    <3>. QED  BY <1>6, <2>1, <2>3, <3>1
  <2>4. CASE last < x
    <3>1. /\ ~(x < first) /\ ~(x < first + Len(mid))
          /\ x - Len(mid) + (last - first + 1) = x /\ x \notin first .. last
      BY <1>1, <1>4, <2>4
    <3>. QED  BY <1>6, <2>1, <3>1
  <2>. QED  BY <1>1, <2>2, <2>3, <2>4
<1>9. r = SubSeq(p, 1, first - 1)
            \o [x \in 1 .. last - first + 1 |-> F[first + x - 1]]
            \o SubSeq(p, last + 1, Len(p))
  BY <1>2, <1>5, Zenon
<1>. QED  BY <1>7, <1>8, <1>9 DEF IsEdit

\* What a mapping is.
LEMMA MappingFacts ==
  ASSUME NEW J, NEW M, NEW f
  PROVE  /\ f \in Mappings(J, M) =>
              /\ DOMAIN f \in SUBSET J
              /\ f \in [DOMAIN f -> SUBSET M]
         /\ \A S \in SUBSET J : f \in [S -> SUBSET M] => f \in Mappings(J, M)
BY DEF Mappings

\* A slice with other machines and other jobs.
WithJobs(s, A, c, f) == [s EXCEPT !.available = A, !.nb = c, !.jobs = f]

\* The fields of such a slice, which is one if they have their types.
LEMMA EditedSlice ==
  ASSUME NEW J, NEW M, NEW s \in SlicesOver(J, M), NEW A \in SUBSET M,
         NEW c \in Int, NEW f \in Mappings(J, M), NEW t, t = WithJobs(s, A, c, f)
  PROVE  /\ t \in SlicesOver(J, M)
         /\ t.begin = s.begin /\ t.end = s.end
         /\ t.available = A /\ t.nb = c /\ t.jobs = f
BY DEF SlicesOver, WithJobs

\* There is room for job j where alloc says.
HasRoom(q, M, j, alloc) ==
  /\ alloc.first \in 1 .. Len(q)
  /\ alloc.last \in alloc.first .. Len(q)
  /\ alloc.machines \in SUBSET M
  /\ \A x \in alloc.first .. alloc.last :
       j \notin DOMAIN q[x].jobs /\ alloc.machines \subseteq q[x].available

\* add_job_first_fit, once the last slice is split.
LEMMA AddJobAtGives ==
  ASSUME NEW J, NEW M, NEW p, NEW q \in Seq(SlicesOver(J, M)), NEW j \in J,
         NEW c \in Int, NEW w, NEW alloc, HasRoom(q, M, j, alloc),
         q = SplitSlice(p, alloc.last, alloc.begin + w),
         NEW r, r = AddJobAt(p, j, c, w, alloc)
  PROVE  /\ r \in Seq(SlicesOver(J, M))
         /\ Gives(r, q, j, alloc.machines, c, alloc.first, alloc.last)
<1>. DEFINE first == alloc.first
            last == alloc.last
            X == alloc.machines
            With(s) == [s EXCEPT !.available = @ \ X, !.nb = @ - c,
                                 !.jobs = [k \in DOMAIN @ \cup {j} |->
                                             IF k = j THEN X ELSE @[k]]]
            F == [x \in first .. last |-> With(q[x])]
<1>0. /\ first \in 1 .. Len(q) /\ last \in first .. Len(q) /\ X \in SUBSET M
      /\ \A x \in first .. last :
           j \notin DOMAIN q[x].jobs /\ X \subseteq q[x].available
  BY DEF HasRoom
<1>1. /\ Len(q) \in Nat /\ first \in Int /\ last \in Int
      /\ \A x \in first .. last : x \in 1 .. Len(q) /\ q[x] \in SlicesOver(J, M)
  BY <1>0, LenProperties, ElementOfSeq
<1>2. ASSUME NEW x \in first .. last
      PROVE  /\ With(q[x]) \in SlicesOver(J, M)
             /\ With(q[x]).begin = q[x].begin
             /\ With(q[x]).end = q[x].end
             /\ With(q[x]).available = q[x].available \ X
             /\ With(q[x]).nb = q[x].nb - c
             /\ DOMAIN With(q[x]).jobs = DOMAIN q[x].jobs \cup {j}
             /\ With(q[x]).jobs[j] = X
             /\ \A k \in DOMAIN q[x].jobs : With(q[x]).jobs[k] = q[x].jobs[k]
  <2>. DEFINE f == [k \in DOMAIN q[x].jobs \cup {j} |->
                      IF k = j THEN X ELSE q[x].jobs[k]]
  <2>1. q[x] \in SlicesOver(J, M) /\ j \notin DOMAIN q[x].jobs
    BY <1>0, <1>1
  <2>2. f \in Mappings(J, M)
    <3>1. q[x].jobs \in Mappings(J, M)
      BY <2>1 DEF SlicesOver
    <3>2. /\ DOMAIN q[x].jobs \in SUBSET J
          /\ q[x].jobs \in [DOMAIN q[x].jobs -> SUBSET M]
      BY <3>1, MappingFacts
    <3>3. DOMAIN q[x].jobs \cup {j} \in SUBSET J
      BY <3>2
    <3>4. f \in [DOMAIN q[x].jobs \cup {j} -> SUBSET M]
      BY <1>0, <3>2
    <3>. HIDE DEF f
    <3>. QED  BY <3>3, <3>4, MappingFacts
  <2>3. /\ DOMAIN f = DOMAIN q[x].jobs \cup {j}
        /\ f[j] = X
        /\ \A k \in DOMAIN q[x].jobs : f[k] = q[x].jobs[k]
    BY <2>1
  <2>4. With(q[x]) = [q[x] EXCEPT !.available = q[x].available \ X,
                                  !.nb = q[x].nb - c, !.jobs = f]
    OBVIOUS
  <2>. HIDE DEF f, With
  <2>5. /\ With(q[x]) \in SlicesOver(J, M)
        /\ With(q[x]).begin = q[x].begin
        /\ With(q[x]).end = q[x].end
        /\ With(q[x]).available = q[x].available \ X
        /\ With(q[x]).nb = q[x].nb - c
        /\ With(q[x]).jobs = f
    <3>1. q[x].available \ X \in SUBSET M /\ q[x].nb - c \in Int
      BY <2>1 DEF SlicesOver
    <3>2. PICK A, b : A = q[x].available \ X /\ b = q[x].nb - c
      OBVIOUS
    <3>3. PICK t : t = With(q[x])
      OBVIOUS
    <3>4. /\ q[x] \in SlicesOver(J, M) /\ A \in SUBSET M /\ b \in Int
          /\ t = WithJobs(q[x], A, b, f)
      BY <2>1, <2>4, <3>1, <3>2, <3>3, Zenon DEF WithJobs
    <3>5. /\ t \in SlicesOver(J, M)
          /\ t.begin = q[x].begin /\ t.end = q[x].end
          /\ t.available = A /\ t.nb = b /\ t.jobs = f
      BY <2>2, <3>4, EditedSlice
    <3>. QED  BY <3>2, <3>3, <3>5, Zenon
  <2>. QED  BY <2>3, <2>5
<1>3. F \in [first .. last -> SlicesOver(J, M)]
  BY <1>2
<1>4. r \in Seq(SlicesOver(J, M)) /\ IsEdit(r, q, first, last, F)
  <2>1. r = SubSeq(q, 1, first - 1)
              \o [x \in 1 .. last - first + 1 |-> With(q[first + x - 1])]
              \o SubSeq(q, last + 1, Len(q))
    BY DEF AddJobAt, MapSlices
  <2>2. \A x \in 1 .. last - first + 1 : first + x - 1 \in first .. last
    BY <1>1
  <2>3. [x \in 1 .. last - first + 1 |-> With(q[first + x - 1])]
          = [x \in 1 .. last - first + 1 |-> F[first + x - 1]]
    <3>. HIDE DEF With
    <3>. QED  BY <2>2
  <2>4. r = SubSeq(q, 1, first - 1)
              \o [x \in 1 .. last - first + 1 |-> F[first + x - 1]]
              \o SubSeq(q, last + 1, Len(q))
    BY <2>1, <2>3, Zenon
  <2>5. first \in 1 .. Len(q) /\ last \in first .. Len(q)
    BY <1>0
  <2>. HIDE DEF F, first, last
  <2>6. \E t \in Seq(SlicesOver(J, M)) :
          /\ t = SubSeq(q, 1, first - 1)
                   \o [x \in 1 .. last - first + 1 |-> F[first + x - 1]]
                   \o SubSeq(q, last + 1, Len(q))
          /\ IsEdit(t, q, first, last, F)
    BY <1>3, <2>5, Edited, Zenon
  <2>. QED  BY <2>4, <2>6, Zenon
<1>5. Len(r) = Len(q)
  BY <1>4 DEF IsEdit
<1>6. \A x \in 1 .. Len(q) :
        /\ x \in first .. last => r[x] = With(q[x])
        /\ x \notin first .. last => r[x] = q[x]
  BY <1>4 DEF IsEdit
<1>. HIDE DEF With
<1>. QED  BY <1>0, <1>1, <1>2, <1>4, <1>5, <1>6 DEF Gives

\* Erasing a job is the opposite.
LEMMA EraseJobGives ==
  ASSUME NEW J, NEW M, NEW p \in Seq(SlicesOver(J, M)), NEW j, NEW X,
         NEW c \in Int, NEW first \in 1 .. Len(p), NEW last \in first .. Len(p),
         \A x \in first .. last : /\ j \in DOMAIN p[x].jobs
                                  /\ p[x].jobs[j] = X
                                  /\ X \cap p[x].available = {},
         NEW e, e = EraseJob(p, j, c, first, last)
  PROVE  /\ e \in Seq(SlicesOver(J, M))
         /\ Gives(p, e, j, X, c, first, last)
<1>. DEFINE Without(s) == [s EXCEPT !.available = @ \cup X, !.nb = @ + c,
                                    !.jobs = Restrict(@, DOMAIN @ \ {j})]
            F == [x \in first .. last |-> Without(p[x])]
<1>1. /\ Len(p) \in Nat /\ first \in Int /\ last \in Int /\ first \in first .. last
      /\ \A x \in first .. last : x \in 1 .. Len(p) /\ p[x] \in SlicesOver(J, M)
  BY LenProperties, ElementOfSeq
<1>2. ASSUME NEW x \in first .. last
      PROVE  /\ Without(p[x]) \in SlicesOver(J, M)
             /\ Without(p[x]).begin = p[x].begin
             /\ Without(p[x]).end = p[x].end
             /\ j \notin DOMAIN Without(p[x]).jobs
             /\ X \subseteq Without(p[x]).available
             /\ p[x].available = Without(p[x]).available \ X
             /\ p[x].nb = Without(p[x]).nb - c
             /\ DOMAIN p[x].jobs = DOMAIN Without(p[x]).jobs \cup {j}
             /\ p[x].jobs[j] = X
             /\ \A k \in DOMAIN Without(p[x]).jobs :
                  p[x].jobs[k] = Without(p[x]).jobs[k]
  <2>. DEFINE f == [k \in DOMAIN p[x].jobs \ {j} |-> p[x].jobs[k]]
  <2>1. /\ p[x] \in SlicesOver(J, M) /\ j \in DOMAIN p[x].jobs
        /\ p[x].jobs[j] = X /\ X \cap p[x].available = {}
    BY <1>1
  <2>2. p[x].available \in SUBSET M /\ p[x].nb \in Int /\ p[x].jobs \in Mappings(J, M)
    BY <2>1 DEF SlicesOver
  <2>3. /\ DOMAIN p[x].jobs \in SUBSET J
        /\ p[x].jobs \in [DOMAIN p[x].jobs -> SUBSET M]
    BY <2>2, MappingFacts
  <2>4. f \in Mappings(J, M)
    <3>1. DOMAIN p[x].jobs \ {j} \in SUBSET J
      BY <2>3
    <3>2. f \in [DOMAIN p[x].jobs \ {j} -> SUBSET M]
      BY <2>3
    <3>. HIDE DEF f
    <3>. QED  BY <3>1, <3>2, MappingFacts
  <2>5. /\ DOMAIN f = DOMAIN p[x].jobs \ {j}
        /\ \A k \in DOMAIN f : f[k] = p[x].jobs[k]
    OBVIOUS
  <2>6. Without(p[x]) = [p[x] EXCEPT !.available = p[x].available \cup X,
                                     !.nb = p[x].nb + c, !.jobs = f]
    BY DEF Restrict
  <2>. HIDE DEF f, Without
  <2>7. PICK A, b, t : /\ A = p[x].available \cup X /\ b = p[x].nb + c
                       /\ t = Without(p[x])
    OBVIOUS
  <2>8. A \in SUBSET M /\ b \in Int
    <3>1. X \in SUBSET M
      BY <2>1, <2>3
    <3>. QED  BY <2>2, <2>7, <3>1
  <2>9. t = WithJobs(p[x], A, b, f)
    BY <2>6, <2>7, Zenon DEF WithJobs
  <2>10. /\ t \in SlicesOver(J, M)
         /\ t.begin = p[x].begin /\ t.end = p[x].end
         /\ t.available = A /\ t.nb = b /\ t.jobs = f
    BY <2>1, <2>4, <2>8, <2>9, EditedSlice
  <2>11. /\ j \notin DOMAIN f
         /\ X \subseteq A
         /\ p[x].available = A \ X
         /\ p[x].nb = b - c
         /\ DOMAIN p[x].jobs = DOMAIN f \cup {j}
    BY <2>1, <2>2, <2>5, <2>7
  <2>. QED  BY <2>1, <2>5, <2>7, <2>10, <2>11, Zenon
<1>3. F \in [first .. last -> SlicesOver(J, M)]
  BY <1>2
<1>4. e \in Seq(SlicesOver(J, M)) /\ IsEdit(e, p, first, last, F)
  <2>1. e = SubSeq(p, 1, first - 1)
              \o [x \in 1 .. last - first + 1 |-> Without(p[first + x - 1])]
              \o SubSeq(p, last + 1, Len(p))
    <3>1. p[first].jobs[j] = X
      BY <1>1
    <3>. QED  BY <3>1 DEF EraseJob, MapSlices
  <2>2. \A x \in 1 .. last - first + 1 : first + x - 1 \in first .. last
    BY <1>1
  <2>3. [x \in 1 .. last - first + 1 |-> Without(p[first + x - 1])]
          = [x \in 1 .. last - first + 1 |-> F[first + x - 1]]
    <3>. HIDE DEF Without
    <3>. QED  BY <2>2
  <2>4. e = SubSeq(p, 1, first - 1)
              \o [x \in 1 .. last - first + 1 |-> F[first + x - 1]]
              \o SubSeq(p, last + 1, Len(p))
    BY <2>1, <2>3, Zenon
  <2>. HIDE DEF F
  <2>5. \E t \in Seq(SlicesOver(J, M)) :
          /\ t = SubSeq(p, 1, first - 1)
                   \o [x \in 1 .. last - first + 1 |-> F[first + x - 1]]
                   \o SubSeq(p, last + 1, Len(p))
          /\ IsEdit(t, p, first, last, F)
    BY <1>3, Edited, Zenon
  <2>. QED  BY <2>4, <2>5, Zenon
<1>5. Len(e) = Len(p)
  BY <1>4 DEF IsEdit
<1>6. \A x \in 1 .. Len(p) :
        /\ x \in first .. last => e[x] = Without(p[x])
        /\ x \notin first .. last => e[x] = p[x]
  BY <1>4 DEF IsEdit
<1>. HIDE DEF Without
<1>. QED  BY <1>1, <1>2, <1>4, <1>5, <1>6 DEF Gives

-------------------------------------------------------------------------------
(* Where a job is placed.                                                  *)

\* The dates of a profile grow.
LEMMA Dates ==
  ASSUME NEW J, NEW M, NEW n, NEW p, IsPartition(p, J, M, n)
  PROVE  /\ \A x \in 1 .. Len(p) : /\ p[x].begin \in Int /\ p[x].end \in Int
                                   /\ p[x].begin <= p[x].end
                                   /\ x # 1 => p[x].begin < p[x].end
         /\ \A x, y \in 1 .. Len(p) : x < y => p[x].end <= p[y].begin
<1>1. /\ Len(p) \in Nat /\ Len(p) >= 1
      /\ \A x \in 1 .. Len(p) : p[x] \in SlicesOver(J, M)
  BY LenProperties, ElementOfSeq DEF IsPartition
<1>2. \A x \in 1 .. Len(p) : p[x].begin \in Int /\ p[x].end \in Int
  BY <1>1 DEF SlicesOver
<1>3. /\ p[1].begin <= p[1].end
      /\ \A x \in 2 .. Len(p) : p[x].begin = p[x - 1].end /\ p[x].begin < p[x].end
  BY DEF IsPartition, Follow
<1>4. ASSUME NEW x \in 1 .. Len(p)
      PROVE  p[x].begin <= p[x].end /\ (x # 1 => p[x].begin < p[x].end)
  <2>1. x = 1 \/ x \in 2 .. Len(p)
    BY <1>1
  <2>. QED  BY <1>2, <1>3, <2>1
<1>5. ASSUME NEW x \in 1 .. Len(p), NEW y \in 1 .. Len(p), x < y
      PROVE  p[x].end <= p[y].begin
  <2>. DEFINE T == {i \in 0 .. Len(p) - x - 1 : p[x].end <= p[x + 1 + i].begin}
  <2>1. 0 \in T
    <3>1. x + 1 \in 2 .. Len(p) /\ (x + 1) - 1 = x /\ x + 1 + 0 = x + 1
      BY <1>1, <1>5
    <3>2. p[x + 1].begin = p[x].end
      BY <1>3, <3>1
    <3>3. 0 \in 0 .. Len(p) - x - 1
      BY <1>1, <1>5
    <3>. QED  BY <1>2, <3>1, <3>2, <3>3
  <2>2. ASSUME NEW i \in 0 .. (Len(p) - x - 1) - 1, i \in T
        PROVE  i + 1 \in T
    <3>1. /\ x + 1 + i \in 2 .. Len(p) /\ x + 1 + (i + 1) \in 2 .. Len(p)
          /\ (x + 1 + (i + 1)) - 1 = x + 1 + i
          /\ i + 1 \in 0 .. Len(p) - x - 1
      BY <1>1
    <3>2. /\ p[x + 1 + (i + 1)].begin = p[x + 1 + i].end
          /\ p[x + 1 + i].begin < p[x + 1 + i].end
      BY <1>3, <3>1
    <3>3. /\ p[x].end <= p[x + 1 + i].begin /\ p[x].end \in Int
          /\ p[x + 1 + i].begin \in Int /\ p[x + 1 + i].end \in Int
      BY <1>2, <2>2, <3>1
    <3>4. p[x].end <= p[x + 1 + i].end
      <4>1. PICK u, v, z : u = p[x].end /\ v = p[x + 1 + i].begin /\ z = p[x + 1 + i].end
        OBVIOUS
      <4>2. u \in Int /\ v \in Int /\ z \in Int /\ u <= v /\ v < z
        BY <3>2, <3>3, <4>1, Zenon
      <4>3. u <= z
        BY <4>2
      <4>. QED  BY <4>1, <4>3, Zenon
    <3>5. p[x].end <= p[x + 1 + (i + 1)].begin
      BY <3>2, <3>4, Zenon
    <3>. QED  BY <3>1, <3>5
  <2>3. \A i \in 0 .. Len(p) - x - 1 : i \in T
    <3>1. Len(p) - x - 1 \in Nat
      BY <1>1, <1>5
    <3>. HIDE DEF T
    <3>. QED  BY <2>1, <2>2, <3>1, IntervalInduction
  <2>4. y - x - 1 \in 0 .. Len(p) - x - 1 /\ x + 1 + (y - x - 1) = y
    BY <1>1, <1>5
  <2>5. y - x - 1 \in T
    BY <2>3, <2>4
  <2>. QED  BY <2>4, <2>5
<1>. QED  BY <1>2, <1>4, <1>5

\* The machines X are enough for the selector, whatever else is free.
CanHold(X, M, c) == \A T \in SUBSET M : X \subseteq T => Fit(T, c) # {}

\* A selector finds as many machines as asked for, and finds a place wherever
\* these machines are free.
Places(M, c) ==
  \A S \in SUBSET M : Fit(S, c) # {} =>
    /\ Fit(S, c) \subseteq S
    /\ Cardinality(Fit(S, c)) = c
    /\ CanHold(Fit(S, c), M, c)

\* Where enough machines are free for long enough there is a place.
LEMMA AnchorFrom ==
  ASSUME NEW J, NEW M, IsFiniteSet(M), NEW n, NEW p, IsPartition(p, J, M, n),
         NEW i \in 1 .. Len(p), NEW last \in i .. Len(p), NEW w \in Int,
         NEW X, CanHold(X, M, Cardinality(X)),
         \A x \in i .. last : X \subseteq p[x].available,
         p[last].end - p[i].begin >= w
  PROVE  \E k \in i .. last : IsAnchor(p, Cardinality(X), w, i, k)
<1>1. /\ Len(p) \in Nat /\ i \in Int /\ last \in Int
      /\ \A x \in i .. last : /\ x \in 1 .. Len(p)
                              /\ p[x] \in SlicesOver(J, M)
                              /\ p[x].nb = Cardinality(p[x].available)
  BY LenProperties, ElementOfSeq DEF IsPartition, IsShared
<1>2. \A x \in i .. last : /\ p[x].available \in SUBSET M
                           /\ p[x].begin \in Int /\ p[x].end \in Int
  BY <1>1 DEF SlicesOver
<1>3. i \in i .. last /\ last \in i .. last
  BY <1>1
<1>4. ASSUME NEW x \in i .. last
      PROVE  p[x].nb >= Cardinality(X)
  <2>1. IsFiniteSet(p[x].available) /\ X \subseteq p[x].available
    BY <1>2, FS_Subset
  <2>. QED  BY <1>1, <2>1, FS_Subset
<1>5. ASSUME NEW k \in i .. last
      PROVE  Fit(CommonMachines(p, i, k), Cardinality(X)) # {}
  <2>1. \A x \in i .. k : x \in i .. last
    BY <1>1
  <2>2. X \subseteq CommonMachines(p, i, k)
    BY <1>3, <2>1 DEF CommonMachines
  <2>3. CommonMachines(p, i, k) \in SUBSET M
    BY <1>2, <1>3 DEF CommonMachines
  <2>. QED  BY <2>2, <2>3 DEF CanHold
<1>6. CASE p[i].end - p[i].begin >= w
  <2>1. \A x \in i .. i : p[x].nb >= Cardinality(X)
    BY <1>1, <1>3, <1>4
  <2>2. IsAnchor(p, Cardinality(X), w, i, i)
    BY <1>1, <1>3, <1>5, <1>6, <2>1 DEF IsAnchor
  <2>. QED  BY <1>3, <2>2
<1>7. CASE ~(p[i].end - p[i].begin >= w)
  <2>1. p[i].end - p[i].begin < w
    BY <1>2, <1>3, <1>7
  <2>2. IsAnchor(p, Cardinality(X), w, i, last)
    BY <1>1, <1>3, <1>4, <1>5, <2>1 DEF IsAnchor
  <2>. QED  BY <1>3, <2>2
<1>. QED  BY <1>6, <1>7


\* The first of some pairs of slices.
LEMMA FirstPair ==
  ASSUME NEW N \in Nat, NEW A \in SUBSET ((1 .. N) \X (1 .. N)), A # {}
  PROVE  /\ FirstAmong(A) \in A
         /\ \A b \in A : \/ FirstAmong(A)[1] < b[1]
                         \/ /\ FirstAmong(A)[1] = b[1]
                            /\ FirstAmong(A)[2] <= b[2]
<1>. DEFINE I == {i \in 1 .. N : \E k \in 1 .. N : <<i, k>> \in A}
<1>1. \A b \in A : b[1] \in 1 .. N /\ b[2] \in 1 .. N /\ b = <<b[1], b[2]>>
  OBVIOUS
<1>2. I \in SUBSET Nat /\ I # {}
  <2>1. PICK b : b \in A
    OBVIOUS
  <2>2. b[1] \in I
    BY <1>1, <2>1
  <2>. QED  BY <2>2
<1>3. PICK i \in I : \A h \in I : i <= h
  <2>. HIDE DEF I
  <2>. QED  BY <1>2, LeastElement
<1>. DEFINE K == {k \in 1 .. N : <<i, k>> \in A}
<1>4. K \in SUBSET Nat /\ K # {}
  <2>1. PICK k \in 1 .. N : <<i, k>> \in A
    BY <1>3
  <2>2. k \in K
    BY <2>1
  <2>3. \A h \in K : h \in Nat
    OBVIOUS
  <2>. QED  BY <2>2, <2>3
<1>5. PICK k \in K : \A h \in K : k <= h
  <2>. HIDE DEF K
  <2>. QED  BY <1>4, LeastElement
<1>6. <<i, k>> \in A
  BY <1>5
<1>7. ASSUME NEW b \in A
      PROVE  i < b[1] \/ (i = b[1] /\ k <= b[2])
  <2>1. b[1] \in I /\ i \in Int /\ b[1] \in Int
    BY <1>1, <1>3
  <2>2. i <= b[1]
    BY <1>3, <2>1
  <2>3. CASE i = b[1]
    <3>1. b[2] \in K
      BY <1>1, <2>3
    <3>. QED  BY <1>5, <2>3, <3>1
  <2>. QED  BY <2>1, <2>2, <2>3
<1>8. \E a \in A : \A b \in A : a[1] < b[1] \/ (a[1] = b[1] /\ a[2] <= b[2])
  <2>. HIDE DEF I, K
  <2>1. PICK a : a = <<i, k>>
    OBVIOUS
  <2>2. a[1] = i /\ a[2] = k /\ a \in A
    BY <1>6, <2>1
  <2>. QED  BY <1>7, <2>2
<1>. QED  BY <1>8 DEF FirstAmong

\* What is known of the place chosen for a job: it is the first one, and the
\* job ends in its last slice.
IsPlace(alloc, p, M, c, w) ==
  /\ alloc.first \in 1 .. Len(p)
  /\ alloc.last \in alloc.first .. Len(p)
  /\ alloc.begin = p[alloc.first].begin
  /\ alloc.startedInFirstSlice <=> alloc.first = 1
  /\ alloc.machines \in SUBSET M
  /\ Cardinality(alloc.machines) = c
  /\ CanHold(alloc.machines, M, c)
  /\ \A x \in alloc.first .. alloc.last : alloc.machines \subseteq p[x].available
  /\ p[alloc.last].begin < alloc.begin + w
  /\ alloc.begin + w <= p[alloc.last].end
  /\ \A i, k \in 1 .. Len(p) : IsAnchor(p, c, w, i, k) => alloc.first <= i

\* JobAlloc chooses it.
LEMMA PlaceFound ==
  ASSUME NEW J, NEW M, NEW n, NEW p, IsPartition(p, J, M, n), NEW c \in Int,
         NEW w \in Nat \ {0}, Places(M, c), Anchors(p, c, w) # {},
         NEW alloc, alloc = JobAlloc(p, c, w)
  PROVE  IsPlace(alloc, p, M, c, w)
<1>1. /\ Len(p) \in Nat /\ DOMAIN p = 1 .. Len(p)
      /\ \A x \in 1 .. Len(p) : p[x] \in SlicesOver(J, M)
  BY LenProperties, ElementOfSeq DEF IsPartition
<1>2. \A x \in 1 .. Len(p) : /\ p[x].available \in SUBSET M
                             /\ p[x].begin \in Int /\ p[x].end \in Int
  BY <1>1 DEF SlicesOver
<1>. DEFINE A == Anchors(p, c, w)
            a == FirstAmong(A)
<1>3. A \in SUBSET ((1 .. Len(p)) \X (1 .. Len(p))) /\ A # {}
  BY <1>1 DEF Anchors
<1>4. /\ a \in A
      /\ \A b \in A : a[1] < b[1] \/ (a[1] = b[1] /\ a[2] <= b[2])
  <2>. HIDE DEF A
  <2>. QED  BY <1>1, <1>3, FirstPair
<1>5. /\ a[1] \in 1 .. Len(p) /\ a[2] \in 1 .. Len(p)
      /\ IsAnchor(p, c, w, a[1], a[2])
  <2>. HIDE DEF a
  <2>. QED  BY <1>1, <1>4 DEF Anchors
<1>. DEFINE f == a[1]
            l == a[2]
            S == CommonMachines(p, f, l)
<1>6. /\ alloc.first = f /\ alloc.last = l /\ alloc.begin = p[f].begin
      /\ alloc.machines = Fit(S, c)
      /\ alloc.startedInFirstSlice = (f = 1)
  BY DEF JobAlloc, AllocAt
<1>7. \A i, k \in 1 .. Len(p) :
        IsAnchor(p, c, w, i, k) => f < i \/ (f = i /\ l <= k)
  <2>. SUFFICES ASSUME NEW i \in 1 .. Len(p), NEW k \in 1 .. Len(p),
                       IsAnchor(p, c, w, i, k)
                PROVE  f < i \/ (f = i /\ l <= k)
    OBVIOUS
  <2>1. PICK b : b = <<i, k>>
    OBVIOUS
  <2>2. b[1] = i /\ b[2] = k
    BY <2>1
  <2>3. b \in A
    BY <1>1, <2>1, <2>2 DEF Anchors
  <2>. HIDE DEF A, a
  <2>. QED  BY <1>4, <2>2, <2>3
<1>. HIDE DEF A, a
<1>8. /\ f <= l /\ p[l].end - p[f].begin >= w
      /\ f < l => p[f].end - p[f].begin < w
      /\ Fit(S, c) # {}
      /\ \A x \in f .. l : p[x].nb >= c
  BY <1>5 DEF IsAnchor
<1>9. f \in 1 .. Len(p) /\ l \in 1 .. Len(p)
  BY <1>5
<1>. HIDE DEF f, l
<1>10. S \in SUBSET M /\ \A x \in f .. l : S \subseteq p[x].available
  BY <1>1, <1>2, <1>9 DEF CommonMachines
<1>11. /\ Fit(S, c) \in SUBSET S /\ Cardinality(Fit(S, c)) = c
       /\ CanHold(Fit(S, c), M, c)
  BY <1>8, <1>10 DEF Places
<1>12. p[l].begin < p[f].begin + w
  <2>1. CASE f = l
    BY <1>2, <1>9, <2>1
  <2>2. CASE f # l
    <3>1. /\ f < l /\ l - 1 \in f .. Len(p) /\ l - 1 \in 1 .. Len(p)
          /\ l \in 2 .. Len(p) /\ l \in Int
          /\ \A x \in f .. l - 1 : x \in f .. l
      BY <1>1, <1>8, <1>9, <2>2
    <3>2. p[l].begin = p[l - 1].end
      BY <3>1 DEF IsPartition, Follow
    <3>3. Fit(CommonMachines(p, f, l - 1), c) # {}
      <4>1. CommonMachines(p, f, l - 1) \in SUBSET M
        BY <1>2, <1>9 DEF CommonMachines
      <4>2. S \subseteq CommonMachines(p, f, l - 1)
        BY <3>1 DEF CommonMachines
      <4>3. Fit(S, c) \subseteq CommonMachines(p, f, l - 1)
        BY <1>11, <4>2
      <4>. HIDE DEF S
      <4>. QED  BY <1>11, <4>1, <4>3 DEF CanHold
    <3>4. ~IsAnchor(p, c, w, f, l - 1)
      BY <1>7, <1>9, <3>1
    <3>5. f <= l - 1 /\ \A x \in f .. l - 1 : p[x].nb >= c
      BY <1>8, <3>1
    <3>6. f < l - 1 => p[f].end - p[f].begin < w
      BY <1>8, <3>1
    <3>7. ~(p[l - 1].end - p[f].begin >= w)
      BY <3>3, <3>4, <3>5, <3>6 DEF IsAnchor
    <3>. QED  BY <1>2, <1>9, <3>1, <3>2, <3>7
  <2>. QED  BY <2>1, <2>2
<1>13. p[f].begin + w <= p[l].end
  BY <1>2, <1>8, <1>9
<1>14. l \in f .. Len(p)
  BY <1>8, <1>9
<1>15. \A x \in f .. l : Fit(S, c) \subseteq p[x].available
  BY <1>10, <1>11
<1>16. \A i, k \in 1 .. Len(p) : IsAnchor(p, c, w, i, k) => f <= i
  BY <1>7, <1>9
<1>17. Fit(S, c) \in SUBSET M
  BY <1>10, <1>11
<1>. HIDE DEF S
<1>. QED  BY <1>6, <1>9, <1>11, <1>12, <1>13, <1>14, <1>15, <1>16, <1>17
     DEF IsPlace


\* Neighbours have the same jobs if they had before, and if both are given the
\* machines or none is.
LEMMA GivesNeighbours ==
  ASSUME NEW J, NEW M, NEW q \in Seq(SlicesOver(J, M)),
         NEW r \in Seq(SlicesOver(J, M)), NEW j, NEW X, NEW c,
         NEW first \in 1 .. Len(q), NEW last \in first .. Len(q),
         Gives(r, q, j, X, c, first, last), ~ContainsJob(q, j),
         NEW x \in 2 .. Len(q)
  PROVE  r[x - 1].jobs = r[x].jobs
           <=> /\ q[x - 1].jobs = q[x].jobs
               /\ x - 1 \in first .. last <=> x \in first .. last
<1>1. /\ Len(q) \in Nat /\ DOMAIN q = 1 .. Len(q)
      /\ x \in 1 .. Len(q) /\ x - 1 \in 1 .. Len(q)
      /\ \A y \in 1 .. Len(q) : q[y] \in SlicesOver(J, M)
      /\ \A y \in 1 .. Len(r) : r[y] \in SlicesOver(J, M)
      /\ Len(r) = Len(q)
  BY LenProperties, ElementOfSeq DEF Gives
<1>2. \A y \in 1 .. Len(q) : j \notin DOMAIN q[y].jobs
  BY <1>1 DEF ContainsJob, SlicesOf
<1>3. \A y \in 1 .. Len(q) :
        /\ q[y].jobs \in [DOMAIN q[y].jobs -> SUBSET M]
        /\ r[y].jobs \in [DOMAIN r[y].jobs -> SUBSET M]
  <2>1. \A y \in 1 .. Len(q) : /\ q[y].jobs \in Mappings(J, M)
                               /\ r[y].jobs \in Mappings(J, M)
    BY <1>1 DEF SlicesOver
  <2>. QED  BY <2>1, MappingFacts
<1>4. \A y \in 1 .. Len(q) :
        /\ y \in first .. last =>
             /\ DOMAIN r[y].jobs = DOMAIN q[y].jobs \cup {j}
             /\ r[y].jobs[j] = X
             /\ \A k \in DOMAIN q[y].jobs : r[y].jobs[k] = q[y].jobs[k]
        /\ y \notin first .. last => r[y] = q[y]
  BY DEF Gives
<1>5. PICK f, g, F, G : /\ f = q[x - 1].jobs /\ g = q[x].jobs
                        /\ F = r[x - 1].jobs /\ G = r[x].jobs
  OBVIOUS
<1>6. /\ f \in [DOMAIN f -> SUBSET M] /\ g \in [DOMAIN g -> SUBSET M]
      /\ F \in [DOMAIN F -> SUBSET M] /\ G \in [DOMAIN G -> SUBSET M]
      /\ j \notin DOMAIN f /\ j \notin DOMAIN g
  BY <1>1, <1>2, <1>3, <1>5
<1>7. /\ x - 1 \in first .. last =>
           /\ DOMAIN F = DOMAIN f \cup {j} /\ F[j] = X
           /\ \A k \in DOMAIN f : F[k] = f[k]
      /\ x - 1 \notin first .. last => F = f
  BY <1>1, <1>4, <1>5
<1>8. /\ x \in first .. last =>
           /\ DOMAIN G = DOMAIN g \cup {j} /\ G[j] = X
           /\ \A k \in DOMAIN g : G[k] = g[k]
      /\ x \notin first .. last => G = g
  BY <1>1, <1>4, <1>5
<1>9. CASE x - 1 \in first .. last /\ x \in first .. last
  <2>1. ASSUME F = G
        PROVE  f = g
    <3>1. DOMAIN f = DOMAIN g
      BY <1>6, <1>7, <1>8, <1>9, <2>1
    <3>2. \A k \in DOMAIN f : f[k] = g[k]
      BY <1>7, <1>8, <1>9, <2>1, <3>1
    <3>. QED  BY <1>6, <3>1, <3>2
  <2>2. ASSUME f = g
        PROVE  F = G
    <3>1. DOMAIN F = DOMAIN G
      BY <1>7, <1>8, <1>9, <2>2
    <3>2. \A k \in DOMAIN F : F[k] = G[k]
      BY <1>7, <1>8, <1>9, <2>2
    <3>. QED  BY <1>6, <3>1, <3>2
  <2>. QED  BY <1>5, <1>9, <2>1, <2>2
<1>10. CASE x - 1 \notin first .. last /\ x \notin first .. last
  BY <1>5, <1>7, <1>8, <1>10
<1>11. CASE ~(x - 1 \in first .. last <=> x \in first .. last)
  <2>1. F # G
    BY <1>6, <1>7, <1>8, <1>11
  <2>. QED  BY <1>5, <1>11, <2>1
<1>. QED  BY <1>9, <1>10, <1>11

\* Slice i of p is cut at date d, unless it ends there; d is before Infinity.
IsCut(q, p, i, d) ==
  /\ i < Len(q)
  /\ q[i].end = d
  /\ \A x \in 1 .. i : /\ q[x].begin = p[x].begin
                       /\ q[x].available = p[x].available
                       /\ q[x].jobs = p[x].jobs
  /\ q[Len(q)].begin \in {p[Len(p)].begin, d}
  /\ \A x \in 2 .. Len(q) : x # i + 1 => q[x - 1].jobs # q[x].jobs

\* SplitSlice cuts a slice of a partition in two and leaves a partition, in which
\* every job has the allocation it had.
LEMMA CutSound ==
  ASSUME NEW J, NEW M, NEW n, NEW p, IsPartition(p, J, M, n),
         NeighboursDiffer(p), NEW i \in 1 .. Len(p), NEW d \in Int,
         p[i].begin < d, d <= p[i].end, d < Infinity,
         NEW q, q = SplitSlice(p, i, d)
  PROVE  /\ IsPartition(q, J, M, n)
         /\ \A j : /\ SameAllocation(q, p, j)
                   /\ IsContiguous(q, j) <=> IsContiguous(p, j)
         /\ IsCut(q, p, i, d)
<1>1. /\ p \in Seq(SlicesOver(J, M)) /\ Len(p) \in Nat \ {0}
      /\ \A x \in 1 .. Len(p) : p[x] \in SlicesOver(J, M)
      /\ p[Len(p)].end = Infinity
  BY LenProperties, ElementOfSeq DEF IsPartition
<1>2. p[i].begin \in Int /\ p[i].end \in Int
  BY <1>1 DEF SlicesOver
<1>3. CASE d < p[i].end
  <2>1. /\ IsPartition(q, J, M, n)
        /\ \A j : /\ SameAllocation(q, p, j)
                  /\ IsContiguous(q, j) <=> IsContiguous(p, j)
    BY <1>3, SplitSound
  <2>2. HalvedAt(q, p, i, d)
    BY <1>1, <1>3, SplitElements
  <2>3. /\ Len(q) = Len(p) + 1
        /\ \A x \in 1 .. Len(q) :
             q[x] = IF x < i THEN p[x]
                    ELSE IF x = i THEN [p[i] EXCEPT !.end = d]
                    ELSE IF x = i + 1 THEN [p[i] EXCEPT !.begin = d]
                    ELSE p[x - 1]
    BY <2>2, Zenon DEF HalvedAt
  <2>4. i \in Int /\ i \in 1 .. Len(q) /\ i + 1 \in 1 .. Len(q) /\ i < Len(q)
    BY <1>1, <2>3
  <2>5. /\ q[i].begin = p[i].begin /\ q[i].available = p[i].available
        /\ q[i].jobs = p[i].jobs /\ q[i].end = d
    <3>1. q[i] = [p[i] EXCEPT !.end = d]
      BY <2>3, <2>4
    <3>. QED  BY <1>1, <3>1 DEF SlicesOver
  <2>6. q[i + 1].begin = d /\ q[i + 1].jobs = p[i].jobs
    <3>1. q[i + 1] = [p[i] EXCEPT !.begin = d]
      <4>1. ~(i + 1 < i) /\ i + 1 # i
        BY <2>4
      <4>. QED  BY <2>3, <2>4, <4>1
    <3>. QED  BY <1>1, <3>1 DEF SlicesOver
  <2>7. \A x \in 1 .. i : /\ q[x].begin = p[x].begin
                          /\ q[x].available = p[x].available
                          /\ q[x].jobs = p[x].jobs
    <3>1. \A x \in 1 .. i : x # i => x \in 1 .. Len(q) /\ x < i
      BY <2>4
    <3>2. \A x \in 1 .. i : x # i => q[x] = p[x]
      BY <2>3, <3>1
    <3>. QED  BY <2>5, <3>2
  <2>8. q[Len(q)].begin \in {p[Len(p)].begin, d}
    <3>1. CASE i = Len(p)
      BY <2>3, <2>6, <3>1
    <3>2. CASE i # Len(p)
      <4>1. /\ Len(q) \in 1 .. Len(q) /\ ~(Len(q) < i) /\ Len(q) # i
            /\ Len(q) # i + 1 /\ Len(q) - 1 = Len(p)
        BY <1>1, <2>3, <3>2
      <4>. QED  BY <2>3, <4>1
    <3>. QED  BY <3>1, <3>2
  <2>9. ASSUME NEW x \in 2 .. Len(q), x # i + 1
        PROVE  q[x - 1].jobs # q[x].jobs
    <3>1. \A y \in 2 .. Len(p) : p[y - 1].jobs # p[y].jobs
      BY DEF NeighboursDiffer
    <3>2. CASE x <= i
      <4>1. x - 1 \in 1 .. i /\ x \in 1 .. i /\ x \in 2 .. Len(p)
        BY <1>1, <2>3, <2>4, <3>2
      <4>. QED  BY <2>7, <3>1, <4>1
    <3>3. CASE x = i + 2
      <4>1. x - 1 = i + 1 /\ x - 1 \in 2 .. Len(p) /\ (x - 1) - 1 = i
        BY <1>1, <2>3, <2>4, <3>3
      <4>2. q[x] = p[x - 1]
        <5>1. /\ x \in 1 .. Len(q) /\ ~(x < i) /\ x # i /\ x # i + 1
          BY <2>4, <3>3
        <5>. QED  BY <2>3, <5>1
      <4>. QED  BY <2>6, <3>1, <4>1, <4>2
    <3>4. CASE x > i + 2
      <4>1. /\ x - 1 \in 2 .. Len(p)
            /\ x \in 1 .. Len(q) /\ ~(x < i) /\ x # i /\ x # i + 1
            /\ x - 1 \in 1 .. Len(q) /\ ~(x - 1 < i) /\ x - 1 # i
            /\ x - 1 # i + 1
        BY <1>1, <2>3, <2>4, <3>4
      <4>2. q[x] = p[x - 1] /\ q[x - 1] = p[(x - 1) - 1]
        BY <2>3, <4>1
      <4>. QED  BY <3>1, <4>1, <4>2
    <3>. QED  BY <2>4, <2>9, <3>2, <3>3, <3>4
  <2>. QED  BY <2>1, <2>4, <2>5, <2>7, <2>8, <2>9 DEF IsCut
<1>4. CASE d = p[i].end
  <2>1. q = p
    BY <1>2, <1>4 DEF SplitSlice
  <2>2. i < Len(p)
    BY <1>1, <1>4
  <2>3. \A j : SameAllocation(q, p, j)
    BY <2>1 DEF SameAllocation
  <2>. QED  BY <1>4, <2>1, <2>2, <2>3 DEF IsCut, NeighboursDiffer
<1>. QED  BY <1>2, <1>3, <1>4


\* The profile r is p with an allocation for job j, and nothing else.
IsAdded(r, p, j, w, alloc) ==
  /\ ContainsJob(r, j)
  /\ Allocation(r, j) = [begin |-> alloc.begin, end |-> alloc.begin + w,
                         machines |-> alloc.machines,
                         present |-> alloc.first = 1]
  /\ \A k : k # j => SameAllocation(p, r, k)
  /\ r[1].begin = p[1].begin
  /\ r[Len(r)].begin \in {p[Len(p)].begin, alloc.begin + w}

\* Adding a job where there is place for it.
LEMMA AddSound ==
  ASSUME NEW J, NEW M, IsFiniteSet(M), NEW n, NEW p, IsSound(p, J, M, n),
         NEW j \in J, ~ContainsJob(p, j), n[j] \in Int, NEW w \in Nat \ {0},
         NEW alloc, IsPlace(alloc, p, M, n[j], w), alloc.begin + w < Infinity,
         NEW r, r = AddJobAt(p, j, n[j], w, alloc)
  PROVE  IsSound(r, J, M, n) /\ IsAdded(r, p, j, w, alloc)
<1>1. PICK first, last, d, X :
        /\ first = alloc.first /\ last = alloc.last /\ d = alloc.begin + w
        /\ X = alloc.machines
  OBVIOUS
<1>2. /\ IsPartition(p, J, M, n) /\ NeighboursDiffer(p)
      /\ \A k \in J : IsContiguous(p, k)
      /\ p \in Seq(SlicesOver(J, M))
  BY DEF IsSound, IsPartition
<1>3. /\ Len(p) \in Nat
      /\ \A x \in 1 .. Len(p) : p[x].begin \in Int /\ p[x].end \in Int
  BY <1>2, Dates, LenProperties
<1>4. /\ first \in 1 .. Len(p) /\ last \in first .. Len(p) /\ first \in Int
      /\ last \in 1 .. Len(p)
      /\ alloc.begin = p[first].begin
      /\ X \in SUBSET M /\ Cardinality(X) = n[j]
      /\ \A x \in first .. last : X \subseteq p[x].available
      /\ p[last].begin < d /\ d <= p[last].end
  BY <1>1, <1>3 DEF IsPlace
<1>5. d \in Int /\ d < Infinity
  BY <1>1, <1>3, <1>4
<1>6. PICK q : q = SplitSlice(p, last, d)
  OBVIOUS
<1>7. /\ IsPartition(q, J, M, n)
      /\ \A k : /\ SameAllocation(q, p, k)
                /\ IsContiguous(q, k) <=> IsContiguous(p, k)
      /\ IsCut(q, p, last, d)
  BY <1>2, <1>4, <1>5, <1>6, CutSound
<1>8. /\ last < Len(q) /\ q[last].end = d
      /\ \A x \in 1 .. last : /\ q[x].begin = p[x].begin
                              /\ q[x].available = p[x].available
                              /\ q[x].jobs = p[x].jobs
      /\ q[Len(q)].begin \in {p[Len(p)].begin, d}
      /\ \A x \in 2 .. Len(q) : x # last + 1 => q[x - 1].jobs # q[x].jobs
  BY <1>7 DEF IsCut
<1>9. q \in Seq(SlicesOver(J, M)) /\ Len(q) \in Nat
  BY <1>7, LenProperties DEF IsPartition
<1>10. first \in 1 .. Len(q) /\ last \in first .. Len(q)
  BY <1>4, <1>8, <1>9
<1>11. ~ContainsJob(q, j)
  BY <1>7 DEF SameAllocation
<1>12. \A x \in 1 .. Len(q) : j \notin DOMAIN q[x].jobs
  <2>1. DOMAIN q = 1 .. Len(q)
    BY <1>9, LenProperties
  <2>. QED  BY <1>11, <2>1 DEF ContainsJob, SlicesOf
<1>13. \A x \in first .. last :
         j \notin DOMAIN q[x].jobs /\ X \subseteq q[x].available
  <2>1. \A x \in first .. last : x \in 1 .. last /\ x \in 1 .. Len(q)
    BY <1>4, <1>8, <1>9
  <2>. QED  BY <1>4, <1>8, <1>12, <2>1
<1>14. r \in Seq(SlicesOver(J, M)) /\ Gives(r, q, j, X, n[j], first, last)
  <2>1. q = SplitSlice(p, alloc.last, alloc.begin + w)
    BY <1>1, <1>6
  <2>2. HasRoom(q, M, j, alloc)
    BY <1>1, <1>4, <1>10, <1>13 DEF HasRoom
  <2>3. /\ r \in Seq(SlicesOver(J, M))
        /\ Gives(r, q, j, alloc.machines, n[j], alloc.first, alloc.last)
    BY <1>9, <2>1, <2>2, AddJobAtGives, Zenon
  <2>. QED  BY <1>1, <2>3
<1>15. IsPartition(r, J, M, n)
  BY <1>4, <1>7, <1>8, <1>9, <1>10, <1>14, GivesPartition
<1>16. /\ ContainsJob(r, j) /\ IsContiguous(r, j)
       /\ Allocation(r, j) = [begin |-> q[first].begin, end |-> q[last].end,
                              machines |-> X, present |-> first = 1]
  BY <1>9, <1>10, <1>11, <1>14, GivesThem
<1>17. Allocation(r, j) = [begin |-> alloc.begin, end |-> d,
                           machines |-> X, present |-> first = 1]
  <2>1. q[first].begin = alloc.begin /\ q[last].end = d
    BY <1>4, <1>8
  <2>. QED  BY <1>16, <2>1
<1>18. ASSUME NEW k, k # j
       PROVE  /\ SameAllocation(p, r, k)
              /\ IsContiguous(p, k) => IsContiguous(r, k)
  <2>1. /\ SameAllocation(q, r, k)
        /\ IsContiguous(r, k) <=> IsContiguous(q, k)
    BY <1>9, <1>14, <1>18, GivesNoOther
  <2>2. SameAllocation(q, p, k) /\ (IsContiguous(q, k) <=> IsContiguous(p, k))
    BY <1>7
  <2>. QED  BY <2>1, <2>2 DEF SameAllocation
<1>19. \A k \in J : IsContiguous(r, k)
  BY <1>2, <1>16, <1>18
<1>20. NeighboursDiffer(r)
  <2>. SUFFICES ASSUME NEW x \in 2 .. Len(q)
                PROVE  r[x - 1].jobs # r[x].jobs
    BY <1>14 DEF NeighboursDiffer, Gives
  <2>1. r[x - 1].jobs = r[x].jobs
          => /\ q[x - 1].jobs = q[x].jobs
             /\ x - 1 \in first .. last <=> x \in first .. last
    BY <1>9, <1>10, <1>11, <1>14, GivesNeighbours
  <2>2. CASE x = last + 1
    <3>1. x - 1 \in first .. last /\ x \notin first .. last
      BY <1>4, <2>2
    <3>. QED  BY <2>1, <3>1
  <2>3. CASE x # last + 1
    BY <1>8, <2>1, <2>3
  <2>. QED  BY <2>2, <2>3
<1>21. \A x \in 1 .. Len(q) : r[x].begin = q[x].begin
  BY <1>14 DEF Gives
<1>22. Len(r) = Len(q) /\ 1 \in 1 .. Len(q) /\ 1 \in 1 .. last /\ Len(q) \in 1 .. Len(q)
  BY <1>4, <1>8, <1>9, <1>14 DEF Gives
<1>23. r[1].begin = p[1].begin
  BY <1>8, <1>21, <1>22
<1>24. r[Len(r)].begin \in {p[Len(p)].begin, d}
  BY <1>8, <1>21, <1>22
<1>25. IsSound(r, J, M, n)
  BY <1>15, <1>19, <1>20 DEF IsSound
<1>26. IsAdded(r, p, j, w, alloc)
  BY <1>1, <1>16, <1>17, <1>18, <1>23, <1>24 DEF IsAdded
<1>. QED  BY <1>25, <1>26


\* Job k ends by date d, and has begun before.
EndsBefore(p, k, d) ==
  /\ ContainsJob(p, k)
  /\ Allocation(p, k).end <= d
  /\ Allocation(p, k).present \/ Allocation(p, k).begin < d

\* A job is not placed later than it could begin: if it does not begin in the
\* first slice then another job ends where it begins, or before.
LEMMA PlacedAfter ==
  ASSUME NEW J, NEW M, IsFiniteSet(M), NEW n, NEW p, IsSound(p, J, M, n),
         NEW c \in Int, NEW w \in Nat \ {0},
         NEW alloc, IsPlace(alloc, p, M, c, w), alloc.first # 1
  PROVE  \E k \in J : EndsBefore(p, k, alloc.begin)
<1>1. PICK f, l, X : f = alloc.first /\ l = alloc.last /\ X = alloc.machines
  OBVIOUS
<1>2. /\ IsPartition(p, J, M, n) /\ p \in Seq(SlicesOver(J, M))
      /\ \A k \in J : IsContiguous(p, k)
      /\ \A x \in 1 .. Len(p) : IsShared(p[x], M, n)
  BY DEF IsSound, IsPartition
<1>3. /\ \A x \in 1 .. Len(p) : /\ p[x].begin \in Int /\ p[x].end \in Int
                                /\ p[x].begin <= p[x].end
                                /\ x # 1 => p[x].begin < p[x].end
      /\ \A x, y \in 1 .. Len(p) : x < y => p[x].end <= p[y].begin
  BY <1>2, Dates
<1>4. /\ Len(p) \in Nat /\ DOMAIN p = 1 .. Len(p)
      /\ \A x \in 1 .. Len(p) : p[x] \in SlicesOver(J, M)
  BY <1>2, LenProperties, ElementOfSeq
<1>5. /\ f \in 1 .. Len(p) /\ l \in f .. Len(p) /\ f # 1 /\ f \in Int
      /\ l \in 1 .. Len(p)
      /\ alloc.begin = p[f].begin
      /\ X \in SUBSET M /\ Cardinality(X) = c /\ CanHold(X, M, c)
      /\ \A x \in f .. l : X \subseteq p[x].available
      /\ alloc.begin + w <= p[l].end
      /\ \A i, k \in 1 .. Len(p) : IsAnchor(p, c, w, i, k) => f <= i
  BY <1>1, <1>4 DEF IsPlace
<1>6. ASSUME NEW x \in 1 .. f - 1, NEW m \in X, m \notin p[x].available
      PROVE  \E k \in J : EndsBefore(p, k, alloc.begin)
  <2>1. x \in 1 .. Len(p) /\ x < f /\ f \in f .. l
    BY <1>4, <1>5
  <2>2. m \in M /\ m \in p[f].available
    BY <1>5, <2>1
  <2>3. PICK k \in DOMAIN p[x].jobs : m \in p[x].jobs[k]
    BY <1>2, <1>6, <2>1, <2>2 DEF IsShared, FreeUnlessGiven
  <2>4. k \in J
    <3>1. p[x].jobs \in Mappings(J, M)
      BY <1>4, <2>1 DEF SlicesOver
    <3>. QED  BY <3>1, MappingFacts
  <2>5. x \in SlicesOf(p, k) /\ ContainsJob(p, k)
    BY <1>4, <2>1 DEF SlicesOf, ContainsJob
  <2>6. IsContiguous(p, k)
    BY <1>2, <2>4
  <2>7. f \notin SlicesOf(p, k)
    <3>. SUFFICES ASSUME f \in SlicesOf(p, k)
                  PROVE  FALSE
      OBVIOUS
    <3>1. k \in DOMAIN p[f].jobs
      BY DEF SlicesOf
    <3>2. p[x].jobs[k] = p[f].jobs[k]
      BY <2>5, <2>6 DEF IsContiguous
    <3>. QED  BY <1>2, <1>5, <2>2, <2>3, <3>1, <3>2 DEF IsShared, FreeUnlessGiven
  <2>8. PICK T, a, b : T = SlicesOf(p, k) /\ a = Min(T) /\ b = Max(T)
    OBVIOUS
  <2>9. /\ T \subseteq 1 .. Len(p) /\ a \in T /\ b \in T
        /\ \A y \in T : a <= y /\ y <= b
    BY <1>2, <2>5, <2>8, SlicesOfJob
  <2>10. a \in 1 .. Len(p) /\ b \in 1 .. Len(p) /\ a <= x /\ x <= b
    BY <2>5, <2>8, <2>9
  <2>11. b < f
    <3>1. \A y \in x .. b : y \in T
      BY <2>5, <2>6, <2>8, <2>9 DEF IsContiguous
    <3>2. f \notin T
      BY <2>7, <2>8
    <3>. QED  BY <1>5, <2>1, <2>10, <3>1, <3>2
  <2>12. p[b].end <= p[f].begin
    BY <1>3, <1>5, <2>10, <2>11
  <2>13. a # 1 => p[a].begin < p[f].begin
    <3>1. a < f
      BY <1>5, <2>1, <2>10
    <3>2. p[a].end <= p[f].begin
      BY <1>3, <1>5, <2>10, <3>1
    <3>3. a # 1 => p[a].begin < p[a].end
      BY <1>3, <2>10
    <3>. QED  BY <1>3, <1>5, <2>10, <3>2, <3>3
  <2>14. a = 1 => 1 \in SlicesOf(p, k)
    BY <2>8, <2>9
  <2>15. /\ Allocation(p, k).end = p[b].end
         /\ Allocation(p, k).begin = p[a].begin
         /\ Allocation(p, k).present = (1 \in SlicesOf(p, k))
    BY <2>8 DEF Allocation, BeginOf, EndOf
  <2>16. EndsBefore(p, k, alloc.begin)
    BY <1>5, <2>5, <2>12, <2>13, <2>14, <2>15 DEF EndsBefore
  <2>. QED  BY <2>4, <2>16
<1>7. CASE \A x \in 1 .. f - 1 : \A m \in X : m \in p[x].available
  <2>1. 1 \in 1 .. Len(p) /\ l \in 1 .. Len(p) /\ 1 < f
    BY <1>4, <1>5
  <2>2. ASSUME NEW x \in 1 .. l
        PROVE  X \subseteq p[x].available
    <3>1. x \in 1 .. f - 1 \/ x \in f .. l
      BY <1>5
    <3>. QED  BY <1>5, <1>7, <3>1
  <2>3. p[l].end - p[1].begin >= w
    <3>1. p[1].begin <= p[f].begin
      BY <1>3, <1>5, <2>1
    <3>. QED  BY <1>3, <1>5, <2>1, <3>1
  <2>4. \E k \in 1 .. l : IsAnchor(p, Cardinality(X), w, 1, k)
    <3>1. w \in Int /\ CanHold(X, M, Cardinality(X))
      BY <1>5
    <3>. QED  BY <1>2, <2>1, <2>2, <2>3, <3>1, AnchorFrom
  <2>5. PICK k \in 1 .. l : IsAnchor(p, c, w, 1, k)
    BY <1>5, <2>4
  <2>6. k \in 1 .. Len(p)
    BY <1>4, <2>1
  <2>7. f <= 1
    BY <1>5, <2>1, <2>5, <2>6
  <2>. QED  BY <2>1, <2>7, <1>5
<1>. QED  BY <1>6, <1>7

\* As the last slice is empty, there is a place for every job that the platform
\* can hold, and it is not later than that slice.
LEMMA PlaceExists ==
  ASSUME NEW J, NEW M, IsFiniteSet(M), NEW n, NEW p, IsPartition(p, J, M, n),
         NEW c \in Int, NEW w \in Nat \ {0}, Places(M, c), Fit(M, c) # {},
         p[Len(p)].begin + w < Infinity,
         NEW alloc, alloc = JobAlloc(p, c, w)
  PROVE  /\ IsPlace(alloc, p, M, c, w)
         /\ alloc.begin <= p[Len(p)].begin
         /\ alloc.begin + w < Infinity
<1>1. /\ p \in Seq(SlicesOver(J, M)) /\ Len(p) \in Nat \ {0}
      /\ DOMAIN p = 1 .. Len(p)
      /\ IsShared(p[Len(p)], M, n)
      /\ p[Len(p)].end = Infinity
      /\ DOMAIN p[Len(p)].jobs = {}
  BY LenProperties DEF IsPartition
<1>2. /\ \A x \in 1 .. Len(p) : /\ p[x].begin \in Int /\ p[x].end \in Int
                                /\ p[x].begin <= p[x].end
      /\ \A x, y \in 1 .. Len(p) : x < y => p[x].end <= p[y].begin
  BY Dates
<1>3. Len(p) \in 1 .. Len(p) /\ Len(p) \in Len(p) .. Len(p)
      /\ \A x \in Len(p) .. Len(p) : x = Len(p)
  BY <1>1
<1>4. Anchors(p, c, w) # {}
  <2>1. PICK X : X = Fit(M, c)
    OBVIOUS
  <2>2. X \subseteq M /\ Cardinality(X) = c /\ CanHold(X, M, c)
    BY <2>1 DEF Places
  <2>3. M \subseteq p[Len(p)].available
    BY <1>1 DEF IsShared, FreeUnlessGiven
  <2>4. p[Len(p)].end - p[Len(p)].begin >= w
    BY <1>1, <1>2, <1>3
  <2>5. \E k \in Len(p) .. Len(p) : IsAnchor(p, Cardinality(X), w, Len(p), k)
    <3>1. \A x \in Len(p) .. Len(p) : X \subseteq p[x].available
      BY <1>3, <2>2, <2>3
    <3>2. w \in Int /\ CanHold(X, M, Cardinality(X))
      BY <2>2
    <3>. QED  BY <1>3, <2>4, <3>1, <3>2, AnchorFrom
  <2>6. IsAnchor(p, c, w, Len(p), Len(p))
    BY <1>3, <2>2, <2>5
  <2>7. PICK a : a = <<Len(p), Len(p)>>
    OBVIOUS
  <2>8. a \in Anchors(p, c, w)
    <3>1. a[1] = Len(p) /\ a[2] = Len(p)
      BY <2>7
    <3>2. a \in (DOMAIN p) \X (DOMAIN p)
      BY <1>1, <1>3, <2>7
    <3>. QED  BY <2>6, <3>1, <3>2 DEF Anchors
  <2>. QED  BY <2>8
<1>5. IsPlace(alloc, p, M, c, w)
  BY <1>4, PlaceFound
<1>6. alloc.begin <= p[Len(p)].begin /\ alloc.begin \in Int
  <2>1. PICK f : f = alloc.first
    OBVIOUS
  <2>2. f \in 1 .. Len(p) /\ alloc.begin = p[f].begin
    BY <1>5, <2>1 DEF IsPlace
  <2>3. CASE f = Len(p)
    BY <1>2, <2>2, <2>3
  <2>4. CASE f # Len(p)
    <3>1. f < Len(p)
      <4>1. Len(p) \in Nat /\ f \in 1 .. Len(p) /\ f # Len(p)
        BY <1>1, <2>2, <2>4, Zenon
      <4>. QED  BY <4>1
    <3>2. p[f].end <= p[Len(p)].begin
      BY <1>2, <1>3, <2>2, <3>1
    <3>. QED  BY <1>2, <1>3, <2>2, <3>2
  <2>. QED  BY <2>3, <2>4
<1>7. Infinity \in Int /\ p[Len(p)].begin \in Int
  BY <1>1, <1>2, <1>3
<1>8. alloc.begin + w < Infinity
  BY <1>6, <1>7
<1>. QED  BY <1>5, <1>6, <1>8

-------------------------------------------------------------------------------
(* Merging slices.                                                         *)

\* g numbers the groups that are left of 1 .. n when every x of merged joins
\* the group of x - 1.
Numbers(g, n, merged) ==
  /\ g \in [0 .. n -> Nat]
  /\ g[0] = 0
  /\ \A x \in 1 .. n : g[x] = IF x \in merged THEN g[x - 1] ELSE g[x - 1] + 1

\* There is such a numbering: the merged slices are counted out.
LEMMA NumbersExist ==
  ASSUME NEW n \in Nat, NEW merged
  PROVE  \E g : Numbers(g, n, merged)
<1>. DEFINE step == [x \in 1 .. n |->
                       [k \in Nat |-> IF x \in merged THEN k ELSE k + 1]]
<1>1. step \in [1 .. n -> [Nat -> Nat]]
  OBVIOUS
<1>2. \A x \in 1 .. n : \A k \in Nat :
        step[x][k] = IF x \in merged THEN k ELSE k + 1
  OBVIOUS
<1>. HIDE DEF step
<1>3. \E g : Iterates(g, n, Nat, 0, step)
  BY <1>1, Recursion
<1>4. PICK g : Iterates(g, n, Nat, 0, step)
  BY <1>3
<1>5. /\ g \in [0 .. n -> Nat] /\ g[0] = 0
      /\ \A x \in 1 .. n : g[x] = step[x][g[x - 1]]
  BY <1>4 DEF Iterates
<1>6. \A x \in 1 .. n : g[x - 1] \in Nat
  BY <1>5
<1>7. \A x \in 1 .. n : g[x] = IF x \in merged THEN g[x - 1] ELSE g[x - 1] + 1
  BY <1>2, <1>5, <1>6
<1>. QED  BY <1>5, <1>7 DEF Numbers

\* The numbers grow, by one where a group begins, and none is left out.
Grow(g, n, merged) ==
  /\ \A x \in 1 .. n : g[x] \in 1 .. g[n] /\ g[x] <= x
  /\ \A x, y \in 1 .. n : x <= y => g[x] <= g[y]
  /\ \A x, y \in 1 .. n : x < y /\ y \notin merged => g[x] < g[y]
  /\ \A k \in 1 .. g[n] : \E x \in 1 .. n : x \notin merged /\ g[x] = k

\* A numbering grows like that.
LEMMA NumbersGrow ==
  ASSUME NEW n \in Nat, NEW merged \in SUBSET (2 .. n), NEW g,
         Numbers(g, n, merged)
  PROVE  Grow(g, n, merged)
<1>1. /\ \A x \in 0 .. n : g[x] \in Nat
      /\ g[0] = 0
      /\ \A x \in 1 .. n : g[x] = IF x \in merged THEN g[x - 1] ELSE g[x - 1] + 1
  BY DEF Numbers
<1>2. \A y \in 0 .. n : \A x \in 0 .. y : g[x] <= g[y]
  <2>. DEFINE T == {y \in 0 .. n : \A x \in 0 .. y : g[x] <= g[y]}
  <2>1. 0 \in T
    BY <1>1
  <2>2. ASSUME NEW y \in 0 .. n - 1, y \in T
        PROVE  y + 1 \in T
    <3>1. y + 1 \in 1 .. n /\ (y + 1) - 1 = y /\ y \in 0 .. n /\ y + 1 \in 0 .. n
      OBVIOUS
    <3>2. g[y] <= g[y + 1] /\ g[y] \in Nat /\ g[y + 1] \in Nat
      BY <1>1, <3>1
    <3>3. ASSUME NEW x \in 0 .. y + 1
          PROVE  g[x] <= g[y + 1]
      <4>1. CASE x = y + 1
        BY <3>2, <4>1
      <4>2. CASE x # y + 1
        <5>1. x \in 0 .. y /\ x \in 0 .. n
          BY <3>1, <4>2
        <5>2. g[x] <= g[y] /\ g[x] \in Nat
          BY <1>1, <2>2, <5>1
        <5>. QED  BY <3>2, <5>2
      <4>. QED  BY <4>1, <4>2
    <3>. QED  BY <3>1, <3>3
  <2>3. \A y \in 0 .. n : y \in T
    <3>. HIDE DEF T
    <3>. QED  BY <2>1, <2>2, IntervalInduction
  <2>. QED  BY <2>3
<1>3. ASSUME NEW x \in 1 .. n, NEW y \in 1 .. n, x < y, y \notin merged
      PROVE  g[x] < g[y]
  <2>1. x \in 0 .. y - 1 /\ y - 1 \in 0 .. n /\ x \in 0 .. n
    BY <1>3
  <2>2. g[x] <= g[y - 1] /\ g[y] = g[y - 1] + 1
    BY <1>1, <1>2, <1>3, <2>1
  <2>. QED  BY <1>1, <2>1, <2>2
<1>4. \A y \in 0 .. n : /\ g[y] <= y
                        /\ \A k \in 1 .. g[y] :
                             \E x \in 1 .. y : x \notin merged /\ g[x] = k
  <2>. DEFINE T == {y \in 0 .. n :
                      /\ g[y] <= y
                      /\ \A k \in 1 .. g[y] :
                           \E x \in 1 .. y : x \notin merged /\ g[x] = k}
  <2>1. 0 \in T
    <3>1. \A k \in 1 .. g[0] : FALSE
      BY <1>1
    <3>. QED  BY <1>1, <3>1
  <2>2. ASSUME NEW y \in 0 .. n - 1, y \in T
        PROVE  y + 1 \in T
    <3>1. y + 1 \in 1 .. n /\ (y + 1) - 1 = y /\ y \in 0 .. n /\ y + 1 \in 0 .. n
      OBVIOUS
    <3>2. g[y] \in Nat /\ g[y] <= y
      BY <1>1, <2>2, <3>1
    <3>3. g[y + 1] = IF y + 1 \in merged THEN g[y] ELSE g[y] + 1
      BY <1>1, <3>1
    <3>4. g[y + 1] <= y + 1
      BY <3>2, <3>3
    <3>5. ASSUME NEW k \in 1 .. g[y + 1]
          PROVE  \E x \in 1 .. y + 1 : x \notin merged /\ g[x] = k
      <4>1. CASE k \in 1 .. g[y]
        <5>1. PICK x \in 1 .. y : x \notin merged /\ g[x] = k
          BY <2>2, <4>1
        <5>2. x \in 1 .. y + 1
          BY <3>1
        <5>. QED  BY <5>1, <5>2
      <4>2. CASE k \notin 1 .. g[y]
        <5>1. y + 1 \notin merged /\ g[y + 1] = k
          BY <3>2, <3>3, <4>2
        <5>2. y + 1 \in 1 .. y + 1
          BY <3>1
        <5>. QED  BY <5>1, <5>2
      <4>. QED  BY <4>1, <4>2
    <3>. QED  BY <3>1, <3>4, <3>5
  <2>3. \A y \in 0 .. n : y \in T
    <3>. HIDE DEF T
    <3>. QED  BY <2>1, <2>2, IntervalInduction
  <2>. QED  BY <2>3
<1>5. \A x, y \in 1 .. n : x <= y => x \in 0 .. y /\ y \in 0 .. n
  OBVIOUS
<1>6. \A x, y \in 1 .. n : x <= y => g[x] <= g[y]
  BY <1>2, <1>5
<1>7. ASSUME NEW x \in 1 .. n
      PROVE  g[x] \in 1 .. g[n] /\ g[x] <= x
  <2>1. 1 \in 1 .. n /\ n \in 1 .. n /\ 1 <= x /\ x <= n
        /\ 1 \notin merged /\ x \in 0 .. n /\ n \in 0 .. n
    OBVIOUS
  <2>2. g[1] = 1
    BY <1>1, <2>1
  <2>3. g[1] <= g[x] /\ g[x] <= g[n] /\ g[x] <= x
    BY <1>4, <1>6, <2>1
  <2>. QED  BY <1>1, <2>1, <2>2, <2>3
<1>8. n \in 0 .. n
  OBVIOUS
<1>. QED  BY <1>3, <1>4, <1>6, <1>7, <1>8 DEF Grow


\* r is q with the last slice prolonged by s.
IsProlonged(r, q, s) ==
  /\ Len(r) = Len(q)
  /\ \A k \in 1 .. Len(q) - 1 : r[k] = q[k]
  /\ r[Len(q)].begin = q[Len(q)].begin
  /\ r[Len(q)].end = s.end
  /\ r[Len(q)].jobs = s.jobs
  /\ r[Len(q)].available = s.available
  /\ r[Len(q)].nb = s.nb

Prolonged(q, s) == Append(Front(q), [s EXCEPT !.begin = Last(q).begin])

\* All elements but the last.
LEMMA FrontElements ==
  ASSUME NEW S, NEW q \in Seq(S), Len(q) >= 1
  PROVE  /\ Front(q) \in Seq(S)
         /\ Len(Front(q)) = Len(q) - 1
         /\ \A k \in 1 .. Len(q) - 1 : Front(q)[k] = q[k]
<1>. DEFINE n == Len(q) - 1
<1>1. n \in Nat /\ n \in Int /\ 1 \in Int /\ n - 1 + 1 = n
  BY LenProperties
<1>2. \A k \in 1 .. n : q[k] \in S
  BY <1>1, ElementOfSeq
<1>3. /\ SubSeq(q, 1, n) \in Seq(S)
      /\ Len(SubSeq(q, 1, n)) = IF 1 <= n THEN n - 1 + 1 ELSE 0
      /\ \A k \in 1 .. n - 1 + 1 : SubSeq(q, 1, n)[k] = q[1 + k - 1]
  <2>. HIDE DEF n
  <2>. QED  BY <1>1, <1>2, SubSeqProperties
<1>4. \A k \in 1 .. n : 1 + k - 1 = k
  BY <1>1
<1>. HIDE DEF n
<1>. QED  BY <1>1, <1>3, <1>4 DEF Front, n

\* The last slice of a list is prolonged, the others stay.
LEMMA Prolongs ==
  ASSUME NEW J, NEW M, NEW q \in Seq(SlicesOver(J, M)), Len(q) >= 1,
         NEW s \in SlicesOver(J, M)
  PROVE  \E r \in Seq(SlicesOver(J, M)) : /\ r = Prolonged(q, s)
                                          /\ IsProlonged(r, q, s)
<1>1. Len(q) \in Nat /\ q[Len(q)] \in SlicesOver(J, M)
  <2>1. Len(q) \in Nat
    BY LenProperties
  <2>2. Len(q) \in 1 .. Len(q)
    BY <2>1
  <2>. QED  BY <2>1, <2>2, ElementOfSeq
<1>2. PICK t : t = [s EXCEPT !.begin = q[Len(q)].begin]
  OBVIOUS
<1>3. /\ t \in SlicesOver(J, M) /\ t.begin = q[Len(q)].begin /\ t.end = s.end
      /\ t.jobs = s.jobs /\ t.available = s.available /\ t.nb = s.nb
  BY <1>1, <1>2 DEF SlicesOver
<1>. DEFINE a == SubSeq(q, 1, Len(q) - 1)
<1>5. /\ a \in Seq(SlicesOver(J, M)) /\ Len(a) = Len(q) - 1
      /\ \A k \in 1 .. Len(q) - 1 : a[k] = q[k]
  BY <1>1, FrontElements DEF Front
<1>. HIDE DEF a
<1>6. PICK r : r = Append(a, t)
  OBVIOUS
<1>7. /\ r \in Seq(SlicesOver(J, M)) /\ Len(r) = Len(a) + 1
      /\ \A k \in 1 .. Len(a) : r[k] = a[k]
      /\ r[Len(a) + 1] = t
  BY <1>3, <1>5, <1>6, AppendProperties
<1>8. Len(r) = Len(q) /\ Len(a) + 1 = Len(q)
  BY <1>1, <1>5, <1>7
<1>9. IsProlonged(r, q, s)
  BY <1>3, <1>5, <1>7, <1>8 DEF IsProlonged
<1>10. r = Prolonged(q, s)
  BY <1>2, <1>6, Zenon DEF Prolonged, Front, Last, a
<1>. QED  BY <1>7, <1>9, <1>10

\* The slices of q are those of p, the groups of which g numbers.
Merges(q, p, g, merged, n) ==
  /\ Len(q) = g[n]
  /\ \A y \in 1 .. n :
       /\ q[g[y]].jobs = p[y].jobs
       /\ q[g[y]].available = p[y].available
       /\ q[g[y]].nb = p[y].nb
       /\ y \notin merged => q[g[y]].begin = p[y].begin
       /\ y = n \/ y + 1 \notin merged => q[g[y]].end = p[y].end

\* One more slice.
LEMMA MergesOneMore ==
  ASSUME NEW J, NEW M, NEW p \in Seq(SlicesOver(J, M)),
         NEW merged \in SUBSET (2 .. Len(p)), NEW g, Numbers(g, Len(p), merged),
         \A x \in merged : /\ p[x].jobs = p[x - 1].jobs
                           /\ p[x].available = p[x - 1].available
                           /\ p[x].nb = p[x - 1].nb,
         NEW n \in 0 .. Len(p) - 1, NEW q \in Seq(SlicesOver(J, M)),
         NEW r \in Seq(SlicesOver(J, M)),
         Merges(q, p, g, merged, n),
         n + 1 \in merged => IsProlonged(r, q, p[n + 1]),
         n + 1 \notin merged => r = Append(q, p[n + 1])
  PROVE  Merges(r, p, g, merged, n + 1)
<1>1. /\ Len(p) \in Nat /\ n \in Nat /\ n + 1 \in 1 .. Len(p) /\ (n + 1) - 1 = n
      /\ Len(q) \in Nat
      /\ p[n + 1] \in SlicesOver(J, M)
      /\ \A y \in 1 .. n : y \in 1 .. Len(p) /\ y < n + 1
  <2>1. Len(p) \in Nat /\ Len(q) \in Nat
    BY LenProperties
  <2>2. n + 1 \in 1 .. Len(p)
    BY <2>1
  <2>. QED  BY <2>1, <2>2, ElementOfSeq
<1>2. /\ \A x \in 1 .. Len(p) : g[x] \in 1 .. g[Len(p)]
      /\ \A x, y \in 1 .. Len(p) : x <= y => g[x] <= g[y]
      /\ \A x, y \in 1 .. Len(p) : x < y /\ y \notin merged => g[x] < g[y]
  BY <1>1, NumbersGrow DEF Grow
<1>3. /\ g[n + 1] = IF n + 1 \in merged THEN g[n] ELSE g[n] + 1
      /\ g[n] \in Nat /\ g[n + 1] \in Nat
      /\ \A y \in 1 .. n : g[y] \in Nat
  <2>1. /\ g \in [0 .. Len(p) -> Nat]
        /\ \A x \in 1 .. Len(p) :
             g[x] = IF x \in merged THEN g[x - 1] ELSE g[x - 1] + 1
    BY DEF Numbers
  <2>2. /\ n \in 0 .. Len(p) /\ n + 1 \in 0 .. Len(p)
        /\ \A y \in 1 .. n : y \in 0 .. Len(p)
    BY <1>1
  <2>. QED  BY <1>1, <2>1, <2>2
<1>4. /\ Len(q) = g[n]
      /\ \A y \in 1 .. n :
           /\ q[g[y]].jobs = p[y].jobs
           /\ q[g[y]].available = p[y].available
           /\ q[g[y]].nb = p[y].nb
           /\ y \notin merged => q[g[y]].begin = p[y].begin
           /\ y = n \/ y + 1 \notin merged => q[g[y]].end = p[y].end
  BY DEF Merges
<1>5. CASE n + 1 \notin merged
  <2>1. /\ Len(r) = Len(q) + 1
        /\ \A k \in 1 .. Len(q) : r[k] = q[k]
        /\ r[Len(q) + 1] = p[n + 1]
    BY <1>1, <1>5, AppendProperties
  <2>2. Len(r) = g[n + 1] /\ r[g[n + 1]] = p[n + 1]
    BY <1>3, <1>4, <1>5, <2>1
  <2>3. ASSUME NEW y \in 1 .. n
        PROVE  r[g[y]] = q[g[y]]
    <3>1. g[y] < g[n + 1] /\ g[y] >= 1
      BY <1>1, <1>2, <1>5
    <3>2. g[y] \in 1 .. Len(q)
      BY <1>3, <1>4, <1>5, <3>1
    <3>. QED  BY <2>1, <3>2
  <2>4. ASSUME NEW y \in 1 .. n + 1
        PROVE  /\ r[g[y]].jobs = p[y].jobs
               /\ r[g[y]].available = p[y].available
               /\ r[g[y]].nb = p[y].nb
               /\ y \notin merged => r[g[y]].begin = p[y].begin
               /\ y = n + 1 \/ y + 1 \notin merged => r[g[y]].end = p[y].end
    <3>1. CASE y = n + 1
      BY <2>2, <3>1
    <3>2. CASE y \in 1 .. n
      <4>1. y # n + 1 /\ (y = n => y + 1 = n + 1)
        BY <1>1, <3>2
      <4>. QED  BY <1>4, <1>5, <2>3, <3>2, <4>1
    <3>. QED  BY <1>1, <3>1, <3>2
  <2>. QED  BY <2>2, <2>4 DEF Merges
<1>6. CASE n + 1 \in merged
  <2>1. /\ Len(r) = Len(q)
        /\ \A k \in 1 .. Len(q) - 1 : r[k] = q[k]
        /\ r[Len(q)].begin = q[Len(q)].begin
        /\ r[Len(q)].end = p[n + 1].end
        /\ r[Len(q)].jobs = p[n + 1].jobs
        /\ r[Len(q)].available = p[n + 1].available
        /\ r[Len(q)].nb = p[n + 1].nb
    BY <1>6 DEF IsProlonged
  <2>2. g[n + 1] = g[n] /\ n \in 1 .. n /\ n \in 1 .. Len(p)
    BY <1>1, <1>3, <1>6
  <2>3. /\ p[n + 1].jobs = p[n].jobs /\ p[n + 1].available = p[n].available
        /\ p[n + 1].nb = p[n].nb
    BY <1>1, <1>6
  <2>4. ASSUME NEW y \in 1 .. n
        PROVE  /\ r[g[y]].jobs = q[g[y]].jobs
               /\ r[g[y]].available = q[g[y]].available
               /\ r[g[y]].nb = q[g[y]].nb
               /\ r[g[y]].begin = q[g[y]].begin
               /\ g[y] # g[n] => r[g[y]].end = q[g[y]].end
    <3>1. g[y] <= g[n] /\ g[y] >= 1
      BY <1>1, <1>2, <2>2
    <3>2. CASE g[y] = g[n]
      <4>1. q[g[n]].jobs = p[n].jobs /\ q[g[n]].available = p[n].available
            /\ q[g[n]].nb = p[n].nb
        BY <1>4, <2>2
      <4>. QED  BY <1>4, <2>1, <2>3, <3>2, <4>1
    <3>3. CASE g[y] # g[n]
      <4>1. g[y] \in 1 .. Len(q) - 1
        BY <1>3, <1>4, <3>1, <3>3
      <4>2. r[g[y]] = q[g[y]]
        BY <2>1, <4>1
      <4>. QED  BY <4>2
    <3>. QED  BY <3>2, <3>3
  <2>5. ASSUME NEW y \in 1 .. n, y + 1 \notin merged
        PROVE  g[y] # g[n]
    <3>1. y # n /\ y + 1 \in 1 .. Len(p) /\ y < y + 1 /\ y + 1 <= n
      BY <1>1, <1>6, <2>5
    <3>2. g[y] < g[y + 1] /\ g[y + 1] <= g[n]
      BY <1>1, <1>2, <2>2, <2>5, <3>1
    <3>3. g[y + 1] \in Nat
      BY <1>1, <1>2, <3>1
    <3>. QED  BY <1>3, <3>2, <3>3
  <2>6. ASSUME NEW y \in 1 .. n + 1
        PROVE  /\ r[g[y]].jobs = p[y].jobs
               /\ r[g[y]].available = p[y].available
               /\ r[g[y]].nb = p[y].nb
               /\ y \notin merged => r[g[y]].begin = p[y].begin
               /\ y = n + 1 \/ y + 1 \notin merged => r[g[y]].end = p[y].end
    <3>1. CASE y = n + 1
      BY <1>4, <1>6, <2>1, <2>2, <3>1
    <3>2. CASE y \in 1 .. n
      <4>1. y # n + 1
        BY <1>1, <3>2
      <4>. QED  BY <1>4, <2>4, <2>5, <3>2, <4>1
    <3>. QED  BY <1>1, <3>1, <3>2
  <2>7. Len(r) = g[n + 1]
    BY <1>4, <2>1, <2>2
  <2>. QED  BY <2>6, <2>7 DEF Merges
<1>. QED  BY <1>5, <1>6


\* MergeSlices merges them.
LEMMA MergeElements ==
  ASSUME NEW J, NEW M, NEW p \in Seq(SlicesOver(J, M)),
         NEW merged \in SUBSET (2 .. Len(p)), NEW g, Numbers(g, Len(p), merged),
         \A x \in merged : /\ p[x].jobs = p[x - 1].jobs
                           /\ p[x].available = p[x - 1].available
                           /\ p[x].nb = p[x - 1].nb
  PROVE  /\ MergeSlices(p, merged) \in Seq(SlicesOver(J, M))
         /\ Merges(MergeSlices(p, merged), p, g, merged, Len(p))
<1>. DEFINE n == Len(p)
            S == Seq(SlicesOver(J, M))
            More(q, x) == IF x \in merged THEN Prolonged(q, p[x])
                                          ELSE Append(q, p[x])
            step == [x \in 1 .. n |-> [q \in S |->
                       IF x \in merged /\ q = <<>> THEN <<p[x]>> ELSE More(q, x)]]
            UpTo(f) == f = [x \in 0 .. n |->
                              IF x = 0 THEN <<>> ELSE More(f[x - 1], x)]
            upTo == CHOOSE f : UpTo(f)
<1>1. n \in Nat /\ \A x \in 1 .. n : p[x] \in SlicesOver(J, M)
  BY LenProperties, ElementOfSeq
<1>2. MergeSlices(p, merged) = upTo[n]
  BY DEF MergeSlices, Prolonged
<1>3. \A q \in S : q # <<>> => Len(q) >= 1
  BY EmptySeq, LenProperties
<1>4. ASSUME NEW x \in 1 .. n, NEW q \in S, x \in merged => q # <<>>
      PROVE  /\ More(q, x) \in S
             /\ More(q, x) # <<>>
             /\ x \in merged => IsProlonged(More(q, x), q, p[x])
             /\ x \notin merged => More(q, x) = Append(q, p[x])
  <2>1. CASE x \in merged
    <3>1. Len(q) >= 1
      BY <1>3, <1>4, <2>1
    <3>2. /\ Prolonged(q, p[x]) \in S
          /\ IsProlonged(Prolonged(q, p[x]), q, p[x])
      BY <1>1, <3>1, Prolongs
    <3>3. Prolonged(q, p[x]) # <<>>
      BY <3>1, <3>2 DEF IsProlonged
    <3>. HIDE DEF S
    <3>. QED  BY <2>1, <3>2, <3>3
  <2>2. CASE x \notin merged
    <3>1. Append(q, p[x]) \in S /\ Append(q, p[x]) # <<>>
      BY <1>1
    <3>. HIDE DEF S
    <3>. QED  BY <2>2, <3>1
  <2>. QED  BY <2>1, <2>2
<1>5. \A x \in 1 .. n : <<p[x]>> \in S /\ <<p[x]>> # <<>>
  BY <1>1
<1>6. <<>> \in S
  OBVIOUS
<1>. HIDE DEF n, S, More
<1>7. /\ step \in [1 .. n -> [S -> S]]
      /\ \A x \in 1 .. n : \A q \in S :
           /\ step[x][q] # <<>>
           /\ (x \in merged => q # <<>>) => step[x][q] = More(q, x)
  <2>1. ASSUME NEW x \in 1 .. n, NEW q \in S
        PROVE  /\ step[x][q] \in S
               /\ step[x][q] # <<>>
               /\ (x \in merged => q # <<>>) => step[x][q] = More(q, x)
    BY <1>4, <1>5
  <2>2. step \in [1 .. n -> [S -> S]]
    <3>1. \A x \in 1 .. n : \A q \in S :
            (IF x \in merged /\ q = <<>> THEN <<p[x]>> ELSE More(q, x)) \in S
      BY <1>4, <1>5
    <3>. QED  BY <3>1
  <2>. HIDE DEF step
  <2>. QED  BY <2>1, <2>2
<1>. HIDE DEF step
<1>8. \E f : UpTo(f)
  <2>1. PICK f : Iterates(f, n, S, <<>>, step)
    BY <1>1, <1>6, <1>7, Recursion
  <2>2. /\ f \in [0 .. n -> S] /\ f[0] = <<>>
        /\ \A x \in 1 .. n : f[x] = step[x][f[x - 1]]
    BY <2>1 DEF Iterates
  <2>3. \A x \in 1 .. n : f[x - 1] \in S /\ f[x] # <<>>
    BY <1>1, <1>7, <2>2
  <2>4. ASSUME NEW x \in 1 .. n
        PROVE  f[x] = More(f[x - 1], x)
    <3>1. x \in merged => f[x - 1] # <<>>
      <4>1. x \in merged => x - 1 \in 1 .. n
        BY <1>1 DEF n
      <4>. QED  BY <2>3, <4>1
    <3>. QED  BY <1>7, <2>2, <2>3, <3>1
  <2>5. \A x \in 0 .. n : f[x] = IF x = 0 THEN <<>> ELSE More(f[x - 1], x)
    <3>1. \A x \in 0 .. n : x = 0 \/ x \in 1 .. n
      BY <1>1
    <3>. QED  BY <2>2, <2>4, <3>1
  <2>6. f = [x \in 0 .. n |-> IF x = 0 THEN <<>> ELSE More(f[x - 1], x)]
    BY <2>2, <2>5
  <2>. QED  BY <2>6
<1>9. UpTo(upTo)
  BY <1>8
<1>. HIDE DEF upTo
<1>10. upTo[0] = <<>> /\ \A x \in 1 .. n : upTo[x] = More(upTo[x - 1], x)
  BY <1>1, <1>9
<1>. HIDE DEF UpTo
<1>. DEFINE T == {x \in 0 .. n : /\ upTo[x] \in S
                                 /\ x # 0 => upTo[x] # <<>>
                                 /\ Merges(upTo[x], p, g, merged, x)}
<1>11. 0 \in T
  <2>1. Len(<<>>) = g[0]
    BY DEF Numbers
  <2>2. Merges(<<>>, p, g, merged, 0)
    BY <2>1 DEF Merges
  <2>. QED  BY <1>1, <1>6, <1>10, <2>2
<1>12. ASSUME NEW x \in 0 .. n - 1, x \in T
       PROVE  x + 1 \in T
  <2>1. PICK q, r : q = upTo[x] /\ r = upTo[x + 1]
    OBVIOUS
  <2>2. q \in S /\ (x # 0 => q # <<>>) /\ Merges(q, p, g, merged, x)
    BY <1>12, <2>1
  <2>3. x + 1 \in 1 .. n /\ (x + 1) - 1 = x /\ x + 1 # 0 /\ x + 1 \in 0 .. n
    BY <1>1
  <2>4. r = More(q, x + 1)
    BY <1>10, <2>1, <2>3
  <2>5. x + 1 \in merged => q # <<>>
    <3>1. x + 1 \in merged => x # 0
      OBVIOUS
    <3>. QED  BY <2>2, <3>1
  <2>6. /\ r \in S /\ r # <<>>
        /\ x + 1 \in merged => IsProlonged(r, q, p[x + 1])
        /\ x + 1 \notin merged => r = Append(q, p[x + 1])
    BY <1>4, <2>2, <2>3, <2>4, <2>5
  <2>7. Merges(r, p, g, merged, x + 1)
    BY <2>2, <2>6, MergesOneMore DEF n, S
  <2>. QED  BY <2>1, <2>3, <2>6, <2>7
<1>13. n \in T
  <2>. HIDE DEF T
  <2>1. \A x \in 0 .. n : x \in T
    BY <1>1, <1>11, <1>12, IntervalInduction
  <2>. QED  BY <1>1, <2>1
<1>. QED  BY <1>2, <1>13 DEF n, S


\* The slices of q cover those of p.
Covers(q, p, g, n) ==
  \A x \in 1 .. n : /\ g[x] \in 1 .. Len(q)
                    /\ q[g[x]].begin <= p[x].begin
                    /\ p[x].end <= q[g[x]].end

\* Merging neighbours that have the same jobs keeps the partition and every
\* allocation, and if all of them are merged no such neighbours are left.
LEMMA MergeSound ==
  ASSUME NEW J, NEW M, NEW n, NEW p, IsPartition(p, J, M, n),
         NEW merged \in SUBSET (2 .. Len(p)),
         \A x \in merged : p[x - 1].jobs = p[x].jobs,
         NEW g, Numbers(g, Len(p), merged),
         NEW q, q = MergeSlices(p, merged)
  PROVE  /\ IsPartition(q, J, M, n)
         /\ \A j : /\ SameAllocation(p, q, j)
                   /\ IsContiguous(p, j) <=> IsContiguous(q, j)
         /\ (\A x \in 2 .. Len(p) : x \notin merged => p[x - 1].jobs # p[x].jobs)
              => NeighboursDiffer(q)
         /\ Merges(q, p, g, merged, Len(p))
         /\ Covers(q, p, g, Len(p))
         /\ q[1].begin = p[1].begin
         /\ q[Len(q)].begin <= p[Len(p)].begin
<1>. DEFINE N == Len(p)
<1>1. /\ p \in Seq(SlicesOver(J, M)) /\ N \in Nat /\ N >= 1
      /\ \A x \in 1 .. N : p[x] \in SlicesOver(J, M) /\ IsShared(p[x], M, n)
      /\ Follow(p) /\ p[N].end = Infinity /\ DOMAIN p[N].jobs = {}
  BY LenProperties, ElementOfSeq DEF IsPartition
<1>2. /\ \A x \in 1 .. N : /\ p[x].begin \in Int /\ p[x].end \in Int
                           /\ p[x].begin <= p[x].end
                           /\ x # 1 => p[x].begin < p[x].end
      /\ \A x, y \in 1 .. N : x < y => p[x].end <= p[y].begin
  BY Dates
<1>3. \A x \in merged : /\ p[x].jobs = p[x - 1].jobs
                        /\ p[x].available = p[x - 1].available
                        /\ p[x].nb = p[x - 1].nb
  <2>. SUFFICES ASSUME NEW x \in merged
                PROVE  /\ p[x].jobs = p[x - 1].jobs
                       /\ p[x].available = p[x - 1].available
                       /\ p[x].nb = p[x - 1].nb
    OBVIOUS
  <2>1. x \in 1 .. N /\ x - 1 \in 1 .. N
    BY <1>1
  <2>2. p[x].jobs = p[x - 1].jobs
    OBVIOUS
  <2>3. p[x].available \in SUBSET M /\ p[x - 1].available \in SUBSET M
    BY <1>1, <2>1 DEF SlicesOver
  <2>4. \A m \in M : m \in p[x].available <=> m \in p[x - 1].available
    BY <1>1, <2>1, <2>2 DEF IsShared, FreeUnlessGiven
  <2>5. p[x].available = p[x - 1].available
    BY <2>3, <2>4
  <2>6. p[x].nb = p[x - 1].nb
    BY <1>1, <2>1, <2>5 DEF IsShared
  <2>. QED  BY <2>2, <2>5, <2>6
<1>4. q \in Seq(SlicesOver(J, M)) /\ Merges(q, p, g, merged, N)
  BY <1>1, <1>3, MergeElements
<1>5. /\ Len(q) = g[N]
      /\ \A y \in 1 .. N :
           /\ q[g[y]].jobs = p[y].jobs
           /\ q[g[y]].available = p[y].available
           /\ q[g[y]].nb = p[y].nb
           /\ y \notin merged => q[g[y]].begin = p[y].begin
           /\ y = N \/ y + 1 \notin merged => q[g[y]].end = p[y].end
  BY <1>4 DEF Merges
<1>6. /\ \A x \in 1 .. N : g[x] \in 1 .. Len(q) /\ g[x] <= x
      /\ \A x, y \in 1 .. N : x <= y => g[x] <= g[y]
      /\ \A x, y \in 1 .. N : x < y /\ y \notin merged => g[x] < g[y]
      /\ \A k \in 1 .. Len(q) : \E x \in 1 .. N : x \notin merged /\ g[x] = k
  <2>1. Grow(g, N, merged)
    BY <1>1, NumbersGrow
  <2>2. Len(q) = g[N]
    BY <1>5
  <2>. QED  BY <2>1, <2>2, Zenon DEF Grow
<1>7. \A x \in 1 .. N : g[x] = IF x \in merged THEN g[x - 1] ELSE g[x - 1] + 1
  BY DEF Numbers
<1>8. 1 \in 1 .. N /\ 1 \notin merged /\ g[1] = 1 /\ N \in 1 .. N
  <2>1. 1 \in 1 .. N /\ N \in 1 .. N /\ 1 \notin merged
    BY <1>1
  <2>2. g[1] \in 1 .. Len(q) /\ g[1] <= 1
    BY <1>6, <2>1
  <2>3. g[1] = 1
    BY <2>2
  <2>. QED  BY <2>1, <2>3
<1>9. Len(q) \in Nat /\ Len(q) >= 1
  <2>1. Len(q) \in Nat
    BY <1>4, LenProperties
  <2>2. 1 \in 1 .. Len(q)
    BY <1>6, <1>8
  <2>. QED  BY <2>1, <2>2
<1>. HIDE DEF N
<1>10. ASSUME NEW x \in 1 .. N
       PROVE  q[g[x]].begin <= p[x].begin
  <2>1. PICK y \in 1 .. N : y \notin merged /\ g[y] = g[x]
    BY <1>6
  <2>2. y <= x
    <3>1. ~(x < y)
      <4>1. x < y => g[x] < g[y]
        BY <1>6, <2>1
      <4>2. g[x] \in Int
        BY <1>6
      <4>. QED  BY <2>1, <4>1, <4>2
    <3>. QED  BY <3>1
  <2>3. q[g[x]].begin = p[y].begin
    BY <1>5, <2>1
  <2>4. CASE y = x
    BY <1>2, <2>3, <2>4
  <2>5. CASE y # x
    <3>1. y < x
      BY <2>2, <2>5
    <3>2. p[y].end <= p[x].begin /\ p[y].begin <= p[y].end
      BY <1>2, <3>1
    <3>. QED  BY <1>2, <2>3, <3>2
  <2>. QED  BY <2>4, <2>5
<1>11. ASSUME NEW x \in 1 .. N
       PROVE  p[x].end <= q[g[x]].end
  <2>. DEFINE T == {y \in 0 .. N : y \in 1 .. N /\ g[y] = g[x]}
              z == Max(T)
  <2>1. x \in T /\ T \in SUBSET (0 .. N)
    BY <1>1
  <2>2. z \in T /\ \A y \in T : y <= z
    <3>. HIDE DEF T
    <3>. QED  BY <1>1, <2>1, Extremes DEF N
  <2>. HIDE DEF z
  <2>3. z \in 1 .. N /\ g[z] = g[x] /\ x <= z
    BY <2>1, <2>2
  <2>4. z = N \/ z + 1 \notin merged
    <3>. SUFFICES ASSUME z # N, z + 1 \in merged
                  PROVE  FALSE
      OBVIOUS
    <3>1. z + 1 \in 1 .. N /\ (z + 1) - 1 = z /\ z + 1 \in 0 .. N /\ ~(z + 1 <= z)
      BY <1>1, <2>3 DEF N
    <3>2. g[z + 1] = g[z]
      BY <1>7, <3>1
    <3>3. z + 1 \in T
      BY <2>3, <3>1, <3>2
    <3>. QED  BY <2>2, <3>1, <3>3
  <2>5. q[g[x]].end = p[z].end
    BY <1>5, <2>3, <2>4
  <2>6. CASE x = z
    BY <1>2, <2>5, <2>6
  <2>7. CASE x # z
    <3>1. x < z
      BY <2>3, <2>7
    <3>2. p[x].end <= p[z].begin /\ p[z].begin <= p[z].end
      BY <1>2, <2>3, <3>1
    <3>. QED  BY <1>2, <2>3, <2>5, <3>2
  <2>. QED  BY <2>6, <2>7
<1>12. Covers(q, p, g, N)
  BY <1>6, <1>10, <1>11 DEF Covers
<1>13. q[1].begin = p[1].begin
  BY <1>5, <1>8
<1>14. q[Len(q)].begin <= p[N].begin
  <2>1. g[N] = Len(q)
    BY <1>5
  <2>. QED  BY <1>8, <1>10, <2>1
<1>15. \A k \in 1 .. Len(q) : q[k] \in SlicesOver(J, M)
  BY <1>4, ElementOfSeq
<1>16. \A k \in 1 .. Len(q) : q[k].begin \in Int /\ q[k].end \in Int
  BY <1>15 DEF SlicesOver
<1>17. ASSUME NEW k \in 2 .. Len(q)
       PROVE  /\ q[k].begin = q[k - 1].end
              /\ q[k].begin < q[k].end
              /\ \E y \in 2 .. N : /\ y \notin merged
                                   /\ q[k - 1].jobs = p[y - 1].jobs
                                   /\ q[k].jobs = p[y].jobs
  <2>1. k \in 1 .. Len(q) /\ k # 1 /\ k \in Int
    BY <1>9
  <2>2. PICK y \in 1 .. N : y \notin merged /\ g[y] = k
    BY <1>6, <2>1
  <2>3. y \in 2 .. N /\ y - 1 \in 1 .. N /\ (y - 1) + 1 = y /\ y # 1
    BY <1>8, <2>1, <2>2
  <2>4. g[y - 1] = k - 1
    <3>1. g[y] = g[y - 1] + 1 /\ g[y - 1] \in Int
      BY <1>6, <1>7, <2>2, <2>3
    <3>. QED  BY <2>1, <2>2, <3>1
  <2>5. q[k - 1].end = p[y - 1].end /\ q[k].begin = p[y].begin
    BY <1>5, <2>2, <2>3, <2>4
  <2>6. p[y].begin = p[y - 1].end /\ p[y].begin < p[y].end
    BY <1>1, <2>3 DEF Follow, N
  <2>7. p[y].end <= q[k].end
    BY <1>11, <2>2
  <2>8. q[k].begin < q[k].end
    BY <1>2, <1>16, <2>1, <2>2, <2>5, <2>6, <2>7
  <2>9. q[k - 1].jobs = p[y - 1].jobs /\ q[k].jobs = p[y].jobs
    BY <1>5, <2>2, <2>3, <2>4
  <2>. QED  BY <2>2, <2>3, <2>5, <2>6, <2>8, <2>9
<1>18. q[1].begin <= q[1].end
  <2>1. /\ p[1].begin <= p[1].end /\ p[1].end <= q[1].end
        /\ p[1].begin \in Int /\ p[1].end \in Int /\ q[1].end \in Int
    <3>1. 1 \in 1 .. Len(q)
      BY <1>9
    <3>. QED  BY <1>2, <1>8, <1>11, <1>16, <3>1
  <2>. QED  BY <1>13, <2>1
<1>19. \A k \in 1 .. Len(q) : IsShared(q[k], M, n)
  <2>. SUFFICES ASSUME NEW k \in 1 .. Len(q)
                PROVE  IsShared(q[k], M, n)
    OBVIOUS
  <2>1. PICK y \in 1 .. N : g[y] = k
    BY <1>6
  <2>2. /\ q[k].jobs = p[y].jobs /\ q[k].available = p[y].available
        /\ q[k].nb = p[y].nb
    BY <1>5, <2>1
  <2>3. IsShared(p[y], M, n)
    BY <1>1 DEF N
  <2>. QED  BY <2>2, <2>3 DEF IsShared, FreeUnlessGiven, GivenOnce, AsRequested
<1>20. q[Len(q)].end = Infinity /\ DOMAIN q[Len(q)].jobs = {}
  <2>1. q[Len(q)].end = p[N].end /\ q[Len(q)].jobs = p[N].jobs
    BY <1>5, <1>8
  <2>. QED  BY <1>1, <2>1 DEF N
<1>21. IsPartition(q, J, M, n)
  BY <1>4, <1>9, <1>17, <1>18, <1>19, <1>20 DEF IsPartition, Follow
<1>22. ASSUME \A x \in 2 .. N : x \notin merged => p[x - 1].jobs # p[x].jobs
       PROVE  NeighboursDiffer(q)
  BY <1>17, <1>22 DEF NeighboursDiffer
<1>23. \A j : /\ SameAllocation(p, q, j)
              /\ IsContiguous(p, j) <=> IsContiguous(q, j)
  <2>. DEFINE h == [x \in 1 .. N |-> g[x]]
  <2>1. h \in [1 .. N -> 1 .. Len(q)] /\ \A x \in 1 .. N : h[x] = g[x]
    BY <1>6
  <2>. HIDE DEF h
  <2>2. ASSUME NEW x \in 1 .. N, \A y \in 1 .. N : y < x => g[y] < g[x]
        PROVE  q[g[x]].begin = p[x].begin
    <3>1. x \notin merged
      <4>. SUFFICES ASSUME x \in merged
                    PROVE  FALSE
        OBVIOUS
      <4>1. x - 1 \in 1 .. N /\ x - 1 < x
        BY <1>8
      <4>2. g[x] = g[x - 1] /\ g[x] \in Int
        BY <1>6, <1>7
      <4>. QED  BY <2>2, <4>1, <4>2
    <3>. QED  BY <1>5, <3>1
  <2>3. ASSUME NEW x \in 1 .. N, \A y \in 1 .. N : x < y => g[x] < g[y]
        PROVE  q[g[x]].end = p[x].end
    <3>1. x = N \/ x + 1 \notin merged
      <4>. SUFFICES ASSUME x # N, x + 1 \in merged
                    PROVE  FALSE
        OBVIOUS
      <4>1. x + 1 \in 1 .. N /\ x < x + 1 /\ (x + 1) - 1 = x
        BY <1>8
      <4>2. g[x + 1] = g[x] /\ g[x] \in Int
        BY <1>6, <1>7, <4>1
      <4>. QED  BY <2>3, <4>1, <4>2
    <3>. QED  BY <1>5, <3>1
  <2>4. \A x \in 1 .. N : q[g[x]].jobs = p[x].jobs
    BY <1>5
  <2>5. \A k \in 1 .. Len(q) : \E x \in 1 .. N : g[x] = k
    BY <1>6
  <2>6. Coarsens(q, p, h)
    BY <1>6, <2>1, <2>2, <2>3, <2>4, <2>5 DEF Coarsens, N
  <2>. QED  BY <1>1, <1>4, <2>6, CoarserAllocation
<1>. QED  BY <1>4, <1>12, <1>13, <1>14, <1>21, <1>22, <1>23 DEF N


-------------------------------------------------------------------------------
(* Removing a job.                                                         *)

\* All the machines X are free from date d to date t.
FreeFromTo(p, X, d, t) ==
  \E a \in 1 .. Len(p) : \E b \in a .. Len(p) :
    /\ p[a].begin <= d
    /\ t <= p[b].end
    /\ \A x \in a .. b : X \subseteq p[x].available

\* r is p without the job j, whose place is free.
IsRemoved(r, p, j) ==
  /\ ~ContainsJob(r, j)
  /\ \A k : k # j => SameAllocation(p, r, k)
  /\ r[1].begin = p[1].begin
  /\ r[Len(r)].begin <= p[Len(p)].begin
  /\ FreeFromTo(r, Allocation(p, j).machines, Allocation(p, j).begin,
                   Allocation(p, j).end)

\* remove_job does it.
THEOREM RemoveSound ==
  ASSUME NEW J, NEW M, IsFiniteSet(M), NEW n, NEW p, IsSound(p, J, M, n),
         NEW j \in J, ContainsJob(p, j), NEW r, r = RemoveJob(p, j, n[j])
  PROVE  IsSound(r, J, M, n) /\ IsRemoved(r, p, j)
<1>1. PICK first, last, X : /\ first = Min(SlicesOf(p, j))
                            /\ last = Max(SlicesOf(p, j))
                            /\ X = p[first].jobs[j]
  OBVIOUS
<1>2. /\ IsPartition(p, J, M, n) /\ NeighboursDiffer(p)
      /\ \A k \in J : IsContiguous(p, k)
      /\ p \in Seq(SlicesOver(J, M))
      /\ \A x \in 1 .. Len(p) : IsShared(p[x], M, n)
      /\ DOMAIN p[Len(p)].jobs = {}
  BY DEF IsSound, IsPartition
<1>3. /\ Len(p) \in Nat /\ DOMAIN p = 1 .. Len(p)
      /\ \A x \in 1 .. Len(p) : p[x] \in SlicesOver(J, M)
  BY <1>2, LenProperties, ElementOfSeq
<1>4. /\ SlicesOf(p, j) \subseteq 1 .. Len(p)
      /\ first \in SlicesOf(p, j) /\ last \in SlicesOf(p, j)
      /\ \A x \in SlicesOf(p, j) : first <= x /\ x <= last
  BY <1>1, <1>2, SlicesOfJob
<1>5. /\ first \in 1 .. Len(p) /\ last \in 1 .. Len(p) /\ first <= last
      /\ first \in Int /\ last \in Int
  BY <1>4
<1>6. SlicesOf(p, j) = first .. last
  <2>1. \A x \in first .. last : x \in SlicesOf(p, j)
    BY <1>2, <1>4 DEF IsContiguous
  <2>2. \A x \in SlicesOf(p, j) : x \in first .. last
    BY <1>4, <1>5
  <2>. QED  BY <2>1, <2>2
<1>7. \A x \in first .. last : /\ x \in 1 .. Len(p)
                               /\ j \in DOMAIN p[x].jobs
                               /\ p[x].jobs[j] = X
  <2>. SUFFICES ASSUME NEW x \in first .. last
                PROVE  /\ x \in 1 .. Len(p)
                       /\ j \in DOMAIN p[x].jobs
                       /\ p[x].jobs[j] = X
    OBVIOUS
  <2>1. x \in SlicesOf(p, j)
    BY <1>6
  <2>2. p[x].jobs[j] = p[first].jobs[j]
    BY <1>2, <1>4, <2>1 DEF IsContiguous
  <2>3. j \in DOMAIN p[x].jobs
    BY <2>1 DEF SlicesOf
  <2>. QED  BY <1>1, <1>4, <2>1, <2>2, <2>3
<1>8. last < Len(p)
  <2>1. last # Len(p)
    BY <1>2, <1>4 DEF SlicesOf
  <2>2. Len(p) \in Int /\ last \in 1 .. Len(p)
    BY <1>3, <1>5
  <2>. QED  BY <2>1, <2>2
<1>9. /\ Cardinality(X) = n[j] /\ n[j] \in Int
      /\ X \in SUBSET M
  <2>1. first \in first .. last
    BY <1>5
  <2>2. /\ Cardinality(X) = n[j]
    BY <1>2, <1>5, <1>7, <2>1 DEF IsShared, AsRequested
  <2>3. X \in SUBSET M
    <3>1. p[first].jobs \in Mappings(J, M)
      BY <1>3, <1>5 DEF SlicesOver
    <3>2. p[first].jobs \in [DOMAIN p[first].jobs -> SUBSET M]
      BY <3>1, MappingFacts
    <3>3. j \in DOMAIN p[first].jobs
      BY <1>7, <2>1
    <3>. QED  BY <1>1, <3>2, <3>3
  <2>4. Cardinality(X) \in Nat
    BY <2>3, FS_Subset, FS_CardinalityType
  <2>. QED  BY <2>2, <2>3, <2>4
<1>10. \A x \in first .. last : X \cap p[x].available = {}
  <2>. SUFFICES ASSUME NEW x \in first .. last, NEW m \in X, m \in p[x].available
                PROVE  FALSE
    OBVIOUS
  <2>1. FreeUnlessGiven(p[x], M) /\ m \in M
    BY <1>2, <1>7, <1>9 DEF IsShared
  <2>. QED  BY <1>7, <2>1 DEF FreeUnlessGiven
<1>11. PICK e : e = EraseJob(p, j, n[j], first, last)
  OBVIOUS
<1>12. last \in first .. Len(p)
  BY <1>3, <1>5
<1>13. e \in Seq(SlicesOver(J, M)) /\ Gives(p, e, j, X, n[j], first, last)
  BY <1>2, <1>5, <1>7, <1>9, <1>10, <1>11, <1>12, EraseJobGives
<1>14. /\ Len(e) = Len(p) /\ DOMAIN e = 1 .. Len(e) /\ Len(e) \in Nat
       /\ first \in 1 .. Len(e) /\ last \in first .. Len(e) /\ last < Len(e)
  <2>1. Len(e) = Len(p)
    BY <1>13 DEF Gives
  <2>2. DOMAIN e = 1 .. Len(e)
    BY <1>13, LenProperties
  <2>. QED  BY <1>3, <1>5, <1>8, <1>12, <2>1, <2>2
<1>15. IsPartition(e, J, M, n)
  BY <1>2, <1>9, <1>13, <1>14, GivesPartition
<1>16. ~ContainsJob(e, j)
  <2>1. ASSUME NEW x \in 1 .. Len(e)
        PROVE  j \notin DOMAIN e[x].jobs
    <3>1. CASE x \in first .. last
      BY <1>13, <3>1 DEF Gives
    <3>2. CASE x \notin first .. last
      <4>1. p[x] = e[x]
        BY <1>13, <3>2 DEF Gives
      <4>2. x \notin SlicesOf(p, j)
        BY <1>6, <3>2
      <4>. QED  BY <1>3, <1>14, <4>1, <4>2 DEF SlicesOf
    <3>. QED  BY <3>1, <3>2
  <2>. QED  BY <1>14, <2>1 DEF ContainsJob, SlicesOf
<1>17. ASSUME NEW k, k # j
       PROVE  /\ SameAllocation(e, p, k)
              /\ IsContiguous(p, k) <=> IsContiguous(e, k)
  BY <1>2, <1>13, <1>17, GivesNoOther
<1>. DEFINE merged == {x \in (first .. last + 1) \cap (2 .. Len(e)) :
                         e[x - 1].jobs = e[x].jobs}
<1>18. r = MergeSlices(e, merged)
  <2>1. last = Max({x \in first .. Len(p) : first .. x \subseteq SlicesOf(p, j)})
    <3>. DEFINE R == {x \in first .. Len(p) : first .. x \subseteq SlicesOf(p, j)}
    <3>1. R = first .. last
      <4>1. ASSUME NEW x \in R
            PROVE  x \in first .. last
        <5>1. x \in first .. x
          BY <1>5
        <5>. QED  BY <1>6, <5>1
      <4>2. ASSUME NEW x \in first .. last
            PROVE  x \in R
        BY <1>3, <1>5, <1>6
      <4>. QED  BY <4>1, <4>2
    <3>. QED  BY <1>1, <1>6, <3>1
  <2>2. r = MergeEqualSlices(EraseJob(p, j, n[j], first, last), first, last + 1)
    BY <1>1, <2>1, Zenon DEF RemoveJob, RemoveJobFrom
  <2>. QED  BY <1>11, <2>2 DEF MergeEqualSlices
<1>19. merged \in SUBSET (2 .. Len(e)) /\ \A x \in merged : e[x - 1].jobs = e[x].jobs
  OBVIOUS
<1>20. ASSUME NEW x \in 2 .. Len(e), x \notin merged
       PROVE  e[x - 1].jobs # e[x].jobs
  <2>1. CASE x \in first .. last + 1
    BY <1>20, <2>1
  <2>2. CASE x \notin first .. last + 1
    <3>1. x - 1 \notin first .. last /\ x \notin first .. last
      BY <1>5, <1>14, <2>2
    <3>2. p[x - 1].jobs # p[x].jobs
      BY <1>2, <1>14 DEF NeighboursDiffer
    <3>3. p[x - 1].jobs = p[x].jobs
            <=> /\ e[x - 1].jobs = e[x].jobs
                /\ x - 1 \in first .. last <=> x \in first .. last
      BY <1>2, <1>13, <1>14, <1>16, GivesNeighbours
    <3>. QED  BY <3>1, <3>2, <3>3
  <2>. QED  BY <2>1, <2>2
<1>. HIDE DEF merged
<1>21. PICK g : Numbers(g, Len(e), merged)
  BY <1>14, NumbersExist
<1>22. /\ IsPartition(r, J, M, n)
       /\ \A k : /\ SameAllocation(e, r, k)
                 /\ IsContiguous(e, k) <=> IsContiguous(r, k)
       /\ NeighboursDiffer(r)
       /\ Merges(r, e, g, merged, Len(e))
       /\ Covers(r, e, g, Len(e))
       /\ r[1].begin = e[1].begin
       /\ r[Len(r)].begin <= e[Len(e)].begin
  BY <1>15, <1>18, <1>19, <1>20, <1>21, MergeSound
<1>23. ~ContainsJob(r, j) /\ IsContiguous(r, j)
  <2>1. ~ContainsJob(r, j)
    BY <1>16, <1>22 DEF SameAllocation
  <2>. QED  BY <2>1 DEF IsContiguous, ContainsJob
<1>24. \A k : k # j => SameAllocation(p, r, k)
  BY <1>17, <1>22 DEF SameAllocation
<1>25. \A k \in J : IsContiguous(r, k)
  BY <1>2, <1>17, <1>22, <1>23
<1>26. e[1].begin = p[1].begin /\ e[Len(e)].begin = p[Len(p)].begin
  <2>1. 1 \in 1 .. Len(e) /\ Len(e) \in 1 .. Len(e)
    BY <1>14
  <2>. QED  BY <1>13, <1>14, <2>1 DEF Gives
<1>27. /\ Allocation(p, j).machines = X
       /\ Allocation(p, j).begin = p[first].begin
       /\ Allocation(p, j).end = p[last].end
  BY <1>1 DEF Allocation, BeginOf, EndOf
<1>28. FreeFromTo(r, X, p[first].begin, p[last].end)
  <2>1. PICK a, b : a = g[first] /\ b = g[last]
    OBVIOUS
  <2>2. Grow(g, Len(e), merged)
    BY <1>14, <1>19, <1>21, NumbersGrow
  <2>3. /\ \A x, y \in 1 .. Len(e) : x <= y => g[x] <= g[y]
        /\ \A k \in 1 .. g[Len(e)] : \E x \in 1 .. Len(e) : g[x] = k
    BY <2>2 DEF Grow
  <2>4. last \in 1 .. Len(e)
    BY <1>14
  <2>5. /\ a \in 1 .. Len(r) /\ r[a].begin <= e[first].begin
        /\ b \in 1 .. Len(r) /\ e[last].end <= r[b].end
    BY <1>14, <1>22, <2>1, <2>4 DEF Covers
  <2>6. a <= b
    BY <1>5, <1>14, <2>1, <2>3, <2>4
  <2>7. e[first].begin = p[first].begin /\ e[last].end = p[last].end
    BY <1>13, <1>14, <2>4 DEF Gives
  <2>8. \A x \in first .. last : X \subseteq e[x].available
    BY <1>7, <1>13, <1>14 DEF Gives
  <2>9. /\ Len(r) = g[Len(e)]
        /\ \A x \in 1 .. Len(e) : r[g[x]].available = e[x].available
    BY <1>22 DEF Merges
  <2>10. ASSUME NEW y \in a .. b
         PROVE  X \subseteq r[y].available
    <3>1. y \in 1 .. g[Len(e)] /\ a \in Int /\ b \in Int /\ y \in Int
      BY <2>5, <2>9
    <3>2. PICK x \in 1 .. Len(e) : g[x] = y
      BY <2>3, <3>1
    <3>3. CASE x \in first .. last
      BY <2>8, <2>9, <3>2, <3>3
    <3>4. CASE x < first
      <4>1. y <= a
        BY <1>14, <2>1, <2>3, <3>2, <3>4
      <4>2. y = g[first]
        BY <2>1, <3>1, <4>1
      <4>3. first \in first .. last
        BY <1>5
      <4>. QED  BY <1>14, <2>8, <2>9, <4>2, <4>3
    <3>5. CASE last < x
      <4>1. b <= y
        BY <2>1, <2>3, <2>4, <3>2, <3>5
      <4>2. y = g[last]
        BY <2>1, <3>1, <4>1
      <4>3. last \in first .. last
        BY <1>5
      <4>. QED  BY <2>4, <2>8, <2>9, <4>2, <4>3
    <3>. QED  BY <1>5, <3>3, <3>4, <3>5
  <2>11. b \in a .. Len(r)
    BY <2>5, <2>6
  <2>. QED  BY <2>5, <2>7, <2>10, <2>11 DEF FreeFromTo
<1>29. IsSound(r, J, M, n)
  BY <1>22, <1>25 DEF IsSound
<1>30. IsRemoved(r, p, j)
  BY <1>22, <1>23, <1>24, <1>26, <1>27, <1>28 DEF IsRemoved
<1>. QED  BY <1>29, <1>30


\* A job that is removed is not placed later than it was.
LEMMA PlacedNotLater ==
  ASSUME NEW J, NEW M, IsFiniteSet(M), NEW n, NEW p, IsPartition(p, J, M, n),
         NEW X, CanHold(X, M, Cardinality(X)), NEW w \in Int, NEW d \in Int,
         FreeFromTo(p, X, d, d + w),
         NEW alloc, IsPlace(alloc, p, M, Cardinality(X), w)
  PROVE  alloc.begin <= d
<1>1. Len(p) \in Nat
  BY LenProperties DEF IsPartition
<1>2. /\ \A x \in 1 .. Len(p) : /\ p[x].begin \in Int /\ p[x].end \in Int
                                /\ p[x].begin <= p[x].end
      /\ \A x, y \in 1 .. Len(p) : x < y => p[x].end <= p[y].begin
  BY Dates
<1>3. PICK a \in 1 .. Len(p) : \E b \in a .. Len(p) :
        /\ p[a].begin <= d
        /\ d + w <= p[b].end
        /\ \A x \in a .. b : X \subseteq p[x].available
  BY DEF FreeFromTo
<1>4. PICK b \in a .. Len(p) :
        /\ p[a].begin <= d
        /\ d + w <= p[b].end
        /\ \A x \in a .. b : X \subseteq p[x].available
  BY <1>3
<1>5. b \in 1 .. Len(p)
  BY <1>1
<1>6. p[b].end - p[a].begin >= w
  <2>1. p[b].end \in Int /\ p[a].begin \in Int
    BY <1>2, <1>5
  <2>. QED  BY <1>4, <2>1
<1>7. PICK k \in a .. b : IsAnchor(p, Cardinality(X), w, a, k)
  BY <1>4, <1>6, AnchorFrom
<1>8. PICK f : f = alloc.first
  OBVIOUS
<1>9. /\ f \in 1 .. Len(p)
      /\ alloc.begin = p[f].begin
      /\ f <= a
  <2>1. k \in 1 .. Len(p)
    BY <1>1
  <2>. QED  BY <1>7, <1>8, <2>1 DEF IsPlace
<1>10. p[f].begin <= p[a].begin
  <2>1. CASE f = a
    BY <1>2, <2>1
  <2>2. CASE f < a
    <3>1. p[f].end <= p[a].begin
      BY <1>2, <1>9, <2>2
    <3>. QED  BY <1>2, <1>9, <3>1
  <2>. QED  BY <1>9, <2>1, <2>2
<1>. QED  BY <1>2, <1>4, <1>9, <1>10

-------------------------------------------------------------------------------
(* The first slice.                                                        *)

\* Where the first slice ends, a job that is in it ends or another job begins:
\* its end is not forgotten.
LEMMA FirstSliceEnds ==
  ASSUME NEW J, NEW M, NEW n, NEW p, IsSound(p, J, M, n)
  PROVE  \/ p[1].end = Infinity
         \/ \E k \in J :
              /\ ContainsJob(p, k)
              /\ \/ Allocation(p, k).present /\ Allocation(p, k).end = p[1].end
                 \/ ~Allocation(p, k).present /\ Allocation(p, k).begin = p[1].end
<1>1. /\ p \in Seq(SlicesOver(J, M))
      /\ p[Len(p)].end = Infinity
      /\ \A x \in 2 .. Len(p) : p[x].begin = p[x - 1].end
      /\ \A k \in J : IsContiguous(p, k)
      /\ \A x \in 2 .. Len(p) : p[x - 1].jobs # p[x].jobs
      /\ Len(p) >= 1
  BY DEF IsSound, IsPartition, Follow, NeighboursDiffer
<1>2. /\ Len(p) \in Nat /\ DOMAIN p = 1 .. Len(p)
      /\ \A x \in 1 .. Len(p) : p[x] \in SlicesOver(J, M)
  BY <1>1, LenProperties, ElementOfSeq
<1>3. CASE Len(p) = 1
  BY <1>1, <1>3
<1>4. CASE Len(p) # 1
  <2>1. 1 \in 1 .. Len(p) /\ 2 \in 2 .. Len(p) /\ 2 \in 1 .. Len(p) /\ 2 - 1 = 1
    BY <1>1, <1>2, <1>4
  <2>2. p[1].jobs # p[2].jobs /\ p[2].begin = p[1].end
    BY <1>1, <2>1
  <2>3. PICK f, g : f = p[1].jobs /\ g = p[2].jobs
    OBVIOUS
  <2>4. f \in Mappings(J, M) /\ g \in Mappings(J, M)
    BY <1>2, <2>1, <2>3 DEF SlicesOver
  <2>5. /\ DOMAIN f \subseteq J /\ DOMAIN g \subseteq J
        /\ f \in [DOMAIN f -> SUBSET M] /\ g \in [DOMAIN g -> SUBSET M]
    BY <2>4, MappingFacts
  <2>6. \A k : /\ 1 \in SlicesOf(p, k) <=> k \in DOMAIN f
               /\ 2 \in SlicesOf(p, k) <=> k \in DOMAIN g
    BY <1>2, <2>1, <2>3 DEF SlicesOf
  <2>7. DOMAIN f # DOMAIN g
    <3>. SUFFICES ASSUME DOMAIN f = DOMAIN g
                  PROVE  f = g
      BY <2>2, <2>3
    <3>1. ASSUME NEW k \in DOMAIN f
          PROVE  f[k] = g[k]
      <4>1. k \in J /\ 1 \in SlicesOf(p, k) /\ 2 \in SlicesOf(p, k)
        BY <2>5, <2>6
      <4>2. IsContiguous(p, k)
        BY <1>1, <4>1
      <4>3. p[1].jobs[k] = p[2].jobs[k]
        BY <4>1, <4>2 DEF IsContiguous
      <4>. QED  BY <2>3, <4>3
    <3>. QED  BY <2>5, <3>1
  <2>8. ASSUME NEW k \in DOMAIN f, k \notin DOMAIN g
        PROVE  /\ k \in J /\ ContainsJob(p, k)
               /\ Allocation(p, k).present /\ Allocation(p, k).end = p[1].end
    <3>1. k \in J /\ 1 \in SlicesOf(p, k) /\ 2 \notin SlicesOf(p, k)
      BY <2>5, <2>6, <2>8
    <3>2. ContainsJob(p, k)
      BY <3>1 DEF ContainsJob
    <3>3. PICK b : b = Max(SlicesOf(p, k))
      OBVIOUS
    <3>4. b \in SlicesOf(p, k) /\ b \in 1 .. Len(p)
      BY <1>1, <3>2, <3>3, SlicesOfJob
    <3>5. b = 1
      <4>. SUFFICES ASSUME b # 1
                    PROVE  FALSE
        OBVIOUS
      <4>1. 2 \in 1 .. b
        BY <3>4
      <4>2. 1 .. b \subseteq SlicesOf(p, k)
        BY <1>1, <3>1, <3>4 DEF IsContiguous
      <4>. QED  BY <3>1, <4>1, <4>2
    <3>. QED  BY <3>1, <3>2, <3>3, <3>5 DEF Allocation, EndOf
  <2>9. ASSUME NEW k \in DOMAIN g, k \notin DOMAIN f
        PROVE  /\ k \in J /\ ContainsJob(p, k)
               /\ ~Allocation(p, k).present /\ Allocation(p, k).begin = p[1].end
    <3>1. k \in J /\ 1 \notin SlicesOf(p, k) /\ 2 \in SlicesOf(p, k)
      BY <2>5, <2>6, <2>9
    <3>2. ContainsJob(p, k)
      BY <3>1 DEF ContainsJob
    <3>3. PICK a : a = Min(SlicesOf(p, k))
      OBVIOUS
    <3>4. a \in SlicesOf(p, k) /\ a \in 1 .. Len(p) /\ a <= 2
      BY <1>1, <3>1, <3>2, <3>3, SlicesOfJob
    <3>5. a = 2
      BY <3>1, <3>4
    <3>. QED  BY <2>2, <3>1, <3>2, <3>3, <3>5 DEF Allocation, BeginOf
  <2>10. (\E k \in DOMAIN f : k \notin DOMAIN g)
           \/ (\E k \in DOMAIN g : k \notin DOMAIN f)
    BY <2>7
  <2>. QED  BY <2>8, <2>9, <2>10
<1>. QED  BY <1>3, <1>4


\* Only the begin of the first slice changes, for the jobs that are in it too.
IsUpdated(q, p, d) ==
  /\ q[1].begin = d
  /\ q[Len(q)].begin \in {p[Len(p)].begin, d}
  /\ \A k : /\ ContainsJob(p, k) <=> ContainsJob(q, k)
            /\ ContainsJob(p, k) =>
                 /\ Allocation(q, k).end = Allocation(p, k).end
                 /\ Allocation(q, k).machines = Allocation(p, k).machines
                 /\ Allocation(q, k).present = Allocation(p, k).present
                 /\ ~Allocation(p, k).present =>
                      Allocation(q, k).begin = Allocation(p, k).begin

\* update_first_slice, under what it asserts.
LEMMA UpdateSound ==
  ASSUME NEW J, NEW M, NEW n, NEW p, IsSound(p, J, M, n),
         NEW d \in Int, d <= p[1].end, NEW q, q = UpdateFirstSlice(p, d)
  PROVE  IsSound(q, J, M, n) /\ IsUpdated(q, p, d)
<1>1. /\ p \in Seq(SlicesOver(J, M))
      /\ \A x \in 1 .. Len(p) : IsShared(p[x], M, n)
      /\ Follow(p)
      /\ p[Len(p)].end = Infinity
      /\ DOMAIN p[Len(p)].jobs = {}
      /\ \A k \in J : IsContiguous(p, k)
      /\ NeighboursDiffer(p)
      /\ Len(p) >= 1
  BY DEF IsSound, IsPartition
<1>2. /\ Len(p) \in Nat /\ DOMAIN p = 1 .. Len(p)
      /\ \A x \in 1 .. Len(p) : p[x] \in SlicesOver(J, M)
  BY <1>1, LenProperties, ElementOfSeq
<1>3. 1 \in 1 .. Len(p) /\ Len(p) \in 1 .. Len(p)
  BY <1>1, <1>2
<1>. DEFINE s == [p[1] EXCEPT !.begin = d]
<1>4. /\ s \in SlicesOver(J, M)
      /\ s.begin = d /\ s.end = p[1].end /\ s.available = p[1].available
      /\ s.nb = p[1].nb /\ s.jobs = p[1].jobs
  BY <1>2, <1>3 DEF SlicesOver
<1>5. q = [p EXCEPT ![1] = s]
  BY DEF UpdateFirstSlice
<1>. HIDE DEF s
<1>6. /\ q \in Seq(SlicesOver(J, M)) /\ Len(q) = Len(p) /\ DOMAIN q = 1 .. Len(p)
      /\ q[1] = s
      /\ \A x \in 1 .. Len(p) : x # 1 => q[x] = p[x]
  BY <1>1, <1>3, <1>4, <1>5
<1>7. \A x \in 1 .. Len(p) : /\ q[x].end = p[x].end
                             /\ q[x].available = p[x].available
                             /\ q[x].nb = p[x].nb
                             /\ q[x].jobs = p[x].jobs
                             /\ x # 1 => q[x].begin = p[x].begin
  BY <1>4, <1>6
<1>8. \A x \in 1 .. Len(p) : IsShared(q[x], M, n)
  BY <1>1, <1>7 DEF IsShared, FreeUnlessGiven, GivenOnce, AsRequested
<1>9. Follow(q)
  <2>1. q[1].begin <= q[1].end
    BY <1>3, <1>4, <1>6, <1>7
  <2>2. ASSUME NEW x \in 2 .. Len(p)
        PROVE  q[x].begin = q[x - 1].end /\ q[x].begin < q[x].end
    <3>1. x \in 1 .. Len(p) /\ x # 1 /\ x - 1 \in 1 .. Len(p)
      BY <1>2
    <3>2. p[x].begin = p[x - 1].end /\ p[x].begin < p[x].end
      BY <1>1 DEF Follow
    <3>. QED  BY <1>7, <3>1, <3>2
  <2>. QED  BY <1>6, <2>1, <2>2 DEF Follow
<1>10. IsPartition(q, J, M, n)
  BY <1>1, <1>3, <1>6, <1>7, <1>8, <1>9 DEF IsPartition
<1>11. \A k : SlicesOf(q, k) = SlicesOf(p, k)
  BY <1>2, <1>6, <1>7 DEF SlicesOf
<1>12. \A k : SlicesOf(p, k) \subseteq 1 .. Len(p)
  BY <1>2 DEF SlicesOf
<1>13. \A k \in J : IsContiguous(q, k)
  BY <1>1, <1>7, <1>11, <1>12 DEF IsContiguous
<1>14. NeighboursDiffer(q)
  <2>1. \A x \in 2 .. Len(p) : x \in 1 .. Len(p) /\ x - 1 \in 1 .. Len(p)
    BY <1>2
  <2>. QED  BY <1>1, <1>6, <1>7, <2>1 DEF NeighboursDiffer
<1>15. ASSUME NEW k
       PROVE  /\ ContainsJob(p, k) <=> ContainsJob(q, k)
              /\ ContainsJob(p, k) =>
                   /\ Allocation(q, k).end = Allocation(p, k).end
                   /\ Allocation(q, k).machines = Allocation(p, k).machines
                   /\ Allocation(q, k).present = Allocation(p, k).present
                   /\ ~Allocation(p, k).present =>
                        Allocation(q, k).begin = Allocation(p, k).begin
  <2>1. ContainsJob(p, k) <=> ContainsJob(q, k)
    BY <1>11 DEF ContainsJob
  <2>2. CASE ContainsJob(p, k)
    <3>1. PICK a, b : a = Min(SlicesOf(p, k)) /\ b = Max(SlicesOf(p, k))
      OBVIOUS
    <3>2. a \in SlicesOf(p, k) /\ a \in 1 .. Len(p) /\ b \in 1 .. Len(p)
      BY <1>1, <2>2, <3>1, SlicesOfJob
    <3>3. a = Min(SlicesOf(q, k)) /\ b = Max(SlicesOf(q, k))
      BY <1>11, <3>1
    <3>4. /\ q[b].end = p[b].end /\ q[a].jobs = p[a].jobs
          /\ 1 \notin SlicesOf(p, k) => q[a].begin = p[a].begin
      BY <1>7, <3>2
    <3>. QED  BY <1>11, <2>1, <3>1, <3>3, <3>4 DEF Allocation, BeginOf, EndOf
  <2>. QED  BY <2>1, <2>2
<1>16. q[1].begin = d /\ q[Len(q)].begin \in {p[Len(p)].begin, d}
  BY <1>3, <1>4, <1>6
<1>17. IsSound(q, J, M, n)
  BY <1>10, <1>13, <1>14 DEF IsSound
<1>18. IsUpdated(q, p, d)
  BY <1>15, <1>16 DEF IsUpdated
<1>. QED  BY <1>17, <1>18

-------------------------------------------------------------------------------
(* A sound profile is what IsProfile and IsContiguous say, and so is a new *)
(* one.                                                                    *)

\* Schedule::Schedule: one slice, without jobs.
LEMMA NewSound ==
  ASSUME NEW J, NEW M, IsFiniteSet(M), NEW n, NEW d \in Int, Infinity \in Int,
         d <= Infinity, NEW p, p = NewSchedule(M, d)
  PROVE  /\ IsSound(p, J, M, n)
         /\ \A j : ~ContainsJob(p, j)
         /\ Len(p) = 1 /\ p[1].begin = d
<1>. DEFINE s == [begin |-> d, end |-> Infinity, available |-> M,
                  nb |-> Cardinality(M), jobs |-> <<>>]
<1>1. DOMAIN s.jobs = {} /\ s.jobs \in Mappings(J, M)
  <2>1. DOMAIN << >> = {}
    OBVIOUS
  <2>2. << >> \in [{} -> SUBSET M]
    OBVIOUS
  <2>3. << >> \in Mappings(J, M)
    BY <2>2 DEF Mappings
  <2>. QED  BY <2>1, <2>3
<1>2. s \in SlicesOver(J, M)
  <2>1. Cardinality(M) \in Int
    BY FS_CardinalityType
  <2>. QED  BY <1>1, <2>1 DEF SlicesOver
<1>3. s.begin = d /\ s.end = Infinity /\ s.available = M /\ s.nb = Cardinality(M)
  OBVIOUS
<1>4. p = <<s>>
  BY DEF NewSchedule
<1>. HIDE DEF s
<1>5. /\ p \in Seq(SlicesOver(J, M)) /\ Len(p) = 1 /\ p[1] = s
      /\ DOMAIN p = {1}
  BY <1>2, <1>4
<1>6. \A j : ~ContainsJob(p, j)
  BY <1>1, <1>5 DEF ContainsJob, SlicesOf
<1>7. IsShared(s, M, n)
  BY <1>1, <1>3 DEF IsShared, FreeUnlessGiven, GivenOnce, AsRequested
<1>8. Follow(p) /\ NeighboursDiffer(p)
  BY <1>3, <1>5 DEF Follow, NeighboursDiffer
<1>9. IsPartition(p, J, M, n)
  <2>1. \A x \in 1 .. Len(p) : p[x] = s
    BY <1>5
  <2>2. p[Len(p)] = s
    BY <1>5
  <2>3. Len(p) >= 1
    BY <1>5
  <2>. QED  BY <1>1, <1>3, <1>5, <1>7, <1>8, <2>1, <2>2, <2>3 DEF IsPartition
<1>10. \A j \in J : IsContiguous(p, j)
  BY <1>6 DEF ContainsJob, IsContiguous
<1>. QED  BY <1>3, <1>5, <1>6, <1>8, <1>9, <1>10 DEF IsSound

\* A sound profile is a profile, in which every job is allocated without
\* interruption and the last slice is free.
LEMMA SoundIsProfile ==
  ASSUME NEW J, NEW M, NEW n, NEW p, IsSound(p, J, M, n)
  PROVE  /\ IsProfile(p, M, LAMBDA j : n[j])
         /\ p[Len(p)].available = M
         /\ \A j \in J : IsContiguous(p, j)
<1>1. /\ p \in Seq(SlicesOver(J, M))
      /\ \A x \in 1 .. Len(p) : IsShared(p[x], M, n)
      /\ Follow(p)
      /\ p[Len(p)].end = Infinity
      /\ DOMAIN p[Len(p)].jobs = {}
      /\ \A k \in J : IsContiguous(p, k)
      /\ Len(p) >= 1
  BY DEF IsSound, IsPartition
<1>2. /\ Len(p) \in Nat /\ DOMAIN p = 1 .. Len(p)
      /\ \A x \in 1 .. Len(p) : p[x] \in SlicesOver(J, M)
  BY <1>1, LenProperties, ElementOfSeq
<1>3. \A x \in 1 .. Len(p) : p[x].begin <= p[x].end
  BY Dates DEF IsSound
<1>4. ASSUME NEW x \in 1 .. Len(p)
      PROVE  /\ p[x].available
                  = M \ UNION {p[x].jobs[j] : j \in DOMAIN p[x].jobs}
             /\ p[x].nb = Cardinality(p[x].available)
             /\ GivenOnce(p[x])
             /\ \A j \in DOMAIN p[x].jobs : Cardinality(p[x].jobs[j]) = n[j]
  <2>1. p[x].available \subseteq M
    BY <1>2 DEF SlicesOver
  <2>. QED  BY <1>1, <2>1 DEF IsShared, FreeUnlessGiven, AsRequested
<1>5. \A x \in 1 .. Len(p) : IsSlice(p[x], M, LAMBDA j : n[j])
  BY <1>3, <1>4 DEF IsSlice, GivenOnce
<1>6. p # <<>>
  BY <1>1
<1>7. \A x \in DOMAIN p \ {1} : p[x].begin = p[x - 1].end /\ p[x].begin < p[x].end
  <2>1. \A x \in DOMAIN p \ {1} : x \in 2 .. Len(p)
    BY <1>2
  <2>. QED  BY <1>1, <2>1 DEF Follow
<1>8. p[Len(p)].available = M
  <2>1. Len(p) \in 1 .. Len(p)
    BY <1>1, <1>2
  <2>2. PICK s : s = p[Len(p)]
    OBVIOUS
  <2>3. /\ s.available = M \ UNION {s.jobs[j] : j \in DOMAIN s.jobs}
        /\ DOMAIN s.jobs = {}
    BY <1>1, <1>4, <2>1, <2>2
  <2>. QED  BY <2>2, <2>3
<1>9. IsProfile(p, M, LAMBDA j : n[j])
  BY <1>1, <1>2, <1>5, <1>6, <1>7 DEF IsProfile
<1>. QED  BY <1>1, <1>8, <1>9


-------------------------------------------------------------------------------
(* Insertion of a job that is not in the schedule, and of one that is.     *)

\* What is known of the allocation of a job, whoever it is.
LEMMA AllocationFacts ==
  ASSUME NEW J, NEW M, IsFiniteSet(M), NEW n, NEW p, IsSound(p, J, M, n),
         NEW j \in J, ContainsJob(p, j)
  PROVE  /\ Allocation(p, j).begin \in Int /\ Allocation(p, j).end \in Int
         /\ p[1].begin <= Allocation(p, j).begin
         /\ Allocation(p, j).end <= p[Len(p)].begin
         /\ Allocation(p, j).machines \in SUBSET M
         /\ Cardinality(Allocation(p, j).machines) = n[j]
         /\ n[j] \in Nat
         /\ Allocation(p, j).present \in BOOLEAN
         /\ Allocation(p, j).present =>
              /\ Allocation(p, j).begin = p[1].begin
              /\ j \in DOMAIN p[1].jobs
              /\ p[1].jobs[j] = Allocation(p, j).machines
<1>1. /\ IsPartition(p, J, M, n) /\ p \in Seq(SlicesOver(J, M))
      /\ \A x \in 1 .. Len(p) : IsShared(p[x], M, n)
      /\ DOMAIN p[Len(p)].jobs = {}
  BY DEF IsSound, IsPartition
<1>2. /\ Len(p) \in Nat /\ Len(p) \in Int /\ DOMAIN p = 1 .. Len(p)
      /\ \A x \in 1 .. Len(p) : p[x] \in SlicesOver(J, M)
  BY <1>1, LenProperties, ElementOfSeq
<1>3. /\ \A x \in 1 .. Len(p) : /\ p[x].begin \in Int /\ p[x].end \in Int
                                /\ p[x].begin <= p[x].end
                                /\ x # 1 => p[x].begin < p[x].end
      /\ \A x, y \in 1 .. Len(p) : x < y => p[x].end <= p[y].begin
  BY <1>1, Dates
<1>4. PICK a, b : a = Min(SlicesOf(p, j)) /\ b = Max(SlicesOf(p, j))
  OBVIOUS
<1>5. /\ a \in SlicesOf(p, j) /\ b \in SlicesOf(p, j)
      /\ \A x \in SlicesOf(p, j) : a <= x
      /\ a \in 1 .. Len(p) /\ b \in 1 .. Len(p) /\ a \in Int /\ b \in Int
  BY <1>1, <1>4, SlicesOfJob
<1>6. /\ Allocation(p, j).begin = p[a].begin /\ Allocation(p, j).end = p[b].end
      /\ Allocation(p, j).machines = p[a].jobs[j]
      /\ Allocation(p, j).present = (1 \in SlicesOf(p, j))
  BY <1>4 DEF Allocation, BeginOf, EndOf
<1>7. j \in DOMAIN p[a].jobs /\ j \in DOMAIN p[b].jobs
  BY <1>5 DEF SlicesOf
<1>8. p[b].end <= p[Len(p)].begin
  <2>1. b # Len(p)
    BY <1>1, <1>7
  <2>2. Len(p) \in 1 .. Len(p) /\ b < Len(p)
    <3>1. b \in 1 .. Len(p) /\ Len(p) \in Int /\ b # Len(p)
      BY <1>2, <1>5, <2>1
    <3>. QED  BY <3>1
  <2>. QED  BY <1>3, <1>5, <2>2
<1>9. p[1].begin <= p[a].begin
  <2>1. 1 \in 1 .. Len(p)
    BY <1>2, <1>5
  <2>2. CASE a = 1
    BY <1>3, <2>1, <2>2
  <2>3. CASE a # 1
    <3>1. p[1].end <= p[a].begin
      BY <1>3, <1>5, <2>1, <2>3
    <3>. QED  BY <1>3, <1>5, <2>1, <3>1
  <2>. QED  BY <2>2, <2>3
<1>10. p[a].jobs[j] \in SUBSET M /\ Cardinality(p[a].jobs[j]) = n[j]
  <2>1. p[a].jobs \in Mappings(J, M)
    BY <1>2, <1>5 DEF SlicesOver
  <2>2. p[a].jobs \in [DOMAIN p[a].jobs -> SUBSET M]
    BY <2>1, MappingFacts
  <2>. QED  BY <1>1, <1>5, <1>7, <2>2 DEF IsShared, AsRequested
<1>11. n[j] \in Nat
  BY <1>10, FS_Subset, FS_CardinalityType
<1>12. 1 \in SlicesOf(p, j) => a = 1
  <2>. SUFFICES ASSUME 1 \in SlicesOf(p, j)
                PROVE  a = 1
    OBVIOUS
  <2>1. a <= 1 /\ a \in 1 .. Len(p)
    BY <1>5
  <2>. QED  BY <2>1
<1>13. /\ p[a].begin \in Int /\ p[b].end \in Int
       /\ a = 1 => p[a].begin = p[1].begin /\ p[a].jobs = p[1].jobs
  BY <1>3, <1>5
<1>14. (1 \in SlicesOf(p, j)) \in BOOLEAN
  OBVIOUS
<1>. QED
  BY <1>6, <1>7, <1>8, <1>9, <1>10, <1>11, <1>12, <1>13, <1>14, Zenon

\* Two jobs of the first slice have no machine in common, nor has a job of it
\* one of its free machines.
LEMMA PresentApart ==
  ASSUME NEW J, NEW M, IsFiniteSet(M), NEW n, NEW p, IsSound(p, J, M, n),
         NEW j \in J, ContainsJob(p, j), Allocation(p, j).present
  PROVE  Allocation(p, j).machines \cap p[1].available = {}
<1>1. /\ j \in DOMAIN p[1].jobs /\ p[1].jobs[j] = Allocation(p, j).machines
      /\ Allocation(p, j).machines \in SUBSET M
  BY AllocationFacts
<1>2. Len(p) >= 1 /\ Len(p) \in Nat
  BY LenProperties DEF IsSound, IsPartition
<1>3. 1 \in 1 .. Len(p)
  BY <1>2
<1>4. FreeUnlessGiven(p[1], M)
  BY <1>3 DEF IsSound, IsPartition, IsShared
<1>. QED  BY <1>1, <1>4 DEF FreeUnlessGiven

\* The profile r is p with an allocation for job j in place of the one it may
\* have had.  A job that is not placed in the first slice is placed where
\* another one has ended, one that is gets machines that are free at present.
IsInserted(r, p, J, M, n, j, w, alloc) ==
  /\ ContainsJob(r, j)
  /\ Allocation(r, j) = [begin |-> alloc.begin, end |-> alloc.begin + w,
                         machines |-> alloc.machines,
                         present |-> alloc.first = 1]
  /\ alloc.startedInFirstSlice <=> alloc.first = 1
  /\ alloc.begin \in Int
  /\ alloc.machines \in SUBSET M
  /\ Cardinality(alloc.machines) = n[j]
  /\ CanHold(alloc.machines, M, n[j])
  /\ \A k : k # j => SameAllocation(p, r, k)
  /\ r[1].begin = p[1].begin
  /\ p[1].begin <= alloc.begin
  /\ alloc.first = 1 =>
       /\ alloc.begin = p[1].begin
       /\ \A k \in J : k # j /\ ContainsJob(p, k) /\ Allocation(p, k).present
            => alloc.machines \cap Allocation(p, k).machines = {}
  /\ alloc.first # 1 => \E k \in J : k # j /\ EndsBefore(r, k, alloc.begin)

\* The last slice begins where it did, or at date d.
LastBegins(r, p, d) == r[Len(r)].begin \in {p[Len(p)].begin, d}

\* A job that is not in the schedule is added where there is a place for it.
LEMMA InsertSound ==
  ASSUME NEW J, NEW M, IsFiniteSet(M), NEW n, NEW p, IsSound(p, J, M, n),
         NEW j \in J, ~ContainsJob(p, j), n[j] \in Int, NEW w \in Nat \ {0},
         NEW alloc, IsPlace(alloc, p, M, n[j], w), alloc.begin + w < Infinity,
         NEW r, r = AddJobAt(p, j, n[j], w, alloc)
  PROVE  /\ IsSound(r, J, M, n)
         /\ IsInserted(r, p, J, M, n, j, w, alloc)
         /\ LastBegins(r, p, alloc.begin + w)
<1>1. IsSound(r, J, M, n) /\ IsAdded(r, p, j, w, alloc)
  BY AddSound
<1>2. /\ ContainsJob(r, j)
      /\ Allocation(r, j) = [begin |-> alloc.begin, end |-> alloc.begin + w,
                             machines |-> alloc.machines,
                             present |-> alloc.first = 1]
      /\ \A k : k # j => SameAllocation(p, r, k)
      /\ r[1].begin = p[1].begin
      /\ r[Len(r)].begin \in {p[Len(p)].begin, alloc.begin + w}
  BY <1>1 DEF IsAdded
<1>3. PICK f, l : f = alloc.first /\ l = alloc.last
  OBVIOUS
<1>4. /\ f \in 1 .. Len(p) /\ l \in f .. Len(p)
      /\ alloc.begin = p[f].begin
      /\ alloc.startedInFirstSlice <=> alloc.first = 1
      /\ alloc.machines \in SUBSET M
      /\ Cardinality(alloc.machines) = n[j]
      /\ CanHold(alloc.machines, M, n[j])
      /\ \A x \in f .. l : alloc.machines \subseteq p[x].available
  BY <1>3 DEF IsPlace
<1>5. /\ Len(p) \in Nat
      /\ \A x \in 1 .. Len(p) : /\ p[x].begin \in Int /\ p[x].end \in Int
                                /\ p[x].begin <= p[x].end
      /\ \A x, y \in 1 .. Len(p) : x < y => p[x].end <= p[y].begin
  BY Dates, LenProperties DEF IsSound, IsPartition
<1>6. p[1].begin <= alloc.begin /\ alloc.begin \in Int
  <2>1. 1 \in 1 .. Len(p)
    BY <1>4, <1>5
  <2>2. CASE f = 1
    BY <1>4, <1>5, <2>1, <2>2
  <2>3. CASE f # 1
    <3>1. p[1].end <= p[f].begin
      BY <1>4, <1>5, <2>1, <2>3
    <3>. QED  BY <1>4, <1>5, <2>1, <3>1
  <2>. QED  BY <2>2, <2>3
<1>7. ASSUME alloc.first = 1, NEW k \in J, ContainsJob(p, k),
             Allocation(p, k).present
      PROVE  alloc.machines \cap Allocation(p, k).machines = {}
  <2>1. 1 \in f .. l
    BY <1>3, <1>4, <1>7
  <2>2. alloc.machines \subseteq p[1].available
    BY <1>4, <2>1
  <2>. QED  BY <1>7, <2>2, PresentApart
<1>8. ASSUME alloc.first # 1
      PROVE  \E k \in J : k # j /\ EndsBefore(r, k, alloc.begin)
  <2>1. PICK k \in J : EndsBefore(p, k, alloc.begin)
    BY <1>8, PlacedAfter
  <2>2. k # j
    BY <2>1 DEF EndsBefore
  <2>3. EndsBefore(r, k, alloc.begin)
    BY <1>2, <2>1, <2>2 DEF EndsBefore, SameAllocation
  <2>. QED  BY <2>2, <2>3
<1>9. alloc.first = 1 => alloc.begin = p[1].begin
  BY <1>3, <1>4
<1>10. IsInserted(r, p, J, M, n, j, w, alloc)
  BY <1>2, <1>4, <1>6, <1>7, <1>8, <1>9 DEF IsInserted
<1>11. LastBegins(r, p, alloc.begin + w)
  BY <1>2 DEF LastBegins
<1>. QED  BY <1>1, <1>10, <1>11

\* add_job_first_fit, of a job that the platform can hold.
THEOREM FirstInsertion ==
  ASSUME NEW J, NEW M, IsFiniteSet(M), NEW n, NEW p, IsSound(p, J, M, n),
         NEW j \in J, ~ContainsJob(p, j), n[j] \in Int, NEW w \in Nat \ {0},
         Places(M, n[j]), Fit(M, n[j]) # {}, p[Len(p)].begin + w < Infinity,
         NEW r, r = AddJobFirstFit(p, j, n[j], w)
  PROVE  /\ IsSound(r, J, M, n)
         /\ IsInserted(r, p, J, M, n, j, w, JobAlloc(p, n[j], w))
         /\ r[Len(r)].begin <= p[Len(p)].begin + w
<1>1. PICK alloc : alloc = JobAlloc(p, n[j], w)
  OBVIOUS
<1>2. IsPartition(p, J, M, n)
  BY DEF IsSound
<1>3. /\ IsPlace(alloc, p, M, n[j], w)
      /\ alloc.begin <= p[Len(p)].begin
      /\ alloc.begin + w < Infinity
  BY <1>1, <1>2, PlaceExists
<1>4. r = AddJobAt(p, j, n[j], w, alloc)
  BY <1>1 DEF AddJobFirstFit
<1>5. /\ IsSound(r, J, M, n)
      /\ IsInserted(r, p, J, M, n, j, w, alloc)
      /\ LastBegins(r, p, alloc.begin + w)
  BY <1>3, <1>4, InsertSound, Zenon
<1>6. alloc.begin \in Int
  BY <1>5 DEF IsInserted
<1>7. p[Len(p)].begin \in Int
  <2>1. Len(p) \in 1 .. Len(p)
    <3>1. Len(p) \in Nat /\ Len(p) >= 1
      BY <1>2, LenProperties DEF IsPartition
    <3>. QED  BY <3>1
  <2>. QED  BY <1>2, <2>1, Dates
<1>8. r[Len(r)].begin <= p[Len(p)].begin + w
  BY <1>3, <1>5, <1>6, <1>7 DEF LastBegins
<1>. QED  BY <1>1, <1>5, <1>8

\* remove_job, then add_job_first_fit: the job is not placed later than it was,
\* and the schedule does not grow.
THEOREM Reinsertion ==
  ASSUME NEW J, NEW M, IsFiniteSet(M), NEW n, NEW p, IsSound(p, J, M, n),
         NEW j \in J, ContainsJob(p, j), NEW w \in Nat \ {0}, Places(M, n[j]),
         CanHold(Allocation(p, j).machines, M, n[j]),
         Allocation(p, j).end = Allocation(p, j).begin + w,
         NEW q, q = RemoveJob(p, j, n[j]),
         NEW r, r = AddJobFirstFit(q, j, n[j], w)
  PROVE  /\ IsSound(r, J, M, n)
         /\ IsInserted(r, p, J, M, n, j, w, JobAlloc(q, n[j], w))
         /\ r[Len(r)].begin <= p[Len(p)].begin
         /\ JobAlloc(q, n[j], w).begin <= Allocation(p, j).begin
<1>1. PICK alloc, X, d : /\ alloc = JobAlloc(q, n[j], w)
                         /\ X = Allocation(p, j).machines
                         /\ d = Allocation(p, j).begin
  OBVIOUS
<1>2. /\ d \in Int /\ d + w <= p[Len(p)].begin
      /\ X \in SUBSET M /\ Cardinality(X) = n[j] /\ n[j] \in Nat
  <2>1. /\ Allocation(p, j).begin \in Int
        /\ Allocation(p, j).end <= p[Len(p)].begin
        /\ Allocation(p, j).machines \in SUBSET M
        /\ Cardinality(Allocation(p, j).machines) = n[j]
        /\ n[j] \in Nat
    BY AllocationFacts
  <2>. QED  BY <1>1, <2>1
<1>3. IsSound(q, J, M, n) /\ IsRemoved(q, p, j)
  BY RemoveSound
<1>4. IsPartition(q, J, M, n) /\ IsPartition(p, J, M, n)
  BY <1>3 DEF IsSound
<1>5. /\ ~ContainsJob(q, j)
      /\ \A k : k # j => SameAllocation(p, q, k)
      /\ q[1].begin = p[1].begin
      /\ q[Len(q)].begin <= p[Len(p)].begin
      /\ FreeFromTo(q, X, d, d + w)
  BY <1>1, <1>3 DEF IsRemoved
<1>6. CanHold(X, M, Cardinality(X))
  BY <1>1, <1>2
<1>7. Anchors(q, n[j], w) # {}
  <2>1. /\ Len(q) \in Nat /\ DOMAIN q = 1 .. Len(q)
    BY <1>4, LenProperties DEF IsPartition
  <2>2. \A x \in 1 .. Len(q) : q[x].begin \in Int /\ q[x].end \in Int
    BY <1>4, Dates
  <2>3. PICK a \in 1 .. Len(q) : \E b \in a .. Len(q) :
          /\ q[a].begin <= d
          /\ d + w <= q[b].end
          /\ \A x \in a .. b : X \subseteq q[x].available
    BY <1>5 DEF FreeFromTo
  <2>4. PICK b \in a .. Len(q) :
          /\ q[a].begin <= d
          /\ d + w <= q[b].end
          /\ \A x \in a .. b : X \subseteq q[x].available
    BY <2>3
  <2>5. q[b].end - q[a].begin >= w
    <3>1. b \in 1 .. Len(q)
      BY <2>1
    <3>2. q[b].end \in Int /\ q[a].begin \in Int
      BY <2>2, <3>1
    <3>. QED  BY <1>2, <2>4, <3>2
  <2>6. \E k \in a .. b : IsAnchor(q, Cardinality(X), w, a, k)
    BY <1>4, <1>6, <2>4, <2>5, AnchorFrom
  <2>7. PICK k \in a .. b : IsAnchor(q, n[j], w, a, k)
    BY <1>2, <2>6
  <2>8. PICK pair : pair = <<a, k>>
    OBVIOUS
  <2>9. pair \in Anchors(q, n[j], w)
    <3>1. pair[1] = a /\ pair[2] = k /\ k \in 1 .. Len(q)
      BY <2>1, <2>8
    <3>2. pair \in (DOMAIN q) \X (DOMAIN q)
      BY <2>1, <2>8, <3>1
    <3>. QED  BY <2>7, <3>1, <3>2 DEF Anchors
  <2>. QED  BY <2>9
<1>8. IsPlace(alloc, q, M, n[j], w)
  <2>1. n[j] \in Int
    BY <1>2
  <2>. QED  BY <1>1, <1>4, <1>7, <2>1, PlaceFound
<1>9. alloc.begin <= d
  <2>1. IsPlace(alloc, q, M, Cardinality(X), w) /\ w \in Int
    BY <1>2, <1>8
  <2>. QED  BY <1>2, <1>4, <1>5, <1>6, <2>1, PlacedNotLater
<1>10. alloc.begin \in Int
  <2>1. PICK f : f = alloc.first
    OBVIOUS
  <2>2. f \in 1 .. Len(q) /\ alloc.begin = q[f].begin
    BY <1>8, <2>1 DEF IsPlace
  <2>. QED  BY <1>4, <2>2, Dates
<1>11. /\ p[Len(p)].begin \in Int /\ p[Len(p)].begin < Infinity
       /\ q[Len(q)].begin \in Int /\ Infinity \in Int
  <2>1. Len(p) \in 1 .. Len(p) /\ Len(q) \in 1 .. Len(q)
    <3>1. Len(p) \in Nat /\ Len(p) >= 1 /\ Len(q) \in Nat /\ Len(q) >= 1
      BY <1>4, LenProperties DEF IsPartition
    <3>. QED  BY <3>1
  <2>2. p[Len(p)].end = Infinity
    BY <1>4 DEF IsPartition
  <2>3. Len(p) # 1
    <3>1. DOMAIN p[Len(p)].jobs = {} /\ DOMAIN p = 1 .. Len(p)
      BY <1>4, LenProperties DEF IsPartition
    <3>2. PICK x : x \in SlicesOf(p, j)
      BY DEF ContainsJob
    <3>. QED  BY <3>1, <3>2 DEF SlicesOf
  <2>4. /\ p[Len(p)].begin \in Int /\ p[Len(p)].end \in Int
        /\ p[Len(p)].begin < p[Len(p)].end
        /\ q[Len(q)].begin \in Int
    BY <1>4, <2>1, <2>3, Dates
  <2>. QED  BY <2>2, <2>4
<1>12. alloc.begin + w < Infinity /\ alloc.begin + w <= p[Len(p)].begin
  BY <1>2, <1>9, <1>10, <1>11
<1>13. r = AddJobAt(q, j, n[j], w, alloc)
  BY <1>1 DEF AddJobFirstFit
<1>14. /\ IsSound(r, J, M, n)
       /\ IsInserted(r, q, J, M, n, j, w, alloc)
       /\ LastBegins(r, q, alloc.begin + w)
  <2>1. n[j] \in Int
    BY <1>2
  <2>. QED  BY <1>3, <1>5, <1>8, <1>12, <1>13, <2>1, InsertSound, Zenon
<1>15. r[Len(r)].begin <= p[Len(p)].begin
  BY <1>5, <1>10, <1>11, <1>12, <1>14 DEF LastBegins
<1>16. IsInserted(r, p, J, M, n, j, w, alloc)
  <2>1. \A k : k # j => SameAllocation(p, r, k)
    BY <1>5, <1>14 DEF IsInserted, SameAllocation
  <2>2. \A k \in J : k # j /\ ContainsJob(p, k) /\ Allocation(p, k).present
          => /\ ContainsJob(q, k) /\ Allocation(q, k).present
             /\ Allocation(q, k).machines = Allocation(p, k).machines
    BY <1>5 DEF SameAllocation
  <2>3. alloc.first = 1 =>
          \A k \in J : k # j /\ ContainsJob(p, k) /\ Allocation(p, k).present
            => alloc.machines \cap Allocation(p, k).machines = {}
    BY <1>14, <2>2 DEF IsInserted
  <2>. QED  BY <1>5, <1>14, <2>1, <2>3 DEF IsInserted
<1>. QED  BY <1>1, <1>9, <1>14, <1>15, <1>16


\* What the jobs that are not in the schedule request does not matter.
LEMMA SoundOtherwise ==
  ASSUME NEW J, NEW M, NEW n, NEW p, IsSound(p, J, M, n), NEW m,
         \A j : ContainsJob(p, j) => m[j] = n[j]
  PROVE  IsSound(p, J, M, m)
<1>1. /\ p \in Seq(SlicesOver(J, M)) /\ IsPartition(p, J, M, n)
      /\ \A x \in 1 .. Len(p) : IsShared(p[x], M, n)
  BY DEF IsSound, IsPartition
<1>2. DOMAIN p = 1 .. Len(p)
  BY <1>1, LenProperties
<1>3. ASSUME NEW x \in 1 .. Len(p)
      PROVE  IsShared(p[x], M, m)
  <2>1. IsShared(p[x], M, n)
    BY <1>1
  <2>2. \A j \in DOMAIN p[x].jobs : m[j] = n[j]
    BY <1>2 DEF ContainsJob, SlicesOf
  <2>. QED  BY <2>1, <2>2 DEF IsShared, AsRequested
<1>4. IsPartition(p, J, M, m)
  BY <1>1, <1>3 DEF IsPartition
<1>. QED  BY <1>4 DEF IsSound


\* The last slice of a profile has a beginning, as the first one has.
LEMMA LastBegin ==
  ASSUME NEW J, NEW M, NEW n, NEW p, IsSound(p, J, M, n)
  PROVE  /\ p[Len(p)].begin \in Int /\ p[Len(p)].end = Infinity
         /\ p[1].begin \in Int /\ p[1].end \in Int /\ p[1].begin <= p[1].end
         /\ p[1].begin <= p[Len(p)].begin
<1>1. IsPartition(p, J, M, n)
  BY DEF IsSound
<1>2. Len(p) \in Nat /\ Len(p) >= 1 /\ p[Len(p)].end = Infinity
  BY <1>1, LenProperties DEF IsPartition
<1>3. Len(p) \in 1 .. Len(p) /\ 1 \in 1 .. Len(p)
  BY <1>2
<1>4. p[1].begin <= p[Len(p)].begin
  <2>1. CASE Len(p) = 1
    BY <1>1, <1>3, <2>1, Dates
  <2>2. CASE Len(p) # 1
    <3>1. 1 < Len(p)
      <4>1. \A N \in Nat : N >= 1 /\ N # 1 => 1 < N
        OBVIOUS
      <4>. QED  BY <1>2, <2>2, <4>1
    <3>2. p[1].end <= p[Len(p)].begin
      BY <1>1, <1>3, <3>1, Dates
    <3>. QED  BY <1>1, <1>3, <3>2, Dates
  <2>. QED  BY <2>1, <2>2
<1>. QED  BY <1>1, <1>2, <1>3, <1>4, Dates

\* The last slice begins where an allocation ends, unless it is the only one.
LEMMA LastAllocation ==
  ASSUME NEW J, NEW M, NEW n, NEW p, IsSound(p, J, M, n), Len(p) # 1
  PROVE  \E k \in J : /\ ContainsJob(p, k)
                      /\ Allocation(p, k).end = p[Len(p)].begin
<1>1. /\ p \in Seq(SlicesOver(J, M))
      /\ DOMAIN p[Len(p)].jobs = {}
      /\ \A x \in 2 .. Len(p) : p[x].begin = p[x - 1].end
      /\ \A x \in 2 .. Len(p) : p[x - 1].jobs # p[x].jobs
      /\ Len(p) >= 1
  BY DEF IsSound, IsPartition, Follow, NeighboursDiffer
<1>2. /\ Len(p) \in Nat /\ DOMAIN p = 1 .. Len(p)
      /\ \A x \in 1 .. Len(p) : p[x] \in SlicesOver(J, M)
  BY <1>1, LenProperties, ElementOfSeq
<1>3. PICK N : N = Len(p)
  OBVIOUS
<1>4. /\ N \in 2 .. Len(p) /\ N \in 1 .. Len(p) /\ N - 1 \in 1 .. Len(p)
      /\ N \in Int
  BY <1>1, <1>2, <1>3
<1>5. p[N - 1].jobs # p[N].jobs /\ p[N].begin = p[N - 1].end
  BY <1>1, <1>4
<1>6. PICK f, g : f = p[N - 1].jobs /\ g = p[N].jobs
  OBVIOUS
<1>7. f \in Mappings(J, M) /\ g \in Mappings(J, M)
  BY <1>2, <1>4, <1>6 DEF SlicesOver
<1>8. /\ DOMAIN f \subseteq J
      /\ f \in [DOMAIN f -> SUBSET M] /\ g \in [DOMAIN g -> SUBSET M]
      /\ DOMAIN g = {}
  BY <1>1, <1>3, <1>6, <1>7, MappingFacts
<1>9. PICK k \in DOMAIN f : TRUE
  BY <1>5, <1>6, <1>8
<1>10. /\ k \in J /\ N - 1 \in SlicesOf(p, k) /\ N \notin SlicesOf(p, k)
  BY <1>1, <1>2, <1>3, <1>4, <1>6, <1>8 DEF SlicesOf
<1>11. ContainsJob(p, k)
  BY <1>10 DEF ContainsJob
<1>12. PICK b : b = Max(SlicesOf(p, k))
  OBVIOUS
<1>13. b \in SlicesOf(p, k) /\ b \in 1 .. Len(p) /\ N - 1 <= b
  BY <1>1, <1>10, <1>11, <1>12, SlicesOfJob
<1>14. b = N - 1
  BY <1>3, <1>4, <1>10, <1>13
<1>. QED  BY <1>3, <1>5, <1>10, <1>11, <1>12, <1>14 DEF Allocation, EndOf

\* A machine is free at present unless a job of the first slice has it.
LEMMA FreeAtPresent ==
  ASSUME NEW J, NEW M, IsFiniteSet(M), NEW n, NEW p, IsSound(p, J, M, n)
  PROVE  /\ p[1].available \in SUBSET M
         /\ p[1].nb = Cardinality(p[1].available)
         /\ \A m \in M : m \in p[1].available <=>
              \A k \in J : ContainsJob(p, k) /\ Allocation(p, k).present
                          => m \notin Allocation(p, k).machines
<1>1. /\ p \in Seq(SlicesOver(J, M)) /\ Len(p) >= 1
      /\ \A x \in 1 .. Len(p) : IsShared(p[x], M, n)
  BY DEF IsSound, IsPartition
<1>2. /\ 1 \in 1 .. Len(p) /\ DOMAIN p = 1 .. Len(p)
      /\ p[1] \in SlicesOver(J, M)
  BY <1>1, LenProperties, ElementOfSeq
<1>3. /\ p[1].available \in SUBSET M /\ DOMAIN p[1].jobs \subseteq J
  BY <1>2, MappingFacts DEF SlicesOver
<1>4. /\ p[1].nb = Cardinality(p[1].available)
      /\ \A m \in M : m \in p[1].available <=>
           \A k \in DOMAIN p[1].jobs : m \notin p[1].jobs[k]
  BY <1>1, <1>2 DEF IsShared, FreeUnlessGiven
<1>5. \A k \in DOMAIN p[1].jobs :
        /\ ContainsJob(p, k) /\ Allocation(p, k).present
        /\ p[1].jobs[k] = Allocation(p, k).machines
  <2>. SUFFICES ASSUME NEW k \in DOMAIN p[1].jobs
                PROVE  /\ ContainsJob(p, k) /\ Allocation(p, k).present
                       /\ p[1].jobs[k] = Allocation(p, k).machines
    OBVIOUS
  <2>1. 1 \in SlicesOf(p, k)
    BY <1>2 DEF SlicesOf
  <2>2. ContainsJob(p, k) /\ Allocation(p, k).present
    BY <2>1 DEF ContainsJob, Allocation
  <2>. QED  BY <1>3, <2>2, AllocationFacts
<1>6. \A k \in J : ContainsJob(p, k) /\ Allocation(p, k).present =>
        k \in DOMAIN p[1].jobs /\ p[1].jobs[k] = Allocation(p, k).machines
  BY AllocationFacts
<1>. QED  BY <1>3, <1>4, <1>5, <1>6
-------------------------------------------------------------------------------
(* Where a job can start at once.                                          *)

\* The jobs of a slice are allocated there, and begin no later than it does.
LEMMA JobOfSlice ==
  ASSUME NEW J, NEW M, IsFiniteSet(M), NEW n, NEW p, IsSound(p, J, M, n),
         NEW x \in 1 .. Len(p), NEW k \in DOMAIN p[x].jobs
  PROVE  /\ k \in J /\ ContainsJob(p, k)
         /\ Allocation(p, k).machines = p[x].jobs[k]
         /\ Allocation(p, k).begin <= p[x].begin
         /\ x = 1 => Allocation(p, k).present
<1>1. /\ p \in Seq(SlicesOver(J, M)) /\ IsPartition(p, J, M, n)
      /\ \A j \in J : IsContiguous(p, j)
  BY DEF IsSound, IsPartition
<1>2. DOMAIN p = 1 .. Len(p) /\ p[x] \in SlicesOver(J, M)
  BY <1>1, LenProperties, ElementOfSeq
<1>3. k \in J
  BY <1>2, MappingFacts DEF SlicesOver
<1>4. x \in SlicesOf(p, k) /\ ContainsJob(p, k)
  BY <1>2 DEF SlicesOf, ContainsJob
<1>5. PICK a : a = Min(SlicesOf(p, k))
  OBVIOUS
<1>6. a \in SlicesOf(p, k) /\ a <= x /\ a \in 1 .. Len(p)
  BY <1>1, <1>4, <1>5, SlicesOfJob
<1>7. p[a].jobs[k] = p[x].jobs[k]
  BY <1>1, <1>3, <1>4, <1>6 DEF IsContiguous
<1>8. p[a].begin <= p[x].begin
  <2>1. /\ \A y \in 1 .. Len(p) : /\ p[y].begin \in Int /\ p[y].end \in Int
                                  /\ p[y].begin <= p[y].end
        /\ \A y, z \in 1 .. Len(p) : y < z => p[y].end <= p[z].begin
    BY <1>1, Dates
  <2>2. CASE a = x
    BY <1>6, <2>1, <2>2
  <2>3. CASE a # x
    <3>1. a < x
      BY <1>6, <2>3
    <3>. QED  BY <1>6, <2>1, <3>1
  <2>. QED  BY <2>2, <2>3
<1>. QED  BY <1>3, <1>4, <1>5, <1>7, <1>8 DEF Allocation, BeginOf

\* The machines that no allocation has until date d.
FreeUntil(p, J, M, d) ==
  {m \in M : \A k \in J :
     /\ ContainsJob(p, k)
     /\ Allocation(p, k).present \/ Allocation(p, k).begin < d
     => m \notin Allocation(p, k).machines}

\* They are free in every slice that begins before that date.
LEMMA FreeInSlice ==
  ASSUME NEW J, NEW M, IsFiniteSet(M), NEW n, NEW p, IsSound(p, J, M, n),
         NEW d \in Int, NEW x \in 1 .. Len(p), x = 1 \/ p[x].begin < d
  PROVE  FreeUntil(p, J, M, d) \subseteq p[x].available
<1>. SUFFICES ASSUME NEW m \in M, m \notin p[x].available
              PROVE  m \notin FreeUntil(p, J, M, d)
  BY DEF FreeUntil
<1>1. FreeUnlessGiven(p[x], M) /\ IsPartition(p, J, M, n)
  BY DEF IsSound, IsPartition, IsShared
<1>2. PICK k \in DOMAIN p[x].jobs : m \in p[x].jobs[k]
  BY <1>1 DEF FreeUnlessGiven
<1>3. /\ k \in J /\ ContainsJob(p, k)
      /\ Allocation(p, k).machines = p[x].jobs[k]
      /\ Allocation(p, k).begin <= p[x].begin
      /\ x = 1 => Allocation(p, k).present
  BY JobOfSlice
<1>4. Allocation(p, k).begin \in Int /\ p[x].begin \in Int
  BY <1>1, <1>3, AllocationFacts, Dates
<1>5. Allocation(p, k).present \/ Allocation(p, k).begin < d
  BY <1>3, <1>4
<1>. QED  BY <1>2, <1>3, <1>5 DEF FreeUntil

\* Machines that are free in all slices until that date are among them.
LEMMA SlicesFree ==
  ASSUME NEW J, NEW M, IsFiniteSet(M), NEW n, NEW p, IsSound(p, J, M, n),
         NEW d \in Int, NEW last \in 1 .. Len(p), d <= p[last].end,
         NEW X \in SUBSET M, \A x \in 1 .. last : X \subseteq p[x].available
  PROVE  X \subseteq FreeUntil(p, J, M, d)
<1>. SUFFICES ASSUME NEW m \in X, NEW k \in J, ContainsJob(p, k),
                     Allocation(p, k).present \/ Allocation(p, k).begin < d,
                     m \in Allocation(p, k).machines
              PROVE  FALSE
  BY DEF FreeUntil
<1>1. /\ p \in Seq(SlicesOver(J, M)) /\ IsPartition(p, J, M, n)
      /\ \A x \in 1 .. Len(p) : FreeUnlessGiven(p[x], M)
  BY DEF IsSound, IsPartition, IsShared
<1>2. PICK a : a = Min(SlicesOf(p, k))
  OBVIOUS
<1>3. a \in SlicesOf(p, k) /\ a \in 1 .. Len(p)
      /\ \A x \in SlicesOf(p, k) : a <= x
  BY <1>1, <1>2, SlicesOfJob
<1>4. /\ Allocation(p, k).begin = p[a].begin
      /\ Allocation(p, k).machines = p[a].jobs[k]
      /\ Allocation(p, k).present = (1 \in SlicesOf(p, k))
      /\ k \in DOMAIN p[a].jobs
  BY <1>2, <1>3 DEF Allocation, BeginOf, SlicesOf
<1>5. a \in 1 .. last
  <2>1. /\ \A y \in 1 .. Len(p) : p[y].begin \in Int /\ p[y].end \in Int
        /\ \A y, z \in 1 .. Len(p) : y < z => p[y].end <= p[z].begin
    BY <1>1, Dates
  <2>2. CASE Allocation(p, k).present
    <3>1. a <= 1
      BY <1>3, <1>4, <2>2
    <3>. QED  BY <1>3, <3>1
  <2>3. CASE p[a].begin < d
    <3>1. ~(last < a)
      BY <1>3, <2>1, <2>3
    <3>. QED  BY <1>3, <3>1
  <2>. QED  BY <1>4, <2>2, <2>3
<1>6. m \in M /\ m \in p[a].available
  BY <1>5
<1>. QED  BY <1>1, <1>3, <1>4, <1>6 DEF FreeUnlessGiven

\* The last slice that begins before a date after the beginning of the profile ends
\* at that date, or later.
LEMMA LastSliceBefore ==
  ASSUME NEW J, NEW M, NEW n, NEW p, IsPartition(p, J, M, n),
         NEW d \in Int, p[1].begin < d, d <= Infinity
  PROVE  \E last \in 1 .. Len(p) :
           /\ d <= p[last].end
           /\ \A x \in 1 .. last : p[x].begin < d
<1>1. /\ Len(p) \in Nat /\ 1 \in 1 .. Len(p) /\ Len(p) \in 1 .. Len(p)
      /\ p[Len(p)].end = Infinity
      /\ \A x \in 2 .. Len(p) : p[x].begin = p[x - 1].end
  BY LenProperties DEF IsPartition, Follow
<1>2. /\ \A y \in 1 .. Len(p) : /\ p[y].begin \in Int /\ p[y].end \in Int
                                /\ p[y].begin <= p[y].end
      /\ \A y, z \in 1 .. Len(p) : y < z => p[y].end <= p[z].begin
  BY Dates
<1>. DEFINE T == {x \in 1 .. Len(p) : p[x].begin < d}
<1>3. PICK last : last = Max(T)
  OBVIOUS
<1>4. last \in T /\ \A y \in T : y <= last
  <2>1. T \in SUBSET (0 .. Len(p)) /\ T # {}
    BY <1>1
  <2>. QED  BY <1>1, <1>3, <2>1, Extremes
<1>5. d <= p[last].end
  <2>1. CASE last = Len(p)
    BY <1>1, <2>1
  <2>2. CASE last # Len(p)
    <3>1. last + 1 \in 2 .. Len(p) /\ last + 1 \in 1 .. Len(p) /\ (last + 1) - 1 = last
      BY <1>1, <1>4, <2>2
    <3>2. last + 1 \notin T
      BY <1>4, <3>1
    <3>3. d <= p[last + 1].begin
      BY <1>2, <3>1, <3>2
    <3>. QED  BY <1>1, <3>1, <3>3
  <2>. QED  BY <2>1, <2>2
<1>6. ASSUME NEW x \in 1 .. last
      PROVE  p[x].begin < d
  <2>1. x \in 1 .. Len(p) /\ last \in 1 .. Len(p) /\ p[last].begin < d
    BY <1>4
  <2>2. p[x].begin <= p[last].begin
    <3>1. CASE x = last
      BY <1>2, <2>1, <3>1
    <3>2. CASE x # last
      <4>1. x < last
        BY <2>1, <3>2
      <4>. QED  BY <1>2, <2>1, <4>1
    <3>. QED  BY <3>1, <3>2
  <2>. QED  BY <1>2, <2>1, <2>2
<1>. QED  BY <1>4, <1>5, <1>6

\* add_job_first_fit starts a job at once just when it fits on the machines that
\* are free until it would end.
THEOREM StartsIfFree ==
  ASSUME NEW J, NEW M, IsFiniteSet(M), NEW n, NEW p, IsSound(p, J, M, n),
         NEW c \in Int, NEW w \in Nat \ {0}, Places(M, c),
         NEW alloc, IsPlace(alloc, p, M, c, w)
  PROVE  alloc.startedInFirstSlice
           <=> Fit(FreeUntil(p, J, M, p[1].begin + w), c) # {}
<1>1. /\ p \in Seq(SlicesOver(J, M)) /\ IsPartition(p, J, M, n)
      /\ Len(p) \in Nat /\ 1 \in 1 .. Len(p)
      /\ alloc.first \in 1 .. Len(p) /\ alloc.last \in 1 .. Len(p)
      /\ alloc.startedInFirstSlice <=> alloc.first = 1
  BY LenProperties DEF IsSound, IsPartition, IsPlace
<1>2. /\ \A y \in 1 .. Len(p) : p[y].begin \in Int /\ p[y].end \in Int
      /\ \A y, z \in 1 .. Len(p) : y < z => p[y].end <= p[z].begin
  BY <1>1, Dates
<1>3. PICK d, F : d = p[1].begin + w /\ F = FreeUntil(p, J, M, d)
  OBVIOUS
<1>4. d \in Int /\ p[1].begin < d /\ F \in SUBSET M
  BY <1>1, <1>2, <1>3 DEF FreeUntil
<1>5. ASSUME alloc.first = 1
      PROVE  Fit(F, c) # {}
  <2>1. /\ alloc.machines \in SUBSET M /\ CanHold(alloc.machines, M, c)
        /\ \A x \in 1 .. alloc.last : alloc.machines \subseteq p[x].available
        /\ d <= p[alloc.last].end
    BY <1>3, <1>5 DEF IsPlace
  <2>2. alloc.machines \subseteq F
    BY <1>1, <1>3, <1>4, <2>1, SlicesFree
  <2>. QED  BY <1>4, <2>1, <2>2 DEF CanHold
<1>6. ASSUME Fit(F, c) # {}
      PROVE  alloc.first = 1
  <2>1. PICK X : X = Fit(F, c)
    OBVIOUS
  <2>2. X \subseteq F /\ Cardinality(X) = c /\ CanHold(X, M, c)
    BY <1>4, <1>6, <2>1 DEF Places
  <2>3. d <= Infinity
    <3>1. alloc.begin + w <= p[alloc.last].end /\ alloc.begin = p[alloc.first].begin
      BY DEF IsPlace
    <3>2. p[1].begin <= p[alloc.first].begin
      <4>1. CASE alloc.first = 1
        BY <1>1, <1>2, <4>1
      <4>2. CASE alloc.first # 1
        <5>1. 1 < alloc.first
          BY <1>1, <4>2
        <5>2. p[1].begin <= p[1].end /\ p[1].end <= p[alloc.first].begin
          BY <1>1, <1>2, <5>1, Dates
        <5>. QED  BY <1>1, <1>2, <5>2
      <4>. QED  BY <4>1, <4>2
    <3>3. p[alloc.last].end <= Infinity /\ Infinity \in Int
      <4>1. p[Len(p)].end = Infinity /\ Len(p) \in 1 .. Len(p)
        BY <1>1 DEF IsPartition
      <4>2. CASE alloc.last = Len(p)
        BY <1>2, <4>1, <4>2
      <4>3. CASE alloc.last # Len(p)
        <5>1. alloc.last < Len(p)
          BY <1>1, <4>3
        <5>2. /\ p[alloc.last].end <= p[Len(p)].begin
              /\ p[Len(p)].begin <= p[Len(p)].end
          BY <1>1, <1>2, <4>1, <5>1, Dates
        <5>. QED  BY <1>1, <1>2, <4>1, <5>2
      <4>. QED  BY <1>2, <4>1, <4>2, <4>3
    <3>4. /\ p[alloc.last].end \in Int /\ p[1].begin \in Int
          /\ p[alloc.first].begin \in Int /\ w \in Int
      BY <1>1, <1>2
    <3>. QED  BY <1>3, <3>1, <3>2, <3>3, <3>4
  <2>4. PICK last \in 1 .. Len(p) : /\ d <= p[last].end
                                    /\ \A x \in 1 .. last : p[x].begin < d
    BY <1>1, <1>4, <2>3, LastSliceBefore
  <2>5. \A x \in 1 .. last : X \subseteq p[x].available
    <3>1. \A x \in 1 .. last : x \in 1 .. Len(p)
      BY <1>1
    <3>2. \A x \in 1 .. last : F \subseteq p[x].available
      BY <1>3, <1>4, <2>4, <3>1, FreeInSlice
    <3>. QED  BY <2>2, <3>2
  <2>6. PICK k \in 1 .. last : IsAnchor(p, Cardinality(X), w, 1, k)
    <3>1. last \in 1 .. Len(p) /\ w \in Int /\ p[last].end - p[1].begin >= w
      BY <1>1, <1>2, <1>3, <2>4
    <3>. QED  BY <1>1, <2>2, <2>5, <3>1, AnchorFrom
  <2>7. k \in 1 .. Len(p) /\ IsAnchor(p, c, w, 1, k)
    BY <1>1, <2>2, <2>6
  <2>8. alloc.first <= 1
    BY <1>1, <2>7 DEF IsPlace
  <2>. QED  BY <1>1, <2>8
<1>. QED  BY <1>1, <1>3, <1>5, <1>6
===============================================================================
