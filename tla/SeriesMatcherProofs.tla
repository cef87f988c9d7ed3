-------------------------- MODULE SeriesMatcherProofs --------------------------
(***************************************************************************)
(* Proofs about SeriesMatcher, for every set of persons, of stamps, and    *)
(* every length of the lists that the vault returns: the sort of           *)
(* match_path_2 has one first candidate, what is offered is that one, and  *)
(* nothing but the owner's consent binds a guess.                          *)
(***************************************************************************)
EXTENDS SeriesMatcher, TLAPS, FiniteSetTheorems, SequenceTheorems, WellFoundedInduction

USE SeriesAssumption

-----------------------------------------------------------------------------
(* Overlaps are compared as fractions, over natural numbers.               *)

LEMMA Scales ==
    ASSUME NEW x \in Nat, NEW y \in Nat, NEW k \in Nat
    PROVE  /\ x <= y => k * x <= k * y
           /\ x < y /\ k > 0 => k * x < k * y
           /\ k > 0 /\ k * x <= k * y => x <= y
           /\ k * x < k * y => x < y
OBVIOUS

\* m/n is at least p/q, and p/q at least r/s.
LEMMA AtLeastTransitive ==
    ASSUME NEW m \in Nat, NEW n \in Nat, NEW p \in Nat, NEW q \in Nat,
           NEW r \in Nat, NEW s \in Nat, n > 0, q > 0, s > 0,
           p * n <= m * q, r * q <= p * s
    PROVE  /\ r * n <= m * s
           /\ p * n < m * q \/ r * q < p * s => r * n < m * s
<1>1. s * (p * n) <= s * (m * q) /\ n * (r * q) <= n * (p * s)
  BY Scales
<1>2. q * (r * n) <= q * (m * s)
  BY <1>1
<1>3. p * n < m * q => s * (p * n) < s * (m * q)
  BY Scales
<1>4. r * q < p * s => n * (r * q) < n * (p * s)
  BY Scales
<1>5. p * n < m * q \/ r * q < p * s => q * (r * n) < q * (m * s)
  BY <1>1, <1>3, <1>4
<1> QED BY <1>2, <1>5, Scales

\* The numbers the scoring works with.
LEMMA Counts ==
    ASSUME attendees \in SUBSET Persons, NEW S \in SUBSET Persons
    PROVE  /\ Common(S) \in Nat /\ Union(S) \in Nat
           /\ S # {} => Union(S) > 0
<1>1. IsFiniteSet(attendees \cap S) /\ IsFiniteSet(attendees \cup S)
  BY FS_Subset
<1> QED BY <1>1, FS_CardinalityType, FS_EmptySet DEF Common, Union

-----------------------------------------------------------------------------
(* The order of the sort.                                                  *)

\* S overlaps at least as much as T.
AtLeast(S, T) == Common(T) * Union(S) <= Common(S) * Union(T)

LEMMA OverlapOrder ==
    ASSUME attendees \in SUBSET Persons,
           NEW S \in SUBSET Persons, NEW T \in SUBSET Persons, NEW V \in SUBSET Persons,
           S # {}, T # {}, V # {}
    PROVE  /\ ~ Overlaps(T, S) <=> AtLeast(S, T)
           /\ Overlaps(S, T) => AtLeast(S, T)
           /\ AtLeast(S, T) /\ AtLeast(T, V) => AtLeast(S, V)
           /\ AtLeast(S, T) /\ AtLeast(T, V) /\ (Overlaps(S, T) \/ Overlaps(T, V))
                 => Overlaps(S, V)
<1>1. /\ Common(S) \in Nat /\ Common(T) \in Nat /\ Common(V) \in Nat
      /\ Union(S) \in Nat /\ Union(T) \in Nat /\ Union(V) \in Nat
      /\ Union(S) > 0 /\ Union(T) > 0 /\ Union(V) > 0
  BY Counts
<1>2. \A x, y \in Nat : x * y \in Nat
  OBVIOUS
<1>3. /\ ~ Overlaps(T, S) <=> AtLeast(S, T)
      /\ Overlaps(S, T) => AtLeast(S, T)
  <2>1. Common(T) * Union(S) \in Nat /\ Common(S) * Union(T) \in Nat
    BY <1>1, <1>2
  <2> QED BY <2>1 DEF Overlaps, AtLeast
<1>4. ASSUME AtLeast(S, T), AtLeast(T, V)
      PROVE  /\ AtLeast(S, V)
             /\ Overlaps(S, T) \/ Overlaps(T, V) => Overlaps(S, V)
  <2>1. /\ Common(V) * Union(S) <= Common(S) * Union(V)
        /\ (\/ Common(T) * Union(S) < Common(S) * Union(T)
            \/ Common(V) * Union(T) < Common(T) * Union(V))
              => Common(V) * Union(S) < Common(S) * Union(V)
    BY <1>1, <1>4, AtLeastTransitive DEF AtLeast
  <2>2. /\ Common(V) * Union(S) \in Nat /\ Common(S) * Union(V) \in Nat
        /\ Common(T) * Union(S) \in Nat /\ Common(S) * Union(T) \in Nat
        /\ Common(V) * Union(T) \in Nat /\ Common(T) * Union(V) \in Nat
    BY <1>1, <1>2
  <2>3. /\ Overlaps(S, T) => Common(T) * Union(S) < Common(S) * Union(T)
        /\ Overlaps(T, V) => Common(V) * Union(T) < Common(T) * Union(V)
        /\ Common(V) * Union(S) < Common(S) * Union(V) => Overlaps(S, V)
    BY <2>2 DEF Overlaps
  <2> QED BY <2>1, <2>3 DEF AtLeast
<1> QED BY <1>3, <1>4

\* A set of indices has a least one: the set of those up to it is minimal.
LEMMA LeastIndex ==
    ASSUME NEW n \in Nat, NEW K \in SUBSET (1 .. n), K # {}
    PROVE  \E k \in K : \A l \in K : k <= l
<1> DEFINE Upto(k) == {l \in K : l <= k}
           Ups == {Upto(k) : k \in K}
           R == StrictSubsetOrdering(K)
<1>1. IsFiniteSet(K)
  <2>1. 1 \in Int /\ n \in Int
    OBVIOUS
  <2>2. IsFiniteSet(1 .. n)
    BY <2>1, FS_Interval
  <2> QED BY <2>2, FS_Subset
<1>2. IsWellFoundedOn(R, SUBSET K)
  <2>1. IsWellFoundedOn(R, FiniteSubsetsOf(K))
    BY <1>1, FS_StrictSubsetOrderingWellFounded
  <2> QED BY <1>1, <2>1, FS_FiniteSubsetsOfFinite
<1>3. Ups \subseteq SUBSET K /\ Ups # {}
  <2>1. \A k \in K : Upto(k) \in SUBSET K
    OBVIOUS
  <2> HIDE DEF Upto
  <2> QED BY <2>1
<1>4. \E x \in Ups : \A y \in Ups : ~ (<<y, x>> \in R)
  <2> HIDE DEF Ups, R
  <2> QED BY <1>2, <1>3, WFMin
<1>5. PICK k \in K : \A y \in Ups : ~ (<<y, Upto(k)>> \in R)
  BY <1>4
<1>6. \A l \in K : k <= l
  <2> SUFFICES ASSUME NEW l \in K, ~ (k <= l) PROVE FALSE
    OBVIOUS
  <2>1. k \in Nat /\ l \in Nat /\ K \subseteq Nat
    OBVIOUS
  <2>2. (\A m \in K : m <= l => m <= k) /\ k <= k
    BY <2>1
  <2>3. Upto(l) \subseteq Upto(k) /\ k \in Upto(k) /\ k \notin Upto(l)
    BY <2>1, <2>2
  <2>4. <<Upto(l), Upto(k)>> \in R
    <3>1. \A x, y \in SUBSET K : x \subseteq y /\ x # y => <<x, y>> \in R
      BY DEF StrictSubsetOrdering
    <3>2. Upto(l) \in SUBSET K /\ Upto(k) \in SUBSET K /\ Upto(l) # Upto(k)
      BY <2>3
    <3> HIDE DEF Upto, R
    <3> QED BY <2>3, <3>1, <3>2
  <2> QED BY <1>5, <2>4
<1> QED BY <1>6

\* The indices of a stamp, and the parts before one of them.
LEMMA Indices ==
    ASSUME NEW s \in Seq(Nat)
    PROVE  /\ Len(s) \in Nat /\ DOMAIN s = 1 .. Len(s)
           /\ \A k \in DOMAIN s : s[k] \in Nat /\ k \in Nat /\ k >= 1 /\ k <= Len(s)
           /\ \A k \in DOMAIN s : \A l \in 1 .. k - 1 : l \in DOMAIN s /\ l < k
<1>1. Len(s) \in Nat /\ DOMAIN s = 1 .. Len(s) /\ \A k \in 1 .. Len(s) : s[k] \in Nat
  OBVIOUS
<1>2. \A n \in Nat : \A k \in 1 .. n : \A l \in 1 .. k - 1 : l \in 1 .. n /\ l < k
  OBVIOUS
<1> QED BY <1>1, <1>2

\* Two stamps differ at a first part, or one is a prefix of the other.
LEMMA StampCases ==
    ASSUME NEW s \in Seq(Nat), NEW t \in Seq(Nat), s # t
    PROVE  Later(s, t) \/ Later(t, s) \/ Coarser(s, t) \/ Coarser(t, s)
<1> DEFINE K == {k \in DOMAIN s \cap DOMAIN t : s[k] # t[k]}
<1>1. /\ Len(s) \in Nat /\ DOMAIN s = 1 .. Len(s)
      /\ Len(t) \in Nat /\ DOMAIN t = 1 .. Len(t)
  BY Indices
<1>2. CASE K = {}
  <2>1. \A k \in DOMAIN s \cap DOMAIN t : s[k] = t[k]
    BY <1>2
  <2>2. CASE Len(s) < Len(t)
    <3>1. \A k \in DOMAIN s : k \in DOMAIN t
      BY <1>1, <2>2
    <3> QED BY <2>1, <2>2, <3>1 DEF Coarser
  <2>3. CASE Len(t) < Len(s)
    <3>1. \A k \in DOMAIN t : k \in DOMAIN s
      BY <1>1, <2>3
    <3>2. \A k \in DOMAIN t : t[k] = s[k]
      BY <2>1, <3>1
    <3> QED BY <2>3, <3>2 DEF Coarser
  <2>4. ASSUME Len(s) = Len(t) PROVE FALSE
    <3>1. \A k \in 1 .. Len(s) : s[k] = t[k]
      BY <1>1, <2>1, <2>4
    <3>2. s = t
      BY <2>4, <3>1, SeqEqual
    <3> QED BY <3>2
  <2>5. Len(s) < Len(t) \/ Len(t) < Len(s) \/ Len(s) = Len(t)
    <3>1. \A x, y \in Nat : x < y \/ y < x \/ x = y
      OBVIOUS
    <3> QED BY <1>1, <3>1
  <2> QED BY <2>2, <2>3, <2>4, <2>5
<1>3. CASE K # {}
  <2>1. PICK k \in K : \A l \in K : k <= l
    <3>1. K \in SUBSET (1 .. Len(s))
      BY <1>1
    <3> HIDE DEF K
    <3> QED BY <1>1, <1>3, <3>1, LeastIndex
  <2>2. k \in DOMAIN s \cap DOMAIN t /\ s[k] # t[k]
    OBVIOUS
  <2>3. \A l \in 1 .. k - 1 : s[l] = t[l]
    <3> SUFFICES ASSUME NEW l \in 1 .. k - 1, s[l] # t[l] PROVE FALSE
      OBVIOUS
    <3>1. l \in DOMAIN s \cap DOMAIN t /\ l < k /\ k \in Nat
      BY <2>2, Indices
    <3>2. k <= l
      BY <2>1, <3>1
    <3>3. l \in Nat
      BY <3>1, Indices
    <3> QED BY <3>1, <3>2, <3>3
  <2>4. s[k] > t[k] \/ t[k] > s[k]
    <3>1. s[k] \in Nat /\ t[k] \in Nat
      BY <2>2, Indices
    <3> QED BY <2>2, <3>1
  <2> QED BY <2>2, <2>3, <2>4 DEF Later
<1> QED BY <1>2, <1>3

\* What it takes for s to sort before u at part k.
LEMMA SortsAt ==
    ASSUME NEW s, NEW u, NEW k \in DOMAIN s \cap DOMAIN u, s[k] > u[k],
           \A l \in 1 .. k - 1 : s[l] = u[l]
    PROVE  StampBefore(s, u)
BY DEF StampBefore, Later

LEMMA StampTransitive ==
    ASSUME NEW s \in Seq(Nat), NEW t \in Seq(Nat), NEW u \in Seq(Nat),
           StampBefore(s, t), StampBefore(t, u)
    PROVE  StampBefore(s, u)
<1>1. /\ Len(s) \in Nat /\ DOMAIN s = 1 .. Len(s)
      /\ Len(t) \in Nat /\ DOMAIN t = 1 .. Len(t)
      /\ Len(u) \in Nat /\ DOMAIN u = 1 .. Len(u)
  BY Indices
<1>2. CASE Coarser(s, t) /\ Coarser(t, u)
  <2>1. Len(s) < Len(t) /\ Len(t) < Len(u) /\ \A k \in DOMAIN s : k \in DOMAIN t
    BY <1>1, <1>2 DEF Coarser
  <2>2. \A k \in DOMAIN s : s[k] = u[k]
    BY <1>2, <2>1 DEF Coarser
  <2>3. Len(s) < Len(u)
    BY <1>1, <2>1
  <2> QED BY <2>2, <2>3 DEF StampBefore, Coarser
<1>3. CASE Coarser(s, t) /\ Later(t, u)
  <2>1. PICK k \in DOMAIN t \cap DOMAIN u : t[k] > u[k] /\ \A l \in 1 .. k - 1 : t[l] = u[l]
    BY <1>3 DEF Later
  <2>2. \A l \in DOMAIN s : s[l] = t[l]
    BY <1>3 DEF Coarser
  <2>3. CASE k \in DOMAIN s
    <3>1. \A l \in 1 .. k - 1 : l \in DOMAIN s
      BY <2>3, Indices
    <3>2. s[k] > u[k] /\ \A l \in 1 .. k - 1 : s[l] = u[l]
      BY <2>1, <2>2, <2>3, <3>1
    <3> QED BY <2>1, <2>3, <3>2, SortsAt
  <2>4. CASE k \notin DOMAIN s
    <3>1. k \in Nat /\ k >= 1 /\ k <= Len(u)
      BY <2>1, Indices
    <3>2. Len(s) < k
      BY <1>1, <2>4, <3>1
    <3>3. Len(s) < Len(u) /\ \A l \in DOMAIN s : l \in 1 .. k - 1
      BY <1>1, <3>1, <3>2
    <3>4. \A l \in DOMAIN s : s[l] = u[l]
      BY <2>1, <2>2, <3>3
    <3> QED BY <3>3, <3>4 DEF StampBefore, Coarser
  <2> QED BY <2>3, <2>4
<1>4. CASE Later(s, t) /\ Coarser(t, u)
  <2>1. PICK k \in DOMAIN s \cap DOMAIN t : s[k] > t[k] /\ \A l \in 1 .. k - 1 : s[l] = t[l]
    BY <1>4 DEF Later
  <2>2. \A l \in DOMAIN t : l \in DOMAIN u /\ t[l] = u[l]
    BY <1>1, <1>4 DEF Coarser
  <2>3. \A l \in 1 .. k - 1 : l \in DOMAIN t
    BY <2>1, Indices
  <2>4. s[k] > u[k] /\ \A l \in 1 .. k - 1 : s[l] = u[l]
    BY <2>1, <2>2, <2>3
  <2> QED BY <2>1, <2>2, <2>4, SortsAt
<1>5. CASE Later(s, t) /\ Later(t, u)
  <2>1. PICK k \in DOMAIN s \cap DOMAIN t : s[k] > t[k] /\ \A l \in 1 .. k - 1 : s[l] = t[l]
    BY <1>5 DEF Later
  <2>2. PICK m \in DOMAIN t \cap DOMAIN u : t[m] > u[m] /\ \A l \in 1 .. m - 1 : t[l] = u[l]
    BY <1>5 DEF Later
  <2>3. k \in Nat /\ k >= 1 /\ m \in Nat /\ m >= 1
    BY <2>1, <2>2, Indices
  <2>4. CASE k < m
    <3>1. k \in 1 .. m - 1 /\ \A l \in 1 .. k - 1 : l \in 1 .. m - 1
      BY <2>3, <2>4
    <3>2. k \in DOMAIN u
      BY <2>2, <3>1, Indices
    <3>3. s[k] > u[k] /\ \A l \in 1 .. k - 1 : s[l] = u[l]
      BY <2>1, <2>2, <3>1
    <3> QED BY <2>1, <3>2, <3>3, SortsAt
  <2>5. CASE m < k
    <3>1. m \in 1 .. k - 1 /\ \A l \in 1 .. m - 1 : l \in 1 .. k - 1
      BY <2>3, <2>5
    <3>2. m \in DOMAIN s
      BY <2>1, <3>1, Indices
    <3>3. s[m] > u[m] /\ \A l \in 1 .. m - 1 : s[l] = u[l]
      BY <2>1, <2>2, <3>1
    <3> QED BY <2>2, <3>2, <3>3, SortsAt
  <2>6. CASE k = m
    <3>1. s[k] \in Nat /\ t[k] \in Nat /\ u[k] \in Nat
      BY <2>1, <2>2, <2>6, Indices
    <3>2. s[k] > u[k]
      BY <2>1, <2>2, <2>6, <3>1
    <3>3. \A l \in 1 .. k - 1 : s[l] = u[l]
      BY <2>1, <2>2, <2>6
    <3> QED BY <2>1, <2>2, <2>6, <3>2, <3>3, SortsAt
  <2> QED BY <2>3, <2>4, <2>5, <2>6
<1> QED BY <1>2, <1>3, <1>4, <1>5 DEF StampBefore

\* The order of the stamps is strict and total, so the sort never depends on anything
\* but the stamps and the order of the results.
LEMMA StampOrder ==
    ASSUME NEW s \in Seq(Nat), NEW t \in Seq(Nat), NEW u \in Seq(Nat)
    PROVE  /\ ~ StampBefore(s, s)
           /\ s # t => StampBefore(s, t) \/ StampBefore(t, s)
           /\ StampBefore(s, t) /\ StampBefore(t, u) => StampBefore(s, u)
           /\ StampBefore(s, t) => ~ Later(t, s)
<1>1. ASSUME NEW v \in Seq(Nat) PROVE ~ StampBefore(v, v)
  <2>1. Len(v) \in Nat /\ \A k \in DOMAIN v : v[k] \in Nat
    OBVIOUS
  <2> QED BY <2>1 DEF StampBefore, Later, Coarser
<1>2. StampBefore(s, t) => ~ Later(t, s)
  <2> SUFFICES ASSUME StampBefore(s, t), Later(t, s) PROVE FALSE
    OBVIOUS
  <2>1. StampBefore(t, s)
    BY DEF StampBefore
  <2> QED BY <1>1, <2>1, StampTransitive
<1> QED BY <1>1, <1>2, StampCases, StampTransitive DEF StampBefore

\* What the vault returned, and the candidates in it.
LEMMA ScoredNotes ==
    ASSUME NEW found \in Results
    PROVE  /\ \E n \in Nat : n <= MaxNotes /\ DOMAIN found = 1 .. n
           /\ found \in Seq(Notes) /\ Len(found) <= MaxNotes
           /\ \A i \in DOMAIN found : /\ found[i].typical \in SUBSET Persons
                                      /\ found[i].updated \in Seq(Nat)
           /\ Scored(found) \subseteq DOMAIN found
           /\ \A i \in Scored(found) : found[i].typical # {}
<1>1. PICK n \in 0 .. MaxNotes : found \in [1 .. n -> Notes]
  BY DEF Results
<1>2. found \in Seq(Notes) /\ Len(found) = n /\ DOMAIN found = 1 .. n
  BY <1>1
<1>3. \A i \in DOMAIN found : found[i] \in Notes
  BY <1>1
<1>4. \A i \in DOMAIN found : /\ found[i].typical \in SUBSET Persons
                               /\ found[i].updated \in Seq(Nat)
  BY <1>3 DEF Notes
<1>5. n \in Nat /\ n <= MaxNotes
  OBVIOUS
<1> QED BY <1>2, <1>4, <1>5 DEF Scored

\* The order of the candidates is strict and total.
LEMMA SortOrder ==
    ASSUME attendees \in SUBSET Persons, NEW found \in Results,
           NEW i \in Scored(found), NEW j \in Scored(found), NEW k \in Scored(found)
    PROVE  /\ ~ Before(found, i, i)
           /\ i # j => Before(found, i, j) \/ Before(found, j, i)
           /\ Before(found, i, j) /\ Before(found, j, k) => Before(found, i, k)
<1> DEFINE S == found[i].typical
           T == found[j].typical
           V == found[k].typical
           s == found[i].updated
           t == found[j].updated
           u == found[k].updated
<1>1. /\ S \in SUBSET Persons /\ T \in SUBSET Persons /\ V \in SUBSET Persons
      /\ S # {} /\ T # {} /\ V # {}
      /\ s \in Seq(Nat) /\ t \in Seq(Nat) /\ u \in Seq(Nat)
      /\ i \in Nat /\ j \in Nat /\ k \in Nat
  BY ScoredNotes
<1>2. /\ Before(found, i, j) <=> \/ Overlaps(S, T)
                                 \/ ~ Overlaps(T, S) /\ StampBefore(s, t)
                                 \/ ~ Overlaps(T, S) /\ s = t /\ i < j
      /\ Before(found, j, i) <=> \/ Overlaps(T, S)
                                 \/ ~ Overlaps(S, T) /\ StampBefore(t, s)
                                 \/ ~ Overlaps(S, T) /\ t = s /\ j < i
      /\ Before(found, j, k) <=> \/ Overlaps(T, V)
                                 \/ ~ Overlaps(V, T) /\ StampBefore(t, u)
                                 \/ ~ Overlaps(V, T) /\ t = u /\ j < k
      /\ Before(found, i, k) <=> \/ Overlaps(S, V)
                                 \/ ~ Overlaps(V, S) /\ StampBefore(s, u)
                                 \/ ~ Overlaps(V, S) /\ s = u /\ i < k
      /\ Before(found, i, i) <=> \/ Overlaps(S, S)
                                 \/ ~ Overlaps(S, S) /\ StampBefore(s, s)
                                 \/ ~ Overlaps(S, S) /\ s = s /\ i < i
  BY DEF Before
<1> HIDE DEF S, T, V, s, t, u
<1>3. ~ Overlaps(S, S) /\ ~ StampBefore(s, s)
  <2>1. Common(S) * Union(S) \in Nat
    BY <1>1, Counts
  <2> QED BY <1>1, <2>1, StampOrder DEF Overlaps
<1>4. i # j => Before(found, i, j) \/ Before(found, j, i)
  <2>1. s # t => StampBefore(s, t) \/ StampBefore(t, s)
    BY <1>1, StampOrder
  <2> QED BY <1>1, <1>2, <2>1
<1>5. ASSUME Before(found, i, j), Before(found, j, k) PROVE Before(found, i, k)
  <2>1. /\ Overlaps(S, T) => AtLeast(S, T)
        /\ Overlaps(T, V) => AtLeast(T, V)
        /\ ~ Overlaps(T, S) <=> AtLeast(S, T)
        /\ ~ Overlaps(V, T) <=> AtLeast(T, V)
        /\ ~ Overlaps(V, S) <=> AtLeast(S, V)
        /\ AtLeast(S, T) /\ AtLeast(T, V) => AtLeast(S, V)
        /\ AtLeast(S, T) /\ AtLeast(T, V) /\ (Overlaps(S, T) \/ Overlaps(T, V))
              => Overlaps(S, V)
    BY <1>1, OverlapOrder
  <2>2. AtLeast(S, T) /\ AtLeast(T, V)
    BY <1>2, <1>5, <2>1
  <2>3. CASE Overlaps(S, T) \/ Overlaps(T, V)
    BY <1>2, <2>1, <2>2, <2>3
  <2>4. CASE ~ Overlaps(S, T) /\ ~ Overlaps(T, V)
    <3>1. (StampBefore(s, t) \/ (s = t /\ i < j)) /\ (StampBefore(t, u) \/ (t = u /\ j < k))
      BY <1>2, <1>5, <2>4
    <3>2. StampBefore(s, u) \/ (s = u /\ i < k)
      BY <1>1, <3>1, StampOrder
    <3> QED BY <1>2, <2>1, <2>2, <3>2
  <2> QED BY <2>3, <2>4
<1> QED BY <1>2, <1>1, <1>3, <1>4, <1>5

\* scored.sort(...) puts one candidate first, whenever there is one: a set of
\* the candidates before one of them is minimal.
THEOREM SortHasOneFirst ==
    ASSUME attendees \in SUBSET Persons, NEW found \in Results, Scored(found) # {}
    PROVE  \E i \in Scored(found) : Best(found) = {i}
<1> DEFINE C == Scored(found)
           Upto(i) == {j \in C : j = i \/ Before(found, j, i)}
           Ups == {Upto(i) : i \in C}
           R == StrictSubsetOrdering(C)
<1>1. IsFiniteSet(C)
  <2>1. PICK n \in Nat : DOMAIN found = 1 .. n
    BY ScoredNotes
  <2>2. IsFiniteSet(1 .. n)
    BY FS_Interval
  <2> QED BY <2>1, <2>2, ScoredNotes, FS_Subset
<1>2. /\ \A i, j \in C : /\ ~ Before(found, i, i)
                         /\ i # j => Before(found, i, j) \/ Before(found, j, i)
      /\ \A i, j, k \in C :
            Before(found, i, j) /\ Before(found, j, k) => Before(found, i, k)
  BY SortOrder
<1>3. /\ C # {}
      /\ Best(found) = {i \in C : \A j \in C \ {i} : Before(found, i, j)}
  BY DEF Best
<1> HIDE DEF C
<1>4. IsWellFoundedOn(R, SUBSET C)
  <2>1. IsWellFoundedOn(R, FiniteSubsetsOf(C))
    BY <1>1, FS_StrictSubsetOrderingWellFounded
  <2> QED BY <1>1, <2>1, FS_FiniteSubsetsOfFinite
<1>5. Ups \subseteq SUBSET C /\ Ups # {}
  <2>1. \A i \in C : Upto(i) \in SUBSET C
    OBVIOUS
  <2> HIDE DEF Upto
  <2> QED BY <1>3, <2>1
<1>6. \E x \in Ups : \A y \in Ups : ~ (<<y, x>> \in R)
  <2> HIDE DEF Ups, R
  <2> QED BY <1>4, <1>5, WFMin
<1>7. PICK i \in C : \A y \in Ups : ~ (<<y, Upto(i)>> \in R)
  BY <1>6
<1>8. \A j \in C \ {i} : Before(found, i, j)
  <2> SUFFICES ASSUME NEW j \in C, j # i, ~ Before(found, i, j) PROVE FALSE
    OBVIOUS
  <2>1. Before(found, j, i) /\ ~ Before(found, i, j)
    BY <1>2
  <2>2. Upto(j) \subseteq Upto(i)
    BY <1>2, <2>1
  <2>3. i \in Upto(i) /\ i \notin Upto(j)
    BY <2>1
  <2>4. <<Upto(j), Upto(i)>> \in R
    <3>1. \A x, y \in SUBSET C : x \subseteq y /\ x # y => <<x, y>> \in R
      BY DEF StrictSubsetOrdering
    <3>2. Upto(j) \in SUBSET C /\ Upto(i) \in SUBSET C /\ Upto(j) # Upto(i)
      BY <2>3
    <3> HIDE DEF Upto, R
    <3> QED BY <2>2, <3>1, <3>2
  <2>5. Upto(j) \in Ups
    OBVIOUS
  <2> HIDE DEF Upto, Ups, R
  <2> QED BY <1>7, <2>4, <2>5
<1>9. \A k \in C : (\A j \in C \ {k} : Before(found, k, j)) => k = i
  <2> SUFFICES ASSUME NEW k \in C, k # i, Before(found, k, i) PROVE FALSE
    OBVIOUS
  <2>1. Before(found, i, k)
    BY <1>8
  <2> QED BY <1>2, <2>1
<1>10. Best(found) = {i}
  <2> HIDE DEF Upto, Ups, R
  <2> QED BY <1>3, <1>8, <1>9
<1> QED BY <1>10 DEF C
-----------------------------------------------------------------------------
(* The steps.                                                              *)

\* What the choice of a candidate says about all others.
LEMMA FirstIsBest ==
    ASSUME attendees \in SUBSET Persons, NEW found \in Results,
           NEW i \in Best(found)
    PROVE  LET S == found[i].typical IN
           /\ i \in DOMAIN found
           /\ S # {} /\ 2 * Common(S) >= Union(S)
           /\ \A j \in DOMAIN found :
                 LET T == found[j].typical IN
                 T # {} =>
                   /\ Common(T) * Union(S) <= Common(S) * Union(T)
                   /\ Common(T) * Union(S) = Common(S) * Union(T)
                         => ~ Later(found[j].updated, found[i].updated)
<1> DEFINE S == found[i].typical
<1>1. i \in Scored(found) /\ \A j \in Scored(found) \ {i} : Before(found, i, j)
  BY DEF Best
<1>2. i \in DOMAIN found /\ S # {} /\ 2 * Common(S) >= Union(S)
  BY <1>1 DEF Scored, Clears
<1>3. S \in SUBSET Persons /\ found[i].updated \in Seq(Nat)
  BY <1>2, ScoredNotes
<1>4. Common(S) \in Nat /\ Union(S) \in Nat /\ Union(S) > 0
  BY <1>2, <1>3, Counts
<1>5. ASSUME NEW j \in DOMAIN found, found[j].typical # {}
      PROVE  /\ AtLeast(S, found[j].typical)
             /\ ~ Overlaps(S, found[j].typical)
                   => ~ Later(found[j].updated, found[i].updated)
  <2> DEFINE T == found[j].typical
  <2>1. T \in SUBSET Persons /\ found[j].updated \in Seq(Nat)
    BY ScoredNotes
  <2>2. Common(T) \in Nat /\ Union(T) \in Nat /\ Union(T) > 0
    BY <1>5, <2>1, Counts
  <2> HIDE DEF S, T
  <2>3. CASE j = i
    <3>1. ~ Later(found[i].updated, found[i].updated)
      BY <1>3, StampOrder DEF StampBefore
    <3> QED BY <1>3, <1>4, <2>3, <3>1 DEF AtLeast, S, T
  <2>4. CASE j # i /\ j \in Scored(found)
    <3>1. \/ Overlaps(S, T)
          \/ ~ Overlaps(T, S) /\ StampBefore(found[i].updated, found[j].updated)
          \/ ~ Overlaps(T, S) /\ found[i].updated = found[j].updated
      BY <1>1, <2>4 DEF Before, S, T
    <3>2. AtLeast(S, T)
      BY <1>2, <1>3, <1>5, <2>1, <3>1, OverlapOrder DEF S, T
    <3>3. ~ Overlaps(S, T) => ~ Later(found[j].updated, found[i].updated)
      <4>1. ~ StampBefore(found[i].updated, found[i].updated)
        BY <1>3, StampOrder
      <4> QED BY <1>3, <2>1, <3>1, <4>1, StampOrder DEF StampBefore
    <3> QED BY <3>2, <3>3 DEF T
  <2>5. CASE j \notin Scored(found)
    <3>1. 2 * Common(T) < Union(T)
      BY <1>5, <2>2, <2>5 DEF Scored, Clears, T
    <3>2. Union(S) * Common(T) <= (2 * Common(S)) * Common(T)
      BY <1>2, <1>4, <2>2, Scales DEF S
    <3>3. Common(S) * (2 * Common(T)) < Common(S) * Union(T)
      BY <1>2, <1>4, <2>2, <3>1, Scales DEF S
    <3>4. Common(T) * Union(S) < Common(S) * Union(T)
      BY <1>4, <2>2, <3>2, <3>3
    <3>5. Common(T) * Union(S) \in Nat /\ Common(S) * Union(T) \in Nat
      BY <1>4, <2>2
    <3> QED BY <3>4, <3>5 DEF AtLeast, Overlaps, T
  <2> QED BY <2>3, <2>4, <2>5
<1>6. ASSUME NEW j \in DOMAIN found, found[j].typical # {},
             Common(found[j].typical) * Union(S) = Common(S) * Union(found[j].typical)
      PROVE  ~ Overlaps(S, found[j].typical)
  <2>1. Common(S) * Union(found[j].typical) \in Nat
    <3>1. found[j].typical \in SUBSET Persons
      BY <1>6, ScoredNotes
    <3>2. Common(S) \in Nat /\ Union(found[j].typical) \in Nat
      BY <1>4, <3>1, Counts
    <3>3. \A x, y \in Nat : x * y \in Nat
      OBVIOUS
    <3> HIDE DEF S
    <3> QED BY <3>2, <3>3
  <2> QED BY <1>6, <2>1 DEF Overlaps
<1> QED BY <1>2, <1>5, <1>6 DEF AtLeast

\* Nothing is bound, offered or asked before the step that does so.
StageInv ==
    /\ pc = "search" => offer = NoNote
    /\ pc # "done" => bound = "default"
    /\ pc \in {"search", "prompt", "wait"} => reply = "none"
    /\ pc \in {"prompt", "wait"} => ~ recurring /\ offer # NoNote /\ notes[offer].named

SeriesInv == TypeOK /\ StageInv /\ OfferIsBest /\ NoBindingWithoutConsent

LEMMA SeriesInit == Init => SeriesInv
<1> SUFFICES ASSUME Init PROVE SeriesInv
  OBVIOUS
<1>1. TypeOK
  <2>1. notes \in Seq(Notes) /\ Len(notes) = 0 /\ DOMAIN notes = {}
    BY DEF Init
  <2> QED BY <2>1 DEF Init, TypeOK, Replies
<1> QED BY <1>1 DEF Init, SeriesInv, StageInv, OfferIsBest, NoBindingWithoutConsent

\* The notes, and the candidate among them, change in the search alone.
LEMMA Quiet ==
    ASSUME SeriesInv, UNCHANGED <<setup, notes, offer>>
    PROVE  OfferIsBest'
BY DEF SeriesInv, OfferIsBest, setup, Common, Union

LEMMA SearchStep ==
    ASSUME SeriesInv, NEW found \in Results, Search(found)
    PROVE  SeriesInv'
<1> USE DEF SeriesInv, setup, End
<1>1. /\ found \in Seq(Notes) /\ Len(found) <= MaxNotes
      /\ \E n \in Nat : n <= MaxNotes /\ DOMAIN found = 1 .. n
  BY ScoredNotes
<1>2. attendees \in SUBSET Persons /\ offer = NoNote /\ reply = "none" /\ bound = "default"
      /\ UNCHANGED <<recurring, attendees, transport, reply>> /\ notes' = found
  BY DEF TypeOK, StageInv, Search, MatchPath1, MatchPath2
<1>3. CASE MatchPath1(found)
  <2>1. TypeOK'
    BY <1>1, <1>2, <1>3 DEF TypeOK, MatchPath1
  <2>2. StageInv' /\ OfferIsBest' /\ NoBindingWithoutConsent'
    BY <1>1, <1>2, <1>3
    DEF MatchPath1, StageInv, OfferIsBest, NoBindingWithoutConsent, NoNote
  <2> QED BY <2>1, <2>2
<1>4. CASE MatchPath2(found)
  <2>1. CASE UNCHANGED offer
    BY <1>1, <1>2, <1>4, <2>1, ScoredNotes
    DEF MatchPath2, TypeOK, StageInv, OfferIsBest, NoBindingWithoutConsent, NoNote, Best
  <2>2. CASE \E i \in Best(found) : found[i].named /\ offer' = i
    <3>1. PICK i \in Best(found) : found[i].named /\ offer' = i
      BY <2>2
    <3>2. i \in DOMAIN found /\ i # NoNote
      BY <1>1, <1>2, FirstIsBest DEF NoNote
    <3>3. /\ pc' \in {"done", "prompt"} /\ bound' = "default"
          /\ ~ recurring
      BY <1>4, <1>2, <3>1, <3>2 DEF MatchPath2
    <3>4. TypeOK' /\ StageInv' /\ NoBindingWithoutConsent'
      BY <1>1, <1>2, <3>1, <3>2, <3>3 DEF TypeOK, StageInv, NoBindingWithoutConsent
    <3>5. OfferIsBest'
      <4>1. \A S : Common(S)' = Common(S) /\ Union(S)' = Union(S)
        BY <1>2 DEF Common, Union
      <4> QED BY <1>2, <3>1, <4>1, FirstIsBest DEF OfferIsBest
    <3> QED BY <3>4, <3>5
  <2> QED BY <1>4, <2>1, <2>2 DEF MatchPath2
<1> QED BY <1>3, <1>4 DEF Search

LEMMA SeriesStep == SeriesInv /\ [Next]_vars => SeriesInv'
<1> SUFFICES ASSUME SeriesInv, [Next]_vars PROVE SeriesInv'
  OBVIOUS
<1> USE DEF SeriesInv, setup, End
<1>1. ASSUME NEW found \in Results, Search(found) PROVE SeriesInv'
  BY <1>1, SearchStep
<1>2. CASE SearchFails
  BY <1>2, Quiet DEF SearchFails, TypeOK, StageInv, NoBindingWithoutConsent
<1>3. CASE Prompt
  BY <1>3, Quiet DEF Prompt, PromptSent, PromptFails, TypeOK, StageInv, NoBindingWithoutConsent
<1>4. ASSUME NEW r \in Replies, Answered(r) PROVE SeriesInv'
  <2>1. /\ Result(r) \in {"default", "implicit", "new"}
        /\ Result(r) # "default" => r \in {"yes", "new-series"}
    BY DEF Result, Replies
  <2> QED BY <1>4, <2>1, Quiet DEF Answered, TypeOK, StageInv, NoBindingWithoutConsent
<1>5. CASE Timeout
  BY <1>5, Quiet DEF Timeout, TypeOK, StageInv, NoBindingWithoutConsent
<1>6. CASE UNCHANGED vars
  BY <1>6, Quiet DEF vars, TypeOK, StageInv, NoBindingWithoutConsent
<1> QED BY <1>1, <1>2, <1>3, <1>4, <1>5, <1>6 DEF Next

LEMMA SeriesInvariant == Spec => []SeriesInv
BY SeriesInit, SeriesStep, PTL DEF Spec

\* Type correctness of the matcher, with the bound of every list it works on.
THEOREM SeriesTypeOK == Spec => []TypeOK
<1>1. SeriesInv => TypeOK
  BY DEF SeriesInv
<1> QED BY <1>1, SeriesInvariant, PTL

\* What is put to the owner has the greatest overlap of all the notes, not only
\* of those that clear the threshold, and no tie is later where both stamps speak.
THEOREM SeriesOfferIsBest == Spec => []OfferIsBest
<1>1. SeriesInv => OfferIsBest
  BY DEF SeriesInv
<1> QED BY <1>1, SeriesInvariant, PTL

\* No failure, late answer or timeout binds a guess.
THEOREM SeriesNoBindingWithoutConsent == Spec => []NoBindingWithoutConsent
<1>1. SeriesInv => NoBindingWithoutConsent
  BY DEF SeriesInv
<1> QED BY <1>1, SeriesInvariant, PTL
=============================================================================
