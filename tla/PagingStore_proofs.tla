-------------------------- MODULE PagingStore_proofs --------------------------
(***************************************************************************)
(* What the store behind page cursors keeps to, proved for any clients,    *)
(* lists, page sizes and limits.                                           *)
(*                                                                         *)
(* The ids of some lists are counted by what they are made of: the sum of  *)
(* their lengths is the cardinality of a set of pairs, so that what is     *)
(* known of finite sets is known of sums.                                  *)
(***************************************************************************)
EXTENDS PagingStore, FiniteSetTheorems, WellFoundedInduction, TLAPS

-----------------------------------------------------------------------------
(* Sums. *)

\* A sum of sizes is the number of the units they are made of.
Total(e, S) == MapThenSumSet(LAMBDA s : e[s].size, S)
Units(e, S) == {u \in S \X Nat : u[2] \in 1..e[u[1]].size}

LEMMA Smallest ==
  ASSUME NEW S, IsFiniteSet(S), NEW B, B \subseteq SUBSET S, B # {}
  PROVE  \E A \in B : \A x \in A : A \ {x} \notin B
<1>1. PICK A \in B : \A C \in B : ~(<<C, A>> \in StrictSubsetOrdering(S))
  <2>1. IsWellFoundedOn(StrictSubsetOrdering(S), FiniteSubsetsOf(S))
    BY FS_StrictSubsetOrderingWellFounded
  <2>2. B \subseteq FiniteSubsetsOf(S)
    BY FS_FiniteSubsetsOfFinite
  <2> QED BY <2>1, <2>2, WFMin
<1>2. \A x \in A : A \ {x} \notin B
  BY <1>1 DEF StrictSubsetOrdering
<1> QED BY <1>2

LEMMA UnitsOfNone ==
  ASSUME NEW e
  PROVE  Units(e, {}) = {} /\ IsFiniteSet(Units(e, {})) /\ Cardinality(Units(e, {})) = 0
<1>1. Units(e, {}) = {}
  BY DEF Units
<1> QED BY <1>1, FS_EmptySet

LEMMA UnitsOfOne ==
  ASSUME NEW e, NEW s, e[s].size \in Nat
  PROVE  IsFiniteSet(Units(e, {s})) /\ Cardinality(Units(e, {s})) = e[s].size
<1>1. PICK n \in Nat : n = e[s].size
  OBVIOUS
<1>2. Units(e, {s}) = {s} \X (1..n)
  BY <1>1 DEF Units
<1>3. IsFiniteSet({s}) /\ Cardinality({s}) = 1
  BY FS_Singleton
<1>4. IsFiniteSet(1..n) /\ Cardinality(1..n) = n
  BY FS_Interval
<1>5. IsFiniteSet(Units(e, {s})) /\ Cardinality(Units(e, {s})) = 1 * n
  BY <1>2, <1>3, <1>4, FS_Product
<1> QED BY <1>1, <1>5

LEMMA UnitsApart ==
  ASSUME NEW e, NEW S, NEW T
  PROVE  /\ Units(e, S \cup T) = Units(e, S) \cup Units(e, T)
         /\ S \cap T = {} => Units(e, S) \cap Units(e, T) = {}
         /\ S \subseteq T => Units(e, S) \subseteq Units(e, T)
BY DEF Units

LEMMA UnitsMore ==
  ASSUME NEW e, NEW S, NEW s, s \notin S, e[s].size \in Nat, IsFiniteSet(Units(e, S))
  PROVE  /\ IsFiniteSet(Units(e, S \cup {s}))
         /\ Cardinality(Units(e, S \cup {s})) = Cardinality(Units(e, S)) + e[s].size
<1>1. Units(e, S \cup {s}) = Units(e, S) \cup Units(e, {s}) /\ Units(e, S) \cap Units(e, {s}) = {}
  BY UnitsApart
<1>2. IsFiniteSet(Units(e, {s})) /\ Cardinality(Units(e, {s})) = e[s].size
  BY UnitsOfOne
<1>3. /\ IsFiniteSet(Units(e, S) \cup Units(e, {s}))
      /\ Cardinality(Units(e, S) \cup Units(e, {s}))
           = Cardinality(Units(e, S)) + Cardinality(Units(e, {s})) - Cardinality(Units(e, S) \cap Units(e, {s}))
  BY <1>2, FS_Union
<1>4. Cardinality(Units(e, S)) \in Nat /\ Cardinality(Units(e, S) \cap Units(e, {s})) = 0
  BY <1>1, FS_EmptySet, FS_CardinalityType
<1>5. Cardinality(Units(e, S) \cup Units(e, {s})) = Cardinality(Units(e, S)) + e[s].size
  BY <1>2, <1>3, <1>4
<1> QED BY <1>1, <1>3, <1>5

LEMMA UnitsFinite ==
  ASSUME NEW e, NEW S, IsFiniteSet(S), \A s \in S : e[s].size \in Nat
  PROVE  IsFiniteSet(Units(e, S))
<1> SUFFICES ASSUME ~IsFiniteSet(Units(e, S)) PROVE FALSE
  OBVIOUS
<1>1. PICK A \in {A \in SUBSET S : ~IsFiniteSet(Units(e, A))} :
        \A x \in A : A \ {x} \notin {C \in SUBSET S : ~IsFiniteSet(Units(e, C))}
  BY Smallest
<1>2. PICK x \in A : TRUE
  BY <1>1, UnitsOfNone
<1>3. IsFiniteSet(Units(e, A \ {x}))
  BY <1>1
<1>4. (A \ {x}) \cup {x} = A
  OBVIOUS
<1> QED BY <1>1, <1>3, <1>4, UnitsMore

LEMMA TotalIsUnits ==
  ASSUME NEW e, NEW S, IsFiniteSet(S), \A s \in S : e[s].size \in Nat
  PROVE  Total(e, S) = Cardinality(Units(e, S))
<1> DEFINE One(A) == CHOOSE x \in A : TRUE
           Sum(f) == [A \in SUBSET S |-> IF A = {} THEN 0 ELSE e[One(A)].size + f[A \ {One(A)}]]
           Count == [A \in SUBSET S |-> Cardinality(Units(e, A))]
<1>1. \A A \in SUBSET S : IsFiniteSet(Units(e, A)) /\ Cardinality(Units(e, A)) \in Nat
  BY FS_Subset, UnitsFinite, FS_CardinalityType
<1>2. \A A \in SUBSET S : A # {} => One(A) \in A
  OBVIOUS
<1>3. \A A \in SUBSET S : A # {} =>
        Cardinality(Units(e, A)) = Cardinality(Units(e, A \ {One(A)})) + e[One(A)].size
  <2> TAKE A \in SUBSET S
  <2> HAVE A # {}
  <2> HIDE DEF One
  <2>1. One(A) \in A
    BY <1>2
  <2>2. (A \ {One(A)}) \cup {One(A)} = A /\ One(A) \notin A \ {One(A)}
    BY <2>1
  <2>3. A \ {One(A)} \in SUBSET S /\ e[One(A)].size \in Nat
    BY <2>1
  <2>4. IsFiniteSet(Units(e, A \ {One(A)}))
    BY <1>1, <2>3
  <2>5. Cardinality(Units(e, (A \ {One(A)}) \cup {One(A)})) = Cardinality(Units(e, A \ {One(A)})) + e[One(A)].size
    BY <2>2, <2>3, <2>4, UnitsMore
  <2> QED BY <2>2, <2>5
<1>4. Count = Sum(Count)
  <2> HIDE DEF One
  <2>1. \A A \in SUBSET S : Count[A] = IF A = {} THEN 0 ELSE e[One(A)].size + Count[A \ {One(A)}]
    <3> TAKE A \in SUBSET S
    <3>1. CASE A = {}
      BY <3>1, UnitsOfNone
    <3>2. CASE A # {}
      <4>1. One(A) \in A /\ A \ {One(A)} \in SUBSET S
        BY <3>2, <1>2
      <4>2. e[One(A)].size \in Nat /\ Cardinality(Units(e, A \ {One(A)})) \in Nat
        BY <4>1, <1>1
      <4>3. Count[A] = Cardinality(Units(e, A)) /\ Count[A \ {One(A)}] = Cardinality(Units(e, A \ {One(A)}))
        BY <4>1
      <4> QED BY <3>2, <1>3, <4>2, <4>3
    <3> QED BY <3>1, <3>2
  <2> QED BY <2>1
<1>5. PICK f : f = Sum(f) /\ Total(e, S) = f[S]
  <2>1. Total(e, S) = (CHOOSE f : f = Sum(f))[S]
    BY DEF Total, MapThenSumSet, MapThenFoldSet
  <2>2. PICK f : f = (CHOOSE g : g = Sum(g))
    OBVIOUS
  <2>3. f = Sum(f)
    <3> HIDE DEF Sum, Count
    <3> QED BY <1>4, <2>2, Zenon
  <2> QED BY <2>1, <2>2, <2>3
<1>6. \A A \in SUBSET S : f[A] = Count[A]
  <2> SUFFICES ASSUME {A \in SUBSET S : f[A] # Count[A]} # {} PROVE FALSE
    OBVIOUS
  <2>1. PICK A \in {A \in SUBSET S : f[A] # Count[A]} :
          \A x \in A : A \ {x} \notin {C \in SUBSET S : f[C] # Count[C]}
    BY Smallest
  <2>2. CASE A = {}
    BY <2>1, <2>2, <1>4, <1>5
  <2>3. CASE A # {}
    <3>1. One(A) \in A
      BY <2>1, <2>3, <1>2
    <3>2. f[A \ {One(A)}] = Count[A \ {One(A)}]
      BY <2>1, <3>1
    <3> HIDE DEF One, Count
    <3>3. f[A] = e[One(A)].size + f[A \ {One(A)}]
      BY <2>1, <2>3, <1>5
    <3>4. Count[A] = e[One(A)].size + Count[A \ {One(A)}]
      BY <2>1, <2>3, <1>4
    <3> QED BY <2>1, <3>2, <3>3, <3>4
  <2> QED BY <2>2, <2>3
<1> QED BY <1>5, <1>6

LEMMA TotalIsNat ==
  ASSUME NEW e, NEW S, IsFiniteSet(S), \A s \in S : e[s].size \in Nat
  PROVE  Total(e, S) \in Nat
BY TotalIsUnits, UnitsFinite, FS_CardinalityType

LEMMA TotalOfNone == ASSUME NEW e PROVE Total(e, {}) = 0
BY TotalIsUnits, UnitsOfNone, FS_EmptySet

LEMMA TotalSplits ==
  ASSUME NEW e, NEW S, NEW T, IsFiniteSet(S), T \subseteq S, \A s \in S : e[s].size \in Nat
  PROVE  Total(e, S) = Total(e, T) + Total(e, S \ T)
<1>1. IsFiniteSet(T) /\ IsFiniteSet(S \ T) /\ T \cup (S \ T) = S /\ T \cap (S \ T) = {}
  BY FS_Subset
<1>2. Units(e, S) = Units(e, T) \cup Units(e, S \ T) /\ Units(e, T) \cap Units(e, S \ T) = {}
  BY <1>1, UnitsApart
<1>3. IsFiniteSet(Units(e, T)) /\ IsFiniteSet(Units(e, S \ T))
  BY <1>1, UnitsFinite
<1>4. Cardinality(Units(e, S)) = Cardinality(Units(e, T)) + Cardinality(Units(e, S \ T))
                                 - Cardinality(Units(e, T) \cap Units(e, S \ T))
  BY <1>2, <1>3, FS_Union
<1>5. /\ Cardinality(Units(e, T)) \in Nat /\ Cardinality(Units(e, S \ T)) \in Nat
      /\ Cardinality(Units(e, T) \cap Units(e, S \ T)) = 0
  BY <1>2, <1>3, FS_CardinalityType, FS_EmptySet
<1>6. /\ Total(e, S) = Cardinality(Units(e, S)) /\ Total(e, T) = Cardinality(Units(e, T))
      /\ Total(e, S \ T) = Cardinality(Units(e, S \ T))
  BY <1>1, TotalIsUnits
<1> QED BY <1>4, <1>5, <1>6

LEMMA TotalIsMonotone ==
  ASSUME NEW e, NEW S, NEW T, IsFiniteSet(S), T \subseteq S, \A s \in S : e[s].size \in Nat
  PROVE  Total(e, T) <= Total(e, S)
<1>1. IsFiniteSet(T) /\ IsFiniteSet(S \ T)
  BY FS_Subset
<1>2. Total(e, T) \in Nat /\ Total(e, S \ T) \in Nat
  BY <1>1, TotalIsNat
<1>3. Total(e, S) = Total(e, T) + Total(e, S \ T)
  BY TotalSplits
<1> QED BY <1>2, <1>3

LEMMA TotalGrows ==
  ASSUME NEW e, NEW S, NEW s, IsFiniteSet(S), s \notin S, e[s].size \in Nat, \A t \in S : e[t].size \in Nat
  PROVE  Total(e, S \cup {s}) = Total(e, S) + e[s].size
<1>1. Cardinality(Units(e, S \cup {s})) = Cardinality(Units(e, S)) + e[s].size
  BY UnitsFinite, UnitsMore
<1>2. IsFiniteSet(S \cup {s})
  BY FS_AddElement
<1> QED BY <1>1, <1>2, TotalIsUnits

LEMMA TotalIsOfSizes ==
  ASSUME NEW e, NEW f, NEW S, IsFiniteSet(S), \A s \in S : e[s].size \in Nat /\ f[s].size = e[s].size
  PROVE  Total(f, S) = Total(e, S)
<1>1. Units(f, S) = Units(e, S)
  BY DEF Units
<1> QED BY <1>1, TotalIsUnits
-----------------------------------------------------------------------------
(* Stores, as values: what is held under the ids, in a pool, by a client.    *)

Store == [SnapshotId -> Snapshot \cup {Absent}]

Held(e) == {s \in SnapshotId : e[s] # Absent}
HeldIn(e, q) == {s \in Held(e) : e[s].pool = q}
HeldBy(e, c) == {s \in Held(e) : e[s].client = c}

\* The lists of S are the same lists in both stores, whenever they were last read.
Same(e, f, S) ==
  \A s \in S : f[s].pool = e[s].pool /\ f[s].client = e[s].client /\ f[s].size = e[s].size

Counters(e) == [q \in Pool |-> Total(e, HeldIn(e, q))]
Raised(t, q, n) == [t EXCEPT ![q] = @ + n]
With(e, s, r) == [e EXCEPT ![s] = r]

Within(e) ==
  /\ Cardinality(Held(e)) <= MaxSnapshots
  /\ Total(e, Held(e)) <= MaxTotalIds
  /\ \A c \in Client : /\ Cardinality(HeldBy(e, c)) <= MaxSnapshotsPerClient
                       /\ Total(e, HeldBy(e, c)) <= MaxTotalIdsPerClient

LEMMA HeldIsTyped ==
  ASSUME NEW e \in Store
  PROVE  /\ \A s \in Held(e) : /\ e[s] \in Snapshot /\ e[s].pool \in Pool /\ e[s].client \in Client
                               /\ e[s].size \in Nat
         /\ IsFiniteSet(Held(e))
<1>1. Held(e) \subseteq SnapshotId
  BY DEF Held
<1>2. IsFiniteSet(Held(e))
  BY <1>1, PagingAssumption, FS_Subset
<1> QED BY <1>2 DEF Held, Store, Snapshot

LEMMA SubsetIsTyped ==
  ASSUME NEW e \in Store, NEW S, S \subseteq Held(e)
  PROVE  IsFiniteSet(S) /\ (\A s \in S : e[s].size \in Nat) /\ Total(e, S) \in Nat /\ Cardinality(S) \in Nat
<1>1. IsFiniteSet(S) /\ \A s \in S : e[s].size \in Nat
  BY HeldIsTyped, FS_Subset
<1> QED BY <1>1, TotalIsNat, FS_CardinalityType

LEMMA PoolsSplit ==
  ASSUME NEW e \in Store, NEW R, R \subseteq Held(e)
  PROVE  Total(e, R) = Total(e, {s \in R : e[s].pool = "normal"}) + Total(e, {s \in R : e[s].pool = "retained"})
<1>1. R \ {s \in R : e[s].pool = "normal"} = {s \in R : e[s].pool = "retained"}
  BY HeldIsTyped DEF Pool
<1>2. IsFiniteSet(R) /\ \A s \in R : e[s].size \in Nat
  BY SubsetIsTyped
<1>3. {s \in R : e[s].pool = "normal"} \subseteq R
  OBVIOUS
<1>4. Total(e, R) = Total(e, {s \in R : e[s].pool = "normal"}) + Total(e, R \ {s \in R : e[s].pool = "normal"})
  BY <1>2, <1>3, TotalSplits
<1> QED BY <1>1, <1>4

LEMMA SubsetIsLess ==
  ASSUME NEW e \in Store, NEW S, NEW T, S \subseteq Held(e), T \subseteq S
  PROVE  Total(e, T) <= Total(e, S) /\ Cardinality(T) <= Cardinality(S)
BY SubsetIsTyped, TotalIsMonotone, FS_Subset

\* Lists go: the counters go down by what they held, and no limit is passed.
LEMMA Leaves ==
  ASSUME NEW e \in Store, NEW f \in Store, NEW R, R \subseteq Held(e), Held(f) = Held(e) \ R, Same(e, f, Held(f))
  PROVE  /\ Counters(f) = [q \in Pool |-> Counters(e)[q] - Total(e, {s \in R : e[s].pool = q})]
         /\ \A S \in SUBSET Held(f) : Total(f, S) = Total(e, S)
         /\ Within(e) => Within(f)
<1>1. ASSUME NEW S, S \subseteq Held(f)
      PROVE  Total(f, S) = Total(e, S)
  <2>1. IsFiniteSet(S) /\ \A s \in S : e[s].size \in Nat /\ f[s].size = e[s].size
    BY <1>1, SubsetIsTyped DEF Same
  <2> QED BY <2>1, TotalIsOfSizes
<1>2. ASSUME NEW q \in Pool
      PROVE  Total(f, HeldIn(f, q)) = Total(e, HeldIn(e, q)) - Total(e, {s \in R : e[s].pool = q})
  <2> DEFINE G == {s \in R : e[s].pool = q}
  <2>1. /\ HeldIn(f, q) = HeldIn(e, q) \ G
        /\ G \subseteq HeldIn(e, q) /\ HeldIn(e, q) \subseteq Held(e) /\ HeldIn(f, q) \subseteq Held(f)
    BY DEF HeldIn, Same
  <2> HIDE DEF G
  <2>2. /\ IsFiniteSet(HeldIn(e, q)) /\ \A s \in HeldIn(e, q) : e[s].size \in Nat
    BY <2>1, SubsetIsTyped
  <2>3. Total(e, HeldIn(e, q)) \in Nat /\ Total(e, G) \in Nat
    BY <2>1, SubsetIsTyped
  <2>4. HeldIn(f, q) \subseteq Held(e)
    BY <2>1
  <2>5. Total(e, HeldIn(f, q)) \in Nat
    BY <2>4, SubsetIsTyped
  <2>6. Total(e, HeldIn(e, q)) = Total(e, G) + Total(e, HeldIn(e, q) \ G)
    BY <2>1, <2>2, TotalSplits
  <2>7. Total(f, HeldIn(f, q)) = Total(e, HeldIn(f, q))
    BY <1>1, <2>1
  <2>8. Total(f, HeldIn(f, q)) = Total(e, HeldIn(e, q)) - Total(e, G)
    BY <2>1, <2>3, <2>5, <2>6, <2>7
  <2> QED BY <2>8 DEF G
<1>3. ASSUME Within(e) PROVE Within(f)
  <2> DEFINE Smaller(S, T) == Cardinality(S) \in Nat /\ Total(f, S) \in Nat
                              /\ Cardinality(S) <= Cardinality(T) /\ Total(f, S) <= Total(e, T)
                              /\ Cardinality(T) \in Nat /\ Total(e, T) \in Nat
  <2>1. ASSUME NEW S, NEW T, S \subseteq T, S \subseteq Held(f), T \subseteq Held(e)
        PROVE  Smaller(S, T)
    <3>1. Total(e, S) <= Total(e, T) /\ Cardinality(S) <= Cardinality(T)
      BY <2>1, SubsetIsLess
    <3>2. Total(f, S) = Total(e, S)
      BY <1>1, <2>1
    <3>3. Cardinality(S) \in Nat /\ Total(f, S) \in Nat /\ Cardinality(T) \in Nat /\ Total(e, T) \in Nat
      BY <2>1, SubsetIsTyped
    <3> QED BY <3>1, <3>2, <3>3
  <2>2. Smaller(Held(f), Held(e))
    BY <2>1
  <2>3. ASSUME NEW c \in Client PROVE Smaller(HeldBy(f, c), HeldBy(e, c))
    <3>1. HeldBy(f, c) \subseteq HeldBy(e, c) /\ HeldBy(f, c) \subseteq Held(f) /\ HeldBy(e, c) \subseteq Held(e)
      BY DEF HeldBy, Same
    <3> QED BY <2>1, <3>1
  <2>4. MaxSnapshots \in Nat /\ MaxTotalIds \in Nat /\ MaxSnapshotsPerClient \in Nat /\ MaxTotalIdsPerClient \in Nat
    BY PagingAssumption
  <2>5. Cardinality(Held(f)) <= MaxSnapshots /\ Total(f, Held(f)) <= MaxTotalIds
    BY <1>3, <2>2, <2>4 DEF Within
  <2>6. ASSUME NEW c \in Client
        PROVE  Cardinality(HeldBy(f, c)) <= MaxSnapshotsPerClient /\ Total(f, HeldBy(f, c)) <= MaxTotalIdsPerClient
    <3>1. Cardinality(HeldBy(e, c)) <= MaxSnapshotsPerClient /\ Total(e, HeldBy(e, c)) <= MaxTotalIdsPerClient
      BY <1>3 DEF Within
    <3> QED BY <2>3, <2>4, <3>1
  <2> QED BY <2>5, <2>6 DEF Within
<1> QED BY <1>1, <1>2, <1>3 DEF Counters

\* A list comes: its pool's counter goes up by its length, and the limits hold if they
\* leave it room.
LEMMA Joins ==
  ASSUME NEW e \in Store, NEW f \in Store, NEW s \in SnapshotId, s \notin Held(e),
         Held(f) = Held(e) \cup {s}, Same(e, f, Held(e))
  PROVE  /\ Counters(f) = Raised(Counters(e), f[s].pool, f[s].size)
         /\ (/\ Within(e)
             /\ Cardinality(Held(e)) + 1 <= MaxSnapshots
             /\ Total(e, Held(e)) + f[s].size <= MaxTotalIds
             /\ Cardinality(HeldBy(e, f[s].client)) + 1 <= MaxSnapshotsPerClient
             /\ Total(e, HeldBy(e, f[s].client)) + f[s].size <= MaxTotalIdsPerClient)
            => Within(f)
<1>1. f[s].pool \in Pool /\ f[s].client \in Client /\ f[s].size \in Nat
  BY HeldIsTyped
<1>2. ASSUME NEW S, S \subseteq Held(e)
      PROVE  /\ Total(f, S) = Total(e, S) /\ Total(f, S \cup {s}) = Total(e, S) + f[s].size
             /\ Cardinality(S \cup {s}) = Cardinality(S) + 1
  <2>1. IsFiniteSet(S) /\ (\A t \in S : e[t].size \in Nat /\ f[t].size = e[t].size) /\ s \notin S
    BY <1>2, SubsetIsTyped DEF Same
  <2>2. Total(f, S) = Total(e, S)
    BY <2>1, TotalIsOfSizes
  <2>3. \A t \in S : f[t].size \in Nat
    BY <2>1
  <2>4. Total(f, S \cup {s}) = Total(f, S) + f[s].size
    BY <1>1, <2>1, <2>3, TotalGrows
  <2>5. Cardinality(S \cup {s}) = Cardinality(S) + 1
    BY <2>1, FS_AddElement
  <2> QED BY <2>2, <2>4, <2>5
<1>3. ASSUME NEW q \in Pool
      PROVE  Total(f, HeldIn(f, q)) = IF q = f[s].pool THEN Total(e, HeldIn(e, q)) + f[s].size
                                                       ELSE Total(e, HeldIn(e, q))
  <2>1. HeldIn(e, q) \subseteq Held(e)
    BY DEF HeldIn
  <2>2. HeldIn(f, q) = IF q = f[s].pool THEN HeldIn(e, q) \cup {s} ELSE HeldIn(e, q)
    BY DEF HeldIn, Same
  <2> QED BY <1>2, <2>1, <2>2
<1>4. Counters(f) = Raised(Counters(e), f[s].pool, f[s].size)
  <2>1. Raised(Counters(e), f[s].pool, f[s].size)
          = [q \in Pool |-> IF q = f[s].pool THEN Total(e, HeldIn(e, q)) + f[s].size ELSE Total(e, HeldIn(e, q))]
    BY <1>1 DEF Counters, Raised
  <2> QED BY <1>3, <2>1 DEF Counters
<1>5. ASSUME /\ Within(e)
             /\ Cardinality(Held(e)) + 1 <= MaxSnapshots
             /\ Total(e, Held(e)) + f[s].size <= MaxTotalIds
             /\ Cardinality(HeldBy(e, f[s].client)) + 1 <= MaxSnapshotsPerClient
             /\ Total(e, HeldBy(e, f[s].client)) + f[s].size <= MaxTotalIdsPerClient
      PROVE  Within(f)
  <2>1. Cardinality(Held(f)) <= MaxSnapshots /\ Total(f, Held(f)) <= MaxTotalIds
    BY <1>2, <1>5
  <2>2. ASSUME NEW c \in Client
        PROVE  Cardinality(HeldBy(f, c)) <= MaxSnapshotsPerClient /\ Total(f, HeldBy(f, c)) <= MaxTotalIdsPerClient
    <3>1. HeldBy(e, c) \subseteq Held(e)
      BY DEF HeldBy
    <3>2. HeldBy(f, c) = IF c = f[s].client THEN HeldBy(e, c) \cup {s} ELSE HeldBy(e, c)
      BY DEF HeldBy, Same
    <3>3. CASE c = f[s].client
      BY <1>2, <1>5, <3>1, <3>2, <3>3
    <3>4. CASE c # f[s].client
      <4>1. Cardinality(HeldBy(e, c)) <= MaxSnapshotsPerClient /\ Total(e, HeldBy(e, c)) <= MaxTotalIdsPerClient
        BY <1>5 DEF Within
      <4> QED BY <1>2, <3>1, <3>2, <3>4, <4>1
    <3> QED BY <3>3, <3>4
  <2> QED BY <2>1, <2>2 DEF Within
<1> QED BY <1>4, <1>5
-----------------------------------------------------------------------------
(* The inductive invariant: TypeOK, that the counters are what the lists add *)
(* up to, that the limits hold, that a list expires Ttl after it was made,   *)
(* and NoGap.                                                                *)

Counted == totalIds = Counters(entries)
Limited == Within(entries)
Fresh   == \A s \in Present : entries[s].expiresAt = entries[s].createdAt + Ttl

IInv == /\ TypeOK
        /\ Counted
        /\ Limited
        /\ Fresh
        /\ NoGap

LEMMA Rigid ==
  /\ Present = Held(entries)
  /\ \A q \in Pool : InPool(q, Present) = HeldIn(entries, q)
  /\ \A c \in Client : {s \in Present : entries[s].client = c} = HeldBy(entries, c)
  /\ \A S : IdsIn(S) = Total(entries, S)
BY DEF Present, Held, HeldIn, HeldBy, InPool, IdsIn, Total

\* The invariant is the limits the runs check.
LEMMA LimitsFollow == Counted /\ Limited => LimitsHold
<1> SUFFICES ASSUME Counted, Limited PROVE LimitsHold
  OBVIOUS
<1>1. \A q \in Pool : totalIds[q] = IdsIn(InPool(q, Present))
  BY Rigid DEF Counted, Counters
<1>2. Cardinality(Present) <= MaxSnapshots /\ IdsIn(Present) <= MaxTotalIds
  BY Rigid DEF Limited, Within
<1>3. ASSUME NEW c \in Client
      PROVE  /\ Cardinality({s \in Present : entries[s].client = c}) <= MaxSnapshotsPerClient
             /\ IdsIn({s \in Present : entries[s].client = c}) <= MaxTotalIdsPerClient
  BY Rigid DEF Limited, Within
<1> QED BY <1>1, <1>2, <1>3 DEF LimitsHold

\* Removing lists and reading others later.
LEMMA Removes ==
  ASSUME TypeOK, Counted, Limited, Fresh, NEW R, R \subseteq Present, NEW f \in Store,
         Held(f) = Present \ R,
         \A s \in Held(f) : /\ Same(entries, f, {s})
                            /\ f[s].expiresAt = entries[s].expiresAt /\ f[s].createdAt = entries[s].createdAt
  PROVE  /\ CountWithout(R) = Counters(f)
         /\ Within(f)
         /\ \A s \in Held(f) : f[s].expiresAt = f[s].createdAt + Ttl
         /\ \A S \in SUBSET Held(f) : Total(f, S) = IdsIn(S)
         /\ Total(f, Held(f)) = totalIds["normal"] + totalIds["retained"] - IdsIn(R)
<1>1. entries \in Store /\ R \subseteq Held(entries) /\ Held(f) = Held(entries) \ R
  BY Rigid DEF TypeOK, Store
<1>2. Same(entries, f, Held(f))
  BY DEF Same
<1>3. /\ Counters(f) = [q \in Pool |-> Counters(entries)[q] - Total(entries, {s \in R : entries[s].pool = q})]
      /\ \A S \in SUBSET Held(f) : Total(f, S) = Total(entries, S)
      /\ Within(entries) => Within(f)
  BY <1>1, <1>2, Leaves
<1>4. CountWithout(R) = [q \in Pool |-> totalIds[q] - Total(entries, {s \in R : entries[s].pool = q})]
  BY Rigid DEF CountWithout, InPool
<1>5. \A s \in Held(f) : f[s].expiresAt = f[s].createdAt + Ttl
  BY DEF Fresh
<1>6. \A S \in SUBSET Held(f) : Total(f, S) = IdsIn(S)
  BY <1>3, Rigid
<1>7. Total(f, Held(f)) = totalIds["normal"] + totalIds["retained"] - IdsIn(R)
  <2>1. Total(entries, R) = Total(entries, {s \in R : entries[s].pool = "normal"})
                            + Total(entries, {s \in R : entries[s].pool = "retained"})
    BY <1>1, PoolsSplit
  <2>2. Total(f, Held(f)) = Total(f, HeldIn(f, "normal")) + Total(f, HeldIn(f, "retained"))
    BY PoolsSplit DEF HeldIn
  <2>3. /\ Total(f, HeldIn(f, "normal")) = totalIds["normal"] - Total(entries, {s \in R : entries[s].pool = "normal"})
        /\ Total(f, HeldIn(f, "retained")) = totalIds["retained"] - Total(entries, {s \in R : entries[s].pool = "retained"})
    BY <1>3 DEF Counted, Counters, Pool
  <2>4. /\ Total(entries, {s \in R : entries[s].pool = "normal"}) \in Nat
        /\ Total(entries, {s \in R : entries[s].pool = "retained"}) \in Nat
    BY <1>1, SubsetIsTyped
  <2>5. totalIds["normal"] \in Nat /\ totalIds["retained"] \in Nat
    BY DEF TypeOK, Pool
  <2>6. Total(entries, R) = IdsIn(R)
    BY Rigid
  <2> QED BY <2>1, <2>2, <2>3, <2>4, <2>5, <2>6
<1> QED BY <1>1, <1>3, <1>4, <1>5, <1>6, <1>7 DEF Counted, Limited

LEMMA WithoutIs ==
  ASSUME TypeOK, NEW R \in SUBSET SnapshotId
  PROVE  /\ Without(R) \in Store /\ Held(Without(R)) = Present \ R
         /\ \A s \in SnapshotId \ R : Without(R)[s] = entries[s]
BY DEF TypeOK, Without, Store, Held, Present

LEMMA ReadIs ==
  ASSUME TypeOK, NEW R \in SUBSET SnapshotId, NEW s \in Present \ R
  PROVE  LET f == [Without(R) EXCEPT ![s].lastAccessAt = now] IN
         /\ f \in Store /\ Held(f) = Present \ R
         /\ \A t \in SnapshotId \ (R \cup {s}) : f[t] = entries[t]
         /\ f[s] = [entries[s] EXCEPT !.lastAccessAt = now]
<1> DEFINE r == [entries[s] EXCEPT !.lastAccessAt = now]
           f == [Without(R) EXCEPT ![s].lastAccessAt = now]
<1>1. s \in SnapshotId /\ entries[s] \in Snapshot
  BY DEF Present, TypeOK
<1>2. r \in Snapshot
  BY <1>1 DEF Snapshot, TypeOK
<1>3. r # Absent
  BY <1>2, AbsentAssumption
<1>4. f = [Without(R) EXCEPT ![s] = r]
  BY <1>1 DEF Without
<1> HIDE DEF r
<1>5. f \in Store /\ Held(f) = Present \ R /\ (\A t \in SnapshotId \ (R \cup {s}) : f[t] = entries[t]) /\ f[s] = r
  BY <1>1, <1>2, <1>3, <1>4, WithoutIs DEF Store, Held, Present
<1> QED BY <1>5 DEF r

\* Making room and keeping a new list of a client.
LEMMA Keeps ==
  ASSUME TypeOK, Counted, Limited, Fresh, NEW c \in Client, NEW n \in Nat, NEW P,
         NEW V \in Victims(c, n, P), NEW s \in Unused, NEW r \in Snapshot,
         r.client = c, r.size = n, r.expiresAt = r.createdAt + Ttl,
         NEW f, f = With(Without(Expired \cup V), s, r)
  PROVE  /\ f \in Store /\ Held(f) = (Present \ (Expired \cup V)) \cup {s}
         /\ \A t \in SnapshotId \ (Expired \cup V \cup {s}) : f[t] = entries[t]
         /\ f[s] = r
         /\ Counters(f) = Raised(CountWithout(Expired \cup V), r.pool, n)
         /\ Within(f)
         /\ \A t \in Held(f) : f[t].expiresAt = f[t].createdAt + Ttl
<1> DEFINE R == Expired \cup V
           m == Without(R)
<1>1. Fits(c, n, V) /\ V \subseteq Of(c) /\ Of(c) \subseteq Present /\ Expired \subseteq Present
  BY DEF Victims, Of, Live, Expired
<1>2. R \subseteq Present /\ R \in SUBSET SnapshotId /\ s \in SnapshotId /\ s \notin Present
  BY <1>1 DEF Present, Unused
<1>3. m \in Store /\ Held(m) = Present \ R /\ \A t \in SnapshotId \ R : m[t] = entries[t]
  BY <1>2, WithoutIs
<1>4. r # Absent
  BY AbsentAssumption
<1>5. f \in Store /\ f[s] = r /\ \A t \in SnapshotId \ {s} : f[t] = m[t]
  BY <1>2, <1>3 DEF Store, With
<1>6. Held(f) = Held(m) \cup {s} /\ s \notin Held(m)
  BY <1>2, <1>3, <1>4, <1>5 DEF Held
<1> HIDE DEF m
<1>7. /\ CountWithout(R) = Counters(m) /\ Within(m)
      /\ \A t \in Held(m) : m[t].expiresAt = m[t].createdAt + Ttl
      /\ \A S \in SUBSET Held(m) : Total(m, S) = IdsIn(S)
      /\ Total(m, Held(m)) = totalIds["normal"] + totalIds["retained"] - IdsIn(R)
  <2>1. \A t \in Held(m) : m[t] = entries[t]
    BY <1>3 DEF Held
  <2>2. \A t \in Held(m) : /\ Same(entries, m, {t})
                           /\ m[t].expiresAt = entries[t].expiresAt /\ m[t].createdAt = entries[t].createdAt
    BY <2>1 DEF Same
  <2> HIDE DEF R
  <2> QED BY <1>2, <1>3, <2>2, Removes
<1>8. Same(m, f, Held(m))
  BY <1>5, <1>6 DEF Same, Held
<1>9. Held(m) = Live \ V
  BY <1>3 DEF Live
<1>10. HeldBy(m, c) = Of(c) \ V
  BY <1>3, <1>9 DEF HeldBy, Of, Held
<1>11. /\ Cardinality(Held(m)) + 1 <= MaxSnapshots
       /\ Total(m, Held(m)) + n <= MaxTotalIds
       /\ Cardinality(HeldBy(m, c)) + 1 <= MaxSnapshotsPerClient
       /\ Total(m, HeldBy(m, c)) + n <= MaxTotalIdsPerClient
  <2>1. Total(m, HeldBy(m, c)) = IdsIn(Of(c) \ V)
    BY <1>7, <1>10 DEF HeldBy
  <2> QED BY <1>1, <1>7, <1>9, <1>10, <2>1 DEF Fits
<1>12. Counters(f) = Raised(Counters(m), f[s].pool, f[s].size) /\ Within(f)
  <2>1. /\ Counters(f) = Raised(Counters(m), f[s].pool, f[s].size)
        /\ (/\ Within(m)
            /\ Cardinality(Held(m)) + 1 <= MaxSnapshots
            /\ Total(m, Held(m)) + f[s].size <= MaxTotalIds
            /\ Cardinality(HeldBy(m, f[s].client)) + 1 <= MaxSnapshotsPerClient
            /\ Total(m, HeldBy(m, f[s].client)) + f[s].size <= MaxTotalIdsPerClient)
           => Within(f)
    BY <1>2, <1>3, <1>5, <1>6, <1>8, Joins
  <2>2. f[s].size = n /\ f[s].client = c
    BY <1>5
  <2> QED BY <1>7, <1>11, <2>1, <2>2
<1>13. \A t \in Held(f) : f[t].expiresAt = f[t].createdAt + Ttl
  BY <1>5, <1>6, <1>7, <1>8 DEF Held
<1>14. \A t \in SnapshotId \ (R \cup {s}) : f[t] = entries[t]
  BY <1>3, <1>5
<1> QED BY <1>3, <1>5, <1>6, <1>7, <1>12, <1>13, <1>14 DEF m

\* The same, for a page that is read on the way.
LEMMA Reads ==
  ASSUME TypeOK, Counted, Limited, Fresh, NEW s \in Live
  PROVE  LET f == [Without(Expired) EXCEPT ![s].lastAccessAt = now] IN
         /\ f \in Store /\ Held(f) = Present \ Expired
         /\ CountWithout(Expired) = Counters(f)
         /\ Within(f)
         /\ \A t \in Held(f) : f[t].expiresAt = f[t].createdAt + Ttl
<1> DEFINE f == [Without(Expired) EXCEPT ![s].lastAccessAt = now]
<1>1. Expired \in SUBSET SnapshotId /\ Expired \subseteq Present /\ s \in Present \ Expired
  BY DEF Expired, Present, Live
<1>2. /\ f \in Store /\ Held(f) = Present \ Expired
      /\ \A t \in SnapshotId \ (Expired \cup {s}) : f[t] = entries[t]
      /\ f[s] = [entries[s] EXCEPT !.lastAccessAt = now]
  BY <1>1, ReadIs
<1> HIDE DEF f
<1>3. entries[s] \in Snapshot
  BY <1>1 DEF TypeOK, Present
<1>4. \A t \in Held(f) : /\ Same(entries, f, {t})
                         /\ f[t].expiresAt = entries[t].expiresAt /\ f[t].createdAt = entries[t].createdAt
  <2> TAKE t \in Held(f)
  <2>1. CASE t = s
    BY <1>2, <1>3, <2>1 DEF Snapshot, Same
  <2>2. CASE t # s
    BY <1>1, <1>2, <2>2 DEF Same, Held
  <2> QED BY <2>1, <2>2
<1>5. /\ CountWithout(Expired) = Counters(f) /\ Within(f)
      /\ \A t \in Held(f) : f[t].expiresAt = f[t].createdAt + Ttl
  BY <1>1, <1>2, <1>4, Removes
<1> QED BY <1>2, <1>5 DEF f

LEMMA Drops ==
  ASSUME TypeOK, Counted, Limited, Fresh, NEW R, R \subseteq Present
  PROVE  /\ Without(R) \in Store /\ Held(Without(R)) = Present \ R
         /\ CountWithout(R) = Counters(Without(R))
         /\ Within(Without(R))
         /\ \A t \in Held(Without(R)) : Without(R)[t].expiresAt = Without(R)[t].createdAt + Ttl
<1>1. R \in SUBSET SnapshotId
  BY DEF Present
<1>2. Without(R) \in Store /\ Held(Without(R)) = Present \ R /\ \A s \in SnapshotId \ R : Without(R)[s] = entries[s]
  BY <1>1, WithoutIs
<1>3. \A s \in Held(Without(R)) : Without(R)[s] = entries[s]
  BY <1>2 DEF Held
<1>4. \A s \in Held(Without(R)) : /\ Same(entries, Without(R), {s})
                                  /\ Without(R)[s].expiresAt = entries[s].expiresAt
                                  /\ Without(R)[s].createdAt = entries[s].createdAt
  BY <1>3 DEF Same
<1> QED BY <1>2, <1>4, Removes
-----------------------------------------------------------------------------
(* Every step keeps the invariant. *)

StoreKept == /\ entries' \in Store /\ totalIds' = Counters(entries') /\ Within(entries')
             /\ \A t \in Held(entries') : entries'[t].expiresAt = entries'[t].createdAt + Ttl

CountersTyped == \A f \in Store : Counters(f) \in [Pool -> Nat]

LEMMA CountersAreNat == CountersTyped
<1> SUFFICES ASSUME NEW f \in Store, NEW q \in Pool PROVE Total(f, HeldIn(f, q)) \in Nat
  BY DEF CountersTyped, Counters
<1> QED BY SubsetIsTyped DEF HeldIn

LEMMA PageEndIs ==
  ASSUME TypeOK, NEW s \in Present, NEW o \in Nat
  PROVE  /\ PageEnd(s, o) \in Nat
         /\ o < entries[s].size => o <= PageEnd(s, o) /\ PageEnd(s, o) <= entries[s].size
<1>1. entries[s].pageSize \in Nat /\ entries[s].size \in Nat
  BY DEF TypeOK, Present, Snapshot
<1> QED BY <1>1 DEF PageEnd

LEMMA CreateKeeps ==
  ASSUME IInv, NEW c \in Client, NEW l \in Listing, NEW refs \in BOOLEAN, NEW n \in ListLengths,
         NEW z \in PageSizes, Create(c, l, refs, n, z)
  PROVE  IInv'
<1> DEFINE size == IF n <= MaxIdsPerSnapshot THEN n ELSE MaxIdsPerSnapshot
           r == [pool |-> "normal", client |-> c, listing |-> l, refs |-> refs, size |-> size,
                 pageSize |-> z, createdAt |-> now, expiresAt |-> now + Ttl, lastAccessAt |-> now]
<1> PICK s \in Unused, V \in Victims(c, size, {}) :
       /\ entries' = [Without(Expired \cup V) EXCEPT ![s] = r]
       /\ totalIds' = [CountWithout(Expired \cup V) EXCEPT !["normal"] = @ + size]
       /\ cursors' = cursors \cup
            {[snapshot |-> s, client |-> c, listing |-> l, offset |-> z, pageSize |-> z,
              expires |-> (now + Ttl) \div TicksPerSecond]}
       /\ delivered' = [delivered EXCEPT ![s] = 1..z]
  BY DEF Create
<1>1. now' = now /\ authorities' = authorities
  BY DEF Create
<1>2. size \in Nat /\ z \in Nat /\ now \in Nat /\ Ttl \in Nat /\ s \in SnapshotId
  BY PagingAssumption DEF IInv, TypeOK, Unused
<1> HIDE DEF size
<1>3. r \in Snapshot
  BY <1>2 DEF Snapshot, Pool
<1>4. StoreKept
  <2>1. r.client = c /\ r.size = size /\ r.expiresAt = r.createdAt + Ttl /\ r.pool = "normal"
    OBVIOUS
  <2> HIDE DEF r
  <2>2. PICK f : f = With(Without(Expired \cup V), s, r)
    OBVIOUS
  <2>3. TypeOK /\ Counted /\ Limited /\ Fresh
    BY DEF IInv
  <2>4. /\ f \in Store /\ Counters(f) = Raised(CountWithout(Expired \cup V), r.pool, size)
        /\ Within(f) /\ \A t \in Held(f) : f[t].expiresAt = f[t].createdAt + Ttl
    BY <1>2, <1>3, <2>1, <2>2, <2>3, Keeps
  <2>5. entries' = f
    BY <2>2 DEF With
  <2> QED BY <2>1, <2>4, <2>5 DEF StoreKept, Raised
<1>5. (now + Ttl) \div TicksPerSecond \in Nat
  BY <1>2, PagingAssumption
<1>6. cursors' \subseteq Cursor
  BY <1>2, <1>5 DEF Cursor, IInv, TypeOK
<1>7. delivered' \in [SnapshotId -> SUBSET Nat]
  BY <1>2 DEF IInv, TypeOK
<1>8. TypeOK'
  <2>1. entries' \in [SnapshotId -> Snapshot \cup {Absent}] /\ totalIds' \in [Pool -> Nat]
    BY <1>4, CountersAreNat DEF StoreKept, Store, CountersTyped
  <2>2. now' \in Nat
    BY <1>1 DEF IInv, TypeOK
  <2> QED BY <1>1, <1>2, <1>4, <1>6, <1>7, <2>1, <2>2 DEF TypeOK, IInv
<1>9. NoGap'
  <2>1. \A t \in SnapshotId \ {s} : delivered'[t] = delivered[t]
    BY DEF IInv, TypeOK
  <2>2. delivered'[s] = 1..z
    BY <1>2 DEF IInv, TypeOK
  <2>3. (\A k \in cursors : k.snapshot \in SnapshotId \ {s}) /\ \A a \in authorities : a.id \in SnapshotId \ {s}
    BY DEF IInv, TypeOK, Cursor, Authority, Unused
  <2>4. \A k \in cursors : 1..k.offset \subseteq delivered'[k.snapshot]
    BY <2>1, <2>3 DEF IInv, NoGap
  <2>5. \A a \in authorities : 1..a.offset \subseteq delivered'[a.id]
    BY <2>1, <2>3 DEF IInv, NoGap
  <2>6. \A k \in cursors' : 1..k.offset \subseteq delivered'[k.snapshot]
    <3> SUFFICES ASSUME NEW k \in cursors', k \notin cursors PROVE 1..k.offset \subseteq delivered'[k.snapshot]
      BY <2>4
    <3>1. k.offset = z /\ k.snapshot = s
      OBVIOUS
    <3> QED BY <2>2, <3>1
  <2> QED BY <1>1, <2>5, <2>6 DEF NoGap
<1> QED BY <1>4, <1>8, <1>9 DEF IInv, StoreKept, Counted, Limited, Fresh, Present, Held

LEMMA NextPageKeeps ==
  ASSUME IInv, NEW c \in Client, NEW l \in Listing, NEW k \in cursors, NextPage(c, l, k)
  PROVE  IInv'
<1> DEFINE s == k.snapshot
           end == PageEnd(s, k.offset)
<1>1. /\ CursorHolds(k, c, l.scope, l.kind) /\ now' = now /\ authorities' = authorities
      /\ delivered' = [delivered EXCEPT ![s] = @ \cup ((k.offset + 1)..end)]
  BY DEF NextPage
<1>2. s \in Live /\ s \in Present /\ s \in SnapshotId /\ k.offset \in Nat /\ k \in Cursor
  BY <1>1 DEF CursorHolds, Live, Present, IInv, TypeOK, Cursor
<1>3. end \in Nat
  BY <1>2, PageEndIs DEF IInv
<1>4. StoreKept /\ (cursors' = cursors \/ cursors' = cursors \cup {[k EXCEPT !.offset = end]})
  <2>1. CASE end < entries[s].size
    <3>1. /\ entries'  = [Without(Expired) EXCEPT ![s].lastAccessAt = now] /\ totalIds' = CountWithout(Expired)
          /\ cursors' = cursors \cup {[k EXCEPT !.offset = end]}
      BY <2>1 DEF NextPage
    <3> QED BY <1>2, <3>1, Reads DEF IInv, StoreKept
  <2>2. CASE ~(end < entries[s].size)
    <3>1. entries' = Without(Expired \cup {s}) /\ totalIds' = CountWithout(Expired \cup {s}) /\ cursors' = cursors
      BY <2>2 DEF NextPage
    <3>2. Expired \cup {s} \subseteq Present
      BY <1>2 DEF Expired
    <3> QED BY <3>1, <3>2, Drops DEF IInv, StoreKept
  <2> QED BY <2>1, <2>2
<1> HIDE DEF end
<1>5. [k EXCEPT !.offset = end] \in Cursor /\ [k EXCEPT !.offset = end].snapshot = s /\ [k EXCEPT !.offset = end].offset = end
  BY <1>2, <1>3 DEF Cursor
<1>6. cursors' \subseteq Cursor
  BY <1>4, <1>5 DEF IInv, TypeOK
<1>7. delivered' \in [SnapshotId -> SUBSET Nat] /\ delivered'[s] = delivered[s] \cup ((k.offset + 1)..end)
      /\ \A t \in SnapshotId : delivered[t] \subseteq delivered'[t]
  BY <1>1, <1>2, <1>3 DEF IInv, TypeOK
<1>8. TypeOK'
  <2>1. entries' \in [SnapshotId -> Snapshot \cup {Absent}] /\ totalIds' \in [Pool -> Nat]
    BY <1>4, CountersAreNat DEF StoreKept, Store, CountersTyped
  <2>2. now' \in Nat
    BY <1>1 DEF IInv, TypeOK
  <2> QED BY <1>1, <1>4, <1>6, <1>7, <2>1, <2>2 DEF TypeOK, IInv
<1>9. NoGap'
  <2>1. \A j \in cursors : 1..j.offset \subseteq delivered'[j.snapshot]
    BY <1>7 DEF IInv, NoGap, TypeOK, Cursor
  <2>2. \A a \in authorities : 1..a.offset \subseteq delivered'[a.id]
    BY <1>7 DEF IInv, NoGap, TypeOK, Authority
  <2>3. 1..end \subseteq delivered'[s]
    <3>1. 1..k.offset \subseteq delivered[s]
      BY DEF IInv, NoGap
    <3> QED BY <1>2, <1>3, <1>7, <3>1
  <2> QED BY <1>1, <1>4, <1>5, <2>1, <2>2, <2>3 DEF NoGap
<1> QED BY <1>4, <1>8, <1>9 DEF IInv, StoreKept, Counted, Limited, Fresh, Present, Held

LEMMA ContinuationAuthorityKeeps ==
  ASSUME IInv, NEW c \in Client, NEW scope, NEW k \in cursors, ContinuationAuthority(c, scope, k)
  PROVE  IInv'
<1> DEFINE s == k.snapshot
           r == [entries[s] EXCEPT !.pool = "retained", !.lastAccessAt = now]
<1> PICK a \in Unused, V \in Victims(c, entries[s].size, {s}) :
       /\ entries' = [Without(Expired \cup V) EXCEPT ![a] = r]
       /\ totalIds' = [CountWithout(Expired \cup V) EXCEPT !["retained"] = @ + entries[s].size]
       /\ authorities' = authorities \cup
            {[id |-> a, offset |-> k.offset, expires |-> entries[s].expiresAt \div TicksPerSecond]}
       /\ delivered' = [delivered EXCEPT ![a] = {i \in delivered[s] : i <= k.offset}]
  BY DEF ContinuationAuthority
<1>1. CursorHolds(k, c, scope, "search") /\ now' = now /\ cursors' = cursors
  BY DEF ContinuationAuthority
<1>2. s \in Live /\ s \in Present /\ s \in SnapshotId /\ k.offset \in Nat /\ entries[s] \in Snapshot
      /\ entries[s].client = c /\ a \in SnapshotId /\ now \in Nat
  BY <1>1 DEF CursorHolds, Live, Present, IInv, TypeOK, Cursor, Unused
<1>3. entries[s].size \in Nat /\ entries[s].expiresAt \in Nat /\ entries[s].expiresAt = entries[s].createdAt + Ttl
  BY <1>2 DEF Snapshot, IInv, Fresh
<1>4. /\ r \in Snapshot /\ r.client = c /\ r.size = entries[s].size /\ r.pool = "retained"
      /\ r.expiresAt = r.createdAt + Ttl
  BY <1>2, <1>3 DEF Snapshot, Pool
<1>5. StoreKept
  <2> HIDE DEF r
  <2>1. PICK n \in Nat : n = entries[s].size
    BY <1>3
  <2>2. PICK f : f = With(Without(Expired \cup V), a, r)
    OBVIOUS
  <2>3. TypeOK /\ Counted /\ Limited /\ Fresh
    BY DEF IInv
  <2>4. V \in Victims(c, n, {s}) /\ r.size = n
    BY <1>4, <2>1
  <2>5. /\ f \in Store /\ Counters(f) = Raised(CountWithout(Expired \cup V), r.pool, n)
        /\ Within(f) /\ \A t \in Held(f) : f[t].expiresAt = f[t].createdAt + Ttl
    BY <1>4, <2>2, <2>3, <2>4, Keeps
  <2>6. entries' = f
    BY <2>2 DEF With
  <2> QED BY <1>4, <2>1, <2>5, <2>6 DEF StoreKept, Raised
<1>6. entries[s].expiresAt \div TicksPerSecond \in Nat
  BY <1>3, PagingAssumption
<1>7. authorities' \subseteq Authority
  BY <1>2, <1>6 DEF Authority, IInv, TypeOK
<1>8. /\ delivered' \in [SnapshotId -> SUBSET Nat] /\ delivered'[a] = {i \in delivered[s] : i <= k.offset}
      /\ \A t \in SnapshotId \ {a} : delivered'[t] = delivered[t]
  BY <1>2 DEF IInv, TypeOK
<1>9. TypeOK'
  <2>1. entries' \in [SnapshotId -> Snapshot \cup {Absent}] /\ totalIds' \in [Pool -> Nat]
    BY <1>5, CountersAreNat DEF StoreKept, Store, CountersTyped
  <2>2. now' \in Nat
    BY <1>1 DEF IInv, TypeOK
  <2> QED BY <1>1, <1>5, <1>7, <1>8, <2>1, <2>2 DEF TypeOK, IInv
<1>10. NoGap'
  <2>1. (\A j \in cursors : j.snapshot \in SnapshotId \ {a}) /\ \A b \in authorities : b.id \in SnapshotId \ {a}
    BY DEF IInv, TypeOK, Cursor, Authority, Unused
  <2>2. \A j \in cursors : 1..j.offset \subseteq delivered'[j.snapshot]
    BY <1>8, <2>1 DEF IInv, NoGap
  <2>3. \A b \in authorities : 1..b.offset \subseteq delivered'[b.id]
    BY <1>8, <2>1 DEF IInv, NoGap
  <2>4. 1..k.offset \subseteq delivered'[a]
    <3>1. 1..k.offset \subseteq delivered[s]
      BY DEF IInv, NoGap
    <3> QED BY <1>2, <1>8, <3>1
  <2> QED BY <1>1, <2>2, <2>3, <2>4 DEF NoGap
<1> QED BY <1>5, <1>9, <1>10 DEF IInv, StoreKept, Counted, Limited, Fresh, Present, Held

LEMMA ResolveKeeps ==
  ASSUME IInv, NEW c \in Client, NEW scope, NEW a \in authorities, ResolveContinuation(c, scope, a)
  PROVE  IInv'
<1> DEFINE s == a.id
           end == PageEnd(s, a.offset)
<1>1. /\ s \in Live /\ now' = now /\ cursors' = cursors
      /\ entries'  = [Without(Expired) EXCEPT ![s].lastAccessAt = now] /\ totalIds' = CountWithout(Expired)
      /\ authorities' = authorities \/ authorities' = authorities \cup {[a EXCEPT !.offset = end]}
      /\ delivered' = [delivered EXCEPT ![s] = @ \cup ((a.offset + 1)..end)]
  BY DEF ResolveContinuation
<1>2. s \in Present /\ s \in SnapshotId /\ a.offset \in Nat /\ a \in Authority
  BY <1>1 DEF Live, Present, IInv, TypeOK, Authority
<1>3. end \in Nat
  BY <1>2, PageEndIs DEF IInv
<1>4. StoreKept
  BY <1>1, Reads DEF IInv, StoreKept
<1> HIDE DEF end
<1>5. [a EXCEPT !.offset = end] \in Authority /\ [a EXCEPT !.offset = end].id = s /\ [a EXCEPT !.offset = end].offset = end
  BY <1>2, <1>3 DEF Authority
<1>6. authorities' \subseteq Authority
  BY <1>1, <1>5 DEF IInv, TypeOK
<1>7. delivered' \in [SnapshotId -> SUBSET Nat] /\ delivered'[s] = delivered[s] \cup ((a.offset + 1)..end)
      /\ \A t \in SnapshotId : delivered[t] \subseteq delivered'[t]
  BY <1>1, <1>2, <1>3 DEF IInv, TypeOK
<1>8. TypeOK'
  <2>1. entries' \in [SnapshotId -> Snapshot \cup {Absent}] /\ totalIds' \in [Pool -> Nat]
    BY <1>4, CountersAreNat DEF StoreKept, Store, CountersTyped
  <2>2. now' \in Nat
    BY <1>1 DEF IInv, TypeOK
  <2> QED BY <1>1, <1>4, <1>6, <1>7, <2>1, <2>2 DEF TypeOK, IInv
<1>9. NoGap'
  <2>1. \A j \in cursors : 1..j.offset \subseteq delivered'[j.snapshot]
    BY <1>7 DEF IInv, NoGap, TypeOK, Cursor
  <2>2. \A b \in authorities : 1..b.offset \subseteq delivered'[b.id]
    BY <1>7 DEF IInv, NoGap, TypeOK, Authority
  <2>3. 1..end \subseteq delivered'[s]
    <3>1. 1..a.offset \subseteq delivered[s]
      BY DEF IInv, NoGap
    <3> QED BY <1>2, <1>3, <1>7, <3>1
  <2> QED BY <1>1, <1>5, <2>1, <2>2, <2>3 DEF NoGap
<1> QED BY <1>4, <1>8, <1>9 DEF IInv, StoreKept, Counted, Limited, Fresh, Present, Held

LEMMA EmptyIsKept ==
  /\ [s \in SnapshotId |-> Absent] \in Store
  /\ Held([s \in SnapshotId |-> Absent]) = {}
  /\ Counters([s \in SnapshotId |-> Absent]) = [q \in Pool |-> 0]
  /\ Within([s \in SnapshotId |-> Absent])
<1> DEFINE e == [s \in SnapshotId |-> Absent]
<1>1. e \in Store /\ Held(e) = {}
  BY DEF Store, Held
<1> HIDE DEF e
<1>2. \A q \in Pool : HeldIn(e, q) = {}
  BY <1>1 DEF HeldIn
<1>3. \A c \in Client : HeldBy(e, c) = {}
  BY <1>1 DEF HeldBy
<1>4. Total(e, {}) = 0 /\ Cardinality({}) = 0
  BY TotalOfNone, FS_EmptySet
<1>5. Counters(e) = [q \in Pool |-> 0]
  BY <1>2, <1>4 DEF Counters
<1>6. MaxSnapshots \in Nat /\ MaxTotalIds \in Nat /\ MaxSnapshotsPerClient \in Nat /\ MaxTotalIdsPerClient \in Nat
  BY PagingAssumption
<1>7. Within(e)
  BY <1>1, <1>3, <1>4, <1>6 DEF Within
<1> QED BY <1>1, <1>5, <1>7 DEF e

\* TypeOK, the counters, the limits, the expiries and NoGap hold in every reachable
\* state of the store, for any limits and any clients.
THEOREM Invariance == Spec => []IInv
<1>1. Init => IInv
  <2> SUFFICES ASSUME Init PROVE IInv
    OBVIOUS
  <2>1. entries = [s \in SnapshotId |-> Absent] /\ totalIds = [q \in Pool |-> 0]
    BY DEF Init, EmptyStore
  <2>2. Counted /\ Limited /\ Fresh
    BY <2>1, EmptyIsKept DEF Counted, Limited, Fresh, Present, Held
  <2>3. TypeOK
    BY <2>1 DEF Init, TypeOK
  <2>4. NoGap
    BY DEF Init, NoGap
  <2> QED BY <2>2, <2>3, <2>4 DEF IInv
<1>2. IInv /\ [Next]_vars => IInv'
  <2> SUFFICES ASSUME IInv, [Next]_vars PROVE IInv'
    OBVIOUS
  <2>1. ASSUME NEW c \in Client, NEW l \in Listing, NEW refs \in BOOLEAN, NEW n \in ListLengths,
               NEW z \in PageSizes, Create(c, l, refs, n, z)
        PROVE  IInv'
    BY <2>1, CreateKeeps
  <2>2. ASSUME NEW c \in Client, NEW l \in Listing, NEW k \in cursors, NextPage(c, l, k)
        PROVE  IInv'
    BY <2>2, NextPageKeeps
  <2>3. ASSUME NEW c \in Client, NEW l \in Listing, NEW k \in cursors, ContinuationAuthority(c, l.scope, k)
        PROVE  IInv'
    BY <2>3, ContinuationAuthorityKeeps
  <2>4. ASSUME NEW c \in Client, NEW l \in Listing, NEW a \in authorities, ResolveContinuation(c, l.scope, a)
        PROVE  IInv'
    BY <2>4, ResolveKeeps
  <2>5. CASE Prune
    <3>1. Expired \subseteq Present
      BY DEF Expired
    <3>2. entries' = Without(Expired) /\ totalIds' = CountWithout(Expired)
          /\ UNCHANGED <<now, cursors, authorities, delivered>>
      BY <2>5 DEF Prune
    <3>3. StoreKept
      BY <3>1, <3>2, Drops DEF IInv, StoreKept
    <3>4. entries' \in [SnapshotId -> Snapshot \cup {Absent}] /\ totalIds' \in [Pool -> Nat]
      BY <3>3, CountersAreNat DEF StoreKept, Store, CountersTyped
    <3>5. TypeOK' /\ NoGap'
      BY <3>2, <3>4 DEF IInv, TypeOK, NoGap
    <3> QED BY <3>3, <3>5 DEF IInv, StoreKept, Counted, Limited, Fresh, Present, Held
  <2>6. CASE Tick
    BY <2>6 DEF Tick, IInv, TypeOK, Counted, Limited, Fresh, Present, NoGap
  <2>7. CASE Restart
    <3>1. /\ entries' = [s \in SnapshotId |-> Absent] /\ totalIds' = [q \in Pool |-> 0]
          /\ UNCHANGED <<now, cursors, authorities, delivered>>
      BY <2>7 DEF Restart
    <3>2. (Counted /\ Limited /\ Fresh)'
      BY <3>1, EmptyIsKept DEF Counted, Limited, Fresh, Present, Held
    <3>3. TypeOK' /\ NoGap'
      BY <3>1 DEF IInv, TypeOK, NoGap
    <3> QED BY <3>2, <3>3 DEF IInv
  <2>8. CASE UNCHANGED vars
    BY <2>8 DEF vars, IInv, TypeOK, Counted, Limited, Fresh, Present, NoGap
  <2> QED BY <2>1, <2>2, <2>3, <2>4, <2>5, <2>6, <2>7, <2>8 DEF Next
<1> QED BY <1>1, <1>2, PTL DEF Spec

-----------------------------------------------------------------------------
(* What a reader should know of.                                            *)

\* The counters of ids, kept by increments, always equal the lengths of the lists that
\* are held, and neither the global nor a client's limit is ever passed.
THEOREM LimitsKept == Spec => []LimitsHold
<1>1. IInv => LimitsHold
  BY LimitsFollow DEF IInv
<1> QED BY <1>1, Invariance, PTL

\* Whoever holds a cursor or a continuation authority has been shown everything before
\* it, however cursors are reused, lists retained, evicted or lost.
THEOREM NothingSkipped == Spec => []NoGap
<1>1. IInv => NoGap
  BY DEF IInv
<1> QED BY <1>1, Invariance, PTL

\* No page of a list is shown once Ttl has passed since the list was made.
THEOREM NothingStale == Spec => ExpiryHolds
<1>1. IInv /\ [Next]_vars =>
        [\A s \in Present : delivered'[s] # delivered[s] => now < entries[s].createdAt + Ttl]_vars
  <2> SUFFICES ASSUME IInv, Next, NEW s \in Present, delivered'[s] # delivered[s]
               PROVE  now < entries[s].createdAt + Ttl
    BY DEF Present
  <2>1. s \in SnapshotId /\ delivered \in [SnapshotId -> SUBSET Nat] /\ now \in Nat
        /\ entries[s].expiresAt \in Nat /\ entries[s].expiresAt = entries[s].createdAt + Ttl
    BY DEF IInv, TypeOK, Present, Snapshot, Fresh
  <2>2. s \in Live => now < entries[s].createdAt + Ttl
    BY <2>1 DEF Live, Expired
  <2>3. ASSUME NEW c \in Client, NEW l \in Listing, NEW refs \in BOOLEAN, NEW n \in ListLengths,
               NEW z \in PageSizes, Create(c, l, refs, n, z)
        PROVE  FALSE
    <3>1. PICK t \in Unused : delivered' = [delivered EXCEPT ![t] = 1..z]
      BY <2>3 DEF Create
    <3> QED BY <2>1, <3>1 DEF Unused
  <2>4. ASSUME NEW c \in Client, NEW l \in Listing, NEW k \in cursors, NextPage(c, l, k)
        PROVE  s \in Live
    BY <2>1, <2>4 DEF NextPage, CursorHolds
  <2>5. ASSUME NEW c \in Client, NEW l \in Listing, NEW k \in cursors, ContinuationAuthority(c, l.scope, k)
        PROVE  FALSE
    <3>1. PICK t \in Unused : \E D : delivered' = [delivered EXCEPT ![t] = D]
      BY <2>5 DEF ContinuationAuthority
    <3> QED BY <2>1, <3>1 DEF Unused
  <2>6. ASSUME NEW c \in Client, NEW l \in Listing, NEW a \in authorities, ResolveContinuation(c, l.scope, a)
        PROVE  s \in Live
    BY <2>1, <2>6 DEF ResolveContinuation
  <2>7. ~Prune /\ ~Tick /\ ~Restart
    BY DEF Prune, Tick, Restart
  <2> QED BY <2>2, <2>3, <2>4, <2>5, <2>6, <2>7 DEF Next
<1> QED BY <1>1, Invariance, PTL DEF Spec, ExpiryHolds

\* A list that has not expired goes only because its last page was shown, the process
\* restarted, or its own client stored another: no client displaces another's lists.
THEOREM NoneDisplaced == Spec => OnlyOwnerDisplaces
<1>1. IInv /\ [Next]_vars =>
        [\A s \in Live :
           entries'[s] = Absent =>
             \/ entries[s].size \in delivered'[s]
             \/ \A t \in SnapshotId : entries'[t] = Absent
             \/ \E t \in SnapshotId \ Present :
                  entries'[t] # Absent /\ entries'[t].client = entries[s].client]_vars
  <2> SUFFICES ASSUME IInv, Next, NEW s \in Live, entries'[s] = Absent
               PROVE  \/ entries[s].size \in delivered'[s]
                      \/ \A t \in SnapshotId : entries'[t] = Absent
                      \/ \E t \in SnapshotId \ Present :
                           entries'[t] # Absent /\ entries'[t].client = entries[s].client
    OBVIOUS
  <2>1. /\ s \in SnapshotId /\ s \in Present /\ s \notin Expired /\ entries[s] # Absent
        /\ entries \in [SnapshotId -> Snapshot \cup {Absent}] /\ entries[s] \in Snapshot
    BY DEF Live, Present, IInv, TypeOK
  <2>2. ASSUME NEW c \in Client, NEW V, NEW t \in Unused, NEW r \in Snapshot, r.client = c, V \subseteq Of(c),
               entries' = With(Without(Expired \cup V), t, r)
        PROVE  \E u \in SnapshotId \ Present : entries'[u] # Absent /\ entries'[u].client = entries[s].client
    <3>1. t \in SnapshotId \ Present /\ entries'[t] = r
      BY <2>2 DEF With, Without, Unused
    <3>2. s \in V
      BY <2>1, <2>2, <3>1 DEF With, Without
    <3>3. entries[s].client = c
      BY <2>2, <3>2 DEF Of
    <3> QED BY <2>2, <3>1, <3>3, AbsentAssumption
  <2>3. ASSUME NEW c \in Client, NEW l \in Listing, NEW refs \in BOOLEAN, NEW n \in ListLengths,
               NEW z \in PageSizes, Create(c, l, refs, n, z)
        PROVE  \E u \in SnapshotId \ Present : entries'[u] # Absent /\ entries'[u].client = entries[s].client
    <3> DEFINE size == IF n <= MaxIdsPerSnapshot THEN n ELSE MaxIdsPerSnapshot
               r == [pool |-> "normal", client |-> c, listing |-> l, refs |-> refs, size |-> size,
                     pageSize |-> z, createdAt |-> now, expiresAt |-> now + Ttl, lastAccessAt |-> now]
    <3>1. PICK t \in Unused, V \in Victims(c, size, {}) : entries' = [Without(Expired \cup V) EXCEPT ![t] = r]
      BY <2>3 DEF Create
    <3>2. size \in Nat /\ z \in Nat /\ now \in Nat /\ now + Ttl \in Nat
      BY PagingAssumption DEF IInv, TypeOK
    <3> HIDE DEF size
    <3>3. r \in Snapshot /\ r.client = c
      BY <3>2 DEF Snapshot, Pool
    <3>4. V \subseteq Of(c)
      BY DEF Victims
    <3>5. entries' = With(Without(Expired \cup V), t, r)
      BY <3>1 DEF With
    <3> HIDE DEF r
    <3> QED BY <2>2, <3>3, <3>4, <3>5
  <2>4. ASSUME NEW c \in Client, NEW l \in Listing, NEW k \in cursors, NextPage(c, l, k)
        PROVE  entries[s].size \in delivered'[s]
    <3> DEFINE t == k.snapshot
               end == PageEnd(t, k.offset)
    <3>1. /\ t \in Live /\ k.offset < entries[t].size
          /\ delivered' = [delivered EXCEPT ![t] = @ \cup ((k.offset + 1)..end)]
      BY <2>4 DEF NextPage, CursorHolds
    <3>2. t \in SnapshotId /\ t \in Present /\ k.offset \in Nat /\ entries[t].size \in Nat
          /\ entries[t].pageSize \in Nat /\ t \notin Expired
      BY <3>1 DEF Live, Present, IInv, TypeOK, Cursor, Snapshot
    <3>3. CASE end < entries[t].size
      <4>1. entries' = [Without(Expired) EXCEPT ![t].lastAccessAt = now]
        BY <2>4, <3>3 DEF NextPage
      <4>2. TypeOK /\ Expired \in SUBSET SnapshotId /\ t \in Present \ Expired
        BY <3>2 DEF IInv, Expired, Present
      <4>3. Held(entries') = Present \ Expired
        BY <4>1, <4>2, ReadIs
      <4> QED BY <2>1, <4>3 DEF Held
    <3>4. CASE ~(end < entries[t].size)
      <4>1. entries' = Without(Expired \cup {t})
        BY <2>4, <3>4 DEF NextPage
      <4>2. s = t
        BY <2>1, <4>1 DEF Without
      <4>3. end = entries[t].size
        BY <3>2, <3>4 DEF PageEnd
      <4>4. delivered'[t] = delivered[t] \cup ((k.offset + 1)..end)
        BY <3>1, <3>2 DEF IInv, TypeOK
      <4> QED BY <3>1, <3>2, <4>2, <4>3, <4>4
    <3> QED BY <3>3, <3>4
  <2>5. ASSUME NEW c \in Client, NEW l \in Listing, NEW k \in cursors, ContinuationAuthority(c, l.scope, k)
        PROVE  \E u \in SnapshotId \ Present : entries'[u] # Absent /\ entries'[u].client = entries[s].client
    <3> DEFINE t == k.snapshot
               r == [entries[t] EXCEPT !.pool = "retained", !.lastAccessAt = now]
    <3>1. PICK a \in Unused, V \in Victims(c, entries[t].size, {t}) :
            entries' = [Without(Expired \cup V) EXCEPT ![a] = r]
      BY <2>5 DEF ContinuationAuthority
    <3>2. t \in SnapshotId /\ entries[t] \in Snapshot /\ entries[t].client = c /\ now \in Nat
      BY <2>5 DEF ContinuationAuthority, CursorHolds, Live, Present, IInv, TypeOK
    <3>3. r \in Snapshot /\ r.client = c
      BY <3>2 DEF Snapshot, Pool
    <3>4. V \subseteq Of(c)
      BY DEF Victims
    <3>5. entries' = With(Without(Expired \cup V), a, r)
      BY <3>1 DEF With
    <3> HIDE DEF r
    <3> QED BY <2>2, <3>3, <3>4, <3>5
  <2>6. ASSUME NEW c \in Client, NEW l \in Listing, NEW a \in authorities, ResolveContinuation(c, l.scope, a)
        PROVE  FALSE
    <3>1. entries' = [Without(Expired) EXCEPT ![a.id].lastAccessAt = now] /\ a.id \in Live
      BY <2>6 DEF ResolveContinuation
    <3>2. TypeOK /\ Expired \in SUBSET SnapshotId /\ a.id \in Present \ Expired
      BY <3>1 DEF IInv, Expired, Present, Live
    <3>3. Held(entries') = Present \ Expired
      BY <3>1, <3>2, ReadIs
    <3> QED BY <2>1, <3>3 DEF Held
  <2>7. CASE Prune
    BY <2>1, <2>7 DEF Prune, Without
  <2>8. CASE Tick
    BY <2>1, <2>8 DEF Tick
  <2>9. CASE Restart
    BY <2>9 DEF Restart
  <2> QED BY <2>3, <2>4, <2>5, <2>6, <2>7, <2>8, <2>9 DEF Next
<1> QED BY <1>1, Invariance, PTL DEF Spec, OnlyOwnerDisplaces
==============================================================================
