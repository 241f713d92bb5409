------------------------ MODULE OpaqueHandles_proofs ------------------------
(***************************************************************************)
(* What the store of opaque references keeps to, proved for any clients,   *)
(* capacities and lifetimes that the configuration accepts.                *)
(***************************************************************************)
EXTENDS OpaqueHandles, FiniteSetTheorems, SequenceTheorems, WellFoundedInduction, TLAPS

-----------------------------------------------------------------------------
(* Induction, as a statement about sets of numbers.                         *)

LEMMA Induction ==
  ASSUME NEW P, P \subseteq Nat, 0 \in P, \A n \in P : n + 1 \in P
  PROVE  P = Nat
<1> SUFFICES ASSUME Nat \ P # {} PROVE FALSE
  OBVIOUS
<1> DEFINE R == OpToRel(<, Nat)
<1>1. PICK m \in Nat \ P : \A n \in Nat \ P : ~(<<n, m>> \in R)
  <2>1. IsWellFoundedOn(R, Nat)
    BY NatLessThanWellFounded
  <2> HIDE DEF R
  <2> QED BY <2>1, WFMin
<1>2. \A n \in Nat \ P : ~(n < m)
  BY <1>1 DEF OpToRel
<1>3. m # 0 /\ m - 1 \in Nat /\ m - 1 \in P
  BY <1>2
<1> QED BY <1>3

-----------------------------------------------------------------------------
(* Pruning.                                                                 *)

\* k is drawn from s: each of its places is a different place of s.
Drawn(k, s) ==
  \E m \in Injection(DOMAIN k, DOMAIN s) : \A i \in DOMAIN k : k[i] = s[m[i]]

\* The recursion of Kept has a solution, and Kept is its value for the whole sequence.
LEMMA KeptUnfolds ==
  ASSUME NEW s, Len(s) \in Nat, NEW t
  PROVE  \E f : /\ f = [n \in 0..Len(s) |->
                          IF n = 0 THEN <<>>
                          ELSE IF s[n].expires > t THEN Append(f[n - 1], s[n]) ELSE f[n - 1]]
                /\ Kept(s, t) = f[Len(s)]
<1> DEFINE Step(f, n) == IF n = 0 THEN <<>>
                         ELSE IF s[n].expires > t THEN Append(f[n - 1], s[n]) ELSE f[n - 1]
           Rec(f) == [n \in 0..Len(s) |-> Step(f, n)]
           P == {n \in Nat : \E f : f = [m \in 0..n |-> Step(f, m)]}
<1>1. 0 \in P
  <2>1. [m \in 0..0 |-> <<>>] = [m \in 0..0 |-> Step([j \in 0..0 |-> <<>>], m)]
    OBVIOUS
  <2> QED BY <2>1
<1>2. ASSUME NEW n \in P PROVE n + 1 \in P
  <2>1. n \in Nat
    OBVIOUS
  <2>2. PICK f : f = [m \in 0..n |-> Step(f, m)]
    OBVIOUS
  <2> DEFINE g == [m \in 0..(n + 1) |-> IF m = n + 1 THEN Step(f, n + 1) ELSE f[m]]
  <2>3. \A m \in 0..(n + 1) : g[m] = Step(g, m)
    <3> TAKE m \in 0..(n + 1)
    <3>1. CASE m = n + 1
      <4>1. m # 0 /\ m - 1 = n /\ g[n] = f[n]
        BY <2>1, <3>1
      <4> QED BY <2>1, <3>1, <4>1
    <3>2. CASE m \in 0..n /\ m # 0
      <4>1. m - 1 \in 0..n /\ g[m] = f[m] /\ g[m - 1] = f[m - 1]
        BY <2>1, <3>2
      <4>2. f[m] = Step(f, m)
        BY <2>2, <3>2
      <4> QED BY <3>2, <4>1, <4>2
    <3>3. CASE m = 0
      BY <2>1, <2>2, <3>3
    <3> QED BY <2>1, <3>1, <3>2, <3>3
  <2> HIDE DEF Step
  <2>4. g = [m \in 0..(n + 1) |-> Step(g, m)]
    BY <2>3
  <2> HIDE DEF g
  <2>5. \E j : j = [m \in 0..(n + 1) |-> Step(j, m)]
    <3> WITNESS g
    <3> QED BY <2>4
  <2> QED BY <2>1, <2>5
<1>3. PICK f : f = Rec(f)
  <2>1. P = Nat
    <3> HIDE DEF P
    <3>1. P \subseteq Nat
      BY DEF P
    <3> QED BY <1>1, <1>2, <3>1, Induction
  <2>2. Len(s) \in P
    BY <2>1
  <2> QED BY <2>2
<1>4. Kept(s, t) = (CHOOSE g : g = Rec(g))[Len(s)]
  BY DEF Kept
<1>5. PICK h : h = (CHOOSE g : g = Rec(g))
  OBVIOUS
<1>6. h = Rec(h)
  <2> HIDE DEF Rec
  <2> QED BY <1>3, <1>5, Zenon
<1>7. Kept(s, t) = h[Len(s)]
  BY <1>4, <1>5
<1> WITNESS h
<1> QED BY <1>6, <1>7

LEMMA KeptIs ==
  ASSUME NEW S, NEW s \in Seq(S), NEW t
  PROVE  Kept(s, t) \in Seq(S) /\ Drawn(Kept(s, t), s)
<1>1. Len(s) \in Nat /\ DOMAIN s = 1..Len(s) /\ \A n \in 1..Len(s) : s[n] \in S
  BY LenProperties, ElementOfSeq
<1>2. PICK f : /\ f = [n \in 0..Len(s) |->
                         IF n = 0 THEN <<>>
                         ELSE IF s[n].expires > t THEN Append(f[n - 1], s[n]) ELSE f[n - 1]]
               /\ Kept(s, t) = f[Len(s)]
  BY <1>1, KeptUnfolds
<1> DEFINE From(k, n) == \E m \in Injection(DOMAIN k, 1..n) : \A i \in DOMAIN k : k[i] = s[m[i]]
           P == {n \in Nat : n <= Len(s) => f[n] \in Seq(S) /\ From(f[n], n)}
<1>3. 0 \in P
  <2>1. f[0] = <<>>
    BY <1>1, <1>2
  <2>2. <<>> \in Seq(S) /\ DOMAIN <<>> = {}
    OBVIOUS
  <2>3. [i \in {} |-> 0] \in Injection({}, 1..0)
    BY DEF Injection, IsInjective
  <2>4. From(<<>>, 0)
    BY <2>2, <2>3
  <2> QED BY <2>1, <2>2, <2>4
<1>4. ASSUME NEW n \in P PROVE n + 1 \in P
  <2> SUFFICES ASSUME n + 1 <= Len(s) PROVE f[n + 1] \in Seq(S) /\ From(f[n + 1], n + 1)
    OBVIOUS
  <2>1. n \in Nat /\ n <= Len(s) /\ n + 1 \in 1..Len(s) /\ s[n + 1] \in S
    BY <1>1
  <2>2. f[n] \in Seq(S) /\ From(f[n], n)
    BY <1>1, <2>1
  <2>3. PICK k : k = f[n]
    OBVIOUS
  <2>4. PICK m \in Injection(DOMAIN k, 1..n) : \A i \in DOMAIN k : k[i] = s[m[i]]
    BY <2>2, <2>3
  <2>5. f[n + 1] = IF s[n + 1].expires > t THEN Append(k, s[n + 1]) ELSE k
    <3>1. n + 1 \in 0..Len(s) /\ n + 1 # 0 /\ (n + 1) - 1 = n
      BY <1>1, <2>1
    <3>2. f[n + 1] = IF s[n + 1].expires > t THEN Append(f[(n + 1) - 1], s[n + 1]) ELSE f[(n + 1) - 1]
      BY <1>2, <3>1
    <3> QED BY <2>3, <3>1, <3>2
  <2>6. k \in Seq(S) /\ Len(k) \in Nat /\ DOMAIN k = 1..Len(k)
    BY <2>2, <2>3, LenProperties
  <2>7. /\ m \in [DOMAIN k -> 1..n]
        /\ \A i, j \in DOMAIN k : m[i] = m[j] => i = j
    BY DEF Injection, IsInjective
  <2>8. CASE f[n + 1] = k
    <3>1. m \in Injection(DOMAIN k, 1..(n + 1))
      BY <2>1, <2>7 DEF Injection, IsInjective
    <3> QED BY <2>4, <2>6, <2>8, <3>1
  <2>9. CASE f[n + 1] = Append(k, s[n + 1])
    <3>1. PICK a : a = Append(k, s[n + 1])
      OBVIOUS
    <3>2. /\ a \in Seq(S) /\ Len(a) = Len(k) + 1 /\ DOMAIN a = 1..(Len(k) + 1)
          /\ (\A i \in 1..Len(k) : a[i] = k[i]) /\ a[Len(k) + 1] = s[n + 1]
      BY <2>1, <2>6, <3>1, AppendProperties, LenProperties
    <3> DEFINE q == [i \in 1..(Len(k) + 1) |-> IF i = Len(k) + 1 THEN n + 1 ELSE m[i]]
    <3>3. q \in [DOMAIN a -> 1..(n + 1)]
      BY <2>1, <2>6, <2>7, <3>2
    <3>4. \A i, j \in DOMAIN a : q[i] = q[j] => i = j
      BY <2>1, <2>6, <2>7, <3>2
    <3>5. \A i \in DOMAIN a : a[i] = s[q[i]]
      BY <2>1, <2>4, <2>6, <2>7, <3>2
    <3> HIDE DEF q
    <3>6. q \in Injection(DOMAIN a, 1..(n + 1))
      BY <3>3, <3>4 DEF Injection, IsInjective
    <3> QED BY <2>9, <3>1, <3>2, <3>5, <3>6
  <2> QED BY <2>5, <2>8, <2>9
<1>5. P = Nat
  <2> HIDE DEF P
  <2>1. P \subseteq Nat
    BY DEF P
  <2> QED BY <1>3, <1>4, <2>1, Induction
<1>6. f[Len(s)] \in Seq(S) /\ From(f[Len(s)], Len(s))
  <2>1. Len(s) \in P
    BY <1>1, <1>5
  <2> QED BY <1>1, <2>1
<1> QED BY <1>1, <1>2, <1>6 DEF Drawn

\* What is drawn from a sequence is no longer than it and holds nothing more often.
LEMMA DrawnIsLess ==
  ASSUME NEW S, NEW k \in Seq(S), NEW s \in Seq(S), Drawn(k, s)
  PROVE  /\ Len(k) <= Len(s)
         /\ \A i \in DOMAIN k : \E j \in DOMAIN s : k[i] = s[j]
         /\ \A h : Count(k, h) <= Count(s, h)
<1>1. PICK m \in Injection(DOMAIN k, DOMAIN s) : \A i \in DOMAIN k : k[i] = s[m[i]]
  BY DEF Drawn
<1>2. /\ m \in [DOMAIN k -> DOMAIN s]
      /\ \A i, j \in DOMAIN k : m[i] = m[j] => i = j
  BY DEF Injection, IsInjective
<1>3. /\ DOMAIN k = 1..Len(k) /\ DOMAIN s = 1..Len(s) /\ Len(k) \in Nat /\ Len(s) \in Nat
  BY LenProperties
<1>4. /\ IsFiniteSet(DOMAIN s) /\ Cardinality(DOMAIN s) = Len(s) /\ Cardinality(DOMAIN k) = Len(k)
  <2>1. PICK a \in Nat, b \in Nat : a = Len(k) /\ b = Len(s)
    BY <1>3
  <2>2. IsFiniteSet(1..b) /\ Cardinality(1..b) = b /\ Cardinality(1..a) = a
    BY FS_Interval
  <2> QED BY <1>3, <2>1, <2>2
<1>5. Cardinality(DOMAIN k) <= Cardinality(DOMAIN s)
  BY <1>4, FS_Injection
<1>6. ASSUME NEW h PROVE Count(k, h) <= Count(s, h)
  <2> DEFINE A == {i \in DOMAIN k : k[i] = h}
             B == {j \in DOMAIN s : s[j] = h}
             q == [i \in A |-> m[i]]
  <2>1. q \in [A -> B]
    BY <1>1, <1>2
  <2>2. \A i, j \in A : q[i] = q[j] => i = j
    BY <1>2
  <2>3. IsFiniteSet(B)
    BY <1>4, FS_Subset
  <2> HIDE DEF A, B, q
  <2>4. q \in Injection(A, B)
    BY <2>1, <2>2 DEF Injection, IsInjective
  <2>5. Cardinality(A) <= Cardinality(B)
    BY <2>3, <2>4, FS_Injection
  <2> QED BY <2>5 DEF Count, A, B
<1> QED BY <1>1, <1>2, <1>4, <1>5, <1>6

\* Of what is drawn from s, the part from a place on is drawn from s too.
LEMMA DrawnSuffix ==
  ASSUME NEW S, NEW k \in Seq(S), NEW s \in Seq(S), Drawn(k, s), NEW e \in Nat
  PROVE  SubSeq(k, e + 1, Len(k)) \in Seq(S) /\ Drawn(SubSeq(k, e + 1, Len(k)), s)
         /\ Len(SubSeq(k, e + 1, Len(k))) = IF e <= Len(k) THEN Len(k) - e ELSE 0
<1>1. PICK m \in Injection(DOMAIN k, DOMAIN s) : \A i \in DOMAIN k : k[i] = s[m[i]]
  BY DEF Drawn
<1>2. /\ m \in [DOMAIN k -> DOMAIN s]
      /\ \A i, j \in DOMAIN k : m[i] = m[j] => i = j
  BY DEF Injection, IsInjective
<1>3. DOMAIN k = 1..Len(k) /\ Len(k) \in Nat /\ \A i \in 1..Len(k) : k[i] \in S
  BY LenProperties, ElementOfSeq
<1>4. PICK u : u = SubSeq(k, e + 1, Len(k))
  OBVIOUS
<1>5. /\ u \in Seq(S) /\ Len(u) = IF e <= Len(k) THEN Len(k) - e ELSE 0
      /\ \A i \in 1..(Len(k) - e) : u[i] = k[e + i]
  <2>1. \A i \in (e + 1)..Len(k) : k[i] \in S
    BY <1>3
  <2>2. e + 1 \in Int /\ Len(k) \in Int
    BY <1>3
  <2>3. /\ u \in Seq(S) /\ Len(u) = IF e + 1 <= Len(k) THEN Len(k) - (e + 1) + 1 ELSE 0
        /\ \A i \in 1..(Len(k) - (e + 1) + 1) : u[i] = k[(e + 1) + i - 1]
    BY <1>4, <2>1, <2>2, SubSeqProperties
  <2>4. \A i \in 1..(Len(k) - e) : i \in 1..(Len(k) - (e + 1) + 1) /\ (e + 1) + i - 1 = e + i
    BY <1>3
  <2>5. Len(u) = IF e <= Len(k) THEN Len(k) - e ELSE 0
    <3>1. PICK a \in Nat : a = Len(k)
      BY <1>3
    <3>2. Len(u) = IF e + 1 <= a THEN a - (e + 1) + 1 ELSE 0
      BY <2>3, <3>1
    <3>3. Len(u) = IF e <= a THEN a - e ELSE 0
      BY <3>2
    <3> QED BY <3>1, <3>3
  <2> QED BY <2>3, <2>4, <2>5
<1>6. DOMAIN u = 1..Len(u)
  BY <1>5, LenProperties
<1> DEFINE q == [i \in DOMAIN u |-> m[e + i]]
<1>7. q \in [DOMAIN u -> DOMAIN s] /\ \A i \in DOMAIN u : u[i] = s[q[i]]
  <2>1. \A i \in DOMAIN u : i \in 1..(Len(k) - e) /\ e + i \in DOMAIN k
    <3>1. PICK a \in Nat : a = Len(k) /\ DOMAIN k = 1..a
      BY <1>3
    <3>2. DOMAIN u = 1..(IF e <= a THEN a - e ELSE 0)
      BY <1>5, <1>6, <3>1
    <3>3. \A i \in DOMAIN u : i \in 1..(a - e) /\ e + i \in 1..a
      BY <3>2
    <3> QED BY <3>1, <3>3
  <2> QED BY <1>1, <1>2, <1>5, <2>1
<1>8. \A i, j \in DOMAIN u : q[i] = q[j] => i = j
  BY <1>2, <1>3, <1>5, <1>6
<1> HIDE DEF q
<1>9. q \in Injection(DOMAIN u, DOMAIN s)
  BY <1>7, <1>8 DEF Injection, IsInjective
<1> QED BY <1>4, <1>5, <1>7, <1>9 DEF Drawn
-----------------------------------------------------------------------------
(* The size of the store: a sum is the cardinality of a set of pairs.        *)

\* A sum of lengths is the number of the units they are made of.
Total(e, S) == MapThenSumSet(LAMBDA s : Len(e[s]), S)
Units(e, S) == {u \in S \X Nat : u[2] \in 1..Len(e[u[1]])}

LEMMA Smallest ==
  ASSUME NEW S, IsFiniteSet(S), NEW B, B \subseteq SUBSET S, B # {}
  PROVE  \E A \in B : \A x \in A : A \ {x} \notin B
<1>1. PICK A \in B : \A C \in B : ~(<<C, A>> \in StrictSubsetOrdering(S))
  <2>1. IsWellFoundedOn(StrictSubsetOrdering(S), FiniteSubsetsOf(S))
    BY FS_StrictSubsetOrderingWellFounded
  <2>2. B \subseteq FiniteSubsetsOf(S)
    BY FS_FiniteSubsetsOfFinite
  <2> QED BY <2>1, <2>2, WFMin
<1>2. \A x \in A : A \ {x} \notin B
  BY <1>1 DEF StrictSubsetOrdering
<1> QED BY <1>2

LEMMA UnitsOfNone ==
  ASSUME NEW e
  PROVE  Units(e, {}) = {} /\ IsFiniteSet(Units(e, {})) /\ Cardinality(Units(e, {})) = 0
<1>1. Units(e, {}) = {}
  BY DEF Units
<1> QED BY <1>1, FS_EmptySet

LEMMA UnitsOfOne ==
  ASSUME NEW e, NEW s, Len(e[s]) \in Nat
  PROVE  IsFiniteSet(Units(e, {s})) /\ Cardinality(Units(e, {s})) = Len(e[s])
<1>1. PICK n \in Nat : n = Len(e[s])
  OBVIOUS
<1>2. Units(e, {s}) = {s} \X (1..n)
  BY <1>1 DEF Units
<1>3. IsFiniteSet({s}) /\ Cardinality({s}) = 1
  BY FS_Singleton
<1>4. IsFiniteSet(1..n) /\ Cardinality(1..n) = n
  BY FS_Interval
<1>5. IsFiniteSet(Units(e, {s})) /\ Cardinality(Units(e, {s})) = 1 * n
  BY <1>2, <1>3, <1>4, FS_Product
<1> QED BY <1>1, <1>5

LEMMA UnitsApart ==
  ASSUME NEW e, NEW S, NEW T
  PROVE  /\ Units(e, S \cup T) = Units(e, S) \cup Units(e, T)
         /\ S \cap T = {} => Units(e, S) \cap Units(e, T) = {}
         /\ S \subseteq T => Units(e, S) \subseteq Units(e, T)
BY DEF Units

LEMMA UnitsMore ==
  ASSUME NEW e, NEW S, NEW s, s \notin S, Len(e[s]) \in Nat, IsFiniteSet(Units(e, S))
  PROVE  /\ IsFiniteSet(Units(e, S \cup {s}))
         /\ Cardinality(Units(e, S \cup {s})) = Cardinality(Units(e, S)) + Len(e[s])
<1>1. Units(e, S \cup {s}) = Units(e, S) \cup Units(e, {s}) /\ Units(e, S) \cap Units(e, {s}) = {}
  <2>1. S \cap {s} = {}
    OBVIOUS
  <2> QED BY <2>1, UnitsApart
<1>2. IsFiniteSet(Units(e, {s})) /\ Cardinality(Units(e, {s})) = Len(e[s])
  BY UnitsOfOne
<1>3. /\ IsFiniteSet(Units(e, S) \cup Units(e, {s}))
      /\ Cardinality(Units(e, S) \cup Units(e, {s}))
           = Cardinality(Units(e, S)) + Cardinality(Units(e, {s})) - Cardinality(Units(e, S) \cap Units(e, {s}))
  BY <1>2, FS_Union
<1>4. Cardinality(Units(e, S)) \in Nat /\ Cardinality(Units(e, S) \cap Units(e, {s})) = 0
  BY <1>1, FS_EmptySet, FS_CardinalityType
<1>5. Cardinality(Units(e, S) \cup Units(e, {s})) = Cardinality(Units(e, S)) + Len(e[s])
  BY <1>2, <1>3, <1>4
<1> QED BY <1>1, <1>3, <1>5

LEMMA UnitsFinite ==
  ASSUME NEW e, NEW S, IsFiniteSet(S), \A s \in S : Len(e[s]) \in Nat
  PROVE  IsFiniteSet(Units(e, S))
<1> SUFFICES ASSUME ~IsFiniteSet(Units(e, S)) PROVE FALSE
  OBVIOUS
<1>1. PICK A \in {A \in SUBSET S : ~IsFiniteSet(Units(e, A))} :
        \A x \in A : A \ {x} \notin {C \in SUBSET S : ~IsFiniteSet(Units(e, C))}
  BY Smallest
<1>2. PICK x \in A : TRUE
  BY <1>1, UnitsOfNone
<1>3. IsFiniteSet(Units(e, A \ {x}))
  BY <1>1
<1>4. (A \ {x}) \cup {x} = A
  OBVIOUS
<1> QED BY <1>1, <1>3, <1>4, UnitsMore

LEMMA TotalIsUnits ==
  ASSUME NEW e, NEW S, IsFiniteSet(S), \A s \in S : Len(e[s]) \in Nat
  PROVE  Total(e, S) = Cardinality(Units(e, S))
<1> DEFINE One(A) == CHOOSE x \in A : TRUE
           Sum(f) == [A \in SUBSET S |-> IF A = {} THEN 0 ELSE Len(e[One(A)]) + f[A \ {One(A)}]]
           Sizes == [A \in SUBSET S |-> Cardinality(Units(e, A))]
<1>1. \A A \in SUBSET S : IsFiniteSet(Units(e, A)) /\ Cardinality(Units(e, A)) \in Nat
  BY FS_Subset, UnitsFinite, FS_CardinalityType
<1>2. \A A \in SUBSET S : A # {} => One(A) \in A
  OBVIOUS
<1>3. \A A \in SUBSET S : A # {} =>
        Cardinality(Units(e, A)) = Cardinality(Units(e, A \ {One(A)})) + Len(e[One(A)])
  <2> TAKE A \in SUBSET S
  <2> HAVE A # {}
  <2> HIDE DEF One
  <2>1. One(A) \in A
    BY <1>2
  <2>2. (A \ {One(A)}) \cup {One(A)} = A /\ One(A) \notin A \ {One(A)}
    BY <2>1
  <2>3. A \ {One(A)} \in SUBSET S /\ Len(e[One(A)]) \in Nat
    BY <2>1
  <2>4. IsFiniteSet(Units(e, A \ {One(A)}))
    BY <1>1, <2>3
  <2>5. Cardinality(Units(e, (A \ {One(A)}) \cup {One(A)})) = Cardinality(Units(e, A \ {One(A)})) + Len(e[One(A)])
    BY <2>2, <2>3, <2>4, UnitsMore
  <2> QED BY <2>2, <2>5
<1>4. Sizes = Sum(Sizes)
  <2> HIDE DEF One
  <2>1. \A A \in SUBSET S : Sizes[A] = IF A = {} THEN 0 ELSE Len(e[One(A)]) + Sizes[A \ {One(A)}]
    <3> TAKE A \in SUBSET S
    <3>1. CASE A = {}
      BY <3>1, UnitsOfNone
    <3>2. CASE A # {}
      <4>1. One(A) \in A /\ A \ {One(A)} \in SUBSET S
        BY <3>2, <1>2
      <4>2. Len(e[One(A)]) \in Nat /\ Cardinality(Units(e, A \ {One(A)})) \in Nat
        BY <4>1, <1>1
      <4>3. Sizes[A] = Cardinality(Units(e, A)) /\ Sizes[A \ {One(A)}] = Cardinality(Units(e, A \ {One(A)}))
        BY <4>1
      <4> QED BY <3>2, <1>3, <4>2, <4>3
    <3> QED BY <3>1, <3>2
  <2> QED BY <2>1
<1>5. PICK f : f = Sum(f) /\ Total(e, S) = f[S]
  <2>1. Total(e, S) = (CHOOSE f : f = Sum(f))[S]
    BY DEF Total, MapThenSumSet, MapThenFoldSet
  <2>2. PICK f : f = (CHOOSE g : g = Sum(g))
    OBVIOUS
  <2>3. f = Sum(f)
    <3> HIDE DEF Sum, Sizes
    <3> QED BY <1>4, <2>2, Zenon
  <2> QED BY <2>1, <2>2, <2>3
<1>6. \A A \in SUBSET S : f[A] = Sizes[A]
  <2> SUFFICES ASSUME {A \in SUBSET S : f[A] # Sizes[A]} # {} PROVE FALSE
    OBVIOUS
  <2>1. PICK A \in {A \in SUBSET S : f[A] # Sizes[A]} :
          \A x \in A : A \ {x} \notin {C \in SUBSET S : f[C] # Sizes[C]}
    BY Smallest
  <2>2. CASE A = {}
    BY <2>1, <2>2, <1>4, <1>5
  <2>3. CASE A # {}
    <3>1. One(A) \in A
      BY <2>1, <2>3, <1>2
    <3>2. f[A \ {One(A)}] = Sizes[A \ {One(A)}]
      BY <2>1, <3>1
    <3> HIDE DEF One, Sizes
    <3>3. f[A] = Len(e[One(A)]) + f[A \ {One(A)}]
      BY <2>1, <2>3, <1>5
    <3>4. Sizes[A] = Len(e[One(A)]) + Sizes[A \ {One(A)}]
      BY <2>1, <2>3, <1>4
    <3> QED BY <2>1, <3>2, <3>3, <3>4
  <2> QED BY <2>2, <2>3
<1> QED BY <1>5, <1>6

\* Whatever one owner holds, the others hold no more than their shares.
LEMMA TotalShared ==
  ASSUME NEW e, NEW S, IsFiniteSet(S), NEW M \in Nat, NEW c \in S,
         \A s \in S : Len(e[s]) \in Nat /\ Len(e[s]) <= M
  PROVE  /\ Total(e, S) \in Nat
         /\ Total(e, S) <= Len(e[c]) + (Cardinality(S) - 1) * M
<1> DEFINE R == S \ {c}
<1>1. IsFiniteSet(R) /\ Cardinality(R) = Cardinality(S) - 1 /\ R \cup {c} = S /\ c \notin R /\ Cardinality(R) \in Nat
  BY FS_RemoveElement, FS_CardinalityType
<1> HIDE DEF R
<1>2. IsFiniteSet(Units(e, R)) /\ Cardinality(Units(e, R)) \in Nat
  BY <1>1, UnitsFinite, FS_CardinalityType
<1>3. Cardinality(Units(e, R \cup {c})) = Cardinality(Units(e, R)) + Len(e[c])
  BY <1>1, <1>2, UnitsMore
<1>4. Cardinality(Units(e, R)) <= Cardinality(R) * M
  <2>1. IsFiniteSet(1..M) /\ Cardinality(1..M) = M
    BY FS_Interval
  <2>2. IsFiniteSet(R \X (1..M)) /\ Cardinality(R \X (1..M)) = Cardinality(R) * M
    BY <1>1, <2>1, FS_Product
  <2>3. Units(e, R) \subseteq R \X (1..M)
    BY <1>1 DEF Units
  <2> QED BY <2>2, <2>3, FS_Subset
<1>5. Total(e, S) = Cardinality(Units(e, R)) + Len(e[c])
  BY <1>1, <1>3, TotalIsUnits
<1>6. Len(e[c]) \in Nat
  OBVIOUS
<1>7. Total(e, S) \in Nat
  BY <1>2, <1>5, <1>6
<1>8. Total(e, S) <= Cardinality(R) * M + Len(e[c])
  <2>1. PICK x : x = Cardinality(R) * M
    OBVIOUS
  <2>2. x \in Nat
    BY <1>1, <2>1
  <2> QED BY <1>2, <1>4, <1>5, <1>6, <2>1, <2>2
<1>9. Cardinality(R) * M = (Cardinality(S) - 1) * M /\ Cardinality(R) * M \in Nat
  BY <1>1
<1> QED BY <1>6, <1>7, <1>8, <1>9
-----------------------------------------------------------------------------
(* The inductive invariant: TypeOK, that nobody holds more than a share, and *)
(* that a continuation names a list it does not outlive.                     *)

Shares == \A c \in Client : Len(store[c]) <= CapacityPerProfile

Backed(h) == h.kind = "continuation" => h.list \in Nat /\ h.expires <= h.list

Continuations == \A c \in Client : \A i \in DOMAIN store[c] : Backed(store[c][i])

IInv == /\ TypeOK
        /\ Shares
        /\ Continuations

\* The limits are numbers.
LEMMA Limits ==
  /\ Capacity \in Nat /\ CapacityPerProfile \in Nat /\ MaxResults \in Nat /\ Ttl \in Nat /\ PagingTtl \in Nat
  /\ Ttl > 0 /\ PagingTtl > 0
  /\ CapacityPerProfile >= MaxResults + 2
  /\ IsFiniteSet(Client) /\ Cardinality(Client) \in Nat
  /\ Cardinality(Client) * CapacityPerProfile <= Capacity
<1>1. Cardinality(Client) \in Nat
  BY HandleAssumption, FS_CardinalityType
<1>2. {Capacity, CapacityPerProfile, MaxResults, Ttl, PagingTtl} \subseteq Nat \ {0}
  BY HandleAssumption
<1>3. /\ Capacity \in Nat /\ CapacityPerProfile \in Nat /\ MaxResults \in Nat /\ Ttl \in Nat /\ PagingTtl \in Nat
      /\ Ttl > 0 /\ PagingTtl > 0
  BY <1>2
<1> QED BY <1>1, <1>3, HandleAssumption

LEMMA MaxOfThree ==
  ASSUME NEW a \in Int, NEW b \in Int
  PROVE  LET m == Max({0, a, b}) IN m \in {0, a, b} /\ m >= 0 /\ m >= a /\ m >= b
<1>1. \E x \in {0, a, b} : \A y \in {0, a, b} : x >= y
  OBVIOUS
<1>2. PICK x : x = Max({0, a, b})
  OBVIOUS
<1>3. x \in {0, a, b} /\ \A y \in {0, a, b} : x >= y
  BY <1>1, <1>2 DEF Max
<1> QED BY <1>2, <1>3

LEMMA MinOfTwo ==
  ASSUME NEW a \in Int, NEW b \in Int
  PROVE  Min({a, b}) \in {a, b} /\ Min({a, b}) <= a /\ Min({a, b}) <= b
<1>1. \E x \in {a, b} : \A y \in {a, b} : x <= y
  OBVIOUS
<1>2. PICK x : x = Min({a, b})
  OBVIOUS
<1>3. x \in {a, b} /\ \A y \in {a, b} : x <= y
  BY <1>1, <1>2 DEF Min
<1> QED BY <1>2, <1>3

\* What survives pruning is drawn from what was there.
LEMMA PrunedIs ==
  ASSUME IInv, NEW c \in Client
  PROVE  /\ Unexpired(c) \in Seq(Handle) /\ Drawn(Unexpired(c), store[c]) /\ store[c] \in Seq(Handle)
         /\ Len(Unexpired(c)) \in Nat /\ Len(Unexpired(c)) <= CapacityPerProfile
         /\ \A i \in DOMAIN Unexpired(c) : Backed(Unexpired(c)[i])
         /\ Pruned[c] = Unexpired(c)
<1>1. store[c] \in Seq(Handle)
  BY DEF IInv, TypeOK
<1>2. PICK u : u = Unexpired(c)
  OBVIOUS
<1>3. u \in Seq(Handle) /\ Drawn(u, store[c])
  BY <1>1, <1>2, KeptIs DEF Unexpired
<1>4. Len(u) <= Len(store[c]) /\ \A i \in DOMAIN u : \E j \in DOMAIN store[c] : u[i] = store[c][j]
  BY <1>1, <1>3, DrawnIsLess
<1>5. \A i \in DOMAIN u : Backed(u[i])
  BY <1>4 DEF IInv, Continuations
<1>6. Len(u) \in Nat /\ Len(store[c]) \in Nat /\ CapacityPerProfile \in Nat
  BY <1>1, <1>3, LenProperties, Limits
<1>7. Len(u) <= CapacityPerProfile
  BY <1>4, <1>6 DEF IInv, Shares
<1> QED BY <1>1, <1>2, <1>3, <1>5, <1>6, <1>7 DEF Pruned

\* What has to go is a number, at least the owner's own surplus, and when the others keep
\* to their shares never more than the owner has: the share is reserved.
LEMMA RoomIsReserved ==
  ASSUME IInv, NEW c \in Client, NEW n \in Nat, n <= MaxResults + 2
  PROVE  /\ Evictions(c, n) \in Nat
         /\ Evictions(c, n) >= Len(Unexpired(c)) + n - CapacityPerProfile
         /\ Evictions(c, n) <= Len(Unexpired(c))
<1>1. PICK len \in Nat : len = Len(Unexpired(c)) /\ len <= CapacityPerProfile
  BY PrunedIs
<1>2. Size \in Nat /\ Size <= len + (Cardinality(Client) - 1) * CapacityPerProfile
  <2>1. Size = Total(Pruned, Client)
    BY DEF Size, Total
  <2>2. \A d \in Client : Len(Pruned[d]) \in Nat /\ Len(Pruned[d]) <= CapacityPerProfile
    BY PrunedIs
  <2>3. PICK e : e = Pruned
    OBVIOUS
  <2>4. /\ Total(e, Client) \in Nat
        /\ Total(e, Client) <= Len(e[c]) + (Cardinality(Client) - 1) * CapacityPerProfile
    BY <2>2, <2>3, Limits, TotalShared
  <2>5. Len(e[c]) = len
    BY <1>1, <2>3, PrunedIs
  <2> QED BY <2>1, <2>3, <2>4, <2>5
<1>3. Size + n - Capacity <= len
  <2>1. PICK k \in Nat : k = Cardinality(Client)
    BY Limits
  <2>2. (k - 1) * CapacityPerProfile = k * CapacityPerProfile - CapacityPerProfile
    BY Limits
  <2>3. PICK p \in Int : p = k * CapacityPerProfile
    BY Limits
  <2>4. Size <= len + (p - CapacityPerProfile) /\ p <= Capacity
    BY <1>2, <2>1, <2>2, <2>3, Limits
  <2>5. PICK size \in Nat, cap \in Nat, share \in Nat, results \in Nat :
          size = Size /\ cap = Capacity /\ share = CapacityPerProfile /\ results = MaxResults
    BY <1>2, Limits
  <2>6. size <= len + (p - share) /\ p <= cap /\ share >= results + 2 /\ n <= results + 2
    BY <2>4, <2>5, Limits
  <2>7. size + n - cap <= len
    BY <2>6
  <2> QED BY <2>5, <2>7
<1>4. Size + n - Capacity \in Int /\ len + n - CapacityPerProfile \in Int
  BY <1>2, Limits
<1>5. /\ Evictions(c, n) \in {0, len + n - CapacityPerProfile, Size + n - Capacity}
      /\ Evictions(c, n) >= 0 /\ Evictions(c, n) >= len + n - CapacityPerProfile
  <2>1. PICK a \in Int, b \in Int : a = len + n - CapacityPerProfile /\ b = Size + n - Capacity
    BY <1>4
  <2>2. Evictions(c, n) = Max({0, a, b})
    BY <1>1, <2>1 DEF Evictions
  <2>3. Max({0, a, b}) \in {0, a, b} /\ Max({0, a, b}) >= 0 /\ Max({0, a, b}) >= a
    BY MaxOfThree
  <2> QED BY <2>1, <2>2, <2>3
<1>6. len + n - CapacityPerProfile <= len
  BY Limits
<1>7. Evictions(c, n) \in Int
  BY <1>4, <1>5
<1> QED BY <1>1, <1>3, <1>4, <1>5, <1>6, <1>7
-----------------------------------------------------------------------------
(* The changes of the store. *)

\* A use: the handle moves to the end of its owner's order.
LEMMA TouchedIs ==
  ASSUME IInv, NEW c \in Client, NEW i \in DOMAIN store[c], store' = Touched(c, i)
  PROVE  store' \in [Client -> Seq(Handle)] /\ Shares' /\ Continuations'
<1>1. store \in [Client -> Seq(Handle)] /\ \A d \in Client : store[d] \in Seq(Handle)
  BY DEF IInv, TypeOK
<1>2. PICK s \in Seq(Handle) : s = store[c]
  BY <1>1
<1>3. /\ Len(s) \in Nat /\ DOMAIN s = 1..Len(s) /\ i \in 1..Len(s)
      /\ \A j \in 1..Len(s) : s[j] \in Handle /\ Backed(s[j])
  BY <1>2, LenProperties, ElementOfSeq DEF IInv, Continuations
<1> DEFINE T == {h \in Handle : Backed(h)}
<1>4. \A j \in 1..Len(s) : s[j] \in T
  BY <1>3
<1> HIDE DEF T
<1>5. PICK a, b : a = SubSeq(s, 1, i - 1) /\ b = SubSeq(s, i + 1, Len(s))
  OBVIOUS
<1>6. i - 1 \in Int /\ i + 1 \in Int /\ Len(s) \in Int /\ i \in Int
  BY <1>3
<1>7. (\A j \in 1..(i - 1) : s[j] \in T) /\ \A j \in (i + 1)..Len(s) : s[j] \in T
  BY <1>3, <1>4
<1>8. a \in Seq(T) /\ Len(a) = i - 1
  <2>1. a \in Seq(T) /\ Len(a) = IF 1 <= i - 1 THEN i - 1 - 1 + 1 ELSE 0
    BY <1>5, <1>6, <1>7, SubSeqProperties
  <2> QED BY <1>3, <2>1
<1>9. b \in Seq(T) /\ Len(b) = Len(s) - i
  <2>1. b \in Seq(T) /\ Len(b) = IF i + 1 <= Len(s) THEN Len(s) - (i + 1) + 1 ELSE 0
    BY <1>5, <1>6, <1>7, SubSeqProperties
  <2>2. PICK n \in Nat : n = Len(s)
    BY <1>3
  <2> QED BY <1>3, <2>1, <2>2
<1>10. a \o b \in Seq(T) /\ Len(a \o b) = Len(s) - 1
  <2>1. a \o b \in Seq(T) /\ Len(a \o b) = Len(a) + Len(b)
    BY <1>8, <1>9, ConcatProperties
  <2> QED BY <1>3, <1>8, <1>9, <2>1
<1>11. PICK k : k = Append(a \o b, s[i])
  OBVIOUS
<1>12. k \in Seq(T) /\ Len(k) = Len(s)
  <2>1. k \in Seq(T) /\ Len(k) = Len(a \o b) + 1
    BY <1>3, <1>4, <1>10, <1>11, AppendProperties
  <2> QED BY <1>3, <1>10, <2>1
<1>13. store' = [store EXCEPT ![c] = k]
  BY <1>2, <1>5, <1>11 DEF Touched, RemoveAt
<1>14. \A j \in DOMAIN k : k[j] \in Handle /\ Backed(k[j])
  BY <1>12, LenProperties, ElementOfSeq DEF T
<1>15. k \in Seq(Handle)
  BY <1>12, SeqMonotonic DEF T
<1>16. store'[c] = k /\ \A d \in Client \ {c} : store'[d] = store[d]
  BY <1>1, <1>13
<1>17. store' \in [Client -> Seq(Handle)]
  BY <1>1, <1>13, <1>15
<1>18. Shares'
  BY <1>2, <1>12, <1>16 DEF IInv, Shares
<1>19. Continuations'
  BY <1>14, <1>16 DEF IInv, Continuations
<1> QED BY <1>17, <1>18, <1>19

LEMMA PrunedKeeps ==
  ASSUME IInv, store' = Pruned
  PROVE  store' \in [Client -> Seq(Handle)] /\ Shares' /\ Continuations'
<1>1. \A c \in Client : /\ store'[c] = Unexpired(c) /\ Unexpired(c) \in Seq(Handle)
                        /\ Len(Unexpired(c)) <= CapacityPerProfile
                        /\ \A i \in DOMAIN Unexpired(c) : Backed(Unexpired(c)[i])
  BY PrunedIs
<1>2. store' \in [Client -> Seq(Handle)]
  BY <1>1 DEF Pruned
<1> QED BY <1>1, <1>2 DEF Shares, Continuations

\* A batch no larger than an answer: it is put whole, the share is not passed, and what
\* its owner has more of than before is in the batch.
LEMMA PutIs ==
  ASSUME IInv, NEW c \in Client, NEW batch \in Seq(Handle), Len(batch) <= MaxResults + 2,
         \A i \in DOMAIN batch : Backed(batch[i]), store' = Put(c, batch)
  PROVE  /\ store' \in [Client -> Seq(Handle)] /\ Shares' /\ Continuations'
         /\ \A h : Count(store'[c], h) > Count(store[c], h) => \E i \in DOMAIN batch : batch[i] = h
<1>1. PICK n \in Nat : n = Len(batch) /\ n <= MaxResults + 2
  BY LenProperties
<1>2. PICK u \in Seq(Handle) : u = Unexpired(c)
  BY PrunedIs
<1>3. /\ Drawn(u, store[c]) /\ store[c] \in Seq(Handle) /\ Len(u) \in Nat
      /\ Len(u) <= CapacityPerProfile /\ \A i \in DOMAIN u : Backed(u[i])
  BY <1>2, PrunedIs
<1>4. PICK e \in Nat : e = Evictions(c, n)
  BY <1>1, RoomIsReserved
<1>5. e >= Len(u) + n - CapacityPerProfile /\ e <= Len(u)
  BY <1>1, <1>2, <1>4, RoomIsReserved
<1>6. PICK k : k = SubSeq(u, e + 1, Len(u))
  OBVIOUS
<1>7. k \in Seq(Handle) /\ Drawn(k, store[c]) /\ Len(k) = Len(u) - e
  BY <1>3, <1>5, <1>6, DrawnSuffix
<1>8. PICK s : s = k \o batch
  OBVIOUS
<1>9. /\ s \in Seq(Handle) /\ Len(s) = Len(k) + n
      /\ DOMAIN s = 1..(Len(k) + n) /\ DOMAIN k = 1..Len(k) /\ DOMAIN batch = 1..n /\ Len(k) \in Nat
      /\ \A i \in 1..(Len(k) + n) : s[i] = IF i <= Len(k) THEN k[i] ELSE batch[i - Len(k)]
  <2>1. /\ s \in Seq(Handle) /\ Len(s) = Len(k) + Len(batch)
        /\ \A i \in 1..(Len(k) + Len(batch)) : s[i] = IF i <= Len(k) THEN k[i] ELSE batch[i - Len(k)]
    BY <1>7, <1>8, ConcatProperties
  <2>2. DOMAIN s = 1..Len(s) /\ DOMAIN k = 1..Len(k) /\ DOMAIN batch = 1..Len(batch) /\ Len(k) \in Nat
    BY <1>7, <2>1, LenProperties
  <2> QED BY <1>1, <2>1, <2>2
<1>10. Len(s) <= CapacityPerProfile
  <2>1. PICK a \in Nat, b \in Nat : a = Len(u) /\ b = CapacityPerProfile
    BY <1>3, Limits
  <2> QED BY <1>5, <1>7, <1>9, <2>1
<1>11. /\ \A i \in DOMAIN k : \E j \in DOMAIN store[c] : k[i] = store[c][j]
       /\ \A h : Count(k, h) <= Count(store[c], h)
  BY <1>3, <1>7, DrawnIsLess
<1>12. \A i \in DOMAIN s : (\E j \in DOMAIN k : s[i] = k[j]) \/ \E j \in DOMAIN batch : s[i] = batch[j]
  <2>1. PICK m \in Nat : m = Len(k)
    BY <1>9
  <2>2. \A i \in DOMAIN s : i > m => i - m \in DOMAIN batch /\ s[i] = batch[i - m]
    BY <1>9, <2>1
  <2>3. \A i \in DOMAIN s : ~(i > m) => i \in DOMAIN k /\ s[i] = k[i]
    BY <1>9, <2>1
  <2> QED BY <2>2, <2>3
<1>13. \A i \in DOMAIN s : Backed(s[i])
  BY <1>11, <1>12 DEF IInv, Continuations
<1>14. ASSUME NEW h, \A i \in DOMAIN batch : batch[i] # h
       PROVE  Count(s, h) <= Count(store[c], h)
  <2>1. {i \in DOMAIN s : s[i] = h} = {i \in DOMAIN k : k[i] = h}
    <3>1. \A i \in DOMAIN s : s[i] = h => i \in DOMAIN k /\ k[i] = h
      BY <1>9, <1>14
    <3>2. \A i \in DOMAIN k : i \in DOMAIN s /\ s[i] = k[i]
      BY <1>9
    <3> QED BY <3>1, <3>2
  <2> QED BY <1>11, <2>1 DEF Count
<1>15. store' = [Pruned EXCEPT ![c] = s]
  <2>1. Pruned[c] = u
    BY <1>2, PrunedIs
  <2> QED BY <1>1, <1>4, <1>6, <1>8, <2>1 DEF Put
<1>16. store'[c] = s /\ \A d \in Client \ {c} : store'[d] = Unexpired(d)
  BY <1>15 DEF Pruned
<1>17. store' \in [Client -> Seq(Handle)]
  <2>1. \A d \in Client : Unexpired(d) \in Seq(Handle)
    BY PrunedIs
  <2> QED BY <1>9, <1>15, <2>1 DEF Pruned
<1>18. Shares' /\ Continuations'
  <2>1. \A d \in Client \ {c} : /\ Len(Unexpired(d)) <= CapacityPerProfile
                                /\ \A i \in DOMAIN Unexpired(d) : Backed(Unexpired(d)[i])
    BY PrunedIs
  <2> QED BY <1>10, <1>13, <1>16, <2>1 DEF Shares, Continuations
<1>19. \A h : Count(store'[c], h) > Count(store[c], h) => \E i \in DOMAIN batch : batch[i] = h
  <2>1. \A h : Count(s, h) \in Nat /\ Count(store[c], h) \in Nat
    <3>1. ASSUME NEW q \in Seq(Handle), NEW h PROVE Count(q, h) \in Nat
      <4>1. PICK m \in Nat : DOMAIN q = 1..m
        BY LenProperties
      <4>2. IsFiniteSet({i \in 1..m : q[i] = h})
        <5>1. IsFiniteSet(1..m) /\ {i \in 1..m : q[i] = h} \subseteq 1..m
          <6>1. IsFiniteSet(1..m)
            BY FS_Interval
          <6> QED BY <6>1
        <5> QED BY <5>1, FS_Subset
      <4> QED BY <4>1, <4>2, FS_CardinalityType DEF Count
    <3> QED BY <1>3, <1>9, <3>1
  <2> QED BY <1>14, <1>16, <2>1
<1> QED BY <1>17, <1>18, <1>19

\* What a batch holds: handles that end with their lineage, a continuation only with a
\* list that outlives it.
LEMMA BatchIs ==
  ASSUME IInv, NEW n \in 0..MaxResults, NEW bound \in Nat \cup {None}, NEW list \in Nat \cup {None},
         NEW nextBound \in Nat \cup {None},
         list # None => nextBound \in Nat /\ nextBound <= list
  PROVE  /\ Batch(n, bound, list, nextBound) \in Seq(Handle)
         /\ Len(Batch(n, bound, list, nextBound)) <= MaxResults + 2
         /\ \A i \in DOMAIN Batch(n, bound, list, nextBound) :
              /\ Backed(Batch(n, bound, list, nextBound)[i])
              /\ bound \in Nat /\ nextBound = bound =>
                   Batch(n, bound, list, nextBound)[i].expires <= bound
<1>1. n \in Nat /\ n <= MaxResults /\ now \in Nat /\ now + Ttl \in Nat /\ None \notin Nat
  BY Limits, HandleAssumption DEF IInv, TypeOK
<1>2. ASSUME NEW x \in Nat \cup {None}
      PROVE  Expires(x) \in Nat /\ (x \in Nat => Expires(x) <= x)
  <2>1. CASE x = None
    BY <1>1, <2>1 DEF Expires
  <2>2. CASE x \in Nat
    <3>1. PICK t \in Nat : t = now + Ttl
      BY <1>1
    <3>2. Min({t, x}) \in {t, x} /\ Min({t, x}) <= x
      BY <2>2, MinOfTwo
    <3>3. Expires(x) = Min({t, x})
      BY <1>1, <2>2, <3>1 DEF Expires
    <3> QED BY <2>2, <3>2, <3>3
  <2> QED BY <2>1, <2>2
<1> DEFINE size == n + IF list = None THEN 1 ELSE 2
           kind(i) == IF i <= n THEN "result" ELSE IF i = n + 1 THEN "search" ELSE "continuation"
           h(i) == [kind    |-> kind(i),
                    expires |-> Expires(IF i = n + 2 THEN nextBound ELSE bound),
                    list    |-> IF i = n + 2 THEN list ELSE None]
<1>3. Batch(n, bound, list, nextBound) = [i \in 1..size |-> h(i)]
  BY DEF Batch
<1>4. size \in Nat /\ size <= MaxResults + 2 /\ (size >= n + 2 => list # None)
  BY <1>1, Limits
<1>5. ASSUME NEW i \in 1..size
      PROVE  /\ h(i) \in Handle /\ Backed(h(i))
             /\ bound \in Nat /\ nextBound = bound => h(i).expires <= bound
  <2>1. kind(i) \in Kind
    BY DEF Kind
  <2>2. (IF i = n + 2 THEN nextBound ELSE bound) \in Nat \cup {None}
    OBVIOUS
  <2>3. PICK x \in Nat \cup {None} : x = IF i = n + 2 THEN nextBound ELSE bound
    BY <2>2
  <2>4. Expires(x) \in Nat /\ (x \in Nat => Expires(x) <= x)
    BY <1>2
  <2>5. h(i) \in Handle
    BY <2>1, <2>3, <2>4 DEF Handle
  <2>6. kind(i) = "continuation" => i = n + 2 /\ list # None
    BY <1>1, <1>4
  <2>7. Backed(h(i))
    <3> SUFFICES ASSUME kind(i) = "continuation" PROVE list \in Nat /\ Expires(x) <= list
      BY <2>3 DEF Backed
    <3>1. x = nextBound /\ nextBound \in Nat /\ nextBound <= list /\ list \in Nat
      BY <2>3, <2>6
    <3> QED BY <2>4, <3>1
  <2>8. bound \in Nat /\ nextBound = bound => h(i).expires <= bound
    BY <2>3, <2>4
  <2> QED BY <2>5, <2>7, <2>8
<1> HIDE DEF h, size
<1>6. PICK b : b = Batch(n, bound, list, nextBound)
  OBVIOUS
<1>7. DOMAIN b = 1..size /\ (\A i \in 1..size : b[i] = h(i)) /\ b \in [1..size -> Handle]
  BY <1>3, <1>5, <1>6
<1>8. b \in Seq(Handle) /\ Len(b) = size
  <2>1. b \in Seq(Handle)
    BY <1>4, <1>7, SeqDef
  <2>2. DOMAIN b = 1..Len(b) /\ Len(b) \in Nat
    BY <2>1, LenProperties
  <2> QED BY <1>4, <1>7, <2>1, <2>2
<1> QED BY <1>4, <1>5, <1>6, <1>7, <1>8

\* The calls are well formed.
LEMMA CallIs ==
  ASSUME IInv, NEW k \in Call
  PROVE  /\ calls[k].pc = "listing" => calls[k].client \in Client
         /\ calls[k].pc = "fetching" => /\ calls[k].client \in Client /\ calls[k].bound \in Nat \cup {None}
                                        /\ calls[k].list \in Nat \cup {None}
         /\ calls[k].pc = "continuing" => /\ calls[k].client \in Client /\ calls[k].expires \in Nat
                                          /\ calls[k].list \in Nat
BY DEF IInv, TypeOK, CallRecord, Idle

LEMMA BecomeKeeps ==
  ASSUME IInv, NEW k \in Call, NEW r \in CallRecord, Become(k, r)
  PROVE  calls' \in [Call -> CallRecord]
BY DEF Become, IInv, TypeOK

LEMMA FetchKeeps ==
  ASSUME IInv, NEW k \in Call, NEW c \in Client, NEW contract, NEW list \in Nat \cup {None},
         Fetch(k, c, contract, list)
  PROVE  IInv'
<1>1. [pc |-> "fetching", client |-> c, list |-> list,
       bound |-> IF contract = "opaque_refs_v1" THEN None ELSE list] \in CallRecord
  BY DEF CallRecord
<1>2. calls' \in [Call -> CallRecord]
  BY <1>1, BecomeKeeps DEF Fetch
<1> QED BY <1>2 DEF Fetch, IInv, TypeOK, Shares, Continuations

\* The step of a call that issues a batch.
LEMMA IssueKeeps ==
  ASSUME IInv, NEW k \in Call, NEW c \in Client, NEW n \in 0..MaxResults, NEW bound \in Nat \cup {None},
         NEW list \in Nat \cup {None}, NEW nextBound \in Nat \cup {None},
         list # None => nextBound \in Nat /\ nextBound <= list,
         IssueMany(c, n, bound, list, nextBound), Become(k, Idle), now' = now
  PROVE  /\ IInv'
         /\ \A h : Count(store'[c], h) > Count(store[c], h) =>
              (bound \in Nat /\ nextBound = bound => h.expires <= bound)
<1>1. PICK b : b = Batch(n, bound, list, nextBound)
  OBVIOUS
<1>2. b \in Seq(Handle) /\ Len(b) <= MaxResults + 2
      /\ \A i \in DOMAIN b : Backed(b[i]) /\ (bound \in Nat /\ nextBound = bound => b[i].expires <= bound)
  BY <1>1, BatchIs
<1>3. store' = Put(c, b)
  BY <1>1 DEF IssueMany
<1>4. /\ store' \in [Client -> Seq(Handle)] /\ Shares' /\ Continuations'
      /\ \A h : Count(store'[c], h) > Count(store[c], h) => \E i \in DOMAIN b : b[i] = h
  BY <1>2, <1>3, PutIs
<1>5. calls' \in [Call -> CallRecord]
  <2>1. Idle \in CallRecord
    BY DEF CallRecord
  <2> QED BY <2>1, BecomeKeeps
<1>6. IInv'
  BY <1>4, <1>5 DEF IInv, TypeOK
<1> QED BY <1>2, <1>4, <1>6

LEMMA AnswerContinuedKeeps ==
  ASSUME IInv, NEW k \in Call, NEW n \in 0..MaxResults, AnswerContinued(k, n)
  PROVE  /\ IInv'
         /\ \A h : Count(store'[calls[k].client], h) > Count(store[calls[k].client], h) =>
              (h.expires \in Nat => h.expires <= calls[k].expires)
<1> DEFINE r == calls[k]
<1>1. r.client \in Client /\ r.expires \in Nat /\ r.list \in Nat
  BY CallIs DEF AnswerContinued
<1>2. PICK bound : bound = Min({r.expires, r.list})
  OBVIOUS
<1>3. bound \in Nat /\ bound <= r.expires /\ bound <= r.list
  <2>1. PICK a \in Nat, b \in Nat : a = r.expires /\ b = r.list
    BY <1>1
  <2>2. Min({a, b}) \in {a, b} /\ Min({a, b}) <= a /\ Min({a, b}) <= b
    BY MinOfTwo
  <2> QED BY <1>2, <2>1, <2>2
<1>4. PICK list \in {None, r.list} : IssueMany(r.client, n, bound, list, bound)
  BY <1>2 DEF AnswerContinued
<1>5. Become(k, Idle) /\ now' = now
  BY DEF AnswerContinued
<1>6. list \in Nat \cup {None} /\ (list # None => bound \in Nat /\ bound <= list)
  BY <1>1, <1>3
<1>7. /\ IInv'
      /\ \A h : Count(store'[r.client], h) > Count(store[r.client], h) =>
           (bound \in Nat /\ bound = bound => h.expires <= bound)
  BY <1>1, <1>3, <1>4, <1>5, <1>6, IssueKeeps
<1>8. ASSUME NEW h, Count(store'[r.client], h) > Count(store[r.client], h), h.expires \in Nat
      PROVE  h.expires <= r.expires
  BY <1>1, <1>3, <1>7, <1>8
<1> QED BY <1>7, <1>8

\* The store keeps to its shares and its continuations to their lists in every
\* reachable state.
THEOREM Invariance == Spec => []IInv
<1>1. Init => IInv
  <2> SUFFICES ASSUME Init PROVE IInv
    OBVIOUS
  <2>1. \A c \in Client : store[c] = <<>>
    BY DEF Init
  <2>2. TypeOK
    BY DEF Init, TypeOK, CallRecord
  <2>3. Shares /\ Continuations
    <3>1. Len(<<>>) = 0 /\ DOMAIN <<>> = {}
      OBVIOUS
    <3> QED BY <2>1, <3>1, Limits DEF Shares, Continuations
  <2> QED BY <2>2, <2>3 DEF IInv
<1>2. IInv /\ [Next]_vars => IInv'
  <2> SUFFICES ASSUME IInv, [Next]_vars PROVE IInv'
    OBVIOUS
  <2>1. ASSUME NEW c \in Client, NEW i \in DOMAIN store[c]
        PROVE  /\ store[c][i] \in Handle /\ Backed(store[c][i])
               /\ store[c][i].expires \in Nat
               /\ store[c][i].kind = "continuation" => store[c][i].list \in Nat
    <3>1. store[c] \in Seq(Handle)
      BY DEF IInv, TypeOK
    <3>2. store[c][i] \in Handle
      BY <3>1, LenProperties, ElementOfSeq
    <3> QED BY <3>2 DEF IInv, Continuations, Backed, Handle
  <2>2. ASSUME NEW k \in Call, NEW c \in Client, Search(k, c) PROVE IInv'
    <3>1. PICK contract \in {"opaque_refs_v1", "opaque_refs_v2"}, list \in Nat \cup {None} : Fetch(k, c, contract, list)
      <4>1. now + PagingTtl \in Nat /\ (now + 1)..(now + PagingTtl) \subseteq Nat
        BY Limits DEF IInv, TypeOK
      <4>2. CASE \E contract \in {"opaque_refs_v1", "opaque_refs_v2"}, list \in {None, now + PagingTtl} :
                   Fetch(k, c, contract, list)
        <5>1. PICK contract \in {"opaque_refs_v1", "opaque_refs_v2"}, list \in {None, now + PagingTtl} : Fetch(k, c, contract, list)
          BY <4>2
        <5>2. list \in Nat \cup {None}
          BY <4>1
        <5> QED BY <5>1, <5>2
      <4>3. CASE \E list \in (now + 1)..(now + PagingTtl) : Fetch(k, c, "opaque_refs_v1", list)
        BY <4>1, <4>3
      <4> QED BY <2>2, <4>2, <4>3 DEF Search
    <3> QED BY <3>1, FetchKeeps
  <2>3. ASSUME NEW k \in Call, NEW c \in Client, NEW i \in DOMAIN store[c], Replay(k, c, i) PROVE IInv'
    <3>1. [pc |-> "listing", client |-> c] \in CallRecord
      BY DEF CallRecord
    <3>2. calls' \in [Call -> CallRecord]
      BY <2>3, <3>1, BecomeKeeps DEF Replay
    <3>3. store' \in [Client -> Seq(Handle)] /\ Shares' /\ Continuations'
      BY <2>3, TouchedIs DEF Replay
    <3> QED BY <2>3, <3>2, <3>3 DEF Replay, IInv, TypeOK
  <2>4. ASSUME NEW k \in Call, NEW c \in Client, NEW i \in DOMAIN store[c], Continue(k, c, i) PROVE IInv'
    <3>1. [pc |-> "continuing", client |-> c, expires |-> store[c][i].expires,
           list |-> store[c][i].list] \in CallRecord
      BY <2>1, <2>4 DEF CallRecord, Continue, Serves
    <3>2. calls' \in [Call -> CallRecord]
      BY <2>4, <3>1, BecomeKeeps DEF Continue
    <3>3. store' \in [Client -> Seq(Handle)] /\ Shares' /\ Continuations'
      BY <2>4, TouchedIs DEF Continue
    <3> QED BY <2>4, <3>2, <3>3 DEF Continue, IInv, TypeOK
  <2>5. ASSUME NEW k \in Call, ListIds(k) PROVE IInv'
    <3>1. PICK list \in {None, now + PagingTtl} : Fetch(k, calls[k].client, "opaque_refs_v2", list)
      BY <2>5 DEF ListIds
    <3>2. list \in Nat \cup {None} /\ calls[k].client \in Client
      BY <2>5, CallIs, Limits DEF ListIds, IInv, TypeOK
    <3> QED BY <3>1, <3>2, FetchKeeps
  <2>6. ASSUME NEW k \in Call, Fail(k) PROVE IInv'
    <3>1. calls' \in [Call -> CallRecord]
      <4>1. Idle \in CallRecord
        BY DEF CallRecord
      <4> QED BY <2>6, <4>1, BecomeKeeps DEF Fail
    <3>2. CASE store' = store
      BY <2>6, <3>1, <3>2 DEF Fail, IInv, TypeOK, Shares, Continuations
    <3>3. CASE store' = Pruned
      BY <2>6, <3>1, <3>3, PrunedKeeps DEF Fail, IInv, TypeOK
    <3> QED BY <2>6, <3>2, <3>3 DEF Fail
  <2>7. ASSUME NEW k \in Call, NEW n \in 0..MaxResults, Answer(k, n) PROVE IInv'
    <3>1. /\ calls[k].client \in Client /\ calls[k].bound \in Nat \cup {None} /\ calls[k].list \in Nat \cup {None}
          /\ IssueMany(calls[k].client, n, calls[k].bound, calls[k].list, calls[k].list)
          /\ Become(k, Idle) /\ now' = now
      BY <2>7, CallIs DEF Answer
    <3>2. calls[k].list # None => calls[k].list \in Nat /\ calls[k].list <= calls[k].list
      BY <3>1
    <3> QED BY <3>1, <3>2, IssueKeeps
  <2>8. ASSUME NEW k \in Call, NEW n \in 0..MaxResults, AnswerContinued(k, n) PROVE IInv'
    BY <2>8, AnswerContinuedKeeps
  <2>9. ASSUME NEW c \in Client, NEW i \in DOMAIN store[c], UseResult(c, i) \/ RefuseForeign(c, i) PROVE IInv'
    <3>1. store' = Touched(c, i) /\ UNCHANGED <<now, calls>>
      BY <2>9 DEF UseResult, RefuseForeign
    <3> QED BY <3>1, TouchedIs DEF IInv, TypeOK
  <2>10. CASE Tick
    BY <2>10 DEF Tick, IInv, TypeOK, Shares, Continuations
  <2>11. CASE Restart
    <3>1. store' = [c \in Client |-> <<>>] /\ calls' = [k \in Call |-> Idle] /\ now' = now
      BY <2>11 DEF Restart
    <3>2. \A c \in Client : store'[c] = <<>>
      BY <3>1
    <3>3. Len(<<>>) = 0 /\ DOMAIN <<>> = {}
      OBVIOUS
    <3>4. Shares' /\ Continuations'
      BY <3>2, <3>3, Limits DEF Shares, Continuations
    <3>5. TypeOK'
      BY <3>1 DEF IInv, TypeOK, CallRecord
    <3> QED BY <3>4, <3>5 DEF IInv
  <2>12. CASE UNCHANGED vars
    BY <2>12 DEF vars, IInv, TypeOK, Shares, Continuations
  <2> QED BY <2>2, <2>3, <2>4, <2>5, <2>6, <2>7, <2>8, <2>9, <2>10, <2>11, <2>12 DEF Next
<1> QED BY <1>1, <1>2, PTL DEF Spec

-----------------------------------------------------------------------------
(* What a reader should know of. *)

\* In every reachable state a client's share has room for a largest answer, however full
\* the others keep the store, and eviction takes only the client's own handles.
THEOREM RoomForEachClient == Spec => []ShareReserved
<1>1. IInv => ShareReserved
  <2> SUFFICES ASSUME IInv, NEW c \in Client PROVE HasRoom(c, MaxResults + 2)
    BY DEF ShareReserved
  <2>1. PICK n \in Nat : n = MaxResults + 2 /\ n <= MaxResults + 2
    BY Limits
  <2> QED BY <2>1, RoomIsReserved DEF HasRoom
<1> QED BY <1>1, Invariance, PTL

\* A continuation handle in the store expires no later than the page list it names.
THEOREM ContinuationsBacked == Spec => []ContinuationBacked
<1>1. IInv => ContinuationBacked
  <2> SUFFICES ASSUME IInv, NEW c \in Client, NEW h \in Handles(c), h.kind = "continuation"
               PROVE  h.expires <= h.list
    BY DEF ContinuationBacked
  <2>1. PICK i \in DOMAIN store[c] : h = store[c][i]
    BY DEF Handles, ToSet
  <2> QED BY <2>1 DEF IInv, Continuations, Backed
<1> QED BY <1>1, Invariance, PTL

\* Whatever a further page adds to its owner's handles expires no later than the handle
\* that was presented for the page, gone or used again as that may be by then.
THEOREM PagingBuysNoTime == Spec => DerivedNeverOutlives
<1>1. IInv /\ [Next]_vars =>
        [\A k \in Call, n \in 0..MaxResults : AnswerContinued(k, n) =>
           LET c == calls[k].client IN
           \A h \in ToSet(store'[c]) :
             Count(store'[c], h) > Count(store[c], h) => h.expires <= calls[k].expires]_vars
  <2> SUFFICES ASSUME IInv, NEW k \in Call, NEW n \in 0..MaxResults, AnswerContinued(k, n),
                      NEW h \in ToSet(store'[calls[k].client]),
                      Count(store'[calls[k].client], h) > Count(store[calls[k].client], h)
               PROVE  h.expires <= calls[k].expires
    OBVIOUS
  <2>1. IInv' /\ calls[k].client \in Client
    BY AnswerContinuedKeeps, CallIs DEF AnswerContinued
  <2>2. h \in Handle
    <3>1. PICK s \in Seq(Handle) : s = store'[calls[k].client]
      BY <2>1 DEF IInv, TypeOK
    <3>2. PICK i \in DOMAIN s : h = s[i]
      BY <3>1 DEF ToSet
    <3> QED BY <3>2, LenProperties, ElementOfSeq
  <2> QED BY <2>2, AnswerContinuedKeeps DEF Handle
<1> QED BY <1>1, Invariance, PTL DEF Spec, DerivedNeverOutlives
==============================================================================
