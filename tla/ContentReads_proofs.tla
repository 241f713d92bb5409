------------------------- MODULE ContentReads_proofs -------------------------
(***************************************************************************)
(* What the content reads and their cache keep to, proved for any clients, *)
(* documents, sizes, limits and number of calls in progress.               *)
(***************************************************************************)
EXTENDS ContentReads, FiniteSetTheorems, WellFoundedInduction, TLAPS

-----------------------------------------------------------------------------
(* Bytes: a sum is the cardinality of a set of pairs.                        *)

Units(S) == {u \in S \X Nat : u[2] \in 1..Bytes(u[1].text)}

LEMMA Smallest ==
  ASSUME NEW S, IsFiniteSet(S), NEW B, B \subseteq SUBSET S, B # {}
  PROVE  \E A \in B : \A x \in A : A \ {x} \notin B
<1>1. PICK A \in B : \A C \in B : ~(<<C, A>> \in StrictSubsetOrdering(S))
  <2>1. IsWellFoundedOn(StrictSubsetOrdering(S), FiniteSubsetsOf(S))
    BY FS_StrictSubsetOrderingWellFounded
  <2>2. B \subseteq FiniteSubsetsOf(S)
    BY FS_FiniteSubsetsOfFinite
  <2> QED BY <2>1, <2>2, WFMin
<1>2. \A x \in A : A \ {x} \notin B
  BY <1>1 DEF StrictSubsetOrdering
<1> QED BY <1>2

LEMMA UnitsOfNone ==
  Units({}) = {} /\ IsFiniteSet(Units({})) /\ Cardinality(Units({})) = 0
<1>1. Units({}) = {}
  BY DEF Units
<1> QED BY <1>1, FS_EmptySet

LEMMA UnitsOfOne ==
  ASSUME NEW s, Bytes(s.text) \in Nat
  PROVE  IsFiniteSet(Units({s})) /\ Cardinality(Units({s})) = Bytes(s.text)
<1>1. PICK n \in Nat : n = Bytes(s.text)
  OBVIOUS
<1>2. Units({s}) = {s} \X (1..n)
  BY <1>1 DEF Units
<1>3. IsFiniteSet({s}) /\ Cardinality({s}) = 1
  BY FS_Singleton
<1>4. IsFiniteSet(1..n) /\ Cardinality(1..n) = n
  BY FS_Interval
<1>5. IsFiniteSet(Units({s})) /\ Cardinality(Units({s})) = 1 * n
  BY <1>2, <1>3, <1>4, FS_Product
<1> QED BY <1>1, <1>5

LEMMA UnitsApart ==
  ASSUME NEW S, NEW T
  PROVE  /\ Units(S \cup T) = Units(S) \cup Units(T)
         /\ S \cap T = {} => Units(S) \cap Units(T) = {}
         /\ S \subseteq T => Units(S) \subseteq Units(T)
BY DEF Units

LEMMA UnitsMore ==
  ASSUME NEW S, NEW s, s \notin S, Bytes(s.text) \in Nat, IsFiniteSet(Units(S))
  PROVE  /\ IsFiniteSet(Units(S \cup {s}))
         /\ Cardinality(Units(S \cup {s})) = Cardinality(Units(S)) + Bytes(s.text)
<1>1. Units(S \cup {s}) = Units(S) \cup Units({s}) /\ Units(S) \cap Units({s}) = {}
  <2>1. S \cap {s} = {}
    OBVIOUS
  <2> QED BY <2>1, UnitsApart
<1>2. IsFiniteSet(Units({s})) /\ Cardinality(Units({s})) = Bytes(s.text)
  BY UnitsOfOne
<1>3. /\ IsFiniteSet(Units(S) \cup Units({s}))
      /\ Cardinality(Units(S) \cup Units({s}))
           = Cardinality(Units(S)) + Cardinality(Units({s})) - Cardinality(Units(S) \cap Units({s}))
  BY <1>2, FS_Union
<1>4. Cardinality(Units(S)) \in Nat /\ Cardinality(Units(S) \cap Units({s})) = 0
  BY <1>1, FS_EmptySet, FS_CardinalityType
<1>5. Cardinality(Units(S) \cup Units({s})) = Cardinality(Units(S)) + Bytes(s.text)
  BY <1>2, <1>3, <1>4
<1> QED BY <1>1, <1>3, <1>5

LEMMA UnitsFinite ==
  ASSUME NEW S, IsFiniteSet(S), \A s \in S : Bytes(s.text) \in Nat
  PROVE  IsFiniteSet(Units(S))
<1> SUFFICES ASSUME ~IsFiniteSet(Units(S)) PROVE FALSE
  OBVIOUS
<1>1. PICK A \in {A \in SUBSET S : ~IsFiniteSet(Units(A))} :
        \A x \in A : A \ {x} \notin {C \in SUBSET S : ~IsFiniteSet(Units(C))}
  BY Smallest
<1>2. PICK x \in A : TRUE
  BY <1>1, UnitsOfNone
<1>3. IsFiniteSet(Units(A \ {x}))
  BY <1>1
<1>4. (A \ {x}) \cup {x} = A
  OBVIOUS
<1> QED BY <1>1, <1>3, <1>4, UnitsMore

LEMMA BytesAreUnits ==
  ASSUME NEW S, IsFiniteSet(S), \A s \in S : Bytes(s.text) \in Nat
  PROVE  BytesIn(S) = Cardinality(Units(S))
<1> DEFINE One(A) == CHOOSE x \in A : TRUE
           Sum(f) == [A \in SUBSET S |-> IF A = {} THEN 0 ELSE Bytes(One(A).text) + f[A \ {One(A)}]]
           Count == [A \in SUBSET S |-> Cardinality(Units(A))]
<1>1. \A A \in SUBSET S : IsFiniteSet(Units(A)) /\ Cardinality(Units(A)) \in Nat
  BY FS_Subset, UnitsFinite, FS_CardinalityType
<1>2. \A A \in SUBSET S : A # {} => One(A) \in A
  OBVIOUS
<1>3. \A A \in SUBSET S : A # {} =>
        Cardinality(Units(A)) = Cardinality(Units(A \ {One(A)})) + Bytes(One(A).text)
  <2> TAKE A \in SUBSET S
  <2> HAVE A # {}
  <2> HIDE DEF One
  <2>1. One(A) \in A
    BY <1>2
  <2>2. (A \ {One(A)}) \cup {One(A)} = A /\ One(A) \notin A \ {One(A)}
    BY <2>1
  <2>3. A \ {One(A)} \in SUBSET S /\ Bytes(One(A).text) \in Nat
    BY <2>1
  <2>4. IsFiniteSet(Units(A \ {One(A)}))
    BY <1>1, <2>3
  <2>5. Cardinality(Units((A \ {One(A)}) \cup {One(A)})) = Cardinality(Units(A \ {One(A)})) + Bytes(One(A).text)
    BY <2>2, <2>3, <2>4, UnitsMore
  <2> QED BY <2>2, <2>5
<1>4. Count = Sum(Count)
  <2> HIDE DEF One
  <2>1. \A A \in SUBSET S : Count[A] = IF A = {} THEN 0 ELSE Bytes(One(A).text) + Count[A \ {One(A)}]
    <3> TAKE A \in SUBSET S
    <3>1. CASE A = {}
      BY <3>1, UnitsOfNone
    <3>2. CASE A # {}
      <4>1. One(A) \in A /\ A \ {One(A)} \in SUBSET S
        BY <3>2, <1>2
      <4>2. Bytes(One(A).text) \in Nat /\ Cardinality(Units(A \ {One(A)})) \in Nat
        BY <4>1, <1>1
      <4>3. Count[A] = Cardinality(Units(A)) /\ Count[A \ {One(A)}] = Cardinality(Units(A \ {One(A)}))
        BY <4>1
      <4> QED BY <3>2, <1>3, <4>2, <4>3
    <3> QED BY <3>1, <3>2
  <2> QED BY <2>1
<1>5. PICK f : f = Sum(f) /\ BytesIn(S) = f[S]
  <2>1. BytesIn(S) = (CHOOSE f : f = Sum(f))[S]
    BY DEF BytesIn, MapThenSumSet, MapThenFoldSet
  <2>2. PICK f : f = (CHOOSE g : g = Sum(g))
    OBVIOUS
  <2>3. f = Sum(f)
    <3> HIDE DEF Sum, Count
    <3> QED BY <1>4, <2>2, Zenon
  <2> QED BY <2>1, <2>2, <2>3
<1>6. \A A \in SUBSET S : f[A] = Count[A]
  <2> SUFFICES ASSUME {A \in SUBSET S : f[A] # Count[A]} # {} PROVE FALSE
    OBVIOUS
  <2>1. PICK A \in {A \in SUBSET S : f[A] # Count[A]} :
          \A x \in A : A \ {x} \notin {C \in SUBSET S : f[C] # Count[C]}
    BY Smallest
  <2>2. CASE A = {}
    BY <2>1, <2>2, <1>4, <1>5
  <2>3. CASE A # {}
    <3>1. One(A) \in A
      BY <2>1, <2>3, <1>2
    <3>2. f[A \ {One(A)}] = Count[A \ {One(A)}]
      BY <2>1, <3>1
    <3> HIDE DEF One, Count
    <3>3. f[A] = Bytes(One(A).text) + f[A \ {One(A)}]
      BY <2>1, <2>3, <1>5
    <3>4. Count[A] = Bytes(One(A).text) + Count[A \ {One(A)}]
      BY <2>1, <2>3, <1>4
    <3> QED BY <2>1, <3>2, <3>3, <3>4
  <2> QED BY <2>2, <2>3
<1> QED BY <1>5, <1>6

LEMMA BytesAreNat ==
  ASSUME NEW S, IsFiniteSet(S), \A s \in S : Bytes(s.text) \in Nat
  PROVE  BytesIn(S) \in Nat
BY BytesAreUnits, UnitsFinite, FS_CardinalityType

LEMMA BytesOfNone == BytesIn({}) = 0
BY BytesAreUnits, UnitsOfNone, FS_EmptySet

LEMMA BytesGrow ==
  ASSUME NEW S, NEW s, IsFiniteSet(S), s \notin S, Bytes(s.text) \in Nat, \A t \in S : Bytes(t.text) \in Nat
  PROVE  BytesIn(S \cup {s}) = BytesIn(S) + Bytes(s.text)
<1>1. Cardinality(Units(S \cup {s})) = Cardinality(Units(S)) + Bytes(s.text)
  BY UnitsFinite, UnitsMore
<1>2. IsFiniteSet(S \cup {s})
  BY FS_AddElement
<1> QED BY <1>1, <1>2, BytesAreUnits

LEMMA BytesSplit ==
  ASSUME NEW S, NEW T, IsFiniteSet(S), T \subseteq S, \A s \in S : Bytes(s.text) \in Nat
  PROVE  BytesIn(S) = BytesIn(T) + BytesIn(S \ T)
<1>1. IsFiniteSet(T) /\ IsFiniteSet(S \ T) /\ T \cup (S \ T) = S /\ T \cap (S \ T) = {}
  BY FS_Subset
<1>2. Units(S) = Units(T) \cup Units(S \ T) /\ Units(T) \cap Units(S \ T) = {}
  BY <1>1, UnitsApart
<1>3. IsFiniteSet(Units(T)) /\ IsFiniteSet(Units(S \ T))
  BY <1>1, UnitsFinite
<1>4. Cardinality(Units(S)) = Cardinality(Units(T)) + Cardinality(Units(S \ T))
                                 - Cardinality(Units(T) \cap Units(S \ T))
  BY <1>2, <1>3, FS_Union
<1>5. /\ Cardinality(Units(T)) \in Nat /\ Cardinality(Units(S \ T)) \in Nat
      /\ Cardinality(Units(T) \cap Units(S \ T)) = 0
  BY <1>2, <1>3, FS_CardinalityType, FS_EmptySet
<1>6. /\ BytesIn(S) = Cardinality(Units(S)) /\ BytesIn(T) = Cardinality(Units(T))
      /\ BytesIn(S \ T) = Cardinality(Units(S \ T))
  BY <1>1, BytesAreUnits
<1> QED BY <1>4, <1>5, <1>6
-----------------------------------------------------------------------------
(* Caches, as values: the entries, the index and the count of bytes agree.    *)

CacheType == [entries : SUBSET Entry, index : [Locator -> Text \cup {None}], bytes : Nat]

\* An entry is its client's, holds a text of what it is stored under, and ends a lifetime
\* after it was stored.
Proper(e) ==
  /\ e.client = e.locator.client
  /\ e.text.doc = e.locator.doc /\ e.text.rev = e.locator.rev /\ e.text.variant = e.locator.variant
  /\ e.expires = e.stored + Ttl

Agreeing(c) ==
  /\ c \in CacheType
  /\ IsFiniteSet(c.entries)
  /\ c.bytes = BytesIn(c.entries)
  /\ \A e, f \in c.entries : e.locator = f.locator => e = f
  /\ \A e \in c.entries : Proper(e)
  /\ \A e \in c.entries : c.index[e.locator] = e.text
  /\ \A l \in Locator : c.index[l] # None => \E e \in c.entries : e.locator = l

Own(c, client) == {e \in c.entries : e.client = client}

Limited(c) ==
  /\ Cardinality(c.entries) <= MaxEntries
  /\ \A client \in Client : Cardinality(Own(c, client)) <= MaxEntriesPerClient
  /\ c.bytes <= MaxBytes

LEMMA Limits ==
  /\ MaxEntries \in Nat /\ MaxEntriesPerClient \in Nat /\ MaxBytes \in Nat /\ Ttl \in Nat
  /\ MaxEntries > 0 /\ MaxEntriesPerClient > 0 /\ MaxRevision \in Nat /\ MaxRevision > 0
<1>1. {MaxEntries, MaxEntriesPerClient, MaxBytes, Ttl, MaxRevision} \subseteq Nat \ {0}
  BY CacheAssumption
<1> QED BY <1>1

LEMMA TextBytes == \A t \in Text : Bytes(t) \in Nat
BY CacheAssumption DEF Text, Bytes, Variant

LEMMA EntriesAre ==
  ASSUME NEW c, Agreeing(c), NEW S, S \subseteq c.entries
  PROVE  /\ \A e \in S : e \in Entry /\ e.text \in Text /\ e.locator \in Locator /\ Bytes(e.text) \in Nat
         /\ IsFiniteSet(S) /\ Cardinality(S) \in Nat /\ BytesIn(S) \in Nat
<1>1. \A e \in S : e \in Entry /\ e.text \in Text /\ e.locator \in Locator
  BY DEF Agreeing, CacheType, Entry
<1>2. \A e \in S : Bytes(e.text) \in Nat
  BY <1>1, TextBytes
<1>3. IsFiniteSet(S)
  BY FS_Subset DEF Agreeing
<1> QED BY <1>1, <1>2, <1>3, FS_CardinalityType, BytesAreNat

\* Removing entries, and only them, from the index too.
LEMMA Removes ==
  ASSUME NEW c, Agreeing(c), NEW gone, gone \subseteq c.entries
  PROVE  /\ Agreeing(Without(c, gone))
         /\ Without(c, gone).entries = c.entries \ gone
         /\ Limited(c) => Limited(Without(c, gone))
         /\ \A l \in Locator : Without(c, gone).index[l] = None
                               \/ \E e \in c.entries \ gone : e.locator = l /\ Without(c, gone).index[l] = e.text
<1> DEFINE d == Without(c, gone)
<1>1. /\ d.entries = c.entries \ gone
      /\ d.index = [l \in Locator |-> IF \E e \in gone : e.locator = l /\ e.text = c.index[l] THEN None ELSE c.index[l]]
      /\ d.bytes = c.bytes - BytesIn(gone)
      /\ d = [entries |-> d.entries, index |-> d.index, bytes |-> d.bytes]
  BY DEF Without
<1>2. PICK f : f = d
  OBVIOUS
<1> HIDE DEF d
<1>3. /\ IsFiniteSet(gone) /\ IsFiniteSet(c.entries \ gone) /\ BytesIn(gone) \in Nat /\ BytesIn(c.entries \ gone) \in Nat
      /\ IsFiniteSet(c.entries) /\ \A e \in c.entries : Bytes(e.text) \in Nat
  <2>1. c.entries \ gone \subseteq c.entries
    OBVIOUS
  <2> QED BY <2>1, EntriesAre
<1>4. d.bytes = BytesIn(d.entries) /\ d.bytes \in Nat
  <2>1. BytesIn(c.entries) = BytesIn(gone) + BytesIn(c.entries \ gone)
    BY <1>3, BytesSplit
  <2> QED BY <1>1, <1>3, <2>1 DEF Agreeing
<1>5. d \in CacheType
  BY <1>1, <1>4 DEF CacheType, Agreeing
<1>6. \A e \in d.entries : d.index[e.locator] = e.text
  <2> TAKE e \in d.entries
  <2>1. e \in c.entries /\ e.locator \in Locator /\ c.index[e.locator] = e.text /\ e \notin gone
    BY <1>1 DEF Agreeing, CacheType, Entry
  <2>2. ~ \E g \in gone : g.locator = e.locator /\ g.text = c.index[e.locator]
    BY <2>1 DEF Agreeing
  <2> QED BY <1>1, <2>1, <2>2
<1>7. \A l \in Locator : d.index[l] # None => \E e \in d.entries : e.locator = l
  <2> SUFFICES ASSUME NEW l \in Locator, d.index[l] # None PROVE \E e \in d.entries : e.locator = l
    OBVIOUS
  <2>1. d.index[l] = c.index[l] /\ c.index[l] # None /\ ~ \E e \in gone : e.locator = l /\ e.text = c.index[l]
    BY <1>1
  <2>2. PICK e \in c.entries : e.locator = l
    BY <2>1 DEF Agreeing
  <2>3. e \notin gone
    BY <2>1, <2>2 DEF Agreeing
  <2> QED BY <1>1, <2>2, <2>3
<1>8. Agreeing(d)
  BY <1>1, <1>3, <1>4, <1>5, <1>6, <1>7 DEF Agreeing
<1>9. ASSUME Limited(c) PROVE Limited(d)
  <2>1. Cardinality(d.entries) <= Cardinality(c.entries)
    BY <1>1, <1>3, FS_Subset
  <2>2. ASSUME NEW client \in Client PROVE Cardinality(Own(d, client)) <= Cardinality(Own(c, client))
    <3>1. Own(d, client) \subseteq Own(c, client) /\ Own(c, client) \subseteq c.entries
      BY <1>1 DEF Own
    <3>2. IsFiniteSet(Own(c, client))
      BY <1>3, <3>1, FS_Subset
    <3> QED BY <3>1, <3>2, FS_Subset
  <2>3. /\ Cardinality(d.entries) \in Nat /\ Cardinality(c.entries) \in Nat
        /\ \A client \in Client : Cardinality(Own(d, client)) \in Nat /\ Cardinality(Own(c, client)) \in Nat
    BY <1>8, EntriesAre DEF Own
  <2>4. d.bytes <= MaxBytes
    <3>1. c.bytes \in Nat /\ c.bytes <= MaxBytes
      BY <1>9 DEF Limited, Agreeing, CacheType
    <3> QED BY <1>1, <1>3, <3>1, Limits
  <2>5. Cardinality(d.entries) <= MaxEntries
    BY <1>9, <2>1, <2>3, Limits DEF Limited
  <2>6. ASSUME NEW client \in Client PROVE Cardinality(Own(d, client)) <= MaxEntriesPerClient
    <3>1. Cardinality(Own(c, client)) <= MaxEntriesPerClient
      BY <1>9 DEF Limited
    <3> QED BY <2>2, <2>3, <3>1, Limits
  <2> QED BY <2>4, <2>5, <2>6 DEF Limited
<1>10. \A l \in Locator : d.index[l] = None \/ \E e \in c.entries \ gone : e.locator = l /\ d.index[l] = e.text
  BY <1>1, <1>6, <1>7
<1> QED BY <1>1, <1>8, <1>9, <1>10 DEF d

\* A text under a new key, when there is room for it.
LEMMA Adds ==
  ASSUME NEW c, Agreeing(c), NEW new \in Entry, Proper(new), \A e \in c.entries : e.locator # new.locator,
         NEW d, d = [entries |-> c.entries \cup {new},
                     index   |-> [c.index EXCEPT ![new.locator] = new.text],
                     bytes   |-> c.bytes + Bytes(new.text)]
  PROVE  /\ Agreeing(d)
         /\ (/\ Limited(c) /\ Fits(c, Bytes(new.text))
             /\ Cardinality(Own(c, new.client)) <= MaxEntriesPerClient - 1) => Limited(d)
<1>1. /\ new.locator \in Locator /\ new.text \in Text /\ new \notin c.entries /\ new.text # None
      /\ c \in CacheType /\ c.entries \subseteq Entry /\ c.index \in [Locator -> Text \cup {None}] /\ c.bytes \in Nat
  BY NoneAssumption DEF Entry, Agreeing, CacheType
<1>2. IsFiniteSet(c.entries) /\ (\A e \in c.entries : Bytes(e.text) \in Nat) /\ Bytes(new.text) \in Nat
  BY <1>1, EntriesAre, TextBytes
<1>3. /\ d.entries = c.entries \cup {new} /\ d.bytes = c.bytes + Bytes(new.text)
      /\ d.index = [c.index EXCEPT ![new.locator] = new.text]
      /\ d = [entries |-> d.entries, index |-> d.index, bytes |-> d.bytes]
  OBVIOUS
<1>4. d.bytes = BytesIn(d.entries) /\ d.bytes \in Nat
  BY <1>1, <1>2, <1>3, BytesGrow DEF Agreeing
<1>5. IsFiniteSet(d.entries)
  BY <1>2, <1>3, FS_AddElement
<1>6. \A l \in Locator : d.index[l] = IF l = new.locator THEN new.text ELSE c.index[l]
  BY <1>1, <1>3
<1>7. d.index \in [Locator -> Text \cup {None}]
  BY <1>1, <1>3
<1>8. d \in CacheType
  BY <1>1, <1>3, <1>4, <1>7 DEF CacheType
<1>9. \A e \in d.entries : e.locator \in Locator /\ d.index[e.locator] = e.text
  BY <1>1, <1>3, <1>6 DEF Agreeing, Entry
<1>10. \A l \in Locator : d.index[l] # None => \E e \in d.entries : e.locator = l
  BY <1>3, <1>6 DEF Agreeing
<1>11. \A e, f \in d.entries : e.locator = f.locator => e = f
  BY <1>3 DEF Agreeing
<1>12. \A e \in d.entries : Proper(e)
  BY <1>3 DEF Agreeing
<1>13. Agreeing(d)
  BY <1>4, <1>5, <1>8, <1>9, <1>10, <1>11, <1>12 DEF Agreeing
<1>14. ASSUME Limited(c), Fits(c, Bytes(new.text)), Cardinality(Own(c, new.client)) <= MaxEntriesPerClient - 1
       PROVE  Limited(d)
  <2>1. Cardinality(d.entries) <= MaxEntries
    <3>1. Cardinality(d.entries) = Cardinality(c.entries) + 1 /\ Cardinality(c.entries) \in Nat
      BY <1>1, <1>2, <1>3, FS_AddElement, FS_CardinalityType
    <3> QED BY <1>14, <3>1, Limits DEF Fits
  <2>2. d.bytes <= MaxBytes
    BY <1>3, <1>14 DEF Fits
  <2>3. ASSUME NEW client \in Client PROVE Cardinality(Own(d, client)) <= MaxEntriesPerClient
    <3>1. CASE client = new.client
      <4>1. Own(d, client) = Own(c, client) \cup {new} /\ new \notin Own(c, client) /\ Own(c, client) \subseteq c.entries
        BY <1>1, <1>3, <3>1 DEF Own
      <4>2. IsFiniteSet(Own(c, client)) /\ Cardinality(Own(c, client)) \in Nat
        BY <4>1, EntriesAre
      <4>3. Cardinality(Own(d, client)) = Cardinality(Own(c, client)) + 1
        BY <4>1, <4>2, FS_AddElement
      <4> QED BY <1>14, <3>1, <4>2, <4>3, Limits
    <3>2. CASE client # new.client
      <4>1. Own(d, client) = Own(c, client)
        BY <1>3, <3>2 DEF Own
      <4> QED BY <1>14, <4>1 DEF Limited
    <3> QED BY <3>1, <3>2
  <2> QED BY <2>1, <2>2, <2>3 DEF Limited
<1> QED BY <1>13, <1>14

\* An entry gives way to one with the same key and text.
LEMMA Replaces ==
  ASSUME NEW c, Agreeing(c), Limited(c), NEW old \in c.entries, NEW new \in Entry, Proper(new),
         new.locator = old.locator, new.text = old.text,
         NEW d, d = [c EXCEPT !.entries = {IF e.locator = new.locator THEN new ELSE e : e \in @}]
  PROVE  Agreeing(d) /\ Limited(d)
<1> DEFINE R == c.entries \ {old}
<1>1. c \in CacheType /\ c.entries \subseteq Entry /\ old \in Entry /\ old.client = new.client
      /\ R \subseteq c.entries /\ old \notin R /\ R \cup {old} = c.entries
  BY DEF Agreeing, CacheType, Proper
<1>2. \A e \in R : e.locator # new.locator
  BY DEF Agreeing
<1>3. /\ d = [c EXCEPT !.entries = R \cup {new}] /\ new \notin R
  <2>1. {IF e.locator = new.locator THEN new ELSE e : e \in c.entries} = R \cup {new}
    BY <1>1, <1>2
  <2> QED BY <1>2, <2>1
<1> HIDE DEF R
<1>4. d.entries = R \cup {new} /\ d.index = c.index /\ d.bytes = c.bytes /\ d \in CacheType
  BY <1>1, <1>3 DEF CacheType
<1>5. /\ IsFiniteSet(R) /\ BytesIn(R) \in Nat /\ (\A e \in R : Bytes(e.text) \in Nat) /\ Cardinality(R) \in Nat
      /\ Bytes(old.text) \in Nat /\ Bytes(new.text) = Bytes(old.text)
  <2>1. \A e \in c.entries : Bytes(e.text) \in Nat
    BY EntriesAre
  <2> QED BY <1>1, <2>1, EntriesAre
<1>6. BytesIn(d.entries) = BytesIn(c.entries)
  <2>1. BytesIn(R \cup {old}) = BytesIn(R) + Bytes(old.text)
    BY <1>1, <1>5, BytesGrow
  <2>2. BytesIn(R \cup {new}) = BytesIn(R) + Bytes(new.text)
    BY <1>3, <1>5, BytesGrow
  <2> QED BY <1>1, <1>4, <1>5, <2>1, <2>2
<1>7. IsFiniteSet(d.entries) /\ Cardinality(d.entries) = Cardinality(c.entries)
  <2>1. IsFiniteSet(R \cup {new}) /\ Cardinality(R \cup {new}) = Cardinality(R) + 1
    BY <1>3, <1>5, FS_AddElement
  <2>2. Cardinality(R \cup {old}) = Cardinality(R) + 1
    BY <1>1, <1>5, FS_AddElement
  <2> QED BY <1>1, <1>4, <2>1, <2>2
<1>8. \A client \in Client : Cardinality(Own(d, client)) = Cardinality(Own(c, client))
  <2> TAKE client \in Client
  <2>1. CASE client # new.client
    <3>1. Own(d, client) = Own(c, client)
      BY <1>1, <1>4, <2>1 DEF Own
    <3> QED BY <3>1
  <2>2. CASE client = new.client
    <3> DEFINE Q == {e \in R : e.client = client}
    <3>1. Own(d, client) = Q \cup {new} /\ Own(c, client) = Q \cup {old} /\ new \notin Q /\ old \notin Q /\ Q \subseteq R
      BY <1>1, <1>3, <1>4, <2>2 DEF Own
    <3> HIDE DEF Q
    <3>2. IsFiniteSet(Q)
      BY <1>5, <3>1, FS_Subset
    <3>3. Cardinality(Q \cup {new}) = Cardinality(Q) + 1 /\ Cardinality(Q \cup {old}) = Cardinality(Q) + 1
      BY <3>1, <3>2, FS_AddElement
    <3> QED BY <3>1, <3>3
  <2> QED BY <2>1, <2>2
<1>9. Agreeing(d)
  <2>1. \A e, f \in d.entries : e.locator = f.locator => e = f
    BY <1>1, <1>2, <1>4 DEF Agreeing
  <2>2. \A e \in d.entries : Proper(e) /\ d.index[e.locator] = e.text
    BY <1>1, <1>4 DEF Agreeing
  <2>3. \A l \in Locator : d.index[l] # None => \E e \in d.entries : e.locator = l
    BY <1>1, <1>4 DEF Agreeing
  <2> QED BY <1>4, <1>6, <1>7, <2>1, <2>2, <2>3 DEF Agreeing
<1>10. Limited(d)
  BY <1>4, <1>7, <1>8 DEF Limited
<1> QED BY <1>9, <1>10

\* What makes room for an entry of a client leaves it.
LEMMA RoomIsMade ==
  ASSUME NEW c, Agreeing(c), Limited(c), NEW client \in Client, NEW size \in Nat,
         NEW V \in OwnVictims(c, client), NEW W \in Victims(Without(c, V), size),
         NEW d, d = Without(Without(c, V), W)
  PROVE  /\ Agreeing(d) /\ Limited(d) /\ Fits(d, size) /\ Cardinality(Own(d, client)) <= MaxEntriesPerClient - 1
         /\ d.entries \subseteq c.entries
<1> DEFINE b == Without(c, V)
           own == Own(c, client)
<1>1. V \subseteq own /\ Cardinality(own \ V) = Min({Cardinality(own), MaxEntriesPerClient - 1})
  BY DEF OwnVictims, Own
<1>2. own \subseteq c.entries /\ V \subseteq c.entries
  BY <1>1 DEF Own
<1>3. Agreeing(b) /\ Limited(b) /\ b.entries = c.entries \ V
  BY <1>2, Removes
<1> HIDE DEF b
<1>4. W \subseteq b.entries /\ Fits(d, size) /\ d = Without(b, W)
  BY DEF Victims, b
<1>5. Agreeing(d) /\ Limited(d) /\ d.entries = b.entries \ W
  BY <1>3, <1>4, Removes
<1>6. Cardinality(own \ V) <= MaxEntriesPerClient - 1
  <2>1. PICK n \in Nat, m \in Nat : n = Cardinality(own) /\ m = MaxEntriesPerClient - 1
    BY <1>2, EntriesAre, Limits
  <2>2. PICK x : x = Min({n, m})
    OBVIOUS
  <2>3. x <= m
    <3>1. \E y \in {n, m} : \A z \in {n, m} : y <= z
      OBVIOUS
    <3>2. x \in {n, m} /\ \A z \in {n, m} : x <= z
      BY <2>2, <3>1 DEF Min
    <3> QED BY <3>2
  <2> QED BY <1>1, <2>1, <2>2, <2>3
<1>7. Own(d, client) \subseteq own \ V /\ own \ V \subseteq c.entries
  BY <1>2, <1>3, <1>5 DEF Own
<1>8. Cardinality(Own(d, client)) <= Cardinality(own \ V)
  <2>1. IsFiniteSet(own \ V)
    BY <1>7, EntriesAre
  <2> QED BY <1>7, <2>1, FS_Subset
<1>9. Cardinality(Own(d, client)) \in Nat /\ Cardinality(own \ V) \in Nat
  <2>1. Own(d, client) \subseteq d.entries
    BY DEF Own
  <2> QED BY <1>5, <1>7, <2>1, EntriesAre
<1> QED BY <1>3, <1>4, <1>5, <1>6, <1>8, <1>9, Limits

LEMMA PrunedKeeps ==
  ASSUME NEW c, Agreeing(c)
  PROVE  /\ Agreeing(Pruned(c)) /\ Pruned(c).entries = {e \in c.entries : ~(e.expires <= now)}
         /\ Limited(c) => Limited(Pruned(c))
<1> DEFINE gone == {e \in c.entries : e.expires <= now}
<1>1. gone \subseteq c.entries /\ c.entries \ gone = {e \in c.entries : ~(e.expires <= now)}
  OBVIOUS
<1> HIDE DEF gone
<1>2. Pruned(c) = Without(c, gone)
  BY DEF Pruned, gone
<1> QED BY <1>1, <1>2, Removes

LEMMA PutKeeps ==
  ASSUME NEW c, Agreeing(c), Limited(c), now \in Nat, NEW key \in Locator, NEW text \in Text,
         text.doc = key.doc, text.rev = key.rev, text.variant = key.variant,
         NEW d, Put(c, key.client, key, text, d)
  PROVE  Agreeing(d) /\ Limited(d)
<1> DEFINE client == key.client
           c0  == Pruned(c)
           gone == {e \in c0.entries : e.locator = key /\ e.text # text}
           c1  == Without(c0, gone)
           new == Stored(client, key, text)
<1>1. client \in Client /\ Bytes(text) \in Nat
  BY TextBytes DEF Locator
<1>2. Agreeing(c0) /\ Limited(c0)
  BY PrunedKeeps
<1>3. gone \subseteq c0.entries
  OBVIOUS
<1>4. Agreeing(c1) /\ Limited(c1) /\ c1.entries = c0.entries \ gone
      /\ \A l \in Locator : c1.index[l] = None
                            \/ \E e \in c0.entries \ gone : e.locator = l /\ c1.index[l] = e.text
  <2> HIDE DEF c0, gone
  <2> QED BY <1>2, <1>3, Removes
<1>5. /\ new \in Entry /\ Proper(new) /\ new.locator = key /\ new.text = text /\ new.client = client
  BY <1>1, Limits DEF Stored, Entry, Proper
<1> HIDE DEF new
<1>6. CASE Bytes(text) > MaxBytes
  BY <1>2, <1>6 DEF Put
<1>7. CASE ~(Bytes(text) > MaxBytes) /\ c1.index[key] = text
  <2>1. d = [c1 EXCEPT !.entries = {IF e.locator = key THEN new ELSE e : e \in @}]
    BY <1>7 DEF Put, new
  <2> HIDE DEF c1
  <2>2. PICK old \in c1.entries : old.locator = key /\ old.text = text
    <3>1. text # None
      BY NoneAssumption
    <3> QED BY <1>4, <1>7, <3>1
  <2>3. d = [c1 EXCEPT !.entries = {IF e.locator = new.locator THEN new ELSE e : e \in @}]
    BY <1>5, <2>1
  <2> QED BY <1>4, <1>5, <2>2, <2>3, Replaces
<1>8. CASE ~(Bytes(text) > MaxBytes) /\ c1.index[key] # text
  <2>1. PICK V \in OwnVictims(c1, client) : \E W \in Victims(Without(c1, V), Bytes(text)) :
          \E c2 : /\ c2 = Without(Without(c1, V), W)
                  /\ d = [entries |-> c2.entries \cup {new}, index |-> [c2.index EXCEPT ![key] = text],
                          bytes |-> c2.bytes + Bytes(text)]
    <3>1. PICK V \in OwnVictims(c1, client) : \E W \in Victims(Without(c1, V), Bytes(text)) :
            d = [entries |-> Without(Without(c1, V), W).entries \cup {new},
                 index |-> [Without(Without(c1, V), W).index EXCEPT ![key] = text],
                 bytes |-> Without(Without(c1, V), W).bytes + Bytes(text)]
      BY <1>8 DEF Put, new
    <3> HIDE DEF c1, client
    <3>2. PICK W \in Victims(Without(c1, V), Bytes(text)) :
            d = [entries |-> Without(Without(c1, V), W).entries \cup {new},
                 index |-> [Without(Without(c1, V), W).index EXCEPT ![key] = text],
                 bytes |-> Without(Without(c1, V), W).bytes + Bytes(text)]
      BY <3>1
    <3> QED BY <3>2
  <2> PICK W \in Victims(Without(c1, V), Bytes(text)) :
        \E c2 : /\ c2 = Without(Without(c1, V), W)
                /\ d = [entries |-> c2.entries \cup {new}, index |-> [c2.index EXCEPT ![key] = text],
                        bytes |-> c2.bytes + Bytes(text)]
    BY <2>1
  <2> PICK c2 : /\ c2 = Without(Without(c1, V), W)
                /\ d = [entries |-> c2.entries \cup {new}, index |-> [c2.index EXCEPT ![key] = text],
                        bytes |-> c2.bytes + Bytes(text)]
    OBVIOUS
  <2>2. \A e \in c1.entries : e.locator # key
    <3>1. \A e \in c0.entries \ gone : e.locator = key => e.text = text
      OBVIOUS
    <3> HIDE DEF c0, c1, gone
    <3>2. \A e \in c1.entries : e.locator = key => c1.index[key] = e.text
      BY <1>4 DEF Agreeing
    <3> QED BY <1>4, <1>8, <3>1, <3>2
  <2> HIDE DEF c1, client
  <2>3. /\ Agreeing(c2) /\ Limited(c2) /\ Fits(c2, Bytes(text)) /\ c2.entries \subseteq c1.entries
        /\ Cardinality(Own(c2, client)) <= MaxEntriesPerClient - 1
    BY <1>1, <1>4, RoomIsMade
  <2>4. d = [entries |-> c2.entries \cup {new}, index |-> [c2.index EXCEPT ![new.locator] = new.text],
             bytes |-> c2.bytes + Bytes(new.text)]
    BY <1>5
  <2>5. \A e \in c2.entries : e.locator # new.locator
    BY <1>5, <2>2, <2>3
  <2>6. /\ Agreeing(d)
        /\ (/\ Limited(c2) /\ Fits(c2, Bytes(new.text))
            /\ Cardinality(Own(c2, new.client)) <= MaxEntriesPerClient - 1) => Limited(d)
    BY <1>5, <2>3, <2>4, <2>5, Adds
  <2> QED BY <1>5, <2>3, <2>6
<1> QED BY <1>6, <1>7, <1>8
-----------------------------------------------------------------------------
(* The inductive invariant.                                                  *)

CacheKept == Agreeing(cache) /\ Limited(cache)

\* Chunks that are, one after the other, the beginning of a text.
Chained(s, text) ==
  \A i \in 1..Len(s) : s[i].text = text /\ s[i].from = IF i = 1 THEN 0 ELSE s[i - 1].to

\* A cursor stands where the chunks of its text end that its client has received.
Standing(cur) ==
  cur = None \/ /\ cur.chunks # <<>>
                /\ Chained(cur.chunks, cur.text)
                /\ cur.chunks[Len(cur.chunks)].to = cur.offset

\* Those that calls have been given, and have to give.
CallCursors ==
  /\ \A k \in Call : calls[k].pc # "idle" => Standing(calls[k].authority.cursor)
  /\ \A k \in Call : calls[k].pc = "answered" => Standing(calls[k].next)

\* Those that clients keep.
CursorsKept == \A c \in Client : Standing(cursor[c])

\* The parts of the invariant that concern the calls.
CallsKept == ServedIsProven /\ ChunksAddUp /\ CallCursors

IInv == /\ TypeOK
        /\ CacheKept
        /\ CallsKept
        /\ CursorsKept
        /\ FilesRemoved

LEMMA LimitsFollow == CacheKept => CacheLimits
<1> SUFFICES ASSUME CacheKept PROVE CacheLimits
  OBVIOUS
<1>1. /\ Cardinality(cache.entries) <= MaxEntries /\ cache.bytes <= MaxBytes
      /\ \A c \in Client : Cardinality({e \in cache.entries : e.client = c}) <= MaxEntriesPerClient
  BY DEF CacheKept, Limited, Own
<1>2. cache.bytes = BytesIn(cache.entries) /\ \A e, f \in cache.entries : e.locator = f.locator => e = f
  BY DEF CacheKept, Agreeing
<1>3. \A l \in Locator :
        cache.index[l] # None <=> \E e \in cache.entries : e.locator = l /\ e.text = cache.index[l]
  <2> TAKE l \in Locator
  <2>1. ASSUME cache.index[l] # None PROVE \E e \in cache.entries : e.locator = l /\ e.text = cache.index[l]
    BY <2>1 DEF CacheKept, Agreeing
  <2>2. ASSUME NEW e \in cache.entries, e.text = cache.index[l] PROVE cache.index[l] # None
    BY <2>2, NoneAssumption DEF CacheKept, Agreeing, CacheType, Entry
  <2> QED BY <2>1, <2>2
<1> QED BY <1>1, <1>2, <1>3 DEF CacheLimits

LEMMA KeyIs ==
  ASSUME NEW a \in Authority
  PROVE  /\ Key(a) \in Locator /\ Key(a).client = a.client /\ Key(a).doc = a.doc
         /\ Key(a).rev = a.rev /\ Key(a).variant = a.variant /\ a.client \in Client
BY DEF Key, Authority, Locator

\* A call that is set to something else.
LEMMA BecomeIs ==
  ASSUME TypeOK, NEW k \in Call, NEW r \in CallRecord, Become(k, r)
  PROVE  /\ calls' \in [Call -> CallRecord] /\ calls'[k] = r
         /\ \A j \in Call \ {k} : calls'[j] = calls[j]
BY DEF Become, TypeOK

LEMMA IdleIs == Idle \in CallRecord /\ Idle.pc = "idle"
BY DEF CallRecord, Idle

LEMMA GivenStands ==
  ASSUME CallCursors, NEW k \in Call
  PROVE  /\ calls[k].pc \in {"loading", "extracting", "answered"} => Standing(calls[k].authority.cursor)
         /\ calls[k].pc = "answered" => Standing(calls[k].next)
<1>1. calls[k].pc \in {"loading", "extracting", "answered"} => calls[k].pc # "idle"
  OBVIOUS
<1>2. calls[k].pc # "idle" => Standing(calls[k].authority.cursor)
  BY Zenon DEF CallCursors
<1>3. calls[k].pc = "answered" => Standing(calls[k].next)
  BY Zenon DEF CallCursors
<1> QED BY <1>1, <1>2, <1>3, Zenon

LEMMA MinIs ==
  ASSUME NEW m \in Nat, NEW n \in Nat
  PROVE  Min({m, n}) \in Nat /\ Min({m, n}) <= m
<1>1. \E x \in {m, n} : \A y \in {m, n} : x <= y
  OBVIOUS
<1>2. Min({m, n}) \in {m, n} /\ \A y \in {m, n} : Min({m, n}) <= y
  BY <1>1 DEF Min
<1> QED BY <1>2

\* One more chunk, from where the others end.
LEMMA ChainGrows ==
  ASSUME NEW s \in Seq(Chunk), NEW chunk \in Chunk, Chained(s, chunk.text),
         chunk.from = IF s = <<>> THEN 0 ELSE s[Len(s)].to,
         NEW r, r = Append(s, chunk)
  PROVE  r \in Seq(Chunk) /\ r # <<>> /\ Chained(r, chunk.text) /\ r[Len(r)] = chunk
<1>1. /\ r \in Seq(Chunk) /\ Len(r) = Len(s) + 1 /\ Len(s) \in Nat /\ r[Len(s) + 1] = chunk
      /\ \A i \in 1..Len(s) : r[i] = s[i]
      /\ s = <<>> <=> Len(s) = 0
  OBVIOUS
<1>2. ASSUME NEW i \in 1..Len(r)
      PROVE  r[i].text = chunk.text /\ r[i].from = IF i = 1 THEN 0 ELSE r[i - 1].to
  <2>1. CASE i = Len(s) + 1
    <3>1. CASE Len(s) = 0
      BY <1>1, <2>1, <3>1
    <3>2. CASE Len(s) # 0
      <4>1. Len(s) \in 1..Len(s) /\ i # 1 /\ i - 1 = Len(s)
        BY <1>1, <2>1, <3>2
      <4>2. r[i - 1] = s[Len(s)]
        BY <1>1, <4>1
      <4> QED BY <1>1, <2>1, <3>2, <4>1, <4>2
    <3> QED BY <3>1, <3>2
  <2>2. CASE i # Len(s) + 1
    <3>1. i \in 1..Len(s) /\ (i # 1 => i - 1 \in 1..Len(s))
      BY <1>1, <2>2
    <3>2. r[i] = s[i] /\ (i # 1 => r[i - 1] = s[i - 1])
      BY <1>1, <3>1
    <3>3. s[i].text = chunk.text /\ s[i].from = IF i = 1 THEN 0 ELSE s[i - 1].to
      BY <3>1 DEF Chained
    <3> QED BY <3>2, <3>3
  <2> QED BY <2>1, <2>2
<1>3. r # <<>> /\ r[Len(r)] = chunk
  BY <1>1
<1> QED BY <1>1, <1>2, <1>3 DEF Chained

\* What a call receives continues what its cursor stands for, and the next cursor stands
\* where that ends.
LEMMA ChunkFollows ==
  ASSUME NEW a \in Authority, Standing(a.cursor), NEW chunk \in Chunk,
         chunk.from = IF a.cursor = None THEN 0 ELSE a.cursor.offset,
         a.cursor # None => a.cursor.text = chunk.text, now + CursorTtl \in Nat
  PROVE  /\ Chained(Received(a, chunk), chunk.text)
         /\ NextCursor(a, chunk) \in Cursor \cup {None} /\ Standing(NextCursor(a, chunk))
         /\ NextCursor(a, chunk) = None <=> ~(chunk.to < Characters(chunk.text))
<1>1. PICK s : s = IF a.cursor = None THEN <<>> ELSE a.cursor.chunks
  OBVIOUS
<1>2. s \in Seq(Chunk) /\ Chained(s, chunk.text) /\ chunk.from = IF s = <<>> THEN 0 ELSE s[Len(s)].to
  <2>1. CASE a.cursor = None
    <3>1. s = <<>>
      BY <1>1, <2>1
    <3> QED BY <2>1, <3>1 DEF Chained
  <2>2. CASE a.cursor # None
    <3>1. a.cursor \in Cursor /\ s = a.cursor.chunks
      BY <1>1, <2>2 DEF Authority
    <3>2. s \in Seq(Chunk)
      BY <3>1 DEF Cursor
    <3> QED BY <2>2, <3>1, <3>2 DEF Standing
  <2> QED BY <2>1, <2>2
<1>3. PICK r : r = Received(a, chunk)
  OBVIOUS
<1>4. r \in Seq(Chunk) /\ r # <<>> /\ Chained(r, chunk.text) /\ r[Len(r)] = chunk
  <2>1. r = Append(s, chunk)
    BY <1>1, <1>3 DEF Received
  <2> QED BY <1>2, <2>1, ChainGrows
<1>5. CASE chunk.to < Characters(chunk.text)
  <2>1. PICK new : new = [client |-> a.client, doc |-> a.doc, rev |-> a.rev, variant |-> a.variant,
                          text |-> chunk.text, offset |-> chunk.to, expires |-> now + CursorTtl,
                          chunks |-> r]
    OBVIOUS
  <2>2. NextCursor(a, chunk) = new
    BY <1>3, <1>5, <2>1 DEF NextCursor
  <2>3. new \in Cursor
    BY <1>4, <2>1 DEF Cursor, Authority, Chunk
  <2>4. Standing(new)
    BY <1>4, <2>1 DEF Standing
  <2> QED BY <1>3, <1>4, <1>5, <2>2, <2>3, <2>4, NoneAssumption
<1>6. CASE ~(chunk.to < Characters(chunk.text))
  BY <1>3, <1>4, <1>6 DEF NextCursor, Standing
<1> QED BY <1>5, <1>6

\* An answer is cut from the text of the proven revision, and where the cursor stands in it.
LEMMA AnswerKeeps ==
  ASSUME TypeOK, CallsKept, NEW k \in Call, NEW a \in Authority, NEW text \in Text, Standing(a.cursor),
         text.doc = a.doc, text.rev = a.rev, text.variant = a.variant, now + CursorTtl \in Nat,
         Answer(k, a, text)
  PROVE  /\ calls' \in [Call -> CallRecord] /\ CallsKept'
         /\ \A j \in Call \ {k} : calls'[j] = calls[j]
         /\ calls'[k].pc \in {"idle", "answered"}
         /\ calls'[k].pc = "answered" => calls'[k].authority = a /\ calls'[k].chunk.text = text
<1>1. PICK from : from = IF a.cursor = None THEN 0 ELSE a.cursor.offset
  OBVIOUS
<1>2. from \in Nat
  BY <1>1 DEF Authority, Cursor
<1>3. PICK all : all = Characters(text) /\ all \in Nat
  BY CacheAssumption DEF Characters, Text
<1>4. \/ Become(k, Idle)
      \/ /\ Continues(a, text)
         /\ \E to \in {Min({all, from + n}) : n \in 1..MaxChars} :
              \E chunk : /\ chunk = [text |-> text, from |-> from, to |-> to]
                        /\ Become(k, [pc |-> "answered", authority |-> a, chunk |-> chunk,
                                      next |-> NextCursor(a, chunk)])
  <2>1. CASE a.kind = "read" /\ Continues(a, text)
    <3>1. PICK to \in {Min({all, from + n}) : n \in 1..MaxChars} :
                 Become(k, [pc |-> "answered", authority |-> a,
                            chunk |-> [text |-> text, from |-> from, to |-> to],
                            next |-> NextCursor(a, [text |-> text, from |-> from, to |-> to])])
      BY <1>1, <1>3, <2>1 DEF Answer
    <3> QED BY <2>1, <3>1
  <2>2. CASE ~(a.kind = "read" /\ Continues(a, text))
    BY <2>2 DEF Answer, Leave
  <2> QED BY <2>1, <2>2
<1>5. CASE Become(k, Idle)
  <2>1. /\ calls' \in [Call -> CallRecord] /\ calls'[k].pc = "idle"
        /\ \A j \in Call \ {k} : calls'[j] = calls[j]
    BY <1>5, IdleIs, BecomeIs
  <2>2. ServedIsProven' /\ ChunksAddUp' /\ CallCursors'
    BY <2>1 DEF CallsKept, ServedIsProven, ChunksAddUp, CallCursors
  <2> QED BY <2>1, <2>2 DEF CallsKept
<1>6. CASE /\ Continues(a, text)
           /\ \E to \in {Min({all, from + n}) : n \in 1..MaxChars} :
                \E chunk : /\ chunk = [text |-> text, from |-> from, to |-> to]
                          /\ Become(k, [pc |-> "answered", authority |-> a, chunk |-> chunk,
                                        next |-> NextCursor(a, chunk)])
  <2> PICK n \in 1..MaxChars : \E chunk :
          /\ chunk = [text |-> text, from |-> from, to |-> Min({all, from + n})]
          /\ Become(k, [pc |-> "answered", authority |-> a, chunk |-> chunk,
                        next |-> NextCursor(a, chunk)])
    BY <1>6
  <2>1. PICK chunk :
          /\ chunk = [text |-> text, from |-> from, to |-> Min({all, from + n})]
          /\ Become(k, [pc |-> "answered", authority |-> a, chunk |-> chunk,
                        next |-> NextCursor(a, chunk)])
    OBVIOUS
  <2>2. Min({all, from + n}) \in Nat /\ Min({all, from + n}) <= all
    <3>1. n \in Nat
      BY CacheAssumption
    <3>2. from + n \in Nat
      BY <1>2, <3>1
    <3> QED BY <1>3, <3>2, MinIs
  <2>3. chunk \in Chunk /\ chunk.text = text /\ chunk.from = from /\ chunk.to <= all /\ chunk.to \in Nat
    BY <1>2, <2>1, <2>2 DEF Chunk
  <2>4. a.cursor # None => a.cursor.text = chunk.text
    BY <1>6, <2>3 DEF Continues
  <2>5. /\ Chained(Received(a, chunk), chunk.text)
        /\ NextCursor(a, chunk) \in Cursor \cup {None} /\ Standing(NextCursor(a, chunk))
        /\ NextCursor(a, chunk) = None <=> ~(chunk.to < Characters(chunk.text))
    BY <1>1, <2>3, <2>4, ChunkFollows
  <2>6. PICK next : next = NextCursor(a, chunk)
    OBVIOUS
  <2>7. PICK r : r = [pc |-> "answered", authority |-> a, chunk |-> chunk, next |-> next]
    OBVIOUS
  <2>8. /\ r \in CallRecord /\ r.pc = "answered" /\ r.authority = a /\ r.chunk = chunk /\ r.next = next
    BY <2>3, <2>5, <2>6, <2>7 DEF CallRecord
  <2>9. /\ calls' \in [Call -> CallRecord] /\ calls'[k] = r
        /\ \A j \in Call \ {k} : calls'[j] = calls[j]
    BY <2>1, <2>6, <2>7, <2>8, BecomeIs
  <2>10. ServedIsProven'
    BY <2>3, <2>8, <2>9 DEF CallsKept, ServedIsProven
  <2>11. next = None <=> chunk.to = Characters(chunk.text)
    BY <1>3, <2>3, <2>5, <2>6
  <2>12. ChunksAddUp'
    <3> SUFFICES ASSUME NEW j \in Call, calls'[j].pc = "answered"
                 PROVE  /\ Chained(Received(calls'[j].authority, calls'[j].chunk), calls'[j].chunk.text)
                        /\ calls'[j].next = None <=> calls'[j].chunk.to = Characters(calls'[j].chunk.text)
      BY DEF ChunksAddUp, Chained
    <3>1. CASE j = k
      BY <2>5, <2>8, <2>9, <2>11, <3>1
    <3>2. CASE j # k
      BY <2>9, <3>2 DEF CallsKept, ChunksAddUp, Chained
    <3> QED BY <3>1, <3>2
  <2>13. CallCursors'
    BY <2>5, <2>6, <2>8, <2>9 DEF CallsKept, CallCursors
  <2> QED BY <2>3, <2>8, <2>9, <2>10, <2>12, <2>13 DEF CallsKept
<1> QED BY <1>4, <1>5, <1>6

\* A call that is set to something that is not an answer.
LEMMA OtherKeeps ==
  ASSUME TypeOK, CallsKept, NEW k \in Call, NEW r \in CallRecord, r.pc # "answered",
         r.pc # "idle" => Standing(r.authority.cursor), Become(k, r)
  PROVE  /\ calls' \in [Call -> CallRecord] /\ CallsKept' /\ calls'[k] = r
         /\ \A j \in Call \ {k} : calls'[j] = calls[j]
<1>1. /\ calls' \in [Call -> CallRecord] /\ calls'[k] = r
      /\ \A j \in Call \ {k} : calls'[j] = calls[j]
  BY BecomeIs
<1>2. ServedIsProven'
  BY <1>1 DEF CallsKept, ServedIsProven
<1>3. ChunksAddUp'
  <2>1. \A j \in Call : calls'[j].pc = "answered" => calls'[j] = calls[j]
    BY <1>1
  <2> SUFFICES ASSUME NEW j \in Call, calls'[j].pc = "answered"
               PROVE  /\ Chained(Received(calls'[j].authority, calls'[j].chunk), calls'[j].chunk.text)
                      /\ calls'[j].next = None <=> calls'[j].chunk.to = Characters(calls'[j].chunk.text)
    BY DEF ChunksAddUp, Chained
  <2>2. calls'[j] = calls[j]
    BY <2>1
  <2> QED BY <2>2 DEF CallsKept, ChunksAddUp, Chained
<1>4. CallCursors'
  BY <1>1 DEF CallsKept, CallCursors
<1> QED BY <1>1, <1>2, <1>3, <1>4 DEF CallsKept

\* A hit is an entry of the same key that has not expired.
LEMMA HitIs ==
  ASSUME IInv, NEW a \in Authority, NEW t, t = Pruned(cache).index[Key(a)], t # None
  PROVE  \E e \in Pruned(cache).entries :
           /\ e \in cache.entries /\ e.locator = Key(a) /\ e.text = t /\ t \in Text /\ Proper(e)
           /\ e \in Entry /\ ~(e.expires <= now)
<1>1. PICK p : p = Pruned(cache)
  OBVIOUS
<1>2. Agreeing(p) /\ p.entries = {e \in cache.entries : ~(e.expires <= now)}
  BY <1>1, PrunedKeeps DEF IInv, CacheKept
<1>3. PICK e \in p.entries : e.locator = Key(a)
  BY <1>1, <1>2, KeyIs DEF Agreeing
<1>4. e \in Entry /\ e.text = t /\ Proper(e) /\ t \in Text
  BY <1>1, <1>2, <1>3 DEF Agreeing, CacheType, Entry
<1> QED BY <1>1, <1>2, <1>3, <1>4

LEMMA TouchKeeps ==
  ASSUME IInv, NEW a \in Authority, Pruned(cache).index[Key(a)] # None
  PROVE  Agreeing(Touched(Pruned(cache), Key(a))) /\ Limited(Touched(Pruned(cache), Key(a)))
<1>1. PICK p : p = Pruned(cache)
  OBVIOUS
<1>2. Agreeing(p) /\ Limited(p)
  BY <1>1, PrunedKeeps DEF IInv, CacheKept
<1>3. PICK old \in p.entries : old.locator = Key(a) /\ old \in Entry /\ Proper(old)
  BY <1>1, HitIs
<1>4. PICK new : new = [old EXCEPT !.access = now]
  OBVIOUS
<1>5. /\ new \in Entry /\ Proper(new) /\ new.locator = old.locator /\ new.text = old.text
  BY <1>3, <1>4 DEF Entry, Proper, IInv, TypeOK
<1>6. \A e \in p.entries : e.locator = Key(a) => e = old
  BY <1>2, <1>3 DEF Agreeing
<1>7. {IF e.locator = Key(a) THEN [e EXCEPT !.access = now] ELSE e : e \in p.entries}
        = {IF e.locator = new.locator THEN new ELSE e : e \in p.entries}
  BY <1>3, <1>4, <1>5, <1>6
<1>8. PICK d : d = Touched(p, Key(a))
  OBVIOUS
<1>9. d = [p EXCEPT !.entries = {IF e.locator = new.locator THEN new ELSE e : e \in @}]
  BY <1>7, <1>8 DEF Touched
<1>10. Agreeing(d) /\ Limited(d)
  BY <1>2, <1>3, <1>5, <1>9, Replaces
<1> QED BY <1>1, <1>8, <1>10

BeginsAs(k, a) ==
  /\ calls[k] = Idle
  /\ \/ /\ Pruned(cache).index[Key(a)] # None
        /\ cache' = Touched(Pruned(cache), Key(a))
        /\ Answer(k, a, Pruned(cache).index[Key(a)])
     \/ /\ cache' = Pruned(cache)
        /\ Become(k, [pc |-> "loading", authority |-> a])
  /\ UNCHANGED <<now, revision, files, cursor>>

LEMMA BeginIs == ASSUME NEW k, NEW a, Begin(k, a) PROVE BeginsAs(k, a)
BY DEF Begin, BeginsAs

LEMMA BeginKeeps ==
  ASSUME IInv, NEW k \in Call, NEW a \in Authority, Standing(a.cursor), BeginsAs(k, a)
  PROVE  /\ IInv'
         /\ \A j \in Call : calls[j] = Idle /\ calls'[j].pc = "answered" =>
              \E e \in cache.entries :
                /\ e.client = calls'[j].authority.client
                /\ e.text = calls'[j].chunk.text
                /\ now < e.stored + Ttl
<1>1. TypeOK /\ CallsKept /\ calls[k] = Idle /\ now \in Nat /\ now + CursorTtl \in Nat
      /\ UNCHANGED <<now, revision, files, cursor>> /\ CursorsKept'
  BY CacheAssumption DEF IInv, CursorsKept, BeginsAs, TypeOK
<1>2. k \notin files \/ k = None
  BY <1>1, IdleIs DEF IInv, FilesRemoved
<1>3. CASE /\ Pruned(cache).index[Key(a)] # None
           /\ cache' = Touched(Pruned(cache), Key(a))
           /\ Answer(k, a, Pruned(cache).index[Key(a)])
  <2>1. PICK t : t = Pruned(cache).index[Key(a)]
    OBVIOUS
  <2>2. PICK e \in cache.entries : e.locator = Key(a) /\ e.text = t /\ t \in Text /\ Proper(e)
                                   /\ e \in Entry /\ ~(e.expires <= now)
    BY <1>3, <2>1, HitIs
  <2>3. t.doc = a.doc /\ t.rev = a.rev /\ t.variant = a.variant /\ e.client = a.client
    BY <2>2, KeyIs DEF Proper
  <2>4. /\ calls' \in [Call -> CallRecord] /\ CallsKept'
        /\ \A j \in Call \ {k} : calls'[j] = calls[j]
        /\ calls'[k].pc \in {"idle", "answered"}
        /\ calls'[k].pc = "answered" => calls'[k].authority = a /\ calls'[k].chunk.text = t
    BY <1>1, <1>3, <2>1, <2>2, <2>3, AnswerKeeps
  <2>5. CacheKept'
    BY <1>3, TouchKeeps DEF CacheKept
  <2>6. TypeOK'
    BY <1>1, <2>4, <2>5 DEF TypeOK, CacheKept, Agreeing, CacheType
  <2>7. FilesRemoved'
    BY <1>1, <1>2, <2>4 DEF IInv, FilesRemoved
  <2>8. now < e.stored + Ttl
    BY <1>1, <2>2, Limits DEF Proper, Entry
  <2>9. \A j \in Call : calls[j] = Idle /\ calls'[j].pc = "answered" => j = k
    BY <2>4, IdleIs
  <2> QED BY <2>2, <2>3, <2>4, <2>5, <2>6, <1>1, <2>7, <2>8, <2>9 DEF IInv
<1>4. CASE cache' = Pruned(cache) /\ Become(k, [pc |-> "loading", authority |-> a])
  <2>1. [pc |-> "loading", authority |-> a] \in CallRecord
    BY DEF CallRecord
  <2>2. /\ calls' \in [Call -> CallRecord] /\ CallsKept' /\ calls'[k].pc = "loading"
        /\ \A j \in Call \ {k} : calls'[j] = calls[j]
    <3>1. PICK r : r = [pc |-> "loading", authority |-> a]
      OBVIOUS
    <3>2. r.pc = "loading" /\ r.authority = a /\ r \in CallRecord /\ Become(k, r)
      BY <1>4, <2>1, <3>1
    <3> QED BY <1>1, <3>2, OtherKeeps
  <2>3. CacheKept'
    BY <1>4, PrunedKeeps DEF IInv, CacheKept
  <2>4. TypeOK'
    BY <1>1, <2>2, <2>3 DEF TypeOK, CacheKept, Agreeing, CacheType
  <2>5. FilesRemoved'
    BY <1>1, <1>2, <2>2 DEF IInv, FilesRemoved
  <2>6. \A j \in Call : calls[j] = Idle => calls'[j].pc # "answered"
    BY <2>2, IdleIs
  <2> QED BY <2>2, <2>3, <2>4, <1>1, <2>5, <2>6 DEF IInv
<1> QED BY <1>3, <1>4 DEF BeginsAs
-----------------------------------------------------------------------------
(* The steps.                                                               *)

\* What HitIsOwnAndFresh says of a step.
HitsAre ==
  \A j \in Call : calls[j] = Idle /\ calls'[j].pc = "answered" =>
    \E e \in cache.entries :
      /\ e.client = calls'[j].authority.client
      /\ e.text = calls'[j].chunk.text
      /\ now < e.stored + Ttl

\* A call whose file, if it had one, is not in the directory under its name any more.
LEMMA CallEnds ==
  ASSUME IInv, NEW k \in Call, calls[k] # Idle, Leave(k), cache' = cache, now' = now, revision' = revision,
         cursor' \in [Client -> Cursor \cup {None}], CursorsKept',
         \/ k \notin files /\ files' = files
         \/ files' = files \ {k}
         \/ files' = (files \ {k}) \cup {None}
  PROVE  IInv' /\ HitsAre
<1>1. /\ calls' \in [Call -> CallRecord] /\ CallsKept' /\ calls'[k].pc = "idle"
      /\ \A j \in Call \ {k} : calls'[j] = calls[j]
  BY IdleIs, OtherKeeps DEF IInv, Leave
<1>2. TypeOK' /\ CacheKept'
  BY <1>1 DEF IInv, TypeOK, CacheKept, Agreeing, Limited, CacheType
<1>3. FilesRemoved'
  BY <1>1 DEF IInv, FilesRemoved
<1>4. HitsAre
  BY <1>1, IdleIs DEF HitsAre
<1> QED BY <1>1, <1>2, <1>3, <1>4 DEF IInv

LEMMA ExtractKeeps ==
  ASSUME IInv, NEW k \in Call, NEW version \in Version, Extract(k, version)
  PROVE  IInv' /\ HitsAre
<1>1. PICK a : a = calls[k].authority
  OBVIOUS
<1>2. PICK t : t = [doc |-> a.doc, rev |-> a.rev, variant |-> a.variant, version |-> version]
  OBVIOUS
<1>3. /\ calls[k].pc = "extracting" /\ Discard(k) /\ Put(cache, a.client, Key(a), t, cache')
      /\ Answer(k, a, t) /\ now' = now /\ revision' = revision /\ cursor' = cursor
  BY <1>1, <1>2 DEF Extract
<1>4. a \in Authority /\ Standing(a.cursor)
  <2>1. a \in Authority
    BY <1>1, <1>3 DEF IInv, TypeOK, CallRecord, Idle
  <2>2. Standing(calls[k].authority.cursor)
    BY <1>3, GivenStands DEF IInv, CallsKept
  <2> QED BY <1>1, <2>1, <2>2
<1>5. t \in Text /\ t.doc = a.doc /\ t.rev = a.rev /\ t.variant = a.variant
  BY <1>2, <1>4 DEF Text, Authority
<1>6. TypeOK /\ CallsKept /\ now \in Nat /\ now + CursorTtl \in Nat
  BY CacheAssumption DEF IInv, TypeOK
<1>7. /\ calls' \in [Call -> CallRecord] /\ CallsKept'
      /\ \A j \in Call \ {k} : calls'[j] = calls[j]
      /\ calls'[k].pc \in {"idle", "answered"}
  BY <1>3, <1>4, <1>5, <1>6, AnswerKeeps
<1>8. CacheKept'
  <2>1. PICK key : key = Key(a)
    OBVIOUS
  <2>2. key \in Locator /\ key.client = a.client /\ t.doc = key.doc /\ t.rev = key.rev /\ t.variant = key.variant
    BY <2>1, <1>4, <1>5, KeyIs
  <2>3. Put(cache, key.client, key, t, cache')
    BY <1>3, <2>1, <2>2
  <2>4. Agreeing(cache) /\ Limited(cache)
    BY DEF IInv, CacheKept
  <2>5. Agreeing(cache') /\ Limited(cache')
    BY <2>2, <2>3, <2>4, <1>5, <1>6, PutKeeps
  <2> QED BY <2>5 DEF CacheKept, Agreeing, Limited, Own
<1>9. TypeOK'
  BY <1>3, <1>6, <1>7, <1>8 DEF TypeOK, CacheKept, Agreeing, CacheType, Discard
<1>10. FilesRemoved' /\ CursorsKept'
  BY <1>3, <1>7 DEF IInv, FilesRemoved, Discard, CursorsKept
<1>11. HitsAre
  BY <1>3, <1>7, IdleIs DEF HitsAre
<1> QED BY <1>7, <1>8, <1>9, <1>10, <1>11 DEF IInv

\* The steps of a call that leave it loading or extracting.
LEMMA LoadingKeeps ==
  ASSUME IInv, NEW k \in Call, Materialize(k) \/ Accept(k)
  PROVE  IInv' /\ HitsAre
<1>1. TypeOK /\ CallsKept /\ calls[k].pc = "loading" /\ cache' = cache /\ now' = now
      /\ revision' = revision /\ cursor' = cursor /\ CursorsKept'
  BY DEF Materialize, Accept, IInv, CursorsKept
<1>2. CASE Materialize(k)
  <2>1. files' = files \cup {k} /\ calls' = calls
    BY <1>2 DEF Materialize
  <2>2. TypeOK' /\ CacheKept' /\ CallsKept'
    BY <1>1, <2>1 DEF IInv, TypeOK, CacheKept, Agreeing, Limited, CacheType, CallsKept, ServedIsProven,
                      ChunksAddUp, CallCursors
  <2>3. FilesRemoved' /\ HitsAre
    BY <1>1, <2>1, IdleIs DEF IInv, FilesRemoved, HitsAre
  <2> QED BY <1>1, <2>2, <2>3 DEF IInv
<1>3. CASE Accept(k)
  <2>1. PICK r : r = [calls[k] EXCEPT !.pc = "extracting"]
    OBVIOUS
  <2>2. r \in CallRecord /\ r.pc = "extracting" /\ r.authority = calls[k].authority
        /\ Standing(calls[k].authority.cursor)
    <3>1. r \in CallRecord /\ r.pc = "extracting" /\ r.authority = calls[k].authority
      BY <1>1, <2>1 DEF TypeOK, CallRecord, Idle
    <3>2. Standing(calls[k].authority.cursor)
      BY <1>1, GivenStands DEF CallsKept
    <3> QED BY <3>1, <3>2
  <2>3. files' = files /\ Become(k, r)
    BY <1>3, <2>1 DEF Accept
  <2>4. /\ calls' \in [Call -> CallRecord] /\ CallsKept' /\ calls'[k].pc = "extracting"
        /\ \A j \in Call \ {k} : calls'[j] = calls[j]
    BY <1>1, <2>2, <2>3, OtherKeeps
  <2>5. TypeOK' /\ CacheKept'
    BY <1>1, <2>3, <2>4 DEF IInv, TypeOK, CacheKept, Agreeing, Limited, CacheType
  <2>6. FilesRemoved' /\ HitsAre
    BY <1>1, <2>3, <2>4, IdleIs DEF IInv, FilesRemoved, HitsAre
  <2> QED BY <1>1, <2>4, <2>5, <2>6 DEF IInv
<1> QED BY <1>2, <1>3

LEMMA ReadKeeps ==
  ASSUME IInv, NEW k \in Call, NEW client \in Client, NEW doc \in Document,
         Read(k, client, doc) \/ Info(k, client, doc)
  PROVE  IInv' /\ HitsAre
<1>1. /\ revision[doc] \in 1..MaxRevision /\ cursor[client] \in Cursor \cup {None}
      /\ Standing(cursor[client]) /\ Standing(None)
  BY DEF IInv, TypeOK, CursorsKept, Standing
<1>2. \A rev \in 1..revision[doc] : rev \in 1..MaxRevision
  BY <1>1, Limits
<1>3. PICK a \in Authority : Begin(k, a) /\ Standing(a.cursor)
  <2>1. CASE Read(k, client, doc)
    <3>1. PICK cur \in {None, cursor[client]}, variant \in Variant, rev \in 1..revision[doc] :
            Begin(k, [client |-> client, doc |-> doc, rev |-> rev,
                      variant |-> variant, kind |-> "read", cursor |-> cur])
      BY <2>1 DEF Read
    <3>2. PICK a : a = [client |-> client, doc |-> doc, rev |-> rev,
                        variant |-> variant, kind |-> "read", cursor |-> cur]
      OBVIOUS
    <3>3. a \in Authority /\ Standing(a.cursor)
      BY <1>1, <1>2, <3>2 DEF Authority
    <3> QED BY <3>1, <3>2, <3>3
  <2>2. CASE Info(k, client, doc)
    <3>1. PICK rev \in 1..revision[doc] :
            Begin(k, [client |-> client, doc |-> doc, rev |-> rev,
                      variant |-> "full", kind |-> "info", cursor |-> None])
      BY <2>2 DEF Info
    <3>2. PICK a : a = [client |-> client, doc |-> doc, rev |-> rev,
                        variant |-> "full", kind |-> "info", cursor |-> None]
      OBVIOUS
    <3>3. a \in Authority /\ Standing(a.cursor)
      BY <1>1, <1>2, <3>2 DEF Authority, Variant
    <3> QED BY <3>1, <3>2, <3>3
  <2> QED BY <2>1, <2>2
<1> QED BY <1>3, BeginIs, BeginKeeps DEF HitsAre

LEMMA ReceiveKeeps ==
  ASSUME IInv, NEW k \in Call, Receive(k)
  PROVE  IInv' /\ HitsAre
<1>1. calls[k].pc = "answered" /\ Leave(k) /\ cache' = cache /\ now' = now /\ revision' = revision
      /\ files' = files
  BY DEF Receive
<1>2. k \notin files \/ k = None
  BY <1>1 DEF IInv, FilesRemoved
<1>3. cursor' \in [Client -> Cursor \cup {None}] /\ CursorsKept'
  <2>1. PICK a, next : a = calls[k].authority /\ next = calls[k].next
    OBVIOUS
  <2>2. calls[k] \in CallRecord /\ cursor \in [Client -> Cursor \cup {None}] /\ CursorsKept
    BY DEF IInv, TypeOK
  <2>3. a.client \in Client /\ next \in Cursor \cup {None} /\ Standing(next)
    <3>1. a.client \in Client /\ next \in Cursor \cup {None}
      BY <1>1, <2>1, <2>2 DEF CallRecord, Authority, Idle
    <3>2. Standing(calls[k].next)
      BY <1>1, GivenStands DEF IInv, CallsKept
    <3> QED BY <2>1, <3>1, <3>2
  <2>4. cursor' = cursor \/ cursor' = [cursor EXCEPT ![a.client] = next]
    BY <2>1 DEF Receive
  <2> QED BY <2>2, <2>3, <2>4 DEF CursorsKept
<1> QED BY <1>1, <1>2, <1>3, IdleIs, CallEnds

LEMMA CallSteps ==
  ASSUME IInv, NEW k \in Call,
         \/ Refuse(k) \/ LoadFails(k) \/ ExtractFails(k) \/ Receive(k)
         \/ Materialize(k) \/ Accept(k)
         \/ \E version \in Version : Extract(k, version)
  PROVE  IInv' /\ HitsAre
<1>1. CASE Refuse(k) \/ LoadFails(k) \/ ExtractFails(k)
  <2>1. /\ calls[k] # Idle /\ Leave(k) /\ cache' = cache /\ now' = now /\ revision' = revision
        /\ \/ k \notin files /\ files' = files
           \/ files' = files \ {k}
           \/ files' = (files \ {k}) \cup {None}
        /\ cursor' = cursor
    BY <1>1, IdleIs DEF Refuse, LoadFails, ExtractFails, Discard
  <2>2. cursor' \in [Client -> Cursor \cup {None}] /\ CursorsKept'
    BY <2>1 DEF IInv, TypeOK, CursorsKept
  <2> QED BY <2>1, <2>2, CallEnds
<1>2. CASE Receive(k)
  BY <1>2, ReceiveKeeps
<1>3. CASE Materialize(k) \/ Accept(k)
  BY <1>3, LoadingKeeps
<1>4. CASE \E version \in Version : Extract(k, version)
  BY <1>4, ExtractKeeps
<1> QED BY <1>1, <1>2, <1>3, <1>4

LEMMA StepKeeps == IInv /\ [Next]_vars => IInv' /\ (HitsAre \/ UNCHANGED vars)
<1> SUFFICES ASSUME IInv, [Next]_vars PROVE IInv' /\ (HitsAre \/ UNCHANGED vars)
  OBVIOUS
<1>1. CASE \E k \in Call, c \in Client, d \in Document : Read(k, c, d) \/ Info(k, c, d)
  BY <1>1, ReadKeeps
<1>2. CASE \E k \in Call :
             \/ Materialize(k) \/ Refuse(k) \/ Accept(k) \/ LoadFails(k)
             \/ ExtractFails(k) \/ Receive(k)
             \/ \E version \in Version : Extract(k, version)
  BY <1>2, CallSteps
<1>3. CASE (\E d \in Document : Revise(d)) \/ Tick \/ UNCHANGED vars
  <2>1. /\ cache' = cache /\ files' = files /\ calls' = calls /\ cursor' = cursor
        /\ now' \in Nat /\ revision' \in [Document -> 1..MaxRevision]
    <3>1. now \in Nat /\ revision \in [Document -> 1..MaxRevision]
      BY DEF IInv, TypeOK
    <3>2. CASE \E d \in Document : Revise(d)
      <4>1. PICK d \in Document : Revise(d)
        BY <3>2
      <4>2. revision[d] + 1 \in 1..MaxRevision
        BY <3>1, <4>1, Limits DEF Revise
      <4> QED BY <3>1, <4>1, <4>2 DEF Revise
    <3>3. CASE Tick
      BY <3>1, <3>3 DEF Tick
    <3>4. CASE UNCHANGED vars
      BY <3>1, <3>4 DEF vars
    <3> QED BY <1>3, <3>2, <3>3, <3>4
  <2>2. TypeOK' /\ CacheKept' /\ CallsKept' /\ CursorsKept' /\ FilesRemoved'
    BY <2>1 DEF IInv, TypeOK, CacheKept, Agreeing, Limited, CacheType, CallsKept, ServedIsProven,
                ChunksAddUp, CallCursors, CursorsKept, FilesRemoved
  <2>3. HitsAre
    BY <2>1, IdleIs DEF HitsAre
  <2> QED BY <2>2, <2>3 DEF IInv
<1> QED BY <1>1, <1>2, <1>3 DEF Next
-----------------------------------------------------------------------------
(* The theorems.                                                            *)

\* The state is of its type, the cache's entries, index and count of bytes agree and keep
\* the limits, every cursor stands where the chunks of its text end that came before it,
\* and the calls' answers and files are what the properties say.
THEOREM Invariance == Spec => []IInv
<1>1. Init => IInv
  <2> SUFFICES ASSUME Init PROVE IInv
    OBVIOUS
  <2>1. /\ cache.entries = {} /\ cache.index = [l \in Locator |-> None] /\ cache.bytes = 0
        /\ cache \in CacheType
    BY DEF Init, EmptyCache, CacheType
  <2>2. IsFiniteSet({}) /\ Cardinality({}) = 0 /\ BytesIn({}) = 0
    BY FS_EmptySet, BytesOfNone
  <2>3. Agreeing(cache)
    BY <2>1, <2>2 DEF Agreeing
  <2>4. Limited(cache)
    <3>1. \A c \in Client : Own(cache, c) = {}
      BY <2>1 DEF Own
    <3> QED BY <2>1, <2>2, <3>1, Limits DEF Limited
  <2>5. TypeOK
    <3>1. 1 \in 1..MaxRevision
      BY Limits
    <3> QED BY <2>1, <3>1 DEF Init, TypeOK, CacheType, CallRecord
  <2>6. CallsKept /\ CursorsKept /\ FilesRemoved
    BY IdleIs DEF Init, CallsKept, ServedIsProven, ChunksAddUp, CallCursors, CursorsKept, Standing,
                  FilesRemoved
  <2> QED BY <2>3, <2>4, <2>5, <2>6 DEF IInv, CacheKept
<1>2. IInv /\ [Next]_vars => IInv'
  BY StepKeeps
<1> QED BY <1>1, <1>2, PTL DEF Spec

\* Neither the entries of a client nor those of all, nor their bytes, exceed their limits,
\* and the index and the count of bytes tell what is there, for every schedule of reads,
\* loads, replacements, expiries and evictions.
THEOREM CacheIsWhole == Spec => []CacheLimits
<1>1. IInv => CacheLimits
  BY LimitsFollow DEF IInv
<1> QED BY <1>1, Invariance, PTL

\* An answer is cut from the document and the revision proved for its call.
THEOREM AnswerIsOfProven == Spec => []ServedIsProven
<1>1. IInv => ServedIsProven
  BY DEF IInv, CallsKept
<1> QED BY <1>1, Invariance, PTL

\* The chunks along a chain of cursors, however long and from however many calls, are a
\* beginning of one text without a gap or an overlap, and all of it when no cursor follows.
THEOREM ChunksAreText == Spec => []ChunksAddUp
<1>1. IInv => ChunksAddUp
  BY DEF IInv, CallsKept
<1> QED BY <1>1, Invariance, PTL

\* A file that stays in the shared directory when its call is over is one the gateway was
\* not told of, or did not succeed in removing.
THEOREM FileIsDiscarded == Spec => []FilesRemoved
<1>1. IInv => FilesRemoved
  BY DEF IInv
<1> QED BY <1>1, Invariance, PTL

\* A hit in the cache serves the client's own entry, stored less than a lifetime ago.
THEOREM HitsAreFresh == Spec => HitIsOwnAndFresh
<1>1. IInv /\ [Next]_vars => [HitsAre]_vars
  BY StepKeeps
<1>2. [HitsAre]_vars =>
        [\A k \in Call :
           calls[k] = Idle /\ calls'[k].pc = "answered" =>
             \E e \in cache.entries :
               /\ e.client = calls'[k].authority.client
               /\ e.text = calls'[k].chunk.text
               /\ now < e.stored + Ttl]_vars
  BY DEF HitsAre
<1> QED BY <1>1, <1>2, Invariance, PTL DEF Spec, HitIsOwnAndFresh
==============================================================================
