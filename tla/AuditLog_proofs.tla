--------------------------- MODULE AuditLog_proofs ---------------------------
(***************************************************************************)
(* Theorems about AuditLog: the segments stay whole, and what the files    *)
(* hold implements AuditTrail.  The trail is a concatenation of files, and *)
(* the records of a file one of single records; what is proved first is    *)
(* what becomes of a concatenation when one or two of its parts change.    *)
(***************************************************************************)
EXTENDS AuditLog, SequenceTheorems, WellFoundedInduction, TLAPS

\* Induction over the numbers, with the property as a set.
LEMMA Induction ==
  ASSUME NEW P, P \subseteq Nat, 0 \in P, \A n \in P : n + 1 \in P
  PROVE  P = Nat
<1> SUFFICES ASSUME Nat \ P # {} PROVE FALSE
  OBVIOUS
<1> DEFINE R == OpToRel(<, Nat)
<1>1. PICK m \in Nat \ P : \A n \in Nat \ P : ~(<<n, m>> \in R)
  <2>1. IsWellFoundedOn(R, Nat)
    BY NatLessThanWellFounded
  <2> HIDE DEF R
  <2> QED BY <2>1, WFMin
<1>2. \A n \in Nat \ P : ~(n < m)
  BY <1>1 DEF OpToRel
<1>3. m # 0 /\ m - 1 \in Nat /\ m - 1 \in P
  BY <1>2
<1> QED BY <1>3
-----------------------------------------------------------------------------
(* Concatenations.                                                          *)

\* The recursion of FlattenSeq has a solution, and its last value is the concatenation.
LEMMA FlattenUnfolds ==
  ASSUME NEW ss, Len(ss) \in Nat \ {0}
  PROVE  \E f : /\ f = [i \in 1..Len(ss) |-> IF i = 1 THEN ss[i] ELSE f[i - 1] \o ss[i]]
                /\ FlattenSeq(ss) = f[Len(ss)]
<1> DEFINE Value(f, i) == IF i = 1 THEN ss[i] ELSE f[i - 1] \o ss[i]
           Rec(f) == [i \in 1..Len(ss) |-> Value(f, i)]
           P == {n \in Nat : \E f : f = [i \in 1..n |-> Value(f, i)]}
<1>1. 0 \in P
  <2>1. [i \in 1..0 |-> 0] = [i \in 1..0 |-> Value([j \in 1..0 |-> 0], i)]
    OBVIOUS
  <2> QED BY <2>1
<1>2. ASSUME NEW n \in P PROVE n + 1 \in P
  <2>1. n \in Nat
    OBVIOUS
  <2>2. PICK f : f = [i \in 1..n |-> Value(f, i)]
    OBVIOUS
  <2> DEFINE g == [i \in 1..(n + 1) |-> IF i = n + 1 THEN Value(f, n + 1) ELSE f[i]]
  <2>3. \A i \in 1..(n + 1) : g[i] = Value(g, i)
    <3> TAKE i \in 1..(n + 1)
    <3>1. CASE i = n + 1 /\ i # 1
      <4>1. i - 1 = n /\ g[n] = f[n]
        BY <2>1, <3>1
      <4> QED BY <2>1, <3>1, <4>1
    <3>2. CASE i \in 1..n /\ i # 1
      <4>1. i - 1 \in 1..n /\ g[i] = f[i] /\ g[i - 1] = f[i - 1]
        BY <2>1, <3>2
      <4>2. f[i] = Value(f, i)
        BY <2>2, <3>2
      <4> QED BY <3>2, <4>1, <4>2
    <3>3. CASE i = 1
      BY <2>1, <2>2, <3>3
    <3> QED BY <2>1, <3>1, <3>2, <3>3
  <2> HIDE DEF Value
  <2>4. g = [i \in 1..(n + 1) |-> Value(g, i)]
    BY <2>3
  <2> HIDE DEF g
  <2>5. \E j : j = [i \in 1..(n + 1) |-> Value(j, i)]
    <3> WITNESS g
    <3> QED BY <2>4
  <2> QED BY <2>1, <2>5
<1>3. PICK f : f = Rec(f)
  <2>1. P = Nat
    <3> HIDE DEF P
    <3> QED BY <1>1, <1>2, Induction DEF P
  <2> QED BY <2>1
<1>4. FlattenSeq(ss) = (CHOOSE g : g = Rec(g))[Len(ss)]
  BY DEF FlattenSeq
<1>5. PICK h : h = (CHOOSE g : g = Rec(g))
  OBVIOUS
<1> HIDE DEF Rec
<1>6. h = Rec(h)
  BY <1>3, <1>5
<1>7. FlattenSeq(ss) = h[Len(ss)]
  BY <1>4, <1>5
<1> QED BY <1>6, <1>7 DEF Rec

\* f is what the parts of ss come to, one after the other.
Runs(f, ss, S) ==
  /\ f \in [0..Len(ss) -> Seq(S)]
  /\ f[0] = <<>>
  /\ \A i \in 1..Len(ss) : f[i] = f[i - 1] \o ss[i]
  /\ f[Len(ss)] = FlattenSeq(ss)

LEMMA FlattenRuns ==
  ASSUME NEW S, NEW ss \in Seq(Seq(S))
  PROVE  \E f : Runs(f, ss, S)
<1> DEFINE n == Len(ss)
<1>1. n \in Nat /\ \A i \in 1..n : ss[i] \in Seq(S)
  BY LenProperties, ElementOfSeq
<1>2. <<>> \in Seq(S)
  BY EmptySeq
<1>3. CASE n = 0
  <2>1. ss = <<>>
    BY <1>3, EmptySeq
  <2>2. FlattenSeq(ss) = <<>>
    BY <1>3, <2>1 DEF FlattenSeq
  <2>3. Runs([i \in {0} |-> <<>>], ss, S)
    <3>1. 0..Len(ss) = {0} /\ 1..Len(ss) = {}
      BY <1>3
    <3> QED BY <1>2, <1>3, <2>2, <3>1 DEF Runs
  <2> QED BY <2>3
<1>4. CASE n # 0
  <2>1. PICK g : /\ g = [i \in 1..n |-> IF i = 1 THEN ss[i] ELSE g[i - 1] \o ss[i]]
                 /\ FlattenSeq(ss) = g[n]
    BY <1>1, <1>4, FlattenUnfolds
  <2> HIDE DEF n
  <2> DEFINE P == {i \in Nat : i + 1 <= n => g[i + 1] \in Seq(S)}
             f == [i \in 0..n |-> IF i = 0 THEN <<>> ELSE g[i]]
  <2>2. g[1] = ss[1]
    BY <1>1, <1>4, <2>1
  <2>3. \A i \in 1..n : i # 1 => g[i] = g[i - 1] \o ss[i]
    BY <2>1
  <2>4. 0 \in P
    BY <1>1, <1>4, <2>2
  <2>5. ASSUME NEW i \in P PROVE i + 1 \in P
    <3> SUFFICES ASSUME i + 2 <= n PROVE g[i + 2] \in Seq(S)
      BY <1>1
    <3>1. i \in Nat /\ i + 2 \in 1..n /\ i + 2 # 1 /\ (i + 2) - 1 = i + 1 /\ i + 1 <= n
      BY <1>1
    <3>2. g[i + 2] = g[i + 1] \o ss[i + 2]
      BY <2>3, <3>1
    <3>3. g[i + 1] \in Seq(S) /\ ss[i + 2] \in Seq(S)
      BY <1>1, <3>1
    <3> QED BY <3>2, <3>3, ConcatProperties
  <2>6. P = Nat
    <3>1. P \subseteq Nat
      OBVIOUS
    <3> HIDE DEF P
    <3> QED BY <2>4, <2>5, <3>1, Induction
  <2>7. \A i \in 1..n : g[i] \in Seq(S)
    <3> TAKE i \in 1..n
    <3>1. i - 1 \in Nat /\ (i - 1) + 1 = i /\ i <= n
      BY <1>1
    <3>2. (i - 1) + 1 <= n => g[(i - 1) + 1] \in Seq(S)
      BY <2>6, <3>1
    <3> QED BY <3>1, <3>2
  <2>8. f \in [0..n -> Seq(S)] /\ f[0] = <<>> /\ f[n] = FlattenSeq(ss)
    <3>1. \A i \in 0..n : i = 0 \/ i \in 1..n
      BY <1>1
    <3>2. \A i \in 0..n : (IF i = 0 THEN <<>> ELSE g[i]) \in Seq(S)
      BY <1>2, <2>7, <3>1
    <3>3. 0 \in 0..n /\ n \in 0..n
      BY <1>1
    <3> QED BY <1>4, <2>1, <3>2, <3>3
  <2>9. ASSUME NEW i \in 1..n PROVE f[i] = f[i - 1] \o ss[i]
    <3>1. CASE i = 1
      <4>1. f[i] = ss[i] /\ f[i - 1] = <<>>
        BY <1>1, <2>2, <3>1
      <4> QED BY <1>1, <4>1, ConcatEmptySeq
    <3>2. CASE i # 1
      <4>1. f[i] = g[i] /\ f[i - 1] = g[i - 1]
        BY <1>1, <3>2
      <4> QED BY <2>3, <3>2, <4>1
    <3> QED BY <3>1, <3>2
  <2> HIDE DEF f
  <2>10. Runs(f, ss, S)
    BY <2>8, <2>9 DEF Runs, n
  <2> QED BY <2>10
<1> QED BY <1>3, <1>4

LEMMA FlattenType ==
  ASSUME NEW S, NEW ss \in Seq(Seq(S))
  PROVE  FlattenSeq(ss) \in Seq(S)
<1>1. PICK f : Runs(f, ss, S)
  BY FlattenRuns
<1>2. Len(ss) \in 0..Len(ss)
  BY LenProperties
<1> QED BY <1>1, <1>2 DEF Runs

\* Two sequences of as many parts are the same up to place p, or after it.
SameUpTo(p, ss, tt) == \A i \in 1..p : tt[i] = ss[i]
SameAfter(p, ss, tt) == \A i \in (p + 1)..Len(ss) : tt[i] = ss[i]

\* As long as the parts are the same, so is what they come to.
LEMMA RunsAgree ==
  ASSUME NEW S, NEW ss \in Seq(Seq(S)), NEW tt \in Seq(Seq(S)), Len(tt) = Len(ss),
         NEW p \in 0..Len(ss), SameUpTo(p, ss, tt),
         NEW f, Runs(f, ss, S), NEW g, Runs(g, tt, S)
  PROVE  f[p] = g[p]
<1> \A i \in 1..p : tt[i] = ss[i]
  BY DEF SameUpTo
<1> DEFINE n == Len(ss)
           P == {i \in Nat : i <= p => f[i] = g[i]}
<1>1. n \in Nat
  BY LenProperties
<1>2. 0 \in P
  BY DEF Runs
<1>3. ASSUME NEW i \in P PROVE i + 1 \in P
  <2> SUFFICES ASSUME i + 1 <= p PROVE f[i + 1] = g[i + 1]
    BY <1>1
  <2>1. i \in Nat /\ i + 1 \in 1..n /\ i + 1 \in 1..p /\ (i + 1) - 1 = i /\ i <= p
    BY <1>1
  <2>2. f[i + 1] = f[i] \o ss[i + 1] /\ g[i + 1] = g[i] \o tt[i + 1]
    BY <2>1 DEF Runs
  <2> QED BY <2>1, <2>2
<1>4. P = Nat
  <2>1. P \subseteq Nat
    OBVIOUS
  <2> HIDE DEF P
  <2> QED BY <1>2, <1>3, <2>1, Induction
<1> QED BY <1>1, <1>4

Joins(y, a, b) == y = a \o b

LEMMA Associates ==
  ASSUME NEW S, NEW A, A \in Seq(S), NEW B, B \in Seq(S), NEW C, C \in Seq(S),
         NEW x, Joins(x, A, B), NEW y, Joins(y, x, C)
  PROVE  Joins(y, A, B \o C)
<1>1. (A \o B) \o C = A \o (B \o C)
  BY ConcatAssociative
<1> QED BY <1>1 DEF Joins

\* From place p on to place q, both come to the same.
Beyond(p, q, f, g, ss, S) ==
  \E B \in Seq(S) :
    /\ f[q] = f[p] \o B /\ g[q] = g[p] \o B
    /\ q = p => B = <<>>
    /\ p < q => Len(ss[q]) <= Len(B)

LEMMA RunsOn ==
  ASSUME NEW S, NEW ss \in Seq(Seq(S)), NEW tt \in Seq(Seq(S)), Len(tt) = Len(ss),
         NEW p \in 0..Len(ss), SameAfter(p, ss, tt),
         NEW f, Runs(f, ss, S), NEW g, Runs(g, tt, S)
  PROVE  Beyond(p, Len(ss), f, g, ss, S)
<1> DEFINE n == Len(ss)
           From(q) == Beyond(p, q, f, g, ss, S)
           P == {k \in Nat : p + k <= n => From(p + k)}
<1> \A i \in (p + 1)..n : tt[i] = ss[i]
  BY DEF SameAfter
<1>1. n \in Nat /\ p \in Nat /\ \A i \in 1..n : ss[i] \in Seq(S)
  BY LenProperties, ElementOfSeq
<1>2. \A i \in 0..n : f[i] \in Seq(S) /\ g[i] \in Seq(S)
  BY DEF Runs
<1>3. 0 \in P
  <2>1. f[p] \o <<>> = f[p] /\ g[p] \o <<>> = g[p]
    BY <1>2, ConcatEmptySeq
  <2> <<>> \in Seq(S)
    BY EmptySeq
  <2>2. p + 0 = p
    BY <1>1
  <2>3. From(p)
    <3> USE DEF Beyond
    <3> WITNESS <<>> \in Seq(S)
    <3> QED BY <1>1, <2>1
  <2> QED BY <2>2, <2>3
<1>4. ASSUME NEW k \in P PROVE k + 1 \in P
  <2> SUFFICES ASSUME p + (k + 1) <= n PROVE From(p + (k + 1))
    BY <1>1
  <2>1. PICK q : q = p + k
    OBVIOUS
  <2>2. /\ q \in 0..n /\ q + 1 \in 1..n /\ q + 1 \in (p + 1)..n /\ q + 1 = p + (k + 1) /\ (q + 1) - 1 = q
        /\ p + k <= n /\ p < q + 1
    BY <1>1, <2>1
  <2>3. PICK B : B \in Seq(S) /\ f[q] = f[p] \o B /\ g[q] = g[p] \o B
    BY <2>1, <2>2 DEF Beyond
  <2> HIDE DEF P
  <2>4. PICK C : C = ss[q + 1]
    OBVIOUS
  <2>5. C \in Seq(S) /\ f[q + 1] = f[q] \o C /\ g[q + 1] = g[q] \o C
    BY <1>1, <2>2, <2>4 DEF Runs
  <2>6. f[p] \in Seq(S) /\ g[p] \in Seq(S)
    BY <1>2
  <2>7. f[q + 1] = f[p] \o (B \o C) /\ g[q + 1] = g[p] \o (B \o C)
    <3>1. /\ Joins(f[q], f[p], B) /\ Joins(f[q + 1], f[q], C)
          /\ Joins(g[q], g[p], B) /\ Joins(g[q + 1], g[q], C)
      BY <2>3, <2>5 DEF Joins
    <3>2. B \in Seq(S) /\ C \in Seq(S)
      BY <2>3, <2>5
    <3>3. Joins(f[q + 1], f[p], B \o C)
      BY <2>6, <3>1, <3>2, Associates
    <3>4. Joins(g[q + 1], g[p], B \o C)
      BY <2>6, <3>1, <3>2, Associates
    <3> QED BY <3>3, <3>4 DEF Joins
  <2>8. B \o C \in Seq(S) /\ Len(B \o C) = Len(B) + Len(C) /\ Len(B) \in Nat /\ Len(C) \in Nat
    BY <2>3, <2>5, ConcatProperties, LenProperties
  <2>9. Len(C) <= Len(B \o C)
    BY <2>8
  <2> B \o C \in Seq(S)
    BY <2>8
  <2>10. q + 1 # p
    BY <1>1, <2>2
  <2>11. From(q + 1)
    <3> USE DEF Beyond
    <3> WITNESS B \o C \in Seq(S)
    <3> QED BY <2>4, <2>7, <2>9, <2>10
  <2> QED BY <2>2, <2>11
<1>5. From(n)
  <2>1. n - p \in Nat /\ p + (n - p) = n
    BY <1>1
  <2>2. P = Nat
    <3>1. P \subseteq Nat
      OBVIOUS
    <3> HIDE DEF P
    <3> QED BY <1>3, <1>4, <3>1, Induction
  <2>3. p + (n - p) <= n => From(p + (n - p))
    BY <2>1, <2>2
  <2> QED BY <1>1, <2>1, <2>3
<1> QED BY <1>5

\* One part changes: what is before it and after it stays.
LEMMA OneChanges ==
  ASSUME NEW S, NEW ss \in Seq(Seq(S)), NEW tt \in Seq(Seq(S)), Len(tt) = Len(ss),
         NEW p \in 1..Len(ss), \A i \in 1..Len(ss) : i # p => tt[i] = ss[i]
  PROVE  \E A, B \in Seq(S) :
           /\ FlattenSeq(ss) = (A \o ss[p]) \o B /\ FlattenSeq(tt) = (A \o tt[p]) \o B
           /\ p = 1 => A = <<>>
           /\ p = Len(ss) => B = <<>>
           /\ p < Len(ss) => Len(ss[Len(ss)]) <= Len(B)
<1> DEFINE n == Len(ss)
<1>1. n \in Nat /\ p - 1 \in 0..n /\ p \in 0..n
  BY LenProperties
<1>2. PICK f : Runs(f, ss, S)
  BY FlattenRuns
<1>3. PICK g : Runs(g, tt, S)
  BY FlattenRuns
<1>4. f[p - 1] = g[p - 1]
  <2>1. \A i \in 1..(p - 1) : i \in 1..n /\ i # p
    BY <1>1
  <2>2. PICK q \in 0..Len(ss) : q = p - 1
    BY <1>1
  <2>3. SameUpTo(q, ss, tt)
    BY <2>1, <2>2 DEF SameUpTo
  <2>4. f[q] = g[q]
    BY <1>2, <1>3, <2>3, RunsAgree
  <2> QED BY <2>2, <2>4
<1>5. PICK B \in Seq(S) :
        /\ FlattenSeq(ss) = f[p] \o B /\ FlattenSeq(tt) = g[p] \o B
        /\ p = Len(ss) => B = <<>>
        /\ p < Len(ss) => Len(ss[Len(ss)]) <= Len(B)
  <2>1. \A i \in (p + 1)..n : i \in 1..n /\ i # p
    BY <1>1
  <2>2. SameAfter(p, ss, tt)
    BY <2>1 DEF SameAfter
  <2>3. p \in 0..Len(ss)
    BY <1>1
  <2>4. Beyond(p, Len(ss), f, g, ss, S)
    BY <1>2, <1>3, <2>2, <2>3, RunsOn
  <2>5. f[n] = FlattenSeq(ss) /\ g[n] = FlattenSeq(tt)
    BY <1>2, <1>3 DEF Runs
  <2> QED BY <2>4, <2>5 DEF Beyond
<1>6. f[p] = f[p - 1] \o ss[p] /\ g[p] = f[p - 1] \o tt[p]
  BY <1>2, <1>3, <1>4 DEF Runs
<1>7. f[p - 1] \in Seq(S) /\ (p = 1 => f[p - 1] = <<>>)
  <2>1. f[0] = <<>> /\ \A i \in 0..n : f[i] \in Seq(S)
    BY <1>2 DEF Runs
  <2>2. p = 1 => p - 1 = 0
    OBVIOUS
  <2> QED BY <1>1, <2>1, <2>2
<1>8. PICK A : A = f[p - 1]
  OBVIOUS
<1> QED BY <1>5, <1>6, <1>7, <1>8

\* A part moves to the place before it, which was empty: nothing changes in all.
Moves(p, ss, tt) ==
  /\ ss[p] = <<>> /\ tt[p] = ss[p + 1] /\ tt[p + 1] = <<>>
  /\ \A i \in 1..Len(ss) : i # p /\ i # p + 1 => tt[i] = ss[i]

LEMMA OneMoves ==
  ASSUME NEW S, NEW ss \in Seq(Seq(S)), NEW tt \in Seq(Seq(S)), Len(tt) = Len(ss),
         NEW p \in 1..Len(ss), p + 1 <= Len(ss), Moves(p, ss, tt)
  PROVE  FlattenSeq(tt) = FlattenSeq(ss)
<1> DEFINE n == Len(ss)
<1>1. n \in Nat /\ p - 1 \in 0..n /\ p + 1 \in 0..n /\ p + 1 \in 1..n /\ (p + 1) - 1 = p
  BY LenProperties
<1>2. PICK f : Runs(f, ss, S)
  BY FlattenRuns
<1>3. PICK g : Runs(g, tt, S)
  BY FlattenRuns
<1>4. f[p - 1] = g[p - 1]
  <2>1. PICK q \in 0..Len(ss) : q = p - 1
    BY <1>1
  <2>2. \A i \in 1..q : i \in 1..n /\ i # p /\ i # p + 1
    <3>1. n \in Nat /\ p \in Nat /\ p <= n /\ q = p - 1
      BY <1>1, <2>1
    <3> HIDE DEF n
    <3>2. \A i \in 1..q : i <= p - 1
      BY <3>1
    <3> QED BY <3>1, <3>2
  <2>3. SameUpTo(q, ss, tt)
    BY <2>2 DEF SameUpTo, Moves
  <2>4. f[q] = g[q]
    BY <1>2, <1>3, <2>3, RunsAgree
  <2> QED BY <2>1, <2>4
<1>5. PICK A \in Seq(S) : A = f[p - 1]
  BY <1>1, <1>2 DEF Runs
<1>6. PICK C \in Seq(S) : C = ss[p + 1]
  BY <1>1, ElementOfSeq
<1>7. f[p + 1] = (A \o <<>>) \o C /\ g[p + 1] = (A \o C) \o <<>>
  BY <1>1, <1>2, <1>3, <1>4, <1>5, <1>6 DEF Runs, Moves
<1>8. f[p + 1] = g[p + 1]
  <2>1. A \o <<>> = A /\ A \o C \in Seq(S)
    BY ConcatEmptySeq, ConcatProperties
  <2> QED BY <1>7, <2>1, ConcatEmptySeq
<1>9. \E B \in Seq(S) : FlattenSeq(ss) = f[p + 1] \o B /\ FlattenSeq(tt) = g[p + 1] \o B
  <2>1. PICK q \in 0..Len(ss) : q = p + 1
    BY <1>1
  <2>2. \A i \in (q + 1)..n : i \in 1..n /\ i # p /\ i # p + 1
    BY <1>1, <2>1
  <2>3. SameAfter(q, ss, tt)
    BY <2>2 DEF SameAfter, Moves
  <2>4. Beyond(q, Len(ss), f, g, ss, S)
    BY <1>2, <1>3, <2>3, RunsOn
  <2>5. f[n] = FlattenSeq(ss) /\ g[n] = FlattenSeq(tt)
    BY <1>2, <1>3 DEF Runs
  <2> QED BY <2>1, <2>4, <2>5 DEF Beyond
<1> QED BY <1>8, <1>9
-----------------------------------------------------------------------------
(* Files.                                                                   *)

LEMMA Limits ==
  /\ MaxFiles \in Nat /\ MaxFiles > 0 /\ MaxFileBytes \in Nat /\ MaxAge \in Nat /\ MaxPending \in Nat
  /\ RecordBytes \in Nat /\ RecordBytes >= 2 /\ RecordBytes <= MaxFileBytes
  /\ MaxRecords \in Nat /\ MaxTime \in Nat
  /\ Slot = 0..(MaxFiles - 1) /\ 0 \in Slot /\ MaxFiles - 1 \in Slot
<1>1. /\ {MaxFiles, MaxFileBytes, MaxAge, MaxPending} \subseteq Nat \ {0}
      /\ {MaxRecords, MaxTime} \subseteq Nat
  BY AuditAssumption
<1>2. MaxFiles \in Nat /\ MaxFiles > 0 /\ MaxFileBytes \in Nat
  BY <1>1
<1>3. RecordBytes \in 2..MaxFileBytes
  BY AuditAssumption
<1> QED BY <1>1, <1>2, <1>3 DEF Slot

\* Only the last line may be a partial record.
AllButLast(ls) == \A i \in DOMAIN ls : i < Len(ls) => ls[i].whole

\* How many of the first lines of a file are whole records.
Full(ls) == IF ls = <<>> \/ ls[Len(ls)].whole THEN Len(ls) ELSE Len(ls) - 1

LEMMA FullIs ==
  ASSUME NEW ls \in Seq(Line), AllButLast(ls)
  PROVE  /\ Full(ls) \in Nat /\ Len(ls) \in Nat /\ DOMAIN ls = 1..Len(ls)
         /\ Full(ls) = Len(ls) \/ (Full(ls) = Len(ls) - 1 /\ ls # <<>> /\ ~ls[Len(ls)].whole)
         /\ \A i \in 1..Full(ls) : i \in 1..Len(ls) /\ ls[i].whole /\ ls[i].record \in Record
<1>1. Len(ls) \in Nat /\ DOMAIN ls = 1..Len(ls) /\ (ls # <<>> => Len(ls) # 0)
  BY LenProperties, EmptySeq
<1>2. \A i \in 1..Len(ls) : ls[i].record \in Record
  <2>1. \A i \in 1..Len(ls) : ls[i] \in Line
    BY ElementOfSeq
  <2> QED BY <2>1 DEF Line
<1>3. Full(ls) \in Nat
  BY <1>1 DEF Full
<1>4. Full(ls) = Len(ls) \/ (Full(ls) = Len(ls) - 1 /\ ls # <<>> /\ ~ls[Len(ls)].whole)
  BY <1>1 DEF Full
<1>5. \A i \in 1..Full(ls) : i \in 1..Len(ls)
  BY <1>1, <1>3, <1>4
<1>6. \A i \in 1..Full(ls) : ls[i].whole
  <2> TAKE i \in 1..Full(ls)
  <2>1. CASE i < Len(ls)
    BY <1>1, <1>5, <2>1 DEF AllButLast
  <2>2. CASE i = Len(ls)
    <3>1. ls # <<>>
      BY <1>1, <1>3, <2>2, EmptySeq
    <3>2. Full(ls) # Len(ls) - 1
      <4>1. Len(ls) \in Nat /\ Full(ls) \in Nat
        BY <1>1, <1>3
      <4> QED BY <2>2, <4>1
    <3>3. ls[Len(ls)].whole
      BY <3>1, <3>2 DEF Full
    <3> QED BY <2>2, <3>3, Zenon
  <2>3. i < Len(ls) \/ i = Len(ls)
    <3>1. PICK n \in Nat : n = Len(ls)
      BY <1>1
    <3>2. i \in 1..n
      BY <1>5, <3>1
    <3>3. i < n \/ i = n
      BY <3>2
    <3> QED BY <3>1, <3>3
  <2> QED BY <2>1, <2>2, <2>3
<1> QED BY <1>1, <1>2, <1>3, <1>4, <1>5, <1>6

\* A record of its own, if it is whole.
Part(l) == IF l.whole THEN <<l.record>> ELSE <<>>

LEMMA PartIs ==
  ASSUME NEW ls \in Seq(Line)
  PROVE  /\ [i \in DOMAIN ls |-> Part(ls[i])] \in Seq(Seq(Record))
         /\ Len([i \in DOMAIN ls |-> Part(ls[i])]) = Len(ls)
<1>1. Len(ls) \in Nat /\ DOMAIN ls = 1..Len(ls) /\ \A i \in 1..Len(ls) : ls[i] \in Line
  BY LenProperties, ElementOfSeq
<1>2. \A i \in 1..Len(ls) : ls[i].record \in Record
  BY <1>1 DEF Line
<1>3. \A i \in 1..Len(ls) : Part(ls[i]) \in Seq(Record)
  <2> TAKE i \in 1..Len(ls)
  <2>1. <<ls[i].record>> \in Seq(Record) /\ <<>> \in Seq(Record)
    BY <1>2
  <2> QED BY <2>1 DEF Part
<1>4. [i \in 1..Len(ls) |-> Part(ls[i])] \in Seq(Seq(Record))
  BY <1>1, <1>3
<1>5. Len([i \in 1..Len(ls) |-> Part(ls[i])]) = Len(ls)
  BY <1>1
<1> QED BY <1>1, <1>4, <1>5

LEMMA WholeIs ==
  ASSUME NEW f, f.lines \in Seq(Line), AllButLast(f.lines)
  PROVE  /\ Whole(f) = [i \in 1..Full(f.lines) |-> f.lines[i].record]
         /\ Whole(f) \in Seq(Record) /\ Len(Whole(f)) = Full(f.lines)
<1>1. PICK ls \in Seq(Line) : ls = f.lines
  OBVIOUS
<1>2. PICK ss : ss = [i \in DOMAIN ls |-> Part(ls[i])]
  OBVIOUS
<1>3. Whole(f) = FlattenSeq(ss)
  BY <1>1, <1>2 DEF Whole, Part
<1>4. ss \in Seq(Seq(Record)) /\ Len(ss) = Len(ls)
  BY <1>2, PartIs
<1>5. PICK r : Runs(r, ss, Record)
  BY <1>4, FlattenRuns
<1>6. PICK m : m = Full(ls)
  OBVIOUS
<1>7. m \in Nat /\ Len(ls) \in Nat /\ DOMAIN ls = 1..Len(ls) /\ m <= Len(ls)
  <2>1. m \in Nat /\ Len(ls) \in Nat /\ DOMAIN ls = 1..Len(ls)
    BY <1>1, <1>6, FullIs
  <2>2. m = Len(ls) \/ m = Len(ls) - 1
    BY <1>6 DEF Full
  <2>3. m <= Len(ls)
    <3>1. PICK n \in Nat : n = Len(ls)
      BY <2>1
    <3>2. m = n \/ m = n - 1
      BY <2>2, <3>1
    <3>3. m <= n
      BY <3>2
    <3> QED BY <3>1, <3>3
  <2> QED BY <2>1, <2>3
<1>7a. m = Len(ls) \/ (m = Len(ls) - 1 /\ ls # <<>> /\ ~ls[Len(ls)].whole)
  BY <1>1, <1>6, FullIs
<1>7b. \A i \in 1..m : i \in 1..Len(ls) /\ ls[i].whole
  BY <1>1, <1>6, FullIs
<1>7c. \A i \in 1..m : ls[i].record \in Record
  BY <1>1, <1>6, FullIs
<1> DEFINE First(n) == [i \in 1..n |-> ls[i].record]
           P == {n \in Nat : n <= m => r[n] = First(n)}
<1>8. \A n \in Nat : n <= m => First(n) \in Seq(Record) /\ Len(First(n)) = n
  <2> TAKE n \in Nat
  <2> SUFFICES ASSUME n <= m PROVE First(n) \in Seq(Record) /\ Len(First(n)) = n
    OBVIOUS
  <2>1. \A i \in 1..n : i \in 1..m
    BY <1>7
  <2>2. \A i \in 1..n : ls[i].record \in Record
    BY <1>7c, <2>1
  <2> QED BY <2>2
<1>9. 0 \in P
  <2>1. r[0] = <<>>
    BY <1>5 DEF Runs
  <2>2. First(0) = <<>>
    OBVIOUS
  <2> QED BY <2>1, <2>2
<1>10. ASSUME NEW n \in P PROVE n + 1 \in P
  <2>1. n \in Nat
    OBVIOUS
  <2> SUFFICES ASSUME n + 1 <= m PROVE r[n + 1] = First(n + 1)
    BY <2>1
  <2>2. n + 1 \in 1..m /\ n + 1 \in 1..Len(ls) /\ (n + 1) - 1 = n /\ n <= m
    BY <1>7, <2>1
  <2>3. r[n] = First(n)
    BY <2>2
  <2>4. ss[n + 1] = <<ls[n + 1].record>>
    BY <1>2, <1>7, <1>7b, <2>2 DEF Part
  <2>5. r[n + 1] = r[n] \o ss[n + 1]
    BY <1>4, <1>5, <2>2 DEF Runs
  <2>6. PICK x : x = First(n)
    OBVIOUS
  <2>7. PICK e \in Record : e = ls[n + 1].record
    BY <1>7c, <2>2
  <2>8. x \in Seq(Record) /\ Len(x) = n /\ \A i \in 1..n : x[i] = ls[i].record
    BY <1>8, <2>1, <2>2, <2>6
  <2>9. x \o <<e>> = Append(x, e) /\ Len(Append(x, e)) = n + 1 /\ Append(x, e) \in Seq(Record)
    BY <2>1, <2>8, AppendIsConcat, AppendProperties
  <2>10. \A i \in 1..(n + 1) : Append(x, e)[i] = First(n + 1)[i]
    <3>1. \A i \in 1..n : Append(x, e)[i] = x[i]
      BY <2>1, <2>8, AppendProperties
    <3>2. Append(x, e)[n + 1] = e
      BY <2>1, <2>8, AppendProperties
    <3> QED BY <2>1, <2>7, <2>8, <3>1, <3>2
  <2>11. First(n + 1) \in Seq(Record) /\ Len(First(n + 1)) = n + 1
    BY <1>8, <2>1, <2>2
  <2> HIDE DEF First
  <2>12. Append(x, e) = First(n + 1)
    BY <2>9, <2>10, <2>11, SeqEqual
  <2> QED BY <2>3, <2>4, <2>5, <2>6, <2>7, <2>9, <2>12
<1>11. r[m] = First(m)
  <2>1. P = Nat
    <3>1. P \subseteq Nat
      OBVIOUS
    <3> HIDE DEF P
    <3> QED BY <1>9, <1>10, <3>1, Induction
  <2>2. \A n \in Nat : n <= m => r[n] = First(n)
    BY <2>1
  <2> HIDE DEF First
  <2> QED BY <1>7, <2>2
<1>12. First(m) \in Seq(Record) /\ Len(First(m)) = m
  <2> HIDE DEF First
  <2> QED BY <1>7, <1>8
<1> HIDE DEF First, P
<1>13. Whole(f) = First(m)
  <2>1. CASE m = Len(ls)
    BY <1>3, <1>4, <1>5, <1>11, <2>1 DEF Runs
  <2>2. CASE m = Len(ls) - 1 /\ ls # <<>> /\ ~ls[Len(ls)].whole
    <3>1. Len(ls) \in 1..Len(ls)
      <4>1. Len(ls) # 0
        BY <2>2, EmptySeq
      <4> QED BY <1>7, <4>1
    <3>2. ss[Len(ls)] = <<>>
      BY <1>2, <1>7, <2>2, <3>1 DEF Part
    <3>3. r[Len(ls)] = r[m] \o <<>>
      BY <1>4, <1>5, <2>2, <3>1, <3>2 DEF Runs
    <3>4. r[Len(ls)] = First(m)
      BY <1>11, <1>12, <3>3, ConcatEmptySeq
    <3> QED BY <1>3, <1>4, <1>5, <3>4 DEF Runs
  <2> QED BY <1>7a, <2>1, <2>2
<1> QED BY <1>1, <1>6, <1>12, <1>13 DEF First

\* The records of the lines, and the size of the file, by the number of whole ones.
Records(ls) == [i \in 1..Full(ls) |-> ls[i].record]
SizeOf(ls) == RecordBytes * Full(ls) + Len(ls) - Full(ls)

LEMMA FileIs ==
  ASSUME NEW f, f.lines \in Seq(Line), AllButLast(f.lines)
  PROVE  /\ Whole(f) = Records(f.lines) /\ Bytes(f) = SizeOf(f.lines)
         /\ Records(f.lines) \in Seq(Record) /\ Len(Records(f.lines)) = Full(f.lines)
<1>1. Whole(f) = Records(f.lines) /\ Whole(f) \in Seq(Record) /\ Len(Whole(f)) = Full(f.lines)
  BY WholeIs DEF Records
<1>2. Bytes(f) = SizeOf(f.lines)
  BY <1>1 DEF Bytes, SizeOf
<1> QED BY <1>1, <1>2

LEMMA RecordsAre ==
  ASSUME NEW ls \in Seq(Line), AllButLast(ls)
  PROVE  Records(ls) \in Seq(Record) /\ Len(Records(ls)) = Full(ls)
<1>1. PICK f : f = [lines |-> ls]
  OBVIOUS
<1>2. f.lines = ls
  BY <1>1
<1> QED BY <1>2, FileIs

LEMMA Times ==
  ASSUME NEW n \in Nat
  PROVE  RecordBytes * n \in Nat /\ RecordBytes * (n + 1) = RecordBytes * n + RecordBytes
<1>1. PICK b \in Nat : b = RecordBytes
  BY Limits
<1>2. b * n \in Nat /\ b * (n + 1) = b * n + b
  OBVIOUS
<1> QED BY <1>1, <1>2

\* The sequence t is s and r after it.
Adds(t, s, r) == t = Append(s, r)

\* A line is appended to whole ones.
LEMMA LineAdds ==
  ASSUME NEW ls \in Seq(Line), AllButLast(ls), Full(ls) = Len(ls), NEW l \in Line,
         NEW x, x = Append(ls, l)
  PROVE  /\ x \in Seq(Line) /\ AllButLast(x) /\ x # <<>> /\ Len(x) = Len(ls) + 1 /\ x[Len(x)] = l
         /\ l.whole => Full(x) = Len(x) /\ Adds(Records(x), Records(ls), l.record)
                       /\ SizeOf(x) = SizeOf(ls) + RecordBytes
         /\ ~l.whole => Records(x) = Records(ls) /\ SizeOf(x) = SizeOf(ls) + 1
<1>1. PICK n \in Nat : n = Len(ls)
  BY LenProperties
<1>2. x \in Seq(Line) /\ Len(x) = n + 1 /\ x[n + 1] = l /\ \A i \in 1..n : x[i] = ls[i]
  BY <1>1, AppendProperties
<1>3. DOMAIN x = 1..(n + 1)
  BY <1>2, LenProperties
<1>4. x # <<>>
  BY <1>1, <1>2, EmptySeq
<1>5. \A i \in 1..n : ls[i].whole
  BY <1>1, FullIs
<1>6. AllButLast(x)
  <2>1. ASSUME NEW i \in DOMAIN x, i < Len(x) PROVE i \in 1..n
    BY <1>1, <1>2, <1>3, <2>1
  <2>2. ASSUME NEW i \in DOMAIN x, i < Len(x) PROVE x[i].whole
    BY <1>2, <1>5, <2>1, <2>2
  <2> QED BY <2>2 DEF AllButLast
<1>7. Records(ls) \in Seq(Record) /\ Len(Records(ls)) = n /\ Records(ls) = [i \in 1..n |-> ls[i].record]
  BY <1>1, RecordsAre DEF Records
<1>8. SizeOf(ls) = RecordBytes * n /\ RecordBytes * n \in Nat
      /\ RecordBytes * (n + 1) = RecordBytes * n + RecordBytes /\ RecordBytes \in Nat
  <2>1. RecordBytes * n \in Nat /\ RecordBytes * (n + 1) = RecordBytes * n + RecordBytes
    BY Times
  <2>2. SizeOf(ls) = RecordBytes * n + n - n
    BY <1>1 DEF SizeOf
  <2> QED BY <2>1, <2>2, Limits
<1>9. ASSUME l.whole
      PROVE  /\ Full(x) = Len(x) /\ Adds(Records(x), Records(ls), l.record)
             /\ SizeOf(x) = SizeOf(ls) + RecordBytes
  <2>1. Full(x) = n + 1
    BY <1>2, <1>9 DEF Full
  <2>2. l.record \in Record
    BY DEF Line
  <2>3. Records(x) \in Seq(Record) /\ Len(Records(x)) = n + 1 /\ Records(x) = [i \in 1..(n + 1) |-> x[i].record]
    BY <1>2, <1>6, <2>1, RecordsAre DEF Records
  <2>4. PICK s \in Seq(Record) : s = Records(ls)
    BY <1>7
  <2>5. /\ Append(s, l.record) \in Seq(Record) /\ Len(Append(s, l.record)) = n + 1
        /\ Append(s, l.record)[n + 1] = l.record
        /\ \A i \in 1..n : Append(s, l.record)[i] = s[i]
    BY <1>7, <2>2, <2>4, AppendProperties
  <2>6. \A i \in 1..(n + 1) : Records(x)[i] = Append(s, l.record)[i]
    <3> TAKE i \in 1..(n + 1)
    <3>1. CASE i \in 1..n
      BY <1>2, <1>7, <2>3, <2>4, <2>5, <3>1
    <3>2. CASE i = n + 1
      <4>1. Records(x)[i] = x[i].record
        BY <2>3
      <4> QED BY <1>2, <2>5, <3>2, <4>1
    <3>3. i \in 1..n \/ i = n + 1
      OBVIOUS
    <3> QED BY <3>1, <3>2, <3>3
  <2>7. Records(x) = Append(s, l.record)
    BY <2>3, <2>5, <2>6, SeqEqual
  <2>8. SizeOf(x) = RecordBytes * (n + 1) + (n + 1) - (n + 1)
    BY <1>2, <2>1 DEF SizeOf
  <2>9. SizeOf(x) = SizeOf(ls) + RecordBytes
    BY <1>8, <2>8
  <2>10. Adds(Records(x), Records(ls), l.record)
    BY <2>4, <2>7 DEF Adds
  <2> QED BY <1>2, <2>1, <2>9, <2>10
<1>10. ASSUME ~l.whole
       PROVE  Records(x) = Records(ls) /\ SizeOf(x) = SizeOf(ls) + 1
  <2>1. Full(x) = Len(x) - 1
    BY <1>2, <1>4, <1>10 DEF Full
  <2>2. Full(x) = n
    BY <1>2, <2>1
  <2>3. Records(x) = [i \in 1..n |-> x[i].record]
    BY <2>2 DEF Records
  <2>4. Records(x) = Records(ls)
    BY <1>2, <1>7, <2>3
  <2>5. SizeOf(x) = RecordBytes * n + (n + 1) - n
    BY <1>2, <2>2 DEF SizeOf
  <2>6. SizeOf(x) = SizeOf(ls) + 1
    BY <1>8, <2>5
  <2> QED BY <2>4, <2>6
<1> QED BY <1>1, <1>2, <1>4, <1>6, <1>9, <1>10

LEMMA Completed ==
  ASSUME NEW l \in Line, NEW t
  PROVE  [l EXCEPT !.whole = t] = [record |-> l.record, whole |-> t]
BY DEF Line

\* All but the last line are whole ones, to which the last was appended.
LEMMA LineGoes ==
  ASSUME NEW x \in Seq(Line), AllButLast(x), x # <<>>
  PROVE  /\ Front(x) \in Seq(Line) /\ AllButLast(Front(x)) /\ Full(Front(x)) = Len(Front(x))
         /\ x[Len(x)] \in Line /\ x = Append(Front(x), x[Len(x)])
         /\ [x EXCEPT ![Len(x)].whole = TRUE] = Append(Front(x), [record |-> x[Len(x)].record, whole |-> TRUE])
<1>1. PICK n \in Nat : n = Len(x) - 1 /\ n + 1 = Len(x) /\ n + 1 \in 1..Len(x)
  BY LenProperties, EmptySeq
<1>2. x \in [1..(n + 1) -> Line]
  BY <1>1, LenProperties
<1>3. PICK fr : fr = Front(x)
  OBVIOUS
<1>4. fr = SubSeq(x, 1, n)
  BY <1>1, <1>3 DEF Front
<1>5. \A i \in 1..n : x[i] \in Line
  BY <1>2
<1>6. fr \in Seq(Line) /\ Len(fr) = n /\ \A i \in 1..n : fr[i] = x[i]
  <2>1. /\ SubSeq(x, 1, n) \in Seq(Line) /\ Len(SubSeq(x, 1, n)) = IF 1 <= n THEN n - 1 + 1 ELSE 0
        /\ \A i \in 1..(n - 1 + 1) : SubSeq(x, 1, n)[i] = x[1 + i - 1]
    BY <1>5, SubSeqProperties
  <2>2. Len(fr) = n
    BY <1>4, <2>1
  <2>3. \A i \in 1..n : i \in 1..(n - 1 + 1) /\ 1 + i - 1 = i
    OBVIOUS
  <2> QED BY <1>4, <2>1, <2>2, <2>3
<1>7. \A i \in 1..n : x[i].whole
  <2>1. \A i \in 1..n : i \in DOMAIN x /\ i < Len(x)
    BY <1>1, <1>2
  <2> QED BY <2>1 DEF AllButLast
<1>8. DOMAIN fr = 1..n
  BY <1>6, LenProperties
<1>9. AllButLast(fr)
  BY <1>6, <1>7, <1>8 DEF AllButLast
<1>10. Full(fr) = Len(fr)
  <2>1. CASE fr = <<>>
    BY <2>1 DEF Full
  <2>2. CASE fr # <<>>
    <3>1. n \in 1..n
      BY <1>6, <2>2, EmptySeq
    <3>2. fr[n].whole
      BY <1>6, <1>7, <3>1
    <3> QED BY <1>6, <3>2 DEF Full
  <2> QED BY <2>1, <2>2
<1>11. PICK l \in Line : l = x[Len(x)]
  BY <1>1, <1>2
<1>12. \A e : e \in Line => /\ Append(fr, e) \in [1..(n + 1) -> Line] /\ Append(fr, e)[n + 1] = e
                            /\ \A i \in 1..n : Append(fr, e)[i] = fr[i]
  <2> SUFFICES ASSUME NEW e \in Line
               PROVE  /\ Append(fr, e) \in [1..(n + 1) -> Line] /\ Append(fr, e)[n + 1] = e
                      /\ \A i \in 1..n : Append(fr, e)[i] = fr[i]
    OBVIOUS
  <2>1. /\ Append(fr, e) \in Seq(Line) /\ Len(Append(fr, e)) = n + 1 /\ Append(fr, e)[n + 1] = e
        /\ \A i \in 1..n : Append(fr, e)[i] = fr[i]
    BY <1>6, AppendProperties
  <2> QED BY <2>1, LenProperties
<1>13. x = Append(fr, l)
  <2>1. \A i \in 1..(n + 1) : x[i] = Append(fr, l)[i]
    <3> TAKE i \in 1..(n + 1)
    <3>1. i \in 1..n \/ i = n + 1
      OBVIOUS
    <3> QED BY <1>1, <1>6, <1>11, <1>12, <3>1
  <2>2. Append(fr, l) \in [1..(n + 1) -> Line]
    BY <1>12
  <2> QED BY <1>2, <2>1, <2>2
<1>14. [x EXCEPT ![Len(x)].whole = TRUE] = Append(fr, [record |-> l.record, whole |-> TRUE])
  <2>1. PICK e : e = [record |-> l.record, whole |-> TRUE]
    OBVIOUS
  <2>2. e \in Line /\ e = [l EXCEPT !.whole = TRUE]
    <3>1. l.record \in Record
      BY DEF Line
    <3>2. e \in Line
      BY <2>1, <3>1 DEF Line
    <3>3. [l EXCEPT !.whole = TRUE] = [record |-> l.record, whole |-> TRUE]
      BY Completed
    <3> QED BY <2>1, <3>2, <3>3
  <2>3. [x EXCEPT ![Len(x)].whole = TRUE] = [x EXCEPT ![Len(x)] = e]
    BY <1>11, <2>2
  <2>4. PICK y : y = [x EXCEPT ![Len(x)] = e]
    OBVIOUS
  <2>5. y \in [1..(n + 1) -> Line] /\ y[n + 1] = e /\ \A i \in 1..n : y[i] = x[i]
    BY <1>1, <1>2, <2>2, <2>4
  <2>6. Append(fr, e) \in [1..(n + 1) -> Line]
    BY <1>12, <2>2
  <2>7. \A i \in 1..(n + 1) : y[i] = Append(fr, e)[i]
    <3> TAKE i \in 1..(n + 1)
    <3>1. i \in 1..n \/ i = n + 1
      OBVIOUS
    <3> QED BY <1>6, <1>12, <2>2, <2>5, <3>1
  <2>8. y = Append(fr, e)
    BY <2>5, <2>6, <2>7
  <2> QED BY <2>1, <2>3, <2>4, <2>8
<1> QED BY <1>3, <1>6, <1>9, <1>10, <1>11, <1>13, <1>14
-----------------------------------------------------------------------------
(* The trail, as a function of the files.                                   *)

\* A file that SegmentsWhole allows, and files in their slots.
Segment(f) == Bytes(f) <= MaxFileBytes /\ AllButLast(f.lines)

Disks(d) ==
  /\ d \in [Slot -> File \cup {Absent}]
  /\ \A s \in Slot : d[s] # Absent => Segment(d[s])

HeldBy(x) == IF x = Absent THEN <<>> ELSE Whole(x)

PartsOf(d) == [i \in 1..MaxFiles |-> HeldBy(d[MaxFiles - i])]
TrailOf(d) == FlattenSeq(PartsOf(d))

LEMMA HeldIs ==
  ASSUME NEW d, Disks(d), NEW s \in Slot
  PROVE  /\ HeldBy(d[s]) \in Seq(Record)
         /\ d[s] # Absent => /\ d[s] \in File /\ d[s].lines \in Seq(Line) /\ AllButLast(d[s].lines)
                             /\ HeldBy(d[s]) = Records(d[s].lines) /\ Bytes(d[s]) = SizeOf(d[s].lines)
                             /\ Len(HeldBy(d[s])) = Full(d[s].lines)
<1>1. CASE d[s] = Absent
  <2>1. HeldBy(d[s]) = <<>>
    BY <1>1 DEF HeldBy
  <2> QED BY <1>1, <2>1, EmptySeq
<1>2. CASE d[s] # Absent
  <2>1. d[s] \in File /\ AllButLast(d[s].lines) /\ HeldBy(d[s]) = Whole(d[s])
    BY <1>2 DEF Disks, Segment, HeldBy
  <2>2. d[s].lines \in Seq(Line)
    BY <2>1 DEF File
  <2>3. PICK f : f = d[s]
    OBVIOUS
  <2>4. Whole(f) = Records(f.lines) /\ Bytes(f) = SizeOf(f.lines)
        /\ Records(f.lines) \in Seq(Record) /\ Len(Records(f.lines)) = Full(f.lines)
    BY <2>1, <2>2, <2>3, FileIs
  <2> QED BY <2>1, <2>2, <2>3, <2>4
<1> QED BY <1>1, <1>2

LEMMA PartsAre ==
  ASSUME NEW d, Disks(d)
  PROVE  /\ PartsOf(d) \in Seq(Seq(Record)) /\ Len(PartsOf(d)) = MaxFiles
         /\ \A i \in 1..MaxFiles : MaxFiles - i \in Slot /\ PartsOf(d)[i] = HeldBy(d[MaxFiles - i])
         /\ TrailOf(d) \in Seq(Record)
<1>1. \A i \in 1..MaxFiles : MaxFiles - i \in Slot
  BY Limits
<1>2. \A i \in 1..MaxFiles : HeldBy(d[MaxFiles - i]) \in Seq(Record)
  BY <1>1, HeldIs
<1>3. PartsOf(d) \in Seq(Seq(Record))
  BY <1>2, Limits DEF PartsOf
<1>4. Len(PartsOf(d)) = MaxFiles
  BY Limits DEF PartsOf
<1>5. TrailOf(d) \in Seq(Record)
  BY <1>3, FlattenType DEF TrailOf
<1>6. \A i \in 1..MaxFiles : PartsOf(d)[i] = HeldBy(d[MaxFiles - i])
  BY DEF PartsOf
<1> QED BY <1>1, <1>3, <1>4, <1>5, <1>6

\* What is around the file in slot s is the same in both trails.
Around(d, e, s) ==
  \E A, B \in Seq(Record) :
    /\ TrailOf(d) = (A \o HeldBy(d[s])) \o B /\ TrailOf(e) = (A \o HeldBy(e[s])) \o B
    /\ s = MaxFiles - 1 => A = <<>>
    /\ s = 0 => B = <<>>
    /\ 0 < s => Len(HeldBy(d[0])) <= Len(B)

\* The file in one slot changes.
LEMMA SlotChanges ==
  ASSUME NEW d, Disks(d), NEW e, Disks(e), NEW s \in Slot, \A t \in Slot \ {s} : e[t] = d[t]
  PROVE  Around(d, e, s)
<1>1. PICK p : p = MaxFiles - s
  OBVIOUS
<1>2. /\ p \in 1..MaxFiles /\ MaxFiles - p = s /\ MaxFiles \in 1..MaxFiles /\ MaxFiles - MaxFiles = 0
      /\ s = MaxFiles - 1 => p = 1
      /\ s = 0 => p = MaxFiles
      /\ 0 < s => p < MaxFiles
  BY <1>1, Limits
<1>3. PICK ss : ss = PartsOf(d)
  OBVIOUS
<1>4. PICK tt : tt = PartsOf(e)
  OBVIOUS
<1>5. /\ ss \in Seq(Seq(Record)) /\ Len(ss) = MaxFiles
      /\ \A i \in 1..MaxFiles : MaxFiles - i \in Slot /\ ss[i] = HeldBy(d[MaxFiles - i])
  BY <1>3, PartsAre
<1>6. /\ tt \in Seq(Seq(Record)) /\ Len(tt) = MaxFiles
      /\ \A i \in 1..MaxFiles : tt[i] = HeldBy(e[MaxFiles - i])
  BY <1>4, PartsAre
<1>7. \A i \in 1..Len(ss) : i # p => tt[i] = ss[i]
  <2> SUFFICES ASSUME NEW i \in 1..MaxFiles, i # p PROVE tt[i] = ss[i]
    BY <1>5
  <2>1. MaxFiles - i # s
    BY <1>1, Limits
  <2> QED BY <1>5, <1>6, <2>1
<1>8. PICK A \in Seq(Record) : \E B \in Seq(Record) :
        /\ FlattenSeq(ss) = (A \o ss[p]) \o B /\ FlattenSeq(tt) = (A \o tt[p]) \o B
        /\ p = 1 => A = <<>>
        /\ p = Len(ss) => B = <<>>
        /\ p < Len(ss) => Len(ss[Len(ss)]) <= Len(B)
  <2>1. p \in 1..Len(ss) /\ Len(tt) = Len(ss)
    BY <1>2, <1>5, <1>6
  <2> QED BY <1>5, <1>6, <1>7, <2>1, OneChanges
<1>9. PICK B \in Seq(Record) :
        /\ FlattenSeq(ss) = (A \o ss[p]) \o B /\ FlattenSeq(tt) = (A \o tt[p]) \o B
        /\ p = 1 => A = <<>>
        /\ p = Len(ss) => B = <<>>
        /\ p < Len(ss) => Len(ss[Len(ss)]) <= Len(B)
  BY <1>8
<1>10. ss[p] = HeldBy(d[s]) /\ tt[p] = HeldBy(e[s]) /\ ss[MaxFiles] = HeldBy(d[0])
  BY <1>2, <1>5, <1>6
<1>11. TrailOf(d) = (A \o HeldBy(d[s])) \o B /\ TrailOf(e) = (A \o HeldBy(e[s])) \o B
  BY <1>3, <1>4, <1>9, <1>10 DEF TrailOf
<1>12. /\ s = MaxFiles - 1 => A = <<>>
       /\ s = 0 => B = <<>>
       /\ 0 < s => Len(HeldBy(d[0])) <= Len(B)
  BY <1>2, <1>5, <1>9, <1>10
<1> QED BY <1>11, <1>12 DEF Around

\* A file moves into the next slot, which was empty.
LEMMA SlotMoves ==
  ASSUME NEW d, Disks(d), NEW e, Disks(e), NEW s \in Slot, s + 1 \in Slot,
         d[s + 1] = Absent, e[s + 1] = d[s], e[s] = Absent,
         \A t \in Slot \ {s, s + 1} : e[t] = d[t]
  PROVE  TrailOf(e) = TrailOf(d)
<1>1. PICK p : p = MaxFiles - (s + 1)
  OBVIOUS
<1>2. p \in 1..MaxFiles /\ p + 1 \in 1..MaxFiles /\ MaxFiles - p = s + 1 /\ MaxFiles - (p + 1) = s
  BY <1>1, Limits
<1>3. PICK ss : ss = PartsOf(d)
  OBVIOUS
<1>4. PICK tt : tt = PartsOf(e)
  OBVIOUS
<1>5. /\ ss \in Seq(Seq(Record)) /\ Len(ss) = MaxFiles
      /\ \A i \in 1..MaxFiles : MaxFiles - i \in Slot /\ ss[i] = HeldBy(d[MaxFiles - i])
  BY <1>3, PartsAre
<1>6. /\ tt \in Seq(Seq(Record)) /\ Len(tt) = MaxFiles
      /\ \A i \in 1..MaxFiles : tt[i] = HeldBy(e[MaxFiles - i])
  BY <1>4, PartsAre
<1>7. \A i \in 1..Len(ss) : i # p /\ i # p + 1 => tt[i] = ss[i]
  <2> SUFFICES ASSUME NEW i \in 1..MaxFiles, i # p, i # p + 1 PROVE tt[i] = ss[i]
    BY <1>5
  <2>1. MaxFiles - i \notin {s, s + 1}
    BY <1>1, Limits DEF Slot
  <2> QED BY <1>5, <1>6, <2>1
<1>8. ss[p] = <<>> /\ tt[p] = ss[p + 1] /\ tt[p + 1] = <<>>
  <2>1. /\ ss[p] = HeldBy(d[s + 1]) /\ tt[p] = HeldBy(e[s + 1])
        /\ ss[p + 1] = HeldBy(d[s]) /\ tt[p + 1] = HeldBy(e[s])
    BY <1>2, <1>5, <1>6
  <2>2. HeldBy(Absent) = <<>>
    BY DEF HeldBy
  <2> QED BY <2>1, <2>2
<1>9. Moves(p, ss, tt)
  BY <1>7, <1>8 DEF Moves
<1>10. p \in 1..Len(ss) /\ p + 1 <= Len(ss) /\ Len(tt) = Len(ss)
  BY <1>2, <1>5, <1>6
<1>11. FlattenSeq(tt) = FlattenSeq(ss)
  BY <1>5, <1>6, <1>9, <1>10, OneMoves
<1> QED BY <1>3, <1>4, <1>11 DEF TrailOf
-----------------------------------------------------------------------------
(* Cutting a part out of the trail.                                         *)

PerFile == MaxFileBytes \div RecordBytes

\* As many records as fit a file are not more than PerFile.
LEMMA FileHolds ==
  ASSUME NEW n \in Nat, RecordBytes * n <= MaxFileBytes
  PROVE  n <= PerFile /\ PerFile \in Nat
<1>1. PICK b \in Nat : b = RecordBytes /\ b > 0
  BY Limits
<1>2. PICK m \in Nat : m = MaxFileBytes /\ b * n <= m
  BY <1>1, Limits
<1>3. PICK q \in Int : q = m \div b
  BY <1>1
<1>4. q \in Nat /\ m < b * q + b
  BY <1>1, <1>3
<1>5. b * n < b * (q + 1)
  BY <1>2, <1>4
<1>6. n < q + 1
  <2> SUFFICES ASSUME n >= q + 1 PROVE FALSE
    BY <1>4
  <2>1. PICK k \in Nat : n = (q + 1) + k
    BY <1>4
  <2>2. b * n = b * (q + 1) + b * k /\ b * k \in Nat
    BY <1>4, <2>1
  <2> QED BY <1>4, <1>5, <2>2
<1>7. PerFile = q
  BY <1>1, <1>2, <1>3 DEF PerFile
<1> QED BY <1>4, <1>6, <1>7

CutFrom(t, u, i, j) == u = SubSeq(t, 1, i - 1) \o SubSeq(t, j + 1, Len(t))

\* X between A and B.
Framed(t, A, X, B) == t = (A \o X) \o B

LEMMA Slice ==
  ASSUME NEW S, NEW t \in Seq(S), NEW m \in Nat, NEW n \in Nat, 0 < m, n <= Len(t), m <= n + 1
  PROVE  /\ SubSeq(t, m, n) \in Seq(S) /\ Len(SubSeq(t, m, n)) = n - m + 1
         /\ \A i \in 1..(n - m + 1) : SubSeq(t, m, n)[i] = t[m + i - 1]
<1>1. PICK k \in Nat : k = Len(t)
  BY LenProperties
<1>2. \A i \in m..n : t[i] \in S
  <2> TAKE i \in m..n
  <2>1. i \in 1..k
    BY <1>1
  <2> QED BY <1>1, <2>1, ElementOfSeq
<1>3. /\ SubSeq(t, m, n) \in Seq(S)
      /\ Len(SubSeq(t, m, n)) = IF m <= n THEN n - m + 1 ELSE 0
      /\ \A i \in 1..(n - m + 1) : SubSeq(t, m, n)[i] = t[m + i - 1]
  BY <1>2, SubSeqProperties
<1> QED BY <1>3

LEMMA CutsOut ==
  ASSUME NEW A \in Seq(Record), NEW X \in Seq(Record), NEW B \in Seq(Record), X # <<>>,
         NEW t, Framed(t, A, X, B), NEW u, Framed(u, A, <<>>, B)
  PROVE  /\ CutFrom(t, u, Len(A) + 1, Len(A) + Len(X))
         /\ Len(A) + 1 \in DOMAIN t /\ Len(A) + Len(X) \in DOMAIN t
         /\ t[Len(A) + 1] = X[1]
         /\ Len(A) \in Nat /\ Len(X) \in Nat /\ Len(X) > 0 /\ Len(B) \in Nat
         /\ Len(t) = Len(A) + Len(X) + Len(B)
<1>1. PICK a \in Nat : a = Len(A)
  BY LenProperties
<1>2. PICK x \in Nat : x = Len(X) /\ x > 0
  BY LenProperties, EmptySeq
<1>3. PICK b \in Nat : b = Len(B)
  BY LenProperties
<1>4. PICK ax : ax = A \o X
  OBVIOUS
<1>5. /\ ax \in Seq(Record) /\ Len(ax) = a + x
      /\ \A i \in 1..(a + x) : ax[i] = IF i <= a THEN A[i] ELSE X[i - a]
  BY <1>1, <1>2, <1>4, ConcatProperties
<1>6. t = ax \o B
  BY <1>4 DEF Framed
<1>7. /\ t \in Seq(Record) /\ Len(t) = a + x + b
      /\ \A i \in 1..(a + x + b) : t[i] = IF i <= a + x THEN ax[i] ELSE B[i - (a + x)]
  <2>1. /\ ax \o B \in Seq(Record) /\ Len(ax \o B) = Len(ax) + b
        /\ \A i \in 1..(Len(ax) + b) : (ax \o B)[i] = IF i <= Len(ax) THEN ax[i] ELSE B[i - Len(ax)]
    BY <1>3, <1>5, ConcatProperties
  <2> QED BY <1>5, <1>6, <2>1
<1>8. DOMAIN t = 1..(a + x + b)
  BY <1>7, LenProperties
<1>9. a + 1 \in DOMAIN t /\ a + x \in DOMAIN t /\ t[a + 1] = X[1]
  <2>1. a + 1 \in 1..(a + x + b) /\ a + x \in 1..(a + x + b) /\ a + 1 \in 1..(a + x)
        /\ a + 1 <= a + x /\ ~(a + 1 <= a) /\ (a + 1) - a = 1
    BY <1>2
  <2>2. t[a + 1] = ax[a + 1]
    BY <1>7, <2>1
  <2>3. ax[a + 1] = X[(a + 1) - a]
    BY <1>5, <2>1
  <2> QED BY <1>8, <2>1, <2>2, <2>3
<1>10. \A i \in 1..(a + x + b) : t[i] \in Record
  BY <1>7, ElementOfSeq
<1>11. SubSeq(t, 1, a) = A
  <2>1. \A i \in 1..a : t[i] \in Record /\ i \in 1..(a + x) /\ t[i] = A[i]
    <3> TAKE i \in 1..a
    <3>1. i \in 1..(a + x) /\ i \in 1..(a + x + b) /\ i <= a /\ i <= a + x
      BY <1>2
    <3>2. t[i] = ax[i]
      BY <1>7, <3>1
    <3>3. ax[i] = A[i]
      BY <1>5, <3>1
    <3> QED BY <1>10, <3>1, <3>2, <3>3
  <2>2. PICK y : y = SubSeq(t, 1, a)
    OBVIOUS
  <2>3. /\ y \in Seq(Record) /\ Len(y) = a - 1 + 1
        /\ \A i \in 1..(a - 1 + 1) : y[i] = t[1 + i - 1]
    <3>1. 1 \in Nat /\ 0 < 1 /\ a <= Len(t) /\ 1 <= a + 1
      BY <1>2, <1>3, <1>7
    <3>2. /\ SubSeq(t, 1, a) \in Seq(Record) /\ Len(SubSeq(t, 1, a)) = a - 1 + 1
          /\ \A i \in 1..(a - 1 + 1) : SubSeq(t, 1, a)[i] = t[1 + i - 1]
      BY <1>7, <3>1, Slice
    <3> QED BY <2>2, <3>2
  <2>4. Len(y) = a
    BY <2>3
  <2>5. \A i \in 1..a : y[i] = A[i]
    <3> TAKE i \in 1..a
    <3>1. i \in 1..(a - 1 + 1) /\ 1 + i - 1 = i
      OBVIOUS
    <3> QED BY <2>1, <2>3, <3>1
  <2>6. y = A
    BY <1>1, <2>3, <2>4, <2>5, SeqEqual
  <2> QED BY <2>2, <2>6
<1>12. SubSeq(t, a + x + 1, a + x + b) = B
  <2>1. \A i \in (a + x + 1)..(a + x + b) : t[i] \in Record
    <3> TAKE i \in (a + x + 1)..(a + x + b)
    <3>1. i \in 1..(a + x + b)
      BY <1>2
    <3> QED BY <1>10, <3>1
  <2>2. PICK y : y = SubSeq(t, a + x + 1, a + x + b)
    OBVIOUS
  <2>3. PICK m \in Nat : m = a + x + 1
    OBVIOUS
  <2>4. PICK n \in Nat : n = a + x + b
    OBVIOUS
  <2>5. /\ y \in Seq(Record) /\ Len(y) = n - m + 1
        /\ \A i \in 1..(n - m + 1) : y[i] = t[m + i - 1]
    <3>1. 0 < m /\ n <= Len(t) /\ m <= n + 1
      BY <1>7, <2>3, <2>4
    <3>2. /\ SubSeq(t, m, n) \in Seq(Record) /\ Len(SubSeq(t, m, n)) = n - m + 1
          /\ \A i \in 1..(n - m + 1) : SubSeq(t, m, n)[i] = t[m + i - 1]
      BY <1>7, <3>1, Slice
    <3> QED BY <2>2, <2>3, <2>4, <3>2
  <2>6. Len(y) = b /\ n - m + 1 = b
    <3>1. n - m + 1 = b
      BY <2>3, <2>4
    <3> QED BY <2>5, <3>1
  <2>7. \A i \in 1..b : y[i] = B[i]
    <3> TAKE i \in 1..b
    <3>1. /\ m + i - 1 \in 1..(a + x + b) /\ ~(m + i - 1 <= a + x) /\ (m + i - 1) - (a + x) = i
      BY <1>2, <2>3
    <3>2. y[i] = t[m + i - 1]
      BY <2>5, <2>6
    <3> QED BY <1>7, <3>1, <3>2
  <2>8. y = B
    BY <1>3, <2>5, <2>6, <2>7, SeqEqual
  <2> QED BY <2>2, <2>8
<1>13. u = A \o B
  BY ConcatEmptySeq DEF Framed
<1>14. CutFrom(t, u, a + 1, a + x)
  <2>1. (a + 1) - 1 = a
    OBVIOUS
  <2> QED BY <1>7, <1>11, <1>12, <1>13, <2>1 DEF CutFrom
<1> QED BY <1>1, <1>2, <1>3, <1>7, <1>9, <1>14
-----------------------------------------------------------------------------
(* The inductive invariant.                                                 *)

\* The records that wait are in the order of their numbers, which nothing stored has
\* reached, and of times the clock has shown.
Ordered ==
  /\ now <= latest
  /\ last < next
  /\ \A i \in DOMAIN queue : queue[i] # Sweep =>
       last < queue[i].n /\ queue[i].n < next /\ queue[i].ts <= latest
  /\ \A i, j \in DOMAIN queue :
       i < j /\ queue[i] # Sweep /\ queue[j] # Sweep => queue[i].n < queue[j].n

\* While a sweep lasts, every file can be read, and what it will remove has reached its age.
Sweeping ==
  op.at = "sweeping" =>
    /\ \A s \in Slot : disk[s] # Absent => Readable(disk[s])
    /\ \A s \in op.doomed : disk[s] # Absent /\ Oldest(disk[s]) + MaxAge <= latest

\* A rotation begins with a record in the active file; later the slot after the one whose
\* turn it is is free.
Rotating ==
  op.at = "rotating" =>
    IF op.slot = MaxFiles - 1 THEN disk[0] # Absent /\ ~Empty(disk[0]) /\ Readable(disk[0])
    ELSE disk[op.slot + 1] = Absent

\* The record has its place in the active file, and a partial one is its own.
Writing ==
  /\ op.at \in {"opening", "writing"} => disk[0] = Absent \/ ~MustRotate(disk[0], Head(queue))
  /\ op.at \in {"writing", "midway"} => disk[0] # Absent
  /\ op.at = "midway" =>
       /\ ~Empty(disk[0])
       /\ disk[0].lines[Len(disk[0].lines)] = [record |-> Head(queue), whole |-> FALSE]
       /\ Bytes(disk[0]) - 1 + RecordBytes <= MaxFileBytes

IInv ==
  /\ TypeOK
  /\ Disks(disk)
  /\ Ordered
  /\ Sweeping
  /\ Rotating
  /\ Writing

LEMMA OpIs ==
  ASSUME IInv
  PROVE  /\ op.at \in {"rest", "opening", "writing", "midway", "sweeping", "rotating"}
         /\ op.at = "sweeping" => op.doomed \subseteq Slot /\ op = [at |-> "sweeping", doomed |-> op.doomed]
         /\ op.at = "rotating" => op.slot \in Slot /\ op = [at |-> "rotating", slot |-> op.slot]
         /\ op.at # "rest" => queue # <<>>
         /\ op.at \notin {"rest", "sweeping"} => Head(queue) # Sweep /\ Head(queue) \in Record
         /\ queue \in Seq(Work)
<1>1. op \in Op /\ queue \in Seq(Work)
  BY DEF IInv, TypeOK
<1>2. op.at # "rest" => queue # <<>>
  BY DEF IInv, TypeOK
<1>3. op.at \notin {"rest", "sweeping"} => Head(queue) # Sweep
  BY DEF IInv, TypeOK
<1>4. queue # <<>> => Head(queue) \in Work
  BY <1>1, HeadTailProperties
<1>5. op.at \notin {"rest", "sweeping"} => Head(queue) \in Record
  BY <1>2, <1>3, <1>4 DEF Work
<1>6. op.at \in {"rest", "opening", "writing", "midway", "sweeping", "rotating"}
  BY <1>1 DEF Op
<1>7. op.at = "sweeping" => op.doomed \subseteq Slot /\ op = [at |-> "sweeping", doomed |-> op.doomed]
  BY <1>1 DEF Op
<1>8. op.at = "rotating" => op.slot \in Slot /\ op = [at |-> "rotating", slot |-> op.slot]
  BY <1>1 DEF Op
<1> QED BY <1>1, <1>2, <1>3, <1>5, <1>6, <1>7, <1>8

LEMMA RestIs == Rest.at = "rest" /\ Rest \in Op
BY DEF Rest, Op

LEMMA RecordIs ==
  ASSUME NEW r \in Record
  PROVE  /\ r.n \in Nat /\ r.n \in 1..MaxRecords /\ r.ts \in Nat /\ r.ts \in Time
         /\ r = [n |-> r.n, ts |-> r.ts]
<1>1. r.n \in 1..MaxRecords /\ r.ts \in Time /\ r = [n |-> r.n, ts |-> r.ts]
  BY DEF Record
<1>2. r.n \in Nat /\ r.ts \in Nat
  BY <1>1, Limits DEF Time
<1> QED BY <1>1, <1>2

LEMMA WorkIs == \A w \in Work : w # Sweep => w \in Record
BY DEF Work

LEMMA CountersAre ==
  ASSUME TypeOK
  PROVE  now \in Nat /\ latest \in Nat /\ next \in Nat /\ last \in Nat
BY Limits DEF TypeOK, Time

\* The operation in progress ends.
LEMMA EndKeeps ==
  ASSUME IInv, queue # <<>>, End, Disks(disk'), now' = now, latest' = latest, next' = next,
         last' = last \/ (Head(queue) # Sweep /\ last' = Head(queue).n)
  PROVE  IInv'
<1>1. queue \in Seq(Work) /\ Len(queue) <= MaxPending /\ TypeOK
  BY DEF IInv, TypeOK
<1>2. PICK k \in Nat : k + 1 = Len(queue)
  <2>1. Len(queue) \in Nat /\ Len(queue) # 0
    BY <1>1, EmptySeq
  <2>2. Len(queue) - 1 \in Nat /\ (Len(queue) - 1) + 1 = Len(queue)
    BY <2>1
  <2> QED BY <2>2
<1>3. /\ queue' \in Seq(Work) /\ Len(queue') = k /\ \A i \in 1..k : queue'[i] = queue[i + 1]
      /\ DOMAIN queue' = 1..k /\ DOMAIN queue = 1..(k + 1)
  <2>1. queue' = Tail(queue)
    BY DEF End
  <2>2. /\ Tail(queue) \in Seq(Work) /\ Len(Tail(queue)) = Len(queue) - 1
        /\ \A i \in 1..Len(Tail(queue)) : Tail(queue)[i] = queue[i + 1]
    BY <1>1, HeadTailProperties
  <2>3. queue' \in Seq(Work) /\ Len(queue') = k /\ \A i \in 1..k : queue'[i] = queue[i + 1]
    BY <1>2, <2>1, <2>2
  <2> QED BY <1>1, <1>2, <2>3, LenProperties
<1>4. Head(queue) = queue[1] /\ 1 \in DOMAIN queue /\ queue[1] \in Work
  BY <1>1, <1>2, <1>3, ElementOfSeq
<1>5. \A i \in 1..k : i + 1 \in DOMAIN queue /\ i \in DOMAIN queue /\ 1 < i + 1 /\ queue[i + 1] \in Work
  <2> TAKE i \in 1..k
  <2>1. i + 1 \in 1..(k + 1) /\ i \in 1..(k + 1) /\ 1 < i + 1
    BY <1>2
  <2> QED BY <1>1, <1>2, <1>3, <2>1, ElementOfSeq
<1>6. Ordered'
  <2>0. Ordered
    BY DEF IInv
  <2>1. now' <= latest'
    BY <2>0 DEF Ordered
  <2>2. CASE last' = last
    <3>1. \A i \in DOMAIN queue' : queue'[i] # Sweep =>
            last' < queue'[i].n /\ queue'[i].n < next' /\ queue'[i].ts <= latest'
      BY <1>3, <1>5, <2>0, <2>2 DEF Ordered
    <3>2. \A i, j \in DOMAIN queue' :
            i < j /\ queue'[i] # Sweep /\ queue'[j] # Sweep => queue'[i].n < queue'[j].n
      <4> SUFFICES ASSUME NEW i \in 1..k, NEW j \in 1..k, i < j, queue'[i] # Sweep, queue'[j] # Sweep
                   PROVE  queue'[i].n < queue'[j].n
        BY <1>3
      <4>1. i + 1 < j + 1
        BY <1>2
      <4> QED BY <1>3, <1>5, <2>0, <4>1 DEF Ordered
    <3> QED BY <2>0, <2>1, <2>2, <3>1, <3>2 DEF Ordered
  <2>3. CASE Head(queue) # Sweep /\ last' = Head(queue).n
    <3>1. last' < next'
      BY <1>4, <2>0, <2>3 DEF Ordered
    <3>2. \A i \in DOMAIN queue' : queue'[i] # Sweep =>
            last' < queue'[i].n /\ queue'[i].n < next' /\ queue'[i].ts <= latest'
      BY <1>3, <1>4, <1>5, <2>0, <2>3 DEF Ordered
    <3>3. \A i, j \in DOMAIN queue' :
            i < j /\ queue'[i] # Sweep /\ queue'[j] # Sweep => queue'[i].n < queue'[j].n
      <4> SUFFICES ASSUME NEW i \in 1..k, NEW j \in 1..k, i < j, queue'[i] # Sweep, queue'[j] # Sweep
                   PROVE  queue'[i].n < queue'[j].n
        BY <1>3
      <4>1. i + 1 < j + 1
        BY <1>2
      <4> QED BY <1>3, <1>5, <2>0, <4>1 DEF Ordered
    <3> QED BY <2>1, <3>1, <3>2, <3>3 DEF Ordered
  <2> QED BY <2>2, <2>3
<1>7. op' = Rest
  BY DEF End
<1>8. TypeOK'
  <2>1. last' \in 0..MaxRecords
    <3>1. CASE last' = last
      BY <1>1, <3>1 DEF TypeOK
    <3>2. CASE Head(queue) # Sweep /\ last' = Head(queue).n
      <4>1. Head(queue) \in Record
        BY <1>4, <3>2, WorkIs
      <4>2. last' \in 1..MaxRecords
        BY <3>2, <4>1, RecordIs
      <4> QED BY <4>2
    <3> QED BY <3>1, <3>2
  <2>2. Len(queue') <= MaxPending
    BY <1>1, <1>2, <1>3, Limits
  <2>3. disk' \in [Slot -> File \cup {Absent}]
    BY DEF Disks
  <2>4. now' \in Time /\ latest' \in Time /\ next' \in 1..(MaxRecords + 1)
    BY <1>1 DEF TypeOK
  <2> QED BY <1>3, <1>7, <2>1, <2>2, <2>3, <2>4, RestIs DEF TypeOK
<1>9. Sweeping' /\ Rotating' /\ Writing'
  BY <1>7, RestIs DEF Sweeping, Rotating, Writing
<1>10. Disks(disk)'
  BY DEF Disks, Segment, Bytes, Whole
<1> QED BY <1>6, <1>8, <1>9, <1>10 DEF IInv

\* The operation in progress takes a step.
LEMMA OpKeeps ==
  ASSUME IInv, queue # <<>>, Disks(disk'), op' \in Op, op'.at \notin {"rest", "sweeping"} => Head(queue) # Sweep,
         queue' = queue, now' = now, latest' = latest, next' = next, last' = last,
         Sweeping', Rotating', Writing'
  PROVE  IInv'
<1>1. Ordered'
  BY DEF IInv, Ordered
<1>2. disk' \in [Slot -> File \cup {Absent}]
  BY DEF Disks
<1>3. TypeOK'
  <2>1. TypeOK
    BY DEF IInv
  <2>2. queue' \in Seq(Work) /\ Len(queue') <= MaxPending /\ now' \in Time /\ latest' \in Time
        /\ next' \in 1..(MaxRecords + 1) /\ last' \in 0..MaxRecords
    BY <2>1 DEF TypeOK
  <2> QED BY <1>2, <2>2 DEF TypeOK
<1>4. Disks(disk)'
  BY DEF Disks, Segment, Bytes, Whole
<1> QED BY <1>1, <1>3, <1>4 DEF IInv
-----------------------------------------------------------------------------
(* What the steps do to the files.                                          *)

LEMMA MinIs ==
  ASSUME NEW S, S \subseteq Nat, S # {}
  PROVE  Min(S) \in S
<1> DEFINE R == OpToRel(<, Nat)
<1>1. PICK m \in S : \A n \in S : ~(<<n, m>> \in R)
  <2>1. IsWellFoundedOn(R, Nat)
    BY NatLessThanWellFounded
  <2> HIDE DEF R
  <2> QED BY <2>1, WFMin
<1>2. \A n \in S : ~(n < m)
  BY <1>1 DEF OpToRel
<1>3. \A n \in S : m <= n
  BY <1>2
<1> QED BY <1>3 DEF Min

With(d, s, x) == [d EXCEPT ![s] = x]

LEMMA DiskWith ==
  ASSUME NEW d, Disks(d), NEW s \in Slot, NEW x \in File \cup {Absent}, x # Absent => Segment(x)
  PROVE  /\ Disks(With(d, s, x)) /\ With(d, s, x)[s] = x
         /\ \A t \in Slot \ {s} : With(d, s, x)[t] = d[t]
<1> DEFINE e == With(d, s, x)
<1>1. d \in [Slot -> File \cup {Absent}] /\ \A t \in Slot : d[t] # Absent => Segment(d[t])
  BY DEF Disks
<1>2. e \in [Slot -> File \cup {Absent}] /\ e[s] = x /\ \A t \in Slot \ {s} : e[t] = d[t]
  BY <1>1 DEF With
<1> HIDE DEF e
<1>3. \A t \in Slot : e[t] # Absent => Segment(e[t])
  BY <1>1, <1>2
<1>4. Disks(e)
  BY <1>2, <1>3 DEF Disks
<1> QED BY <1>2, <1>4 DEF e

\* The active file gets other lines.
LEMMA ActiveIs ==
  ASSUME IInv, NEW ls \in Seq(Line), AllButLast(ls), SizeOf(ls) <= MaxFileBytes, disk' = Active(ls)
  PROVE  /\ Disks(disk') /\ disk'[0] # Absent /\ disk'[0].lines = ls /\ Bytes(disk'[0]) = SizeOf(ls)
         /\ HeldBy(disk'[0]) = Records(ls)
         /\ \A t \in Slot \ {0} : disk'[t] = disk[t]
<1>1. PICK x : x = [lines |-> ls, mtime |-> IF ls = <<>> THEN now ELSE 0]
  OBVIOUS
<1>2. 0 \in Time /\ now \in Time
  BY Limits DEF IInv, TypeOK, Time
<1>3. x \in File /\ x.lines = ls
  BY <1>1, <1>2 DEF File
<1>4. x # Absent
  BY <1>3, AbsentAssumption
<1>5. Whole(x) = Records(ls) /\ Bytes(x) = SizeOf(ls)
  BY <1>3, FileIs
<1>6. Segment(x)
  BY <1>3, <1>5 DEF Segment
<1>7. disk' = With(disk, 0, x)
  BY <1>1 DEF Active, With
<1>8. Disks(disk)
  BY DEF IInv
<1>9. Disks(disk') /\ disk'[0] = x /\ \A t \in Slot \ {0} : disk'[t] = disk[t]
  <2>1. x \in File \cup {Absent} /\ 0 \in Slot
    BY <1>3, Limits
  <2>2. /\ Disks(With(disk, 0, x)) /\ With(disk, 0, x)[0] = x
        /\ \A t \in Slot \ {0} : With(disk, 0, x)[t] = disk[t]
    BY <1>6, <1>8, <2>1, DiskWith
  <2> QED BY <1>7, <2>2
<1> QED BY <1>3, <1>4, <1>5, <1>9 DEF HeldBy

LEMMA FileFits ==
  ASSUME NEW d, Disks(d), NEW s \in Slot, d[s] # Absent
  PROVE  Full(d[s].lines) \in Nat /\ Full(d[s].lines) <= PerFile /\ PerFile \in Nat
<1>1. /\ d[s].lines \in Seq(Line) /\ AllButLast(d[s].lines) /\ Bytes(d[s]) = SizeOf(d[s].lines)
  BY HeldIs
<1>2. PICK ls \in Seq(Line) : ls = d[s].lines /\ AllButLast(ls)
  BY <1>1
<1>3. PICK n \in Nat : n = Full(ls)
  BY <1>2, FullIs
<1>4. PICK m \in Nat : m = Len(ls) /\ n <= m
  <2>1. PICK k \in Nat : k = Len(ls)
    BY LenProperties
  <2>2. n = k \/ n = k - 1
    BY <1>3, <2>1 DEF Full
  <2>3. n <= k
    BY <2>2
  <2> QED BY <2>1, <2>3
<1>5. Bytes(d[s]) <= MaxFileBytes
  BY DEF Disks, Segment
<1>6. SizeOf(ls) = RecordBytes * n + m - n
  BY <1>3, <1>4 DEF SizeOf
<1>7. RecordBytes * n + m - n <= MaxFileBytes
  BY <1>1, <1>2, <1>5, <1>6
<1>8. RecordBytes * n \in Nat
  BY Times
<1>9. RecordBytes * n <= MaxFileBytes
  BY <1>4, <1>7, <1>8, Limits
<1> QED BY <1>2, <1>3, <1>9, FileHolds

\* A file goes: its records are cut out of the trail, if it has any.
LEMMA FileGoes ==
  ASSUME NEW d, Disks(d), NEW e, Disks(e), NEW s \in Slot, \A t \in Slot \ {s} : e[t] = d[t], e[s] = Absent,
         NEW T, T = TrailOf(d), NEW U, U = TrailOf(e)
  PROVE  \/ U = T
         \/ \E i, j \in DOMAIN T :
              /\ CutFrom(T, U, i, j) /\ i <= j /\ j < i + PerFile
              /\ d[s] # Absent /\ ~Empty(d[s]) /\ T[i].ts = Oldest(d[s])
              /\ s = MaxFiles - 1 => i = 1
              /\ 0 < s /\ Len(HeldBy(d[0])) > 0 => j < Len(T)
<1>1. PICK X \in Seq(Record) : X = HeldBy(d[s])
  BY HeldIs
<1>2. HeldBy(e[s]) = <<>>
  BY DEF HeldBy
<1>2a. Around(d, e, s)
  BY SlotChanges
<1>3. PICK A \in Seq(Record) : \E B \in Seq(Record) :
        /\ TrailOf(d) = (A \o HeldBy(d[s])) \o B /\ TrailOf(e) = (A \o HeldBy(e[s])) \o B
        /\ s = MaxFiles - 1 => A = <<>>
        /\ s = 0 => B = <<>>
        /\ 0 < s => Len(HeldBy(d[0])) <= Len(B)
  BY <1>2a DEF Around
<1>4. PICK B \in Seq(Record) :
        /\ TrailOf(d) = (A \o HeldBy(d[s])) \o B /\ TrailOf(e) = (A \o HeldBy(e[s])) \o B
        /\ s = MaxFiles - 1 => A = <<>>
        /\ s = 0 => B = <<>>
        /\ 0 < s => Len(HeldBy(d[0])) <= Len(B)
  BY <1>3
<1>5. Framed(T, A, X, B) /\ Framed(U, A, <<>>, B)
  BY <1>1, <1>2, <1>4 DEF Framed
<1>6. CASE X = <<>>
  BY <1>5, <1>6 DEF Framed
<1>7. CASE X # <<>>
  <2>1. d[s] # Absent
    BY <1>1, <1>7 DEF HeldBy
  <2>2. PICK ls \in Seq(Line) : ls = d[s].lines /\ X = Records(ls) /\ Len(X) = Full(ls) /\ AllButLast(ls)
    BY <1>1, <2>1, HeldIs
  <2>3. PICK n \in Nat : n = Len(X) /\ n > 0 /\ n <= PerFile /\ PerFile \in Nat
    <3>1. Full(ls) \in Nat /\ Full(ls) <= PerFile /\ PerFile \in Nat
      BY <2>1, <2>2, FileFits
    <3>2. Len(X) \in Nat /\ Len(X) # 0
      BY <1>7, LenProperties, EmptySeq
    <3> QED BY <2>2, <3>1, <3>2
  <2>4. PICK a \in Nat : a = Len(A)
    BY LenProperties
  <2>5. PICK b \in Nat : b = Len(B)
    BY LenProperties
  <2>6. /\ CutFrom(T, U, a + 1, a + n) /\ a + 1 \in DOMAIN T /\ a + n \in DOMAIN T
        /\ T[a + 1] = X[1] /\ Len(T) = a + n + b
    BY <1>5, <1>7, <2>3, <2>4, <2>5, CutsOut
  <2>7. a + 1 <= a + n /\ a + n < a + 1 + PerFile
    BY <2>3
  <2>8. X[1] = ls[1].record
    <3>1. 1 \in 1..Full(ls)
      BY <2>2, <2>3
    <3> QED BY <2>2, <3>1 DEF Records
  <2>9. ls # <<>>
    <3>1. Full(ls) # 0
      BY <2>2, <2>3
    <3>2. Len(<<>>) = 0
      OBVIOUS
    <3> QED BY <3>1, <3>2 DEF Full
  <2>10. ~Empty(d[s]) /\ T[a + 1].ts = Oldest(d[s])
    <3>1. Head(ls) = ls[1]
      BY <2>9
    <3> QED BY <2>2, <2>6, <2>8, <2>9, <3>1 DEF Empty, Oldest
  <2>11. s = MaxFiles - 1 => a + 1 = 1
    BY <1>4, <2>4
  <2>12. 0 < s /\ Len(HeldBy(d[0])) > 0 => a + n < Len(T)
    <3>1. PICK z \in Nat : z = Len(HeldBy(d[0]))
      BY HeldIs, Limits, LenProperties
    <3>2. 0 < s => z <= b
      BY <1>4, <2>5, <3>1
    <3>3. 0 < s /\ z > 0 => a + n < a + n + b
      BY <3>2
    <3> QED BY <2>6, <3>1, <3>3
  <2> QED BY <2>1, <2>6, <2>7, <2>10, <2>11, <2>12
<1> QED BY <1>6, <1>7

LEMMA TrailStays ==
  ASSUME NEW d, Disks(d), NEW e, Disks(e), NEW s \in Slot, \A t \in Slot \ {s} : e[t] = d[t],
         HeldBy(e[s]) = HeldBy(d[s])
  PROVE  TrailOf(e) = TrailOf(d)
<1>1. Around(d, e, s)
  BY SlotChanges
<1> QED BY <1>1 DEF Around

LEMMA TrailGrows ==
  ASSUME NEW d, Disks(d), NEW e, Disks(e), \A t \in Slot \ {0} : e[t] = d[t],
         NEW r \in Record, HeldBy(e[0]) = Append(HeldBy(d[0]), r)
  PROVE  TrailOf(e) = Append(TrailOf(d), r)
<1>0. Around(d, e, 0)
  <2>1. 0 \in Slot
    BY Limits
  <2> QED BY <2>1, SlotChanges
<1>1. PICK A \in Seq(Record) : \E B \in Seq(Record) :
        /\ TrailOf(d) = (A \o HeldBy(d[0])) \o B /\ TrailOf(e) = (A \o HeldBy(e[0])) \o B
        /\ B = <<>>
  BY <1>0 DEF Around
<1>2. PICK X \in Seq(Record) : X = HeldBy(d[0])
  BY HeldIs, Limits
<1>3. TrailOf(d) = (A \o X) \o <<>> /\ TrailOf(e) = (A \o Append(X, r)) \o <<>>
  BY <1>1, <1>2
<1>4. Append(X, r) = X \o <<r>> /\ Append(X, r) \in Seq(Record) /\ <<r>> \in Seq(Record)
  BY AppendIsConcat, AppendProperties
<1>5. A \o X \in Seq(Record) /\ A \o Append(X, r) \in Seq(Record)
  BY <1>4, ConcatProperties
<1>6. TrailOf(d) = A \o X /\ TrailOf(e) = A \o Append(X, r)
  BY <1>3, <1>5, ConcatEmptySeq
<1>7. PICK y : y = (A \o X) \o <<r>>
  OBVIOUS
<1>8. Joins(A \o X, A, X) /\ Joins(y, A \o X, <<r>>)
  BY <1>7 DEF Joins
<1>9. Joins(y, A, X \o <<r>>)
  BY <1>4, <1>8, Associates
<1>10. (A \o X) \o <<r>> = A \o (X \o <<r>>)
  BY <1>7, <1>9 DEF Joins
<1>11. Append(A \o X, r) = (A \o X) \o <<r>>
  BY <1>5, AppendIsConcat
<1> QED BY <1>4, <1>6, <1>10, <1>11

LEMMA OldestIs ==
  ASSUME NEW f \in File
  PROVE  Oldest(f) \in Nat
<1>1. f.lines \in Seq(Line) /\ f.mtime \in Nat
  BY Limits DEF File, Time
<1>2. CASE f.lines = <<>>
  BY <1>1, <1>2 DEF Oldest, Empty
<1>3. CASE f.lines # <<>>
  <2>1. Head(f.lines) \in Line
    BY <1>1, <1>3, HeadTailProperties
  <2>2. Head(f.lines).record \in Record
    BY <2>1 DEF Line
  <2> QED BY <1>3, <2>2, RecordIs DEF Oldest, Empty
<1> QED BY <1>2, <1>3
-----------------------------------------------------------------------------
(* The steps.                                                               *)

\* What a step may do to the trail, as AuditTrail has it.
Same == TrailOf(disk') = TrailOf(disk) /\ last' = last /\ latest' = latest

Stores ==
  \E r \in Record :
    /\ last' = r.n /\ last < r.n /\ r.ts <= latest
    /\ TrailOf(disk') = Append(TrailOf(disk), r)
    /\ latest' = latest

Goes(i, j) ==
  /\ CutFrom(TrailOf(disk), TrailOf(disk'), i, j) /\ i <= j /\ j < i + PerFile
  /\ last' = last /\ latest' = latest

MakesRoom == \E j \in DOMAIN TrailOf(disk) : Goes(1, j) /\ (MaxFiles > 1 => j < Len(TrailOf(disk)))

Expires == \E i, j \in DOMAIN TrailOf(disk) : Goes(i, j) /\ TrailOf(disk)[i].ts + MaxAge <= latest

LEMMA BeginKeeps ==
  ASSUME IInv, Begin
  PROVE  IInv' /\ Same
<1>1. queue # <<>> /\ disk' = disk /\ now' = now /\ next' = next /\ last' = last /\ latest' = latest
  BY DEF Begin
<1>2. Disks(disk) /\ Disks(disk')
  BY <1>1 DEF IInv
<1>3. Same
  BY <1>1 DEF Same
<1>4. CASE End
  BY <1>1, <1>2, <1>3, <1>4, EndKeeps
<1>5. CASE /\ \A s \in Present : Readable(disk[s])
           /\ op' = [at |-> "sweeping", doomed |-> Aged] /\ queue' = queue
  <2>1. Aged \subseteq Slot
    BY DEF Aged, Present
  <2>2. op' \in Op /\ op'.at = "sweeping" /\ op'.doomed = Aged
    BY <1>5, <2>1 DEF Op
  <2>3. \A s \in Aged : disk[s] # Absent /\ Oldest(disk[s]) + MaxAge <= latest
    <3> TAKE s \in Aged
    <3>1. s \in Slot /\ disk[s] # Absent /\ now - Oldest(disk[s]) >= MaxAge
      BY DEF Aged, Present
    <3>2. Oldest(disk[s]) \in Nat
      BY <1>2, <3>1, HeldIs, OldestIs
    <3>3. now <= latest /\ now \in Nat /\ latest \in Nat
      BY CountersAre DEF IInv, Ordered
    <3> QED BY <3>1, <3>2, <3>3, Limits
  <2>4. Sweeping'
    <3>1. \A s \in Slot : disk'[s] # Absent => Readable(disk'[s])
      BY <1>1, <1>5 DEF Present
    <3>2. \A s \in op'.doomed : disk'[s] # Absent /\ Oldest(disk'[s]) + MaxAge <= latest'
      BY <1>1, <2>2, <2>3
    <3> QED BY <3>1, <3>2 DEF Sweeping, Readable, Oldest, Empty
  <2>5. Rotating' /\ Writing'
    BY <2>2 DEF Rotating, Writing
  <2> QED BY <1>1, <1>2, <1>3, <1>5, <2>2, <2>4, <2>5, OpKeeps
<1> QED BY <1>4, <1>5 DEF Begin

LEMMA UnlinkKeeps ==
  ASSUME IInv, Unlink
  PROVE  IInv' /\ (Same \/ Expires)
<1>1. /\ op.at = "sweeping" /\ op.doomed # {} /\ queue' = queue /\ now' = now /\ next' = next
      /\ last' = last /\ latest' = latest
  BY DEF Unlink
<1>2. PICK s : s = Min(op.doomed) /\ disk' = With(disk, s, Absent)
               /\ op' = [op EXCEPT !.doomed = @ \ {s}]
  BY DEF Unlink, With
<1>3. op.doomed \subseteq Slot /\ op = [at |-> "sweeping", doomed |-> op.doomed] /\ queue # <<>>
  BY <1>1, OpIs
<1>4. op.doomed \subseteq Nat
  BY <1>3, Limits
<1>5. s \in op.doomed /\ s \in Slot
  BY <1>1, <1>2, <1>3, <1>4, MinIs
<1>6. Disks(disk)
  BY DEF IInv
<1>7. Disks(disk') /\ disk'[s] = Absent /\ \A t \in Slot \ {s} : disk'[t] = disk[t]
  BY <1>2, <1>5, <1>6, DiskWith
<1>8. PICK doomed : doomed = op.doomed
  OBVIOUS
<1>9. op' \in Op /\ op'.at = "sweeping" /\ op'.doomed = doomed \ {s}
  <2>1. PICK o : o = op
    OBVIOUS
  <2>2. o = [at |-> "sweeping", doomed |-> doomed]
    BY <1>3, <1>8, <2>1
  <2>3. op' = [o EXCEPT !.doomed = doomed \ {s}]
    BY <1>2, <1>8, <2>1
  <2>4. op' = [at |-> "sweeping", doomed |-> doomed \ {s}]
    BY <2>2, <2>3
  <2> QED BY <1>3, <1>8, <2>4 DEF Op
<1>10. /\ \A t \in Slot : disk[t] # Absent => Readable(disk[t])
       /\ \A t \in op.doomed : disk[t] # Absent /\ Oldest(disk[t]) + MaxAge <= latest
  BY <1>1 DEF IInv, Sweeping
<1>11. Sweeping'
  <2>1. \A t \in Slot : disk'[t] # Absent => Readable(disk'[t])
    BY <1>5, <1>7, <1>10
  <2>2. \A t \in op'.doomed : disk'[t] # Absent /\ Oldest(disk'[t]) + MaxAge <= latest'
    BY <1>1, <1>3, <1>7, <1>8, <1>9, <1>10
  <2> QED BY <2>1, <2>2 DEF Sweeping, Readable, Oldest, Empty
<1>12. Rotating' /\ Writing'
  BY <1>9 DEF Rotating, Writing
<1>13. IInv'
  BY <1>1, <1>3, <1>7, <1>9, <1>11, <1>12, OpKeeps
<1>14. Same \/ Expires
  <2>1. PICK T : T = TrailOf(disk)
    OBVIOUS
  <2>2. PICK U : U = TrailOf(disk')
    OBVIOUS
  <2>3. \/ U = T
        \/ \E i, j \in DOMAIN T :
             /\ CutFrom(T, U, i, j) /\ i <= j /\ j < i + PerFile
             /\ T[i].ts = Oldest(disk[s])
    BY <1>5, <1>6, <1>7, <2>1, <2>2, FileGoes
  <2>4. Oldest(disk[s]) + MaxAge <= latest
    BY <1>5, <1>10
  <2> QED BY <1>1, <2>1, <2>2, <2>3, <2>4 DEF Same, Expires, Goes
<1> QED BY <1>13, <1>14

\* A sweep of its own, or the operation given up.
LEMMA EndSweepKeeps ==
  ASSUME IInv, EndSweep \/ Fail
  PROVE  IInv' /\ Same
<1>1. End /\ disk' = disk /\ now' = now /\ next' = next /\ last' = last /\ latest' = latest
  BY DEF EndSweep, Fail
<1>2. queue # <<>>
  <2>1. op.at = "sweeping" \/ op # Rest
    BY DEF EndSweep, Fail, Swept
  <2>2. op.at # "rest"
    <3>1. op \in Op
      BY DEF IInv, TypeOK
    <3> QED BY <2>1, <3>1 DEF Op, Rest
  <2> QED BY <2>2, OpIs
<1>3. Disks(disk')
  BY <1>1 DEF IInv
<1> QED BY <1>1, <1>2, <1>3, EndKeeps DEF Same

LEMMA PrepareKeeps ==
  ASSUME IInv, Prepare
  PROVE  IInv' /\ Same
<1>1. /\ op.at = "sweeping" /\ op.doomed = {} /\ Head(queue) # Sweep /\ disk' = disk /\ queue' = queue
      /\ now' = now /\ next' = next /\ last' = last /\ latest' = latest
  BY DEF Prepare, Swept
<1>2. Disks(disk') /\ queue # <<>> /\ Same
  <2>1. Disks(disk')
    BY <1>1 DEF IInv
  <2>2. queue # <<>>
    BY <1>1, OpIs
  <2> QED BY <1>1, <2>1, <2>2 DEF Same
<1>3. CASE /\ disk[0] # Absent /\ MustRotate(disk[0], Head(queue))
           /\ op' = [at |-> "rotating", slot |-> MaxFiles - 1]
  <2>1. op' \in Op /\ op'.at = "rotating" /\ op'.slot = MaxFiles - 1
    BY <1>3, Limits DEF Op
  <2>2. disk'[0] # Absent /\ ~Empty(disk[0]) /\ Readable(disk[0])
    <3>1. Readable(disk[0])
      BY <1>1, <1>3, Limits DEF IInv, Sweeping
    <3>2. ~Empty(disk[0])
      BY <1>3 DEF MustRotate
    <3> QED BY <1>1, <1>3, <3>1, <3>2
  <2>3. Rotating'
    BY <1>1, <2>1, <2>2 DEF Rotating, Empty, Readable
  <2>4. Sweeping' /\ Writing'
    BY <2>1 DEF Sweeping, Writing
  <2> QED BY <1>1, <1>2, <2>1, <2>3, <2>4, OpKeeps
<1>4. CASE /\ ~(disk[0] # Absent /\ MustRotate(disk[0], Head(queue)))
           /\ op' = [at |-> "opening"]
  <2>1. op' \in Op /\ op'.at = "opening"
    BY <1>4 DEF Op
  <2>2. disk'[0] = Absent \/ ~MustRotate(disk'[0], Head(queue'))
    BY <1>1, <1>4
  <2>3. Writing'
    BY <2>1, <2>2 DEF Writing, MustRotate, Empty, Complete, Oldest, Bytes, Whole
  <2>4. Sweeping' /\ Rotating'
    BY <2>1 DEF Sweeping, Rotating
  <2> QED BY <1>1, <1>2, <2>1, <2>3, <2>4, OpKeeps
<1> QED BY <1>3, <1>4 DEF Prepare

\* A file that begins with a whole record holds one.
LEMMA HoldsOne ==
  ASSUME NEW d, Disks(d), d[0] # Absent, ~Empty(d[0]), Readable(d[0])
  PROVE  Len(HeldBy(d[0])) > 0
<1>1. 0 \in Slot
  BY Limits
<1>2. d[0].lines \in Seq(Line) /\ AllButLast(d[0].lines) /\ Len(HeldBy(d[0])) = Full(d[0].lines)
  BY <1>1, HeldIs
<1>3. PICK ls \in Seq(Line) : ls = d[0].lines /\ ls # <<>> /\ AllButLast(ls)
  BY <1>2 DEF Empty
<1>4. ls[1].whole
  <2>1. Head(ls) = ls[1]
    BY <1>3
  <2>2. Head(ls).whole
    BY <1>3 DEF Readable, Empty
  <2> QED BY <2>1, <2>2
<1>5. PICK n \in Nat : n = Len(ls) /\ n # 0
  BY <1>3, LenProperties, EmptySeq
<1>6. CASE n = 1
  <2>1. Full(ls) = 1
    BY <1>4, <1>5, <1>6 DEF Full
  <2> QED BY <1>2, <1>3, <2>1
<1>7. CASE n # 1
  <2>1. Full(ls) = n \/ Full(ls) = n - 1
    BY <1>5 DEF Full
  <2>2. Full(ls) > 0
    BY <1>5, <1>7, <2>1
  <2> QED BY <1>2, <1>3, <2>2
<1> QED BY <1>6, <1>7

LEMMA RotateKeeps ==
  ASSUME IInv, Rotate
  PROVE  IInv' /\ (Same \/ MakesRoom)
<1>1. /\ op.at = "rotating" /\ disk' = Moved(op.slot) /\ queue' = queue
      /\ now' = now /\ next' = next /\ last' = last /\ latest' = latest
  BY DEF Rotate
<1>2. PICK s \in Slot : s = op.slot /\ op = [at |-> "rotating", slot |-> s] /\ queue # <<>>
  BY <1>1, OpIs
<1>3. Head(queue) # Sweep
  BY <1>1, OpIs
<1>4. Disks(disk)
  BY DEF IInv
<1>5. s \in Nat /\ MaxFiles - 1 \in Nat /\ s <= MaxFiles - 1 /\ MaxFiles \in Nat
  BY Limits
<1>6. /\ s = MaxFiles - 1 => disk[0] # Absent /\ ~Empty(disk[0]) /\ Readable(disk[0])
      /\ s # MaxFiles - 1 => disk[s + 1] = Absent
  BY <1>1, <1>2 DEF IInv, Rotating
<1>7. /\ s = 0 => op' = [at |-> "opening"]
      /\ s # 0 => op' = [at |-> "rotating", slot |-> s - 1]
  <2>1. CASE s = 0
    BY <1>2, <2>1 DEF Rotate
  <2>2. CASE s # 0
    <3>1. PICK o : o = op
      OBVIOUS
    <3>2. o = [at |-> "rotating", slot |-> s]
      BY <1>2, <3>1
    <3>3. op' = [o EXCEPT !.slot = s - 1]
      BY <1>2, <2>2, <3>1 DEF Rotate
    <3> QED BY <2>2, <3>2, <3>3
  <2> QED BY <2>1, <2>2
<1>8. Disks(disk') /\ disk'[s] = Absent /\ (Same \/ MakesRoom)
  <2>1. CASE s = MaxFiles - 1
    <3>1. disk' = With(disk, s, Absent)
      BY <1>1, <1>2, <2>1 DEF Moved, With
    <3>2. Disks(disk') /\ disk'[s] = Absent /\ \A t \in Slot \ {s} : disk'[t] = disk[t]
      BY <1>4, <3>1, DiskWith
    <3>3. PICK T : T = TrailOf(disk)
      OBVIOUS
    <3>4. PICK U : U = TrailOf(disk')
      OBVIOUS
    <3>5. \/ U = T
          \/ \E i, j \in DOMAIN T :
               /\ CutFrom(T, U, i, j) /\ i <= j /\ j < i + PerFile
               /\ s = MaxFiles - 1 => i = 1
               /\ 0 < s /\ Len(HeldBy(disk[0])) > 0 => j < Len(T)
      BY <1>4, <3>2, <3>3, <3>4, FileGoes
    <3>6. Len(HeldBy(disk[0])) > 0
      BY <1>4, <1>6, <2>1, HoldsOne
    <3>7. MaxFiles > 1 => 0 < s
      BY <1>5, <2>1
    <3> QED BY <1>1, <2>1, <3>2, <3>3, <3>4, <3>5, <3>6, <3>7 DEF Same, MakesRoom, Goes
  <2>2. CASE s # MaxFiles - 1 /\ disk[s] = Absent
    <3>1. disk' = disk
      BY <1>1, <1>2, <2>2 DEF Moved
    <3> QED BY <1>1, <1>4, <2>2, <3>1 DEF Same
  <2>3. CASE s # MaxFiles - 1 /\ disk[s] # Absent
    <3>1. PICK x : x = disk[s]
      OBVIOUS
    <3>2. s + 1 \in Slot /\ s + 1 # s
      BY <1>5, <2>3, Limits
    <3>3. disk' = [disk EXCEPT ![s + 1] = x, ![s] = Absent]
      BY <1>1, <1>2, <2>3, <3>1 DEF Moved
    <3>4. disk' = With(With(disk, s + 1, x), s, Absent)
      BY <3>3 DEF With
    <3>5. PICK y : y = With(disk, s + 1, x)
      OBVIOUS
    <3>6. x \in File \cup {Absent} /\ Segment(x)
      BY <1>4, <2>3, <3>1 DEF Disks
    <3>7. Disks(y) /\ y[s + 1] = x /\ \A t \in Slot \ {s + 1} : y[t] = disk[t]
      BY <1>4, <3>2, <3>5, <3>6, DiskWith
    <3>8. disk' = With(y, s, Absent)
      BY <3>4, <3>5
    <3>9. Disks(disk') /\ disk'[s] = Absent /\ \A t \in Slot \ {s} : disk'[t] = y[t]
      BY <3>7, <3>8, DiskWith
    <3>10. disk'[s + 1] = disk[s] /\ \A t \in Slot \ {s, s + 1} : disk'[t] = disk[t]
      BY <3>1, <3>2, <3>7, <3>9
    <3>11. TrailOf(disk') = TrailOf(disk)
      BY <1>4, <1>6, <2>3, <3>2, <3>9, <3>10, SlotMoves
    <3> QED BY <1>1, <3>9, <3>11 DEF Same
  <2> QED BY <2>1, <2>2, <2>3
<1>9. CASE s = 0
  <2>1. op' \in Op /\ op'.at = "opening"
    BY <1>7, <1>9 DEF Op
  <2>2. Writing'
    BY <1>8, <1>9, <2>1 DEF Writing
  <2>3. Sweeping' /\ Rotating'
    BY <2>1 DEF Sweeping, Rotating
  <2> QED BY <1>1, <1>2, <1>3, <1>8, <2>1, <2>2, <2>3, OpKeeps
<1>10. CASE s # 0
  <2>1. s - 1 \in Slot /\ s - 1 # MaxFiles - 1 /\ (s - 1) + 1 = s
    BY <1>5, <1>10, Limits
  <2>2. op' \in Op /\ op'.at = "rotating" /\ op'.slot = s - 1
    BY <1>7, <1>10, <2>1 DEF Op
  <2>3. Rotating'
    BY <1>8, <2>1, <2>2 DEF Rotating
  <2>4. Sweeping' /\ Writing'
    BY <2>2 DEF Sweeping, Writing
  <2> QED BY <1>1, <1>2, <1>3, <1>8, <2>2, <2>3, <2>4, OpKeeps
<1> QED BY <1>9, <1>10

LEMMA SizeIs ==
  ASSUME NEW ls \in Seq(Line), AllButLast(ls)
  PROVE  SizeOf(ls) \in Nat /\ (ls = <<>> => SizeOf(ls) = 0 /\ Full(ls) = 0 /\ Records(ls) = <<>>)
<1>1. PICK n \in Nat : n = Full(ls)
  BY FullIs
<1>2. PICK m \in Nat : m = Len(ls) /\ n <= m
  <2>1. PICK k \in Nat : k = Len(ls)
    BY LenProperties
  <2>2. n = k \/ n = k - 1
    BY <1>1, <2>1 DEF Full
  <2>3. n <= k
    BY <2>2
  <2> QED BY <2>1, <2>3
<1>3. SizeOf(ls) = RecordBytes * n + m - n
  BY <1>1, <1>2 DEF SizeOf
<1>4. RecordBytes * n \in Nat
  BY Times
<1>5. SizeOf(ls) \in Nat
  BY <1>2, <1>3, <1>4
<1>6. ASSUME ls = <<>> PROVE SizeOf(ls) = 0 /\ Full(ls) = 0 /\ Records(ls) = <<>>
  <2>1. m = 0 /\ n = 0
    BY <1>1, <1>2, <1>6 DEF Full
  <2>2. RecordBytes * 0 = 0
    BY Limits
  <2>3. Records(ls) = <<>>
    BY <1>1, <2>1 DEF Records
  <2> QED BY <1>1, <1>3, <2>1, <2>2, <2>3
<1> QED BY <1>5, <1>6

LEMMA NoLines == <<>> \in Seq(Line) /\ AllButLast(<<>>)
BY EmptySeq DEF AllButLast

\* The whole lines ls, which hold what the active file holds, leave room for a record.
RoomIn(ls) ==
  /\ ls \in Seq(Line) /\ AllButLast(ls) /\ Full(ls) = Len(ls)
  /\ Records(ls) = HeldBy(disk[0]) /\ SizeOf(ls) + RecordBytes <= MaxFileBytes

LEMMA RoomIs ==
  ASSUME IInv, op.at \in {"opening", "writing"}, disk[0] # Absent
  PROVE  RoomIn(disk[0].lines)
<1>1. Disks(disk) /\ ~MustRotate(disk[0], Head(queue)) /\ 0 \in Slot
  BY Limits DEF IInv, Writing
<1>2. PICK ls \in Seq(Line) : /\ ls = disk[0].lines /\ AllButLast(ls) /\ HeldBy(disk[0]) = Records(ls)
                              /\ Bytes(disk[0]) = SizeOf(ls)
  BY <1>1, HeldIs
<1>3. CASE ls = <<>>
  <2>1. SizeOf(ls) = 0 /\ Full(ls) = 0 /\ Len(ls) = 0
    BY <1>2, <1>3, SizeIs
  <2> QED BY <1>2, <2>1, Limits DEF RoomIn
<1>4. CASE ls # <<>>
  <2>1. Complete(disk[0]) /\ ~(Bytes(disk[0]) + RecordBytes > MaxFileBytes)
    BY <1>1, <1>2, <1>4 DEF MustRotate, Empty
  <2>2. SizeOf(ls) + RecordBytes <= MaxFileBytes
    <3>1. SizeOf(ls) \in Nat
      BY <1>2, SizeIs
    <3> QED BY <1>2, <2>1, <3>1, Limits
  <2>3. Full(ls) = Len(ls)
    BY <1>2, <1>4, <2>1 DEF Complete, Empty, Full, Last
  <2> QED BY <1>2, <2>2, <2>3 DEF RoomIn
<1> QED BY <1>3, <1>4

LEMMA PartialIs ==
  ASSUME IInv, op.at = "midway"
  PROVE  /\ RoomIn(Front(disk[0].lines))
         /\ [disk[0].lines EXCEPT ![Len(disk[0].lines)].whole = TRUE]
              = Append(Front(disk[0].lines), [record |-> Head(queue), whole |-> TRUE])
<1>1. /\ Disks(disk) /\ 0 \in Slot /\ disk[0] # Absent /\ ~Empty(disk[0])
      /\ disk[0].lines[Len(disk[0].lines)] = [record |-> Head(queue), whole |-> FALSE]
      /\ Bytes(disk[0]) - 1 + RecordBytes <= MaxFileBytes
  BY Limits DEF IInv, Writing
<1>2. PICK x \in Seq(Line) : /\ x = disk[0].lines /\ AllButLast(x) /\ HeldBy(disk[0]) = Records(x)
                             /\ Bytes(disk[0]) = SizeOf(x)
  BY <1>1, HeldIs
<1>3. x # <<>>
  BY <1>1, <1>2 DEF Empty
<1>4. PICK fr : fr = Front(x)
  OBVIOUS
<1>5. PICK l : l = x[Len(x)]
  OBVIOUS
<1>6. /\ fr \in Seq(Line) /\ AllButLast(fr) /\ Full(fr) = Len(fr) /\ l \in Line /\ x = Append(fr, l)
      /\ [x EXCEPT ![Len(x)].whole = TRUE] = Append(fr, [record |-> l.record, whole |-> TRUE])
  BY <1>2, <1>3, <1>4, <1>5, LineGoes
<1>7. ~l.whole /\ l.record = Head(queue)
  BY <1>1, <1>2, <1>5
<1>8. Records(x) = Records(fr) /\ SizeOf(x) = SizeOf(fr) + 1
  BY <1>6, <1>7, LineAdds
<1>9. SizeOf(fr) + RecordBytes <= MaxFileBytes
  <2>1. SizeOf(fr) \in Nat
    BY <1>6, SizeIs
  <2>2. PICK b : b = Bytes(disk[0])
    OBVIOUS
  <2>3. b - 1 + RecordBytes <= MaxFileBytes
    BY <1>1, <2>2
  <2>4. b = SizeOf(fr) + 1
    BY <1>2, <1>8, <2>2
  <2> QED BY <2>1, <2>3, <2>4, Limits
<1>10. RoomIn(fr)
  BY <1>2, <1>6, <1>8, <1>9 DEF RoomIn
<1> QED BY <1>2, <1>4, <1>6, <1>7, <1>10

LEMMA OpenKeeps ==
  ASSUME IInv, Open
  PROVE  IInv' /\ Same
<1>1. /\ op.at = "opening" /\ op' = [at |-> "writing"] /\ queue' = queue
      /\ now' = now /\ next' = next /\ last' = last /\ latest' = latest
  BY DEF Open
<1>2. op' \in Op /\ op'.at = "writing" /\ queue # <<>> /\ Head(queue) # Sweep
  BY <1>1, OpIs DEF Op
<1>3. Sweeping' /\ Rotating'
  BY <1>2 DEF Sweeping, Rotating
<1>4. Disks(disk) /\ 0 \in Slot
  BY Limits DEF IInv
<1>5. CASE disk[0] # Absent
  <2>1. disk' = disk
    BY <1>5 DEF Open
  <2>2. ~MustRotate(disk[0], Head(queue))
    BY <1>1, <1>5 DEF IInv, Writing
  <2>3. Writing'
    <3>1. disk'[0] # Absent /\ ~MustRotate(disk'[0], Head(queue'))
      BY <1>1, <1>5, <2>1, <2>2
    <3> QED BY <1>2, <3>1 DEF Writing, MustRotate, Empty, Complete, Oldest, Bytes, Whole
  <2> QED BY <1>1, <1>2, <1>3, <1>4, <2>1, <2>3, OpKeeps DEF Same
<1>6. CASE disk[0] = Absent
  <2>1. disk' = Active(<<>>)
    BY <1>6 DEF Open, Active
  <2>2. PICK ls \in Seq(Line) : ls = <<>> /\ AllButLast(ls)
    BY NoLines
  <2>2a. SizeOf(ls) = 0 /\ Records(ls) = <<>>
    BY <2>2, SizeIs
  <2>2b. SizeOf(ls) <= MaxFileBytes /\ disk' = Active(ls)
    BY <2>1, <2>2, <2>2a, Limits
  <2>2c. /\ Disks(disk') /\ disk'[0] # Absent /\ disk'[0].lines = ls /\ HeldBy(disk'[0]) = Records(ls)
         /\ \A t \in Slot \ {0} : disk'[t] = disk[t]
    BY <2>2, <2>2b, ActiveIs
  <2>3. /\ Disks(disk') /\ disk'[0] # Absent /\ disk'[0].lines = <<>> /\ HeldBy(disk'[0]) = <<>>
        /\ \A t \in Slot \ {0} : disk'[t] = disk[t]
    BY <2>2, <2>2a, <2>2c
  <2>4. HeldBy(disk'[0]) = HeldBy(disk[0])
    BY <1>6, <2>3 DEF HeldBy
  <2>5. Same
    BY <1>1, <1>4, <2>3, <2>4, TrailStays DEF Same
  <2>6. Writing'
    <3>1. ~MustRotate(disk'[0], Head(queue'))
      BY <2>3 DEF MustRotate, Empty
    <3> QED BY <1>2, <2>3, <3>1 DEF Writing, MustRotate, Empty, Complete, Oldest, Bytes, Whole
  <2> QED BY <1>1, <1>2, <1>3, <2>3, <2>5, <2>6, OpKeeps
<1> QED BY <1>5, <1>6

LEMMA WriteSomeKeeps ==
  ASSUME IInv, WriteSome
  PROVE  IInv' /\ Same
<1>1. /\ op.at = "writing" /\ op' = [at |-> "midway"] /\ queue' = queue
      /\ now' = now /\ next' = next /\ last' = last /\ latest' = latest
  BY DEF WriteSome
<1>2. /\ op' \in Op /\ op'.at = "midway" /\ queue # <<>> /\ Head(queue) # Sweep /\ Head(queue) \in Record
      /\ Disks(disk) /\ disk[0] # Absent /\ 0 \in Slot
  <2>1. op' \in Op /\ op'.at = "midway"
    BY <1>1 DEF Op
  <2>2. Disks(disk) /\ disk[0] # Absent
    BY <1>1 DEF IInv, Writing
  <2> QED BY <1>1, <2>1, <2>2, OpIs, Limits
<1>3. PICK ls \in Seq(Line) : ls = disk[0].lines /\ RoomIn(ls)
  <2>1. RoomIn(disk[0].lines)
    BY <1>1, <1>2, RoomIs
  <2> QED BY <2>1 DEF RoomIn
<1>4. PICK l \in Line : l = [record |-> Head(queue), whole |-> FALSE]
  BY <1>2 DEF Line
<1>5. PICK x : x = Append(ls, l)
  OBVIOUS
<1>6. /\ x \in Seq(Line) /\ AllButLast(x) /\ x # <<>> /\ x[Len(x)] = l
      /\ Records(x) = Records(ls) /\ SizeOf(x) = SizeOf(ls) + 1
  <2>1. AllButLast(ls) /\ Full(ls) = Len(ls)
    BY <1>3 DEF RoomIn
  <2>2. ~l.whole
    BY <1>4
  <2> QED BY <1>5, <2>1, <2>2, LineAdds
<1>7. SizeOf(ls) \in Nat /\ SizeOf(ls) + RecordBytes <= MaxFileBytes
  BY <1>3, SizeIs DEF RoomIn
<1>8. SizeOf(x) <= MaxFileBytes /\ SizeOf(x) - 1 + RecordBytes <= MaxFileBytes
  BY <1>6, <1>7, Limits
<1>9. disk' = Active(x)
  BY <1>3, <1>4, <1>5 DEF WriteSome, Put
<1>10. /\ Disks(disk') /\ disk'[0] # Absent /\ disk'[0].lines = x /\ Bytes(disk'[0]) = SizeOf(x)
       /\ HeldBy(disk'[0]) = Records(x)
       /\ \A t \in Slot \ {0} : disk'[t] = disk[t]
  BY <1>6, <1>8, <1>9, ActiveIs
<1>11. HeldBy(disk'[0]) = HeldBy(disk[0])
  BY <1>3, <1>6, <1>10 DEF RoomIn
<1>12. Same
  BY <1>1, <1>2, <1>10, <1>11, TrailStays DEF Same
<1>13. Writing'
  <2>1. disk'[0].lines # <<>>
    BY <1>6, <1>10
  <2>2. disk'[0].lines[Len(disk'[0].lines)] = [record |-> Head(queue'), whole |-> FALSE]
    BY <1>1, <1>4, <1>6, <1>10
  <2>3. Bytes(disk'[0]) - 1 + RecordBytes <= MaxFileBytes
    BY <1>8, <1>10
  <2> QED BY <1>2, <1>10, <2>1, <2>2, <2>3 DEF Writing, Empty, Bytes, Whole
<1>14. Sweeping' /\ Rotating'
  BY <1>2 DEF Sweeping, Rotating
<1> QED BY <1>1, <1>2, <1>10, <1>12, <1>13, <1>14, OpKeeps

LEMMA WriteAllKeeps ==
  ASSUME IInv, WriteAll
  PROVE  IInv' /\ Stores
<1>1. /\ op.at \in {"writing", "midway"} /\ End /\ last' = Head(queue).n
      /\ now' = now /\ next' = next /\ latest' = latest
  BY DEF WriteAll
<1>2. /\ queue # <<>> /\ Head(queue) # Sweep /\ Head(queue) \in Record
      /\ Disks(disk) /\ disk[0] # Absent /\ 0 \in Slot
  <2>1. Disks(disk) /\ disk[0] # Absent
    BY <1>1 DEF IInv, Writing
  <2> QED BY <1>1, <2>1, OpIs, Limits
<1>3. PICK l \in Line : l = [record |-> Head(queue), whole |-> TRUE]
  BY <1>2 DEF Line
<1>4. PICK ls \in Seq(Line) : RoomIn(ls) /\ disk' = Active(Append(ls, l))
  <2>1. CASE op.at = "writing"
    <3>1. RoomIn(disk[0].lines)
      BY <1>2, <2>1, RoomIs
    <3>2. disk' = Active(Append(disk[0].lines, l))
      BY <1>3, <2>1 DEF WriteAll, Put
    <3> QED BY <3>1, <3>2 DEF RoomIn
  <2>2. CASE op.at = "midway"
    <3>1. /\ RoomIn(Front(disk[0].lines))
          /\ [disk[0].lines EXCEPT ![Len(disk[0].lines)].whole = TRUE] = Append(Front(disk[0].lines), l)
      BY <1>3, <2>2, PartialIs
    <3>2. disk' = Active([disk[0].lines EXCEPT ![Len(disk[0].lines)].whole = TRUE])
      BY <2>2 DEF WriteAll
    <3> QED BY <3>1, <3>2 DEF RoomIn
  <2> QED BY <1>1, <2>1, <2>2
<1>5. PICK x : x = Append(ls, l)
  OBVIOUS
<1>6. /\ x \in Seq(Line) /\ AllButLast(x)
      /\ Adds(Records(x), Records(ls), l.record) /\ SizeOf(x) = SizeOf(ls) + RecordBytes
  <2>1. AllButLast(ls) /\ Full(ls) = Len(ls)
    BY <1>4 DEF RoomIn
  <2>2. l.whole
    BY <1>3
  <2>3. x \in Seq(Line) /\ AllButLast(x)
    BY <1>5, <2>1, LineAdds
  <2>4. l.whole => Adds(Records(x), Records(ls), l.record)
    BY <1>5, <2>1, LineAdds
  <2>5. l.whole => SizeOf(x) = SizeOf(ls) + RecordBytes
    BY <1>5, <2>1, LineAdds
  <2> QED BY <2>2, <2>3, <2>4, <2>5
<1>7. SizeOf(x) <= MaxFileBytes /\ Records(ls) = HeldBy(disk[0])
  BY <1>4, <1>6 DEF RoomIn
<1>8. /\ Disks(disk') /\ HeldBy(disk'[0]) = Records(x)
      /\ \A t \in Slot \ {0} : disk'[t] = disk[t]
  <2>1. disk' = Active(x)
    BY <1>4, <1>5
  <2> QED BY <1>6, <1>7, <2>1, ActiveIs
<1>9. PICK r \in Record : r = Head(queue)
  BY <1>2
<1>10. HeldBy(disk'[0]) = Append(HeldBy(disk[0]), r)
  BY <1>3, <1>6, <1>7, <1>8, <1>9 DEF Adds
<1>11. TrailOf(disk') = Append(TrailOf(disk), r)
  BY <1>2, <1>8, <1>10, TrailGrows
<1>12. last < r.n /\ r.ts <= latest
  <2>1. 1 \in DOMAIN queue /\ queue[1] = r
    <3>1. queue \in Seq(Work) /\ Len(queue) # 0
      BY <1>2, OpIs, EmptySeq
    <3> QED BY <1>9, <3>1
  <2>2. queue[1] # Sweep
    BY <1>2, <1>9, <2>1
  <2> QED BY <2>1, <2>2 DEF IInv, Ordered
<1>13. Stores
  BY <1>1, <1>9, <1>11, <1>12 DEF Stores
<1>14. IInv'
  BY <1>1, <1>2, <1>8, EndKeeps
<1> QED BY <1>13, <1>14

LEMMA RollbackKeeps ==
  ASSUME IInv, Rollback
  PROVE  IInv' /\ Same
<1>1. /\ op.at = "midway" /\ End /\ disk' = Active(Front(disk[0].lines))
      /\ now' = now /\ next' = next /\ last' = last /\ latest' = latest
  BY DEF Rollback
<1>2. queue # <<>> /\ Disks(disk) /\ 0 \in Slot
  BY <1>1, OpIs, Limits DEF IInv
<1>3. PICK ls \in Seq(Line) : ls = Front(disk[0].lines) /\ RoomIn(ls)
  <2>1. RoomIn(Front(disk[0].lines))
    BY <1>1, PartialIs
  <2> QED BY <2>1 DEF RoomIn
<1>4. AllButLast(ls) /\ Records(ls) = HeldBy(disk[0]) /\ SizeOf(ls) <= MaxFileBytes
  <2>1. AllButLast(ls) /\ Records(ls) = HeldBy(disk[0]) /\ SizeOf(ls) + RecordBytes <= MaxFileBytes
    BY <1>3 DEF RoomIn
  <2>2. SizeOf(ls) \in Nat
    BY <2>1, SizeIs
  <2> QED BY <2>1, <2>2, Limits
<1>5. /\ Disks(disk') /\ HeldBy(disk'[0]) = HeldBy(disk[0])
      /\ \A t \in Slot \ {0} : disk'[t] = disk[t]
  <2>1. disk' = Active(ls)
    BY <1>1, <1>3
  <2>2. /\ Disks(disk') /\ HeldBy(disk'[0]) = Records(ls)
        /\ \A t \in Slot \ {0} : disk'[t] = disk[t]
    BY <1>4, <2>1, ActiveIs
  <2> QED BY <1>4, <2>2
<1>6. Same
  BY <1>1, <1>2, <1>5, TrailStays DEF Same
<1>7. IInv'
  BY <1>1, <1>2, <1>5, EndKeeps
<1> QED BY <1>6, <1>7

\* The queue gets longer.
LEMMA QueueKeeps ==
  ASSUME IInv, NEW w \in Work, Len(queue) < MaxPending, queue' = Append(queue, w),
         disk' = disk, op' = op, now' = now, latest' = latest, last' = last,
         next' \in 1..(MaxRecords + 1), next <= next',
         w # Sweep => w.n = next /\ w.ts = now /\ next < next'
  PROVE  IInv' /\ Same
<1>1. TypeOK /\ queue \in Seq(Work) /\ op \in Op
  BY DEF IInv, TypeOK
<1>2. PICK k \in Nat : k = Len(queue)
  BY <1>1, LenProperties
<1>3. /\ queue' \in Seq(Work) /\ Len(queue') = k + 1 /\ queue'[k + 1] = w
      /\ \A i \in 1..k : queue'[i] = queue[i]
      /\ DOMAIN queue' = 1..(k + 1) /\ DOMAIN queue = 1..k
  <2>1. /\ queue' \in Seq(Work) /\ Len(queue') = k + 1 /\ queue'[k + 1] = w
        /\ \A i \in 1..k : queue'[i] = queue[i]
    BY <1>1, <1>2, AppendProperties
  <2> QED BY <1>1, <1>2, <2>1, LenProperties
<1>4. queue # <<>> => Head(queue') = Head(queue)
  <2>1. SUFFICES ASSUME queue # <<>> PROVE Head(queue') = Head(queue)
    OBVIOUS
  <2>2. 1 \in 1..k /\ queue' # <<>>
    BY <1>1, <1>2, <1>3, <2>1, EmptySeq
  <2>3. Head(queue) = queue[1] /\ Head(queue') = queue'[1]
    BY <1>1, <1>3, <2>1, <2>2
  <2> QED BY <1>3, <2>2, <2>3
<1>5. queue' # <<>>
  BY <1>2, <1>3, EmptySeq
<1>6. op.at # "rest" => queue # <<>>
  BY <1>1 DEF TypeOK
<1>7. TypeOK'
  <2>1. op'.at \notin {"rest", "sweeping"} => Head(queue') # Sweep
    BY <1>1, <1>4, <1>6 DEF TypeOK
  <2>2. Len(queue') <= MaxPending
    BY <1>2, <1>3, Limits
  <2>3. /\ disk' \in [Slot -> File \cup {Absent}] /\ op' \in Op /\ now' \in Time
        /\ last' \in 0..MaxRecords /\ latest' \in Time
    BY <1>1 DEF TypeOK
  <2> QED BY <1>3, <1>5, <2>1, <2>2, <2>3 DEF TypeOK
<1>8. Ordered'
  <2>1. Ordered /\ now \in Nat /\ latest \in Nat /\ next \in Nat /\ last \in Nat /\ next' \in Nat
    BY <1>1, CountersAre, Limits DEF IInv
  <2>2. \A i \in 1..k : queue[i] # Sweep =>
          last < queue[i].n /\ queue[i].n < next /\ queue[i].ts <= latest /\ queue[i].n \in Nat
    <3> TAKE i \in 1..k
    <3>1. queue[i] \in Work
      BY <1>1, <1>2, ElementOfSeq
    <3>2. queue[i] # Sweep => queue[i].n \in Nat
      BY <3>1, WorkIs, RecordIs
    <3> QED BY <1>3, <2>1, <3>2 DEF Ordered
  <2>3. \A i \in 1..(k + 1) : queue'[i] # Sweep =>
          last' < queue'[i].n /\ queue'[i].n < next' /\ queue'[i].ts <= latest'
    <3> TAKE i \in 1..(k + 1)
    <3>1. CASE i = k + 1
      <4>1. queue'[i] = w
        BY <1>3, <3>1
      <4>2. w # Sweep => last < w.n /\ w.n < next' /\ w.ts <= latest
        BY <2>1 DEF Ordered
      <4> QED BY <4>1, <4>2
    <3>2. CASE i \in 1..k
      <4>1. queue'[i] = queue[i]
        BY <1>3, <3>2
      <4>2. queue[i] # Sweep => last < queue[i].n /\ queue[i].n < next' /\ queue[i].ts <= latest
        <5> SUFFICES ASSUME queue[i] # Sweep
                     PROVE  last < queue[i].n /\ queue[i].n < next' /\ queue[i].ts <= latest
          OBVIOUS
        <5>1. last < queue[i].n /\ queue[i].n < next /\ queue[i].ts <= latest /\ queue[i].n \in Nat
          BY <2>2, <3>2
        <5>2. PICK n \in Nat : n = queue[i].n
          BY <5>1
        <5>3. n < next'
          BY <2>1, <5>1, <5>2
        <5> QED BY <5>1, <5>2, <5>3
      <4> QED BY <4>1, <4>2
    <3>3. i = k + 1 \/ i \in 1..k
      OBVIOUS
    <3> QED BY <3>1, <3>2, <3>3
  <2>4. \A i, j \in 1..(k + 1) :
          i < j /\ queue'[i] # Sweep /\ queue'[j] # Sweep => queue'[i].n < queue'[j].n
    <3> SUFFICES ASSUME NEW i \in 1..(k + 1), NEW j \in 1..(k + 1), i < j, queue'[i] # Sweep, queue'[j] # Sweep
                 PROVE  queue'[i].n < queue'[j].n
      OBVIOUS
    <3>1. i \in 1..k /\ queue'[i] = queue[i] /\ queue[i] # Sweep
      BY <1>3
    <3>2. CASE j = k + 1
      <4>1. queue'[j] = w /\ w # Sweep
        BY <1>3, <3>2
      <4>2. w.n = next
        BY <4>1
      <4>3. queue[i].n < next
        BY <2>2, <3>1
      <4> QED BY <3>1, <4>1, <4>2, <4>3
    <3>3. CASE j \in 1..k
      <4>1. queue'[j] = queue[j]
        BY <1>3, <3>3
      <4>2. queue[i].n < queue[j].n
        BY <1>3, <2>1, <3>1, <3>3, <4>1 DEF Ordered
      <4> QED BY <3>1, <4>1, <4>2
    <3>4. j = k + 1 \/ j \in 1..k
      OBVIOUS
    <3> QED BY <3>2, <3>3, <3>4
  <2>5. now' <= latest' /\ last' < next'
    BY <2>1 DEF Ordered
  <2> QED BY <1>3, <2>3, <2>4, <2>5 DEF Ordered
<1>9. Disks(disk)' /\ Sweeping' /\ Rotating'
  BY DEF IInv, Disks, Segment, Sweeping, Rotating, Readable, Oldest, Empty, Bytes, Whole
<1>10. Writing'
  <2>1. CASE op.at = "rest"
    BY <2>1 DEF Writing
  <2>2. CASE op.at # "rest"
    <3>1. Head(queue') = Head(queue) /\ disk' = disk /\ op' = op
      BY <1>4, <1>6, <2>2
    <3>2. Writing
      BY DEF IInv
    <3> QED BY <3>1, <3>2 DEF Writing, MustRotate, Empty, Complete, Oldest, Bytes, Whole
  <2> QED BY <2>1, <2>2
<1>11. Same
  BY DEF Same
<1> QED BY <1>7, <1>8, <1>9, <1>10, <1>11 DEF IInv

LEMMA WriteKeeps ==
  ASSUME IInv, Write
  PROVE  IInv' /\ Same
<1>1. PICK w : w = [n |-> next, ts |-> now]
  OBVIOUS
<1>2. next \in 1..MaxRecords /\ now \in Time
  BY Limits DEF IInv, TypeOK, Write
<1>3. w \in Record /\ w.n = next /\ w.ts = now
  BY <1>1, <1>2 DEF Record
<1>4. w \in Work
  BY <1>3 DEF Work
<1>5. next' \in 1..(MaxRecords + 1) /\ next < next' /\ next <= next'
  BY <1>2, Limits DEF Write
<1>6. /\ Len(queue) < MaxPending /\ queue' = Append(queue, w) /\ disk' = disk /\ op' = op /\ now' = now
      /\ last' = last /\ latest' = latest
  BY <1>1 DEF Write
<1> QED BY <1>3, <1>4, <1>5, <1>6, QueueKeeps

LEMMA MaintainKeeps ==
  ASSUME IInv, Maintain
  PROVE  IInv' /\ Same
<1>1. PICK w : w = Sweep
  OBVIOUS
<1>2. w \in Work
  BY <1>1 DEF Work
<1>3. next' = next /\ next \in 1..(MaxRecords + 1) /\ next <= next
  BY Limits DEF IInv, TypeOK, Maintain
<1>4. /\ Len(queue) < MaxPending /\ queue' = Append(queue, w) /\ disk' = disk /\ op' = op /\ now' = now
      /\ last' = last /\ latest' = latest
  BY <1>1 DEF Maintain
<1> QED BY <1>1, <1>2, <1>3, <1>4, QueueKeeps

LEMMA CrashKeeps ==
  ASSUME IInv, Crash
  PROVE  IInv' /\ Same
<1>1. /\ queue' = <<>> /\ op' = Rest /\ disk' = disk /\ now' = now /\ next' = next /\ last' = last
      /\ latest' = latest
  BY DEF Crash
<1>2. TypeOK'
  <2>1. TypeOK
    BY DEF IInv
  <2>2. queue' \in Seq(Work) /\ Len(queue') <= MaxPending
    BY <1>1, EmptySeq, Limits
  <2>3. /\ disk' \in [Slot -> File \cup {Absent}] /\ now' \in Time /\ next' \in 1..(MaxRecords + 1)
        /\ last' \in 0..MaxRecords /\ latest' \in Time
    BY <1>1, <2>1 DEF TypeOK
  <2> QED BY <1>1, <2>2, <2>3, RestIs DEF TypeOK
<1>3. Ordered'
  <2>1. DOMAIN queue' = {}
    BY <1>1
  <2> QED BY <1>1, <2>1 DEF IInv, Ordered
<1>4. Disks(disk)'
  BY <1>1 DEF IInv, Disks, Segment, Bytes, Whole
<1>5. Sweeping' /\ Rotating' /\ Writing'
  BY <1>1, RestIs DEF Sweeping, Rotating, Writing
<1>6. Same
  BY <1>1 DEF Same
<1> QED BY <1>2, <1>3, <1>4, <1>5, <1>6 DEF IInv

\* The clock shows a time it has not shown, or one it has.
Clocks == TrailOf(disk') = TrailOf(disk) /\ last' = last /\ latest < latest' /\ latest' \in Time

LEMMA SetClockKeeps ==
  ASSUME IInv, SetClock
  PROVE  IInv' /\ (Same \/ Clocks)
<1>1. PICK t \in Time : now' = t /\ latest' = Max({latest, t})
  BY DEF SetClock
<1>2. /\ disk' = disk /\ queue' = queue /\ op' = op /\ next' = next /\ last' = last
  BY DEF SetClock
<1>3. latest \in Nat /\ t \in Nat /\ latest \in Time
  BY CountersAre, Limits DEF IInv, TypeOK, Time
<1>4. latest' \in {latest, t} /\ latest <= latest' /\ t <= latest'
  <2>1. \E x \in {latest, t} : \A y \in {latest, t} : x >= y
    BY <1>3
  <2>2. latest' = CHOOSE x \in {latest, t} : \A y \in {latest, t} : x >= y
    BY <1>1 DEF Max
  <2> QED BY <1>3, <2>1, <2>2
<1>5. latest' \in Time /\ latest' \in Nat
  BY <1>3, <1>4
<1>6. TypeOK'
  <2>1. TypeOK
    BY DEF IInv
  <2>2. /\ disk' \in [Slot -> File \cup {Absent}] /\ queue' \in Seq(Work) /\ Len(queue') <= MaxPending /\ op' \in Op
        /\ now' \in Time /\ next' \in 1..(MaxRecords + 1)
        /\ last' \in 0..MaxRecords /\ latest' \in Time
    BY <1>1, <1>2, <1>5, <2>1 DEF TypeOK
  <2>3. /\ op'.at # "rest" => queue' # <<>>
        /\ op'.at \notin {"rest", "sweeping"} => Head(queue') # Sweep
    BY <1>2, <2>1 DEF TypeOK
  <2> QED BY <2>2, <2>3 DEF TypeOK
<1>7. Ordered'
  <2>1. \A i \in DOMAIN queue : queue[i] # Sweep => queue[i].ts <= latest'
    <3> TAKE i \in DOMAIN queue
    <3>1. queue \in Seq(Work)
      BY DEF IInv, TypeOK
    <3>2. queue[i] \in Work
      BY <3>1, ElementOfSeq, LenProperties
    <3>3. queue[i] # Sweep => queue[i].ts \in Nat
      BY <3>2, WorkIs, RecordIs
    <3>4. queue[i] # Sweep => queue[i].ts <= latest
      BY DEF IInv, Ordered
    <3> QED BY <1>3, <1>4, <1>5, <3>3, <3>4
  <2> QED BY <1>1, <1>2, <1>4, <2>1 DEF IInv, Ordered
<1>8. Sweeping'
  <2> SUFFICES ASSUME op.at = "sweeping" PROVE Sweeping'
    BY <1>2 DEF Sweeping
  <2>1. \A s \in Slot : disk'[s] # Absent => Readable(disk'[s])
    BY <1>2 DEF IInv, Sweeping
  <2>2. \A s \in op'.doomed : disk'[s] # Absent /\ Oldest(disk'[s]) + MaxAge <= latest'
    <3> TAKE s \in op'.doomed
    <3>1. s \in Slot /\ s \in op.doomed
      BY <1>2, OpIs
    <3>2. disk[s] # Absent /\ Oldest(disk[s]) + MaxAge <= latest
      BY <3>1 DEF IInv, Sweeping
    <3>3. Oldest(disk[s]) \in Nat
      BY <3>1, <3>2, HeldIs, OldestIs DEF IInv
    <3>4. Oldest(disk[s]) + MaxAge <= latest'
      BY <1>3, <1>4, <1>5, <3>2, <3>3, Limits
    <3> QED BY <1>2, <3>2, <3>4
  <2> QED BY <2>1, <2>2 DEF Sweeping, Readable, Oldest, Empty
<1>9. Disks(disk)' /\ Rotating' /\ Writing'
  <2>1. Disks(disk) /\ Rotating /\ Writing
    BY DEF IInv
  <2> QED BY <1>2, <2>1 DEF Disks, Segment, Rotating, Writing, MustRotate, Readable, Empty, Complete, Oldest, Bytes, Whole
<1>10. Same \/ Clocks
  BY <1>2, <1>3, <1>4, <1>5 DEF Same, Clocks
<1> QED BY <1>6, <1>7, <1>8, <1>9, <1>10 DEF IInv

LEMMA StepKeeps ==
  ASSUME IInv, [Next]_vars
  PROVE  IInv' /\ (Same \/ Stores \/ MakesRoom \/ Expires \/ Clocks)
<1>1. CASE Write
  BY <1>1, WriteKeeps
<1>2. CASE Maintain
  BY <1>2, MaintainKeeps
<1>3. CASE Begin
  BY <1>3, BeginKeeps
<1>4. CASE Unlink
  BY <1>4, UnlinkKeeps
<1>5. CASE EndSweep \/ Fail
  BY <1>5, EndSweepKeeps
<1>6. CASE Prepare
  BY <1>6, PrepareKeeps
<1>7. CASE Rotate
  BY <1>7, RotateKeeps
<1>8. CASE Open
  BY <1>8, OpenKeeps
<1>9. CASE WriteSome
  BY <1>9, WriteSomeKeeps
<1>10. CASE WriteAll
  BY <1>10, WriteAllKeeps
<1>11. CASE Rollback
  BY <1>11, RollbackKeeps
<1>12. CASE Crash
  BY <1>12, CrashKeeps
<1>13. CASE SetClock
  BY <1>13, SetClockKeeps
<1>14. CASE UNCHANGED vars
  <2>1. Same
    BY <1>14 DEF vars, Same
  <2>2. TypeOK' /\ Disks(disk)' /\ Ordered'
    BY <1>14 DEF IInv, vars, TypeOK, Disks, Segment, Bytes, Whole, Ordered
  <2>3. Sweeping' /\ Rotating' /\ Writing'
    BY <1>14 DEF IInv, vars, Sweeping, Rotating, Writing, MustRotate, Readable, Empty, Complete, Oldest, Bytes, Whole
  <2> QED BY <2>1, <2>2, <2>3 DEF IInv
<1> QED BY <1>1, <1>2, <1>3, <1>4, <1>5, <1>6, <1>7, <1>8, <1>9, <1>10, <1>11, <1>12, <1>13, <1>14 DEF Next, Step

LEMMA Starts ==
  ASSUME Init
  PROVE  IInv
<1>1. /\ disk = [s \in Slot |-> Absent] /\ queue = <<>> /\ op = Rest /\ now = 0 /\ next = 1
      /\ last = 0 /\ latest = 0
  BY DEF Init
<1>2. TypeOK
  <2>1. queue \in Seq(Work) /\ Len(queue) <= MaxPending
    BY <1>1, EmptySeq, Limits
  <2>2. 0 \in Time /\ 1 \in 1..(MaxRecords + 1) /\ 0 \in 0..MaxRecords
    BY Limits DEF Time
  <2>3. disk \in [Slot -> File \cup {Absent}]
    BY <1>1
  <2> QED BY <1>1, <2>1, <2>2, <2>3, RestIs DEF TypeOK
<1>3. Disks(disk)
  BY <1>1 DEF Disks
<1>4. Ordered
  BY <1>1 DEF Ordered
<1>5. Sweeping /\ Rotating /\ Writing
  BY <1>1, RestIs DEF Sweeping, Rotating, Writing
<1> QED BY <1>2, <1>3, <1>4, <1>5 DEF IInv
-----------------------------------------------------------------------------
(* The theorems.                                                            *)

\* The inductive invariant of the queue, its operation and the files.
THEOREM Invariance == Spec => []IInv
<1>1. Init => IInv
  BY Starts
<1>2. IInv /\ [Next]_vars => IInv'
  BY StepKeeps
<1> QED BY <1>1, <1>2, PTL DEF Spec

\* Whatever fails or crashes, a partial record stays the last line of its file and no
\* file outgrows its limit: rotatingAuditFile.ts never writes behind what it could not
\* finish.
THEOREM SegmentsAreWhole == Spec => []SegmentsWhole
<1>1. IInv => SegmentsWhole
  BY DEF IInv, Disks, Segment, AllButLast, SegmentsWhole, Present
<1> QED BY <1>1, Invariance, PTL

LEMMA TrailIs == Trail = TrailOf(disk)
BY DEF Trail, Held, TrailOf, PartsOf, HeldBy

LEMMA TrailWillBe == Trail' = TrailOf(disk')
BY DEF Trail, Held, TrailOf, PartsOf, HeldBy, Whole

\* Without files there is no trail.
LEMMA NoTrail ==
  ASSUME NEW d, Disks(d), \A s \in Slot : d[s] = Absent
  PROVE  TrailOf(d) = <<>>
<1>1. PICK ss : ss = PartsOf(d)
  OBVIOUS
<1>2. /\ ss \in Seq(Seq(Record)) /\ Len(ss) = MaxFiles
      /\ \A i \in 1..MaxFiles : MaxFiles - i \in Slot /\ ss[i] = HeldBy(d[MaxFiles - i])
  BY <1>1, PartsAre
<1>3. \A i \in 1..MaxFiles : ss[i] = <<>>
  BY <1>2 DEF HeldBy
<1>4. PICK f : Runs(f, ss, Record)
  BY <1>2, FlattenRuns
<1> DEFINE P == {i \in Nat : i <= MaxFiles => f[i] = <<>>}
<1>5. 0 \in P
  BY <1>4 DEF Runs
<1>6. ASSUME NEW i \in P PROVE i + 1 \in P
  <2> SUFFICES ASSUME i + 1 <= MaxFiles PROVE f[i + 1] = <<>>
    OBVIOUS
  <2>1. i + 1 \in 1..Len(ss) /\ i + 1 \in 1..MaxFiles /\ (i + 1) - 1 = i /\ i <= MaxFiles
    BY <1>2, Limits
  <2>2. f[i + 1] = f[i] \o ss[i + 1]
    BY <1>4, <2>1 DEF Runs
  <2>3. f[i] = <<>> /\ ss[i + 1] = <<>>
    BY <1>3, <2>1
  <2> QED BY <2>2, <2>3
<1>7. f[MaxFiles] = <<>>
  <2>1. P = Nat
    <3>1. P \subseteq Nat
      OBVIOUS
    <3> HIDE DEF P
    <3> QED BY <1>5, <1>6, <3>1, Induction
  <2> QED BY <2>1, Limits
<1> QED BY <1>1, <1>2, <1>4, <1>7 DEF Runs, TrailOf

LEMMA StepIsOfTrail ==
  ASSUME IInv, IInv', Same \/ Stores \/ MakesRoom \/ Expires \/ Clocks
  PROVE  [AuditTrail!Next]_AuditTrail!vars
<1>1. CASE Same
  BY <1>1, TrailIs, TrailWillBe DEF Same, AuditTrail!vars
<1>2. CASE Stores
  <2>1. PICK r \in Record : /\ last' = r.n /\ last < r.n /\ r.ts <= latest
                            /\ TrailOf(disk') = Append(TrailOf(disk), r) /\ latest' = latest
    BY <1>2 DEF Stores
  <2>2. last \in Nat /\ latest \in Nat
    BY CountersAre DEF IInv
  <2>3. r.n \in 1..MaxRecords /\ r.ts \in Nat /\ r = [n |-> r.n, ts |-> r.ts]
    BY RecordIs
  <2>4. last' \in (last + 1)..MaxRecords
    <3>1. PICK n \in 1..MaxRecords : n = r.n
      BY <2>3
    <3>2. last < n /\ last' = n
      BY <2>1, <3>1
    <3> QED BY <2>2, <3>1, <3>2, Limits
  <2>4a. r.ts \in 0..latest
    BY <2>1, <2>2, <2>3
  <2>5. Trail' = Append(Trail, [n |-> last', ts |-> r.ts])
    BY <2>1, <2>3, TrailIs, TrailWillBe
  <2> QED BY <2>1, <2>4, <2>4a, <2>5 DEF AuditTrail!Next, AuditTrail!Store
<1>3. CASE MakesRoom
  <2>1. PICK j \in DOMAIN TrailOf(disk) : Goes(1, j) /\ (MaxFiles > 1 => j < Len(TrailOf(disk)))
    BY <1>3 DEF MakesRoom
  <2>2. PICK T : T = Trail
    OBVIOUS
  <2>3. PICK U : U = Trail'
    OBVIOUS
  <2>4. /\ j \in DOMAIN T /\ CutFrom(T, U, 1, j) /\ 1 <= j /\ j < 1 + PerFile /\ (MaxFiles > 1 => j < Len(T))
        /\ last' = last /\ latest' = latest
    BY <2>1, <2>2, <2>3, TrailIs, TrailWillBe DEF Goes
  <2>5. AuditTrail!Cut(1, j)
    BY <2>2, <2>3, <2>4 DEF CutFrom, PerFile, AuditTrail!Cut
  <2> QED BY <2>2, <2>4, <2>5 DEF AuditTrail!Next, AuditTrail!MakeRoom
<1>4. CASE Expires
  <2>1. PICK i \in DOMAIN TrailOf(disk), j \in DOMAIN TrailOf(disk) :
          Goes(i, j) /\ TrailOf(disk)[i].ts + MaxAge <= latest
    BY <1>4 DEF Expires
  <2>2. PICK T : T = Trail
    OBVIOUS
  <2>3. PICK U : U = Trail'
    OBVIOUS
  <2>4. /\ i \in DOMAIN T /\ j \in DOMAIN T /\ CutFrom(T, U, i, j) /\ i <= j /\ j < i + PerFile
        /\ T[i].ts + MaxAge <= latest
        /\ last' = last /\ latest' = latest
    BY <2>1, <2>2, <2>3, TrailIs, TrailWillBe DEF Goes
  <2>5. AuditTrail!Cut(i, j)
    BY <2>2, <2>3, <2>4 DEF CutFrom, PerFile, AuditTrail!Cut
  <2> QED BY <2>2, <2>4, <2>5 DEF AuditTrail!Next, AuditTrail!Expire
<1>5. CASE Clocks
  <2>1. latest \in Nat
    BY CountersAre DEF IInv
  <2>2. latest' \in (latest + 1)..MaxTime
    BY <1>5, <2>1, Limits DEF Clocks, Time
  <2>3. Trail' = Trail /\ last' = last
    BY <1>5, TrailIs, TrailWillBe DEF Clocks
  <2> QED BY <2>2, <2>3 DEF AuditTrail!Next, AuditTrail!Clock
<1> QED BY <1>1, <1>2, <1>3, <1>4, <1>5

\* What can be read back from the files, through rotation, sweeps, failures and crashes
\* between any two of their steps, is a trail as AuditTrail promises it: every step of
\* rotatingAuditFile.ts stores one record at its end, cuts one file's records out, or
\* leaves it alone.
THEOREM TrailIsKept == Spec => TrailKept
<1>1. Init => AuditTrail!Init
  <2> SUFFICES ASSUME Init PROVE AuditTrail!Init
    OBVIOUS
  <2>1. \A s \in Slot : disk[s] = Absent
    BY DEF Init
  <2>2. TrailOf(disk) = <<>>
    BY <2>1, Starts, NoTrail DEF IInv
  <2> QED BY <2>2, TrailIs DEF Init, AuditTrail!Init
<1>2. IInv /\ [Next]_vars => [AuditTrail!Next]_AuditTrail!vars
  BY StepKeeps, StepIsOfTrail
<1> QED BY <1>1, <1>2, Invariance, PTL DEF Spec, TrailKept, AuditTrail!Spec

-----------------------------------------------------------------------------
(* What AuditTrail implies, and so the files keep to as well.               *)

TrailRecord == [n : Nat, ts : Nat]

Sorted(t, l) == /\ t \in Seq(TrailRecord)
                /\ \A i, j \in DOMAIN t : i < j => t[i].n < t[j].n
                /\ \A i \in DOMAIN t : t[i].n <= l

OrderKept == Sorted(Trail, last) /\ last \in Nat /\ latest \in Nat

\* Of a sorted trail with a part cut out, each record was there, in the same order.
LEMMA CutIsSorted ==
  ASSUME NEW t, NEW l, Sorted(t, l), NEW i \in DOMAIN t, NEW j \in DOMAIN t, i <= j,
         NEW u, CutFrom(t, u, i, j)
  PROVE  /\ Sorted(u, l)
         /\ \A q \in DOMAIN u : \E p \in DOMAIN t : t[p] = u[q]
<1>1. PICK k \in Nat : k = Len(t) /\ DOMAIN t = 1..k
  BY LenProperties DEF Sorted
<1>2. i \in 1..k /\ j \in 1..k /\ i - 1 \in Nat /\ k - j \in Nat
  BY <1>1
<1> DEFINE a == SubSeq(t, 1, i - 1)
           b == SubSeq(t, j + 1, k)
<1>3. a \in Seq(TrailRecord) /\ Len(a) = i - 1 /\ \A p \in 1..(i - 1) : a[p] = t[p]
  <2>1. PICK m \in Nat : m = i - 1 /\ m <= k
    BY <1>2
  <2>2. /\ SubSeq(t, 1, m) \in Seq(TrailRecord) /\ Len(SubSeq(t, 1, m)) = m - 1 + 1
        /\ \A p \in 1..(m - 1 + 1) : SubSeq(t, 1, m)[p] = t[1 + p - 1]
    BY <1>1, <2>1, Slice DEF Sorted
  <2>3. m - 1 + 1 = m /\ \A p \in 1..m : 1 + p - 1 = p
    BY <2>1
  <2> QED BY <2>1, <2>2, <2>3
<1>4. b \in Seq(TrailRecord) /\ Len(b) = k - j /\ \A p \in 1..(k - j) : b[p] = t[j + p]
  <2>1. PICK m \in Nat : m = j + 1 /\ 0 < m /\ m <= k + 1
    BY <1>2
  <2>2. /\ SubSeq(t, m, k) \in Seq(TrailRecord) /\ Len(SubSeq(t, m, k)) = k - m + 1
        /\ \A p \in 1..(k - m + 1) : SubSeq(t, m, k)[p] = t[m + p - 1]
    BY <1>1, <2>1, Slice DEF Sorted
  <2>3. k - m + 1 = k - j /\ \A p \in 1..(k - j) : m + p - 1 = j + p
    BY <1>2, <2>1
  <2> QED BY <2>1, <2>2, <2>3
<1> HIDE DEF a, b
<1>5. u = a \o b
  BY <1>1 DEF CutFrom, a, b
<1>6. /\ u \in Seq(TrailRecord) /\ DOMAIN u = 1..((i - 1) + (k - j))
      /\ \A p \in 1..((i - 1) + (k - j)) : u[p] = IF p <= i - 1 THEN a[p] ELSE b[p - (i - 1)]
  <2>1. /\ a \o b \in Seq(TrailRecord) /\ Len(a \o b) = Len(a) + Len(b)
        /\ \A p \in 1..(Len(a) + Len(b)) : (a \o b)[p] = IF p <= Len(a) THEN a[p] ELSE b[p - Len(a)]
    BY <1>3, <1>4, ConcatProperties
  <2> QED BY <1>3, <1>4, <1>5, <2>1, LenProperties
<1> DEFINE From(p) == IF p <= i - 1 THEN p ELSE j + (p - (i - 1))
<1>7. ASSUME NEW p \in DOMAIN u
      PROVE  From(p) \in 1..k /\ u[p] = t[From(p)] /\ p \in Nat
  <2>1. p \in 1..((i - 1) + (k - j))
    BY <1>6
  <2>2. CASE p <= i - 1
    BY <1>2, <1>3, <1>6, <2>1, <2>2
  <2>3. CASE ~(p <= i - 1)
    <3>1. PICK q \in 1..(k - j) : q = p - (i - 1)
      BY <1>2, <2>1, <2>3
    <3>2. u[p] = b[q] /\ b[q] = t[j + q]
      BY <1>4, <1>6, <2>1, <2>3, <3>1
    <3>3. j + q \in 1..k /\ From(p) = j + q
      BY <1>2, <2>3, <3>1
    <3> QED BY <2>1, <3>2, <3>3
  <2> QED BY <2>2, <2>3
<1>8. ASSUME NEW p \in DOMAIN u, NEW q \in DOMAIN u, p < q
      PROVE  From(p) < From(q)
  <2>1. p \in Nat /\ q \in Nat
    BY <1>7
  <2> QED BY <1>2, <1>8, <2>1
<1> HIDE DEF From
<1>9. \A q \in DOMAIN u : \E p \in DOMAIN t : t[p] = u[q]
  BY <1>1, <1>7
<1>10. \A p, q \in DOMAIN u : p < q => u[p].n < u[q].n
  BY <1>1, <1>7, <1>8 DEF Sorted
<1>11. \A p \in DOMAIN u : u[p].n <= l
  BY <1>1, <1>7 DEF Sorted
<1> QED BY <1>6, <1>9, <1>10, <1>11 DEF Sorted

\* A record that is newer than all of a sorted trail goes to its end.
LEMMA StoreIsSorted ==
  ASSUME NEW t, NEW l \in Nat, Sorted(t, l), NEW r \in TrailRecord, l < r.n, NEW u, u = Append(t, r)
  PROVE  /\ Sorted(u, r.n)
         /\ \A q \in DOMAIN u : (\E p \in DOMAIN t : t[p] = u[q]) \/ u[q].n > l
<1>1. PICK k \in Nat : k = Len(t) /\ DOMAIN t = 1..k
  BY LenProperties DEF Sorted
<1>2. /\ u \in Seq(TrailRecord) /\ DOMAIN u = 1..(k + 1)
      /\ u[k + 1] = r /\ \A p \in 1..k : u[p] = t[p]
  BY <1>1, AppendProperties, LenProperties DEF Sorted
<1>3. \A p \in 1..k : t[p] \in TrailRecord /\ t[p].n \in Nat /\ t[p].n <= l
  <2>1. t \in Seq(TrailRecord) /\ \A p \in 1..k : t[p].n <= l
    BY <1>1 DEF Sorted
  <2>2. \A p \in 1..k : t[p] \in TrailRecord
    BY <1>1, <2>1, ElementOfSeq
  <2> QED BY <2>1, <2>2 DEF TrailRecord
<1>4. r.n \in Nat
  BY DEF TrailRecord
<1>5. \A p, q \in DOMAIN u : p < q => u[p].n < u[q].n
  <2> SUFFICES ASSUME NEW p \in 1..(k + 1), NEW q \in 1..(k + 1), p < q PROVE u[p].n < u[q].n
    BY <1>2
  <2>1. p \in 1..k
    OBVIOUS
  <2>2. CASE q = k + 1
    BY <1>2, <1>3, <1>4, <2>1, <2>2
  <2>3. CASE q \in 1..k
    <3>1. t[p].n < t[q].n
      BY <1>1, <2>1, <2>3 DEF Sorted
    <3>2. u[p] = t[p] /\ u[q] = t[q]
      BY <1>2, <2>1, <2>3
    <3> QED BY <3>1, <3>2
  <2>4. q = k + 1 \/ q \in 1..k
    OBVIOUS
  <2> QED BY <2>2, <2>3, <2>4
<1>6. \A p \in DOMAIN u : u[p].n <= r.n
  BY <1>2, <1>3, <1>4
<1>7. \A q \in DOMAIN u : (\E p \in DOMAIN t : t[p] = u[q]) \/ u[q].n > l
  <2> TAKE q \in DOMAIN u
  <2>1. CASE q = k + 1
    BY <1>2, <1>4, <2>1
  <2>2. CASE q \in 1..k
    BY <1>1, <1>2, <2>2
  <2> QED BY <1>1, <1>2, <2>1, <2>2
<1> QED BY <1>2, <1>5, <1>6, <1>7 DEF Sorted

\* Each step of AuditTrail keeps the order and brings in nothing old.
Entering(t, u, l) == \A q \in DOMAIN u : (\E p \in DOMAIN t : t[p] = u[q]) \/ u[q].n > l

LEMMA TrailStepKeeps ==
  ASSUME OrderKept, AuditTrail!Next
  PROVE  OrderKept' /\ Entering(Trail, Trail', last)
<1>1. PICK t : t = Trail
  OBVIOUS
<1>2. PICK u : u = Trail'
  OBVIOUS
<1>3. PICK l \in Nat : l = last
  BY DEF OrderKept
<1>4. Sorted(t, l)
  BY <1>1, <1>3 DEF OrderKept
<1>5. latest' \in Nat
  <2>1. latest \in Nat
    BY DEF OrderKept
  <2>2. CASE AuditTrail!Clock
    BY <2>1, <2>2, Limits DEF AuditTrail!Clock
  <2>3. CASE ~AuditTrail!Clock
    BY <2>1, <2>3 DEF AuditTrail!Next, AuditTrail!Store, AuditTrail!MakeRoom, AuditTrail!Expire
  <2> QED BY <2>2, <2>3
<1>6. Sorted(u, last') /\ last' \in Nat /\ Entering(t, u, l)
  <2>1. CASE AuditTrail!Store
    <3>1. PICK ts \in 0..latest : u = Append(t, [n |-> last', ts |-> ts])
      BY <1>1, <1>2, <2>1 DEF AuditTrail!Store
    <3>2. PICK m \in Nat : m = last' /\ l < m
      BY <1>3, <2>1 DEF AuditTrail!Store
    <3>3. [n |-> m, ts |-> ts] \in TrailRecord
      BY <3>1, <3>2 DEF OrderKept, TrailRecord
    <3>4. PICK r \in TrailRecord : r = [n |-> m, ts |-> ts] /\ r.n = m
      BY <3>3
    <3> QED BY <1>4, <3>1, <3>2, <3>4, StoreIsSorted DEF Entering
  <2>2. CASE AuditTrail!MakeRoom
    <3>1. PICK j \in DOMAIN t : AuditTrail!Cut(1, j)
      BY <1>1, <2>2 DEF AuditTrail!MakeRoom
    <3>2. CutFrom(t, u, 1, j) /\ 1 <= j
      BY <1>1, <1>2, <3>1 DEF AuditTrail!Cut, CutFrom
    <3>3. 1 \in DOMAIN t
      BY <1>4, <3>2, LenProperties DEF Sorted
    <3>4. last' = last
      BY <2>2 DEF AuditTrail!MakeRoom
    <3> QED BY <1>3, <1>4, <3>2, <3>3, <3>4, CutIsSorted DEF Entering
  <2>3. CASE AuditTrail!Expire
    <3>1. PICK i \in DOMAIN t, j \in DOMAIN t : AuditTrail!Cut(i, j)
      BY <1>1, <2>3 DEF AuditTrail!Expire
    <3>2. CutFrom(t, u, i, j) /\ i <= j
      BY <1>1, <1>2, <3>1 DEF AuditTrail!Cut, CutFrom
    <3>3. last' = last
      BY <2>3 DEF AuditTrail!Expire
    <3> QED BY <1>3, <1>4, <3>2, <3>3, CutIsSorted DEF Entering
  <2>4. CASE AuditTrail!Clock
    BY <1>1, <1>2, <1>3, <1>4, <2>4 DEF AuditTrail!Clock, Entering
  <2> QED BY <2>1, <2>2, <2>3, <2>4 DEF AuditTrail!Next
<1> QED BY <1>1, <1>2, <1>3, <1>5, <1>6 DEF OrderKept

LEMMA TrailOrder == AuditTrail!Spec => []OrderKept
<1>1. AuditTrail!Init => OrderKept
  BY EmptySeq DEF AuditTrail!Init, OrderKept, Sorted
<1>2. OrderKept /\ [AuditTrail!Next]_AuditTrail!vars => OrderKept'
  <2> SUFFICES ASSUME OrderKept, UNCHANGED AuditTrail!vars PROVE OrderKept'
    BY TrailStepKeeps
  <2> QED BY DEF AuditTrail!vars, OrderKept
<1> QED BY <1>1, <1>2, PTL DEF AuditTrail!Spec

\* What is read back from the files, the oldest first, is in the order in which the records
\* were made and has none of them twice.
THEOREM TrailInOrder == Spec => []AuditTrail!InOrder
<1>1. OrderKept => AuditTrail!InOrder
  BY DEF OrderKept, Sorted, AuditTrail!InOrder
<1> QED BY <1>1, TrailIsKept, TrailOrder, PTL DEF TrailKept

\* A record that rotation or age has removed is never read again, and neither is one that
\* was given up before it was stored, once a newer one was stored.
THEOREM TrailNeverReplays == Spec => AuditTrail!NeverReplayed
<1>1. OrderKept /\ [AuditTrail!Next]_AuditTrail!vars =>
        [\A j \in DOMAIN Trail' :
           (\E i \in DOMAIN Trail : Trail[i] = Trail'[j]) \/ Trail'[j].n > last]_AuditTrail!vars
  BY TrailStepKeeps DEF Entering
<1> QED BY <1>1, TrailIsKept, TrailOrder, PTL DEF TrailKept, AuditTrail!Spec, AuditTrail!NeverReplayed
==============================================================================
