--------------------------- MODULE FlattenTheorems ---------------------------
(***************************************************************************)
(* What FlattenSeq of the community modules returns for sequences of any   *)
(* length.  It is defined by a recursive function; that this function      *)
(* exists, and where its values lie, follows by induction on a set of      *)
(* numbers.                                                                *)
(***************************************************************************)
EXTENDS Integers, SequencesExt, SequenceTheorems, FiniteSetTheorems,
        WellFoundedInduction, TLAPS

\* A set that holds 0 and the successor of each of its numbers holds them all.
LEMMA SetInduction ==
  ASSUME NEW T, 0 \in T, \A n \in Nat : n \in T => n + 1 \in T
  PROVE  Nat \subseteq T
<1> DEFINE Out == Nat \ T
           R == OpToRel(<, Nat)
<1>1. SUFFICES ASSUME Out # {} PROVE FALSE
  OBVIOUS
<1>2. IsWellFoundedOn(R, Nat)
  BY NatLessThanWellFounded
<1>3. PICK m \in Out : \A k \in Out : ~(<<k, m>> \in R)
  <2> HIDE DEF R
  <2>1. Out \subseteq Nat
    OBVIOUS
  <2> HIDE DEF Out
  <2>2. QED BY <1>1, <1>2, <2>1, WFMin
<1>4. \A k \in Out : ~(k < m)
  BY <1>3 DEF OpToRel
<1>5. m - 1 \in Nat /\ m - 1 < m
  OBVIOUS
<1>6. m - 1 \in T
  BY <1>4, <1>5
<1>7. QED BY <1>5, <1>6


\* A function on 1 .. n is a sequence of length n.
LEMMA FunctionIsSeq ==
  ASSUME NEW S, NEW n \in Nat, NEW f \in [1 .. n -> S]
  PROVE  f \in Seq(S) /\ Len(f) = n
<1>1. f \in Seq(S)
  BY SeqDef
<1>2. DOMAIN f = 1 .. n
  OBVIOUS
<1>3. QED BY <1>1, <1>2, LenProperties

\* A sequence has finitely many elements, as many as its length if they differ.
LEMMA ElementsFinite ==
  ASSUME NEW S, NEW s \in Seq(S)
  PROVE  /\ IsFiniteSet(ToSet(s)) /\ ToSet(s) \subseteq S
         /\ (\A i, j \in 1 .. Len(s) : i # j => s[i] # s[j])
              => Cardinality(ToSet(s)) = Len(s)
<1>1. DOMAIN s = 1 .. Len(s) /\ Len(s) \in Nat
  OBVIOUS
<1>2. IsFiniteSet(1 .. Len(s)) /\ Cardinality(1 .. Len(s)) = Len(s)
  BY <1>1, FS_Interval
<1>3. /\ ToSet(s) \subseteq S
      /\ \A i \in 1 .. Len(s) : s[i] \in ToSet(s)
      /\ \A x \in ToSet(s) : \E i \in 1 .. Len(s) : s[i] = x
  BY <1>1 DEF ToSet
<1>4. s \in [1 .. Len(s) -> ToSet(s)]
  <2>1. s = [i \in 1 .. Len(s) |-> s[i]]
    BY <1>1
  <2>2. QED BY <1>3, <2>1
<1>5. s \in Surjection(1 .. Len(s), ToSet(s))
  BY <1>3, <1>4 DEF Surjection
<1>6. /\ IsFiniteSet(ToSet(s))
      /\ Cardinality(ToSet(s)) = Cardinality(1 .. Len(s))
           <=> s \in Injection(1 .. Len(s), ToSet(s))
  BY <1>2, <1>5, FS_Surjection
<1>7. ASSUME \A i, j \in 1 .. Len(s) : i # j => s[i] # s[j]
      PROVE  Cardinality(ToSet(s)) = Len(s)
  <2>1. s \in Injection(1 .. Len(s), ToSet(s))
    BY <1>4, <1>7 DEF Injection, IsInjective
  <2>2. QED BY <1>2, <1>6, <2>1
<1>8. QED BY <1>3, <1>6, <1>7

\* The prefixes of seqs, flattened: F is the function FlattenSeq recurses by.
Flattens(F, seqs, m) ==
  F = [i \in 1 .. m |-> IF i = 1 THEN seqs[i] ELSE F[i-1] \o seqs[i]]

\* Such a function exists for every number of prefixes.
LEMMA FlattenDefined ==
  ASSUME NEW seqs, NEW n \in Nat
  PROVE  \E F : Flattens(F, seqs, n)
<1> DEFINE T == {m \in Nat : \E F : Flattens(F, seqs, m)}
<1>1. 0 \in T
  <2>1. 1 .. 0 = {}
    OBVIOUS
  <2> DEFINE F == [i \in {} |-> i]
  <2>2. Flattens(F, seqs, 0)
    BY <2>1 DEF Flattens
  <2>3. QED BY <2>2
<1>2. ASSUME NEW m \in Nat, m \in T PROVE m + 1 \in T
  <2>1. PICK F : Flattens(F, seqs, m)
    BY <1>2
  <2> DEFINE last == IF m + 1 = 1 THEN seqs[m + 1] ELSE F[m] \o seqs[m + 1]
             G == [i \in 1 .. m + 1 |-> IF i = m + 1 THEN last ELSE F[i]]
             H == [i \in 1 .. m + 1 |-> IF i = 1 THEN seqs[i] ELSE G[i-1] \o seqs[i]]
  <2>2. ASSUME NEW i \in 1 .. m + 1 PROVE G[i] = H[i]
    <3>1. CASE i = m + 1
      <4>1. G[i] = last
        BY <3>1
      <4>2. H[i] = IF i = 1 THEN seqs[i] ELSE G[i-1] \o seqs[i]
        OBVIOUS
      <4>3. i # 1 => G[i-1] = F[m]
        BY <3>1
      <4> HIDE DEF G, H
      <4>4. QED BY <3>1, <4>1, <4>2, <4>3
    <3>2. CASE i # m + 1
      <4>1. i \in 1 .. m /\ (i # 1 => i - 1 \in 1 .. m /\ i - 1 # m + 1 /\ i - 1 \in 1 .. m + 1)
        BY <3>2
      <4>2. G[i] = F[i] /\ (i # 1 => G[i-1] = F[i-1])
        BY <3>2, <4>1
      <4>3. F[i] = IF i = 1 THEN seqs[i] ELSE F[i-1] \o seqs[i]
        BY <2>1, <4>1 DEF Flattens
      <4>4. H[i] = IF i = 1 THEN seqs[i] ELSE G[i-1] \o seqs[i]
        OBVIOUS
      <4> HIDE DEF G, H
      <4>5. QED BY <4>2, <4>3, <4>4
    <3>3. QED BY <3>1, <3>2
  <2>3. G = H
    BY <2>2
  <2>4. Flattens(G, seqs, m + 1)
    BY <2>3, Zenon DEF Flattens
  <2> HIDE DEF G
  <2>5. QED BY <2>4
<1> HIDE DEF T
<1>3. Nat \subseteq T
  BY <1>1, <1>2, SetInduction
<1>4. QED BY <1>3 DEF T

\* FlattenSeq returns its last value.
LEMMA FlattenUnfold ==
  ASSUME NEW seqs, Len(seqs) \in Nat \ {0}
  PROVE  \E F : Flattens(F, seqs, Len(seqs)) /\ FlattenSeq(seqs) = F[Len(seqs)]
<1> DEFINE F == CHOOSE G : G = [i \in 1 .. Len(seqs) |->
                    IF i = 1 THEN seqs[i] ELSE G[i-1] \o seqs[i]]
<1>1. \E G : G = [i \in 1 .. Len(seqs) |->
                    IF i = 1 THEN seqs[i] ELSE G[i-1] \o seqs[i]]
  <2>1. \E G : Flattens(G, seqs, Len(seqs))
    BY FlattenDefined
  <2>2. QED BY <2>1, Zenon DEF Flattens
<1>2. Flattens(F, seqs, Len(seqs))
  BY <1>1, Zenon DEF Flattens
<1>3. FlattenSeq(seqs) = F[Len(seqs)]
  BY Zenon DEF FlattenSeq
<1> HIDE DEF F
<1>4. QED BY <1>2, <1>3

\* The elements of all the sequences of seqs form a sequence: to flatten stays
\* within any set that holds them.
THEOREM FlattenType ==
  ASSUME NEW S, NEW seqs \in Seq(Seq(S))
  PROVE  FlattenSeq(seqs) \in Seq(S)
<1>1. Len(seqs) \in Nat /\ \A i \in 1 .. Len(seqs) : seqs[i] \in Seq(S)
  OBVIOUS
<1>2. CASE Len(seqs) = 0
  <2>1. seqs = <<>>
    BY <1>2
  <2>2. FlattenSeq(seqs) = seqs
    BY <1>2, Zenon DEF FlattenSeq
  <2>3. QED BY <2>1, <2>2, EmptySeq, Zenon
<1>3. CASE Len(seqs) # 0
  <2>1. PICK F : Flattens(F, seqs, Len(seqs)) /\ FlattenSeq(seqs) = F[Len(seqs)]
    BY <1>1, <1>3, FlattenUnfold
  <2> DEFINE T == {m \in Nat : m \in 1 .. Len(seqs) => F[m] \in Seq(S)}
  <2>2. 0 \in T
    OBVIOUS
  <2>3. ASSUME NEW m \in Nat, m \in T PROVE m + 1 \in T
    <3> SUFFICES ASSUME m + 1 \in 1 .. Len(seqs) PROVE F[m + 1] \in Seq(S)
      OBVIOUS
    <3>1. F[m + 1] = IF m + 1 = 1 THEN seqs[m + 1] ELSE F[m] \o seqs[m + 1]
      <4>1. (m + 1) - 1 = m
        OBVIOUS
      <4>2. \A i \in 1 .. Len(seqs) :
              F[i] = IF i = 1 THEN seqs[i] ELSE F[i-1] \o seqs[i]
        BY <2>1, Zenon DEF Flattens
      <4>3. QED BY <4>1, <4>2
    <3>2. seqs[m + 1] \in Seq(S)
      BY <1>1
    <3>3. m + 1 # 1 => F[m] \in Seq(S)
      BY <1>1, <2>3
    <3>4. QED BY <3>1, <3>2, <3>3, ConcatProperties
  <2> HIDE DEF T
  <2>4. Nat \subseteq T
    BY <2>2, <2>3, SetInduction
  <2>5. Len(seqs) \in T /\ Len(seqs) \in 1 .. Len(seqs)
    BY <1>1, <1>3, <2>4
  <2>6. QED BY <2>1, <2>5 DEF T
<1>4. QED BY <1>2, <1>3
=============================================================================
