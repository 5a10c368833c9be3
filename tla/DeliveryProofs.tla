---------------------------- MODULE DeliveryProofs ----------------------------
(***************************************************************************)
(* The hub delivers what module Delivery promises, for every set of        *)
(* channels, every number of receivers and messages and every capacity.    *)
(* What is owed is counted in lists, so the facts about counting come      *)
(* first.                                                                  *)
(***************************************************************************)
EXTENDS NotifierHubProofs

-----------------------------------------------------------------------------
(* How often an element occurs in a list.                                  *)

Places(x, list) == {k \in DOMAIN list : list[k] = x}

LEMMA TimesType ==
  ASSUME NEW S, NEW list \in Seq(S), NEW x
  PROVE  /\ IsFiniteSet(Places(x, list)) /\ Times(x, list) \in Nat
         /\ Times(x, list) = Cardinality(Places(x, list))
         /\ ~Contains(list, x) => Times(x, list) = 0
<1>1. DOMAIN list = 1 .. Len(list) /\ Len(list) \in Nat
  OBVIOUS
<1>2. IsFiniteSet(1 .. Len(list))
  BY <1>1, FS_Interval
<1>3. Places(x, list) \in SUBSET (1 .. Len(list))
  BY <1>1 DEF Places
<1>4. IsFiniteSet(Places(x, list))
  BY <1>2, <1>3, FS_Subset
<1>5. Times(x, list) = Cardinality(Places(x, list))
  BY DEF Times, Places
<1>6. ~Contains(list, x) => Places(x, list) = {}
  BY <1>1 DEF Contains, Places
<1>7. QED BY <1>4, <1>5, <1>6, FS_CardinalityType, FS_EmptySet

LEMMA TimesEmpty == ASSUME NEW x PROVE Times(x, <<>>) = 0
<1>1. {k \in DOMAIN <<>> : <<>>[k] = x} = {}
  OBVIOUS
<1>2. QED BY <1>1, FS_EmptySet DEF Times

\* In a list put after another: in the one and in the other.
LEMMA TimesConcat ==
  ASSUME NEW S, NEW s \in Seq(S), NEW t \in Seq(S), NEW x
  PROVE  Times(x, s \o t) = Times(x, s) + Times(x, t)
<1> DEFINE f == [k \in Places(x, t) |-> k + Len(s)]
           Shifted == {k + Len(s) : k \in Places(x, t)}
<1>1. /\ DOMAIN s = 1 .. Len(s) /\ Len(s) \in Nat
      /\ DOMAIN t = 1 .. Len(t) /\ Len(t) \in Nat
  OBVIOUS
<1>2. /\ s \o t \in Seq(S) /\ Len(s \o t) = Len(s) + Len(t)
      /\ \A k \in 1 .. Len(s) + Len(t) :
           (s \o t)[k] = IF k <= Len(s) THEN s[k] ELSE t[k - Len(s)]
  BY ConcatProperties
<1>3. Places(x, s \o t) = Places(x, s) \cup Shifted
  <2> PICK u \in Seq(S) : u = s \o t
    BY <1>2
  <2>1. /\ DOMAIN u = 1 .. Len(s) + Len(t)
        /\ \A k \in 1 .. Len(s) + Len(t) :
             u[k] = IF k <= Len(s) THEN s[k] ELSE t[k - Len(s)]
    BY <1>2
  <2>2. ASSUME NEW k \in Places(x, u) PROVE k \in Places(x, s) \cup Shifted
    <3>1. k \in 1 .. Len(s) + Len(t) /\ u[k] = x
      BY <2>1 DEF Places
    <3>2. CASE k <= Len(s)
      BY <1>1, <2>1, <3>1, <3>2 DEF Places
    <3>3. CASE ~(k <= Len(s))
      <4>1. k - Len(s) \in Places(x, t) /\ k = (k - Len(s)) + Len(s)
        BY <1>1, <2>1, <3>1, <3>3 DEF Places
      <4>2. QED BY <4>1
    <3>4. QED BY <3>2, <3>3
  <2>3. Places(x, s) \subseteq Places(x, u)
    BY <1>1, <2>1 DEF Places
  <2>4. Shifted \subseteq Places(x, u)
    BY <1>1, <2>1 DEF Places
  <2>5. QED BY <2>2, <2>3, <2>4
<1>4. /\ IsFiniteSet(Places(x, s)) /\ Times(x, s) = Cardinality(Places(x, s))
      /\ IsFiniteSet(Places(x, t)) /\ Times(x, t) = Cardinality(Places(x, t))
      /\ Times(x, s \o t) = Cardinality(Places(x, s \o t))
      /\ Times(x, s) \in Nat /\ Times(x, t) \in Nat
  BY <1>2, TimesType
<1>5. IsFiniteSet(Shifted) /\ Cardinality(Shifted) = Cardinality(Places(x, t))
  <2>1. Places(x, t) \subseteq Nat
    BY <1>1 DEF Places
  <2>2. f \in Bijection(Places(x, t), Shifted)
    BY <1>1, <2>1 DEF Bijection, Injection, Surjection, IsInjective
  <2>3. ExistsBijection(Places(x, t), Shifted)
    BY <2>2, Zenon DEF ExistsBijection
  <2> HIDE DEF Shifted
  <2>4. QED BY <1>4, <2>3, FS_Bijection
<1>6. Places(x, s) \cap Shifted = {}
  BY <1>1 DEF Places
<1> HIDE DEF Shifted
<1>7. Cardinality(Places(x, s) \cup Shifted)
        = Cardinality(Places(x, s)) + Cardinality(Shifted)
  <2>1. Cardinality(Places(x, s) \cup Shifted) =
          Cardinality(Places(x, s)) + Cardinality(Shifted)
            - Cardinality(Places(x, s) \cap Shifted)
    BY <1>4, <1>5, FS_Union
  <2>2. Cardinality(Places(x, s) \cap Shifted) = 0
    BY <1>6, FS_EmptySet
  <2>3. Cardinality(Places(x, s)) \in Nat /\ Cardinality(Shifted) \in Nat
    BY <1>4, <1>5, FS_CardinalityType
  <2>4. QED BY <2>1, <2>2, <2>3
<1>8. QED BY <1>3, <1>4, <1>5, <1>7

\* In a list of one element over and over.
LEMMA TimesConstant ==
  ASSUME NEW S, NEW list \in Seq(S), NEW x, NEW y,
         \A k \in 1 .. Len(list) : list[k] = y
  PROVE  Times(x, list) = IF x = y THEN Len(list) ELSE 0
<1>1. DOMAIN list = 1 .. Len(list) /\ Len(list) \in Nat
  OBVIOUS
<1>2. {k \in DOMAIN list : list[k] = x} = IF x = y THEN 1 .. Len(list) ELSE {}
  BY <1>1
<1>3. Cardinality(1 .. Len(list)) = Len(list) /\ Cardinality({}) = 0
  BY <1>1, FS_Interval, FS_EmptySet
<1>4. QED BY <1>2, <1>3 DEF Times

LEMMA TimesOne ==
  ASSUME NEW x, NEW y
  PROVE  Times(x, <<y>>) = IF x = y THEN 1 ELSE 0
<1>1. {k \in DOMAIN <<y>> : <<y>>[k] = x} = IF x = y THEN {1} ELSE {}
  OBVIOUS
<1>2. Cardinality({1}) = 1 /\ Cardinality({}) = 0
  BY FS_Singleton, FS_EmptySet
<1>3. QED BY <1>1, <1>2 DEF Times

LEMMA TimesAppend ==
  ASSUME NEW S, NEW s \in Seq(S), NEW y \in S, NEW x
  PROVE  Times(x, Append(s, y)) = Times(x, s) + (IF x = y THEN 1 ELSE 0)
<1>1. <<y>> \in Seq(S)
  OBVIOUS
<1>2. Append(s, y) = s \o <<y>>
  BY AppendIsConcat
<1>3. Times(x, s \o <<y>>) = Times(x, s) + Times(x, <<y>>)
  BY <1>1, TimesConcat
<1>4. QED BY <1>2, <1>3, TimesOne

LEMMA TimesTail ==
  ASSUME NEW S, NEW s \in Seq(S), s # <<>>, NEW x
  PROVE  Times(x, s) = Times(x, Tail(s)) + (IF x = s[1] THEN 1 ELSE 0)
<1>1. s[1] \in S /\ Tail(s) \in Seq(S) /\ <<s[1]>> \in Seq(S)
  OBVIOUS
<1>2. s = <<s[1]>> \o Tail(s)
  OBVIOUS
<1>3. Times(x, <<s[1]>> \o Tail(s)) = Times(x, <<s[1]>>) + Times(x, Tail(s))
  BY <1>1, TimesConcat
<1>4. Times(x, Tail(s)) \in Nat
  BY <1>1, TimesType
<1>5. Times(x, s) = Times(x, <<s[1]>>) + Times(x, Tail(s))
  BY <1>2, <1>3, Zenon
<1>6. Times(x, <<s[1]>>) = IF x = s[1] THEN 1 ELSE 0
  BY TimesOne
<1>7. QED BY <1>4, <1>5, <1>6

\* In a list of which one element is replaced by another, neither or one of
\* them x.
LEMMA TimesReplaced ==
  ASSUME NEW S, NEW s \in Seq(S), NEW k \in DOMAIN s, NEW y \in S, NEW x, y # x
  PROVE  Times(x, s) = Times(x, [s EXCEPT ![k] = y]) + (IF s[k] = x THEN 1 ELSE 0)
<1>a. DOMAIN s = 1 .. Len(s) /\ [s EXCEPT ![k] = y] \in Seq(S)
  BY ExceptSeq
<1> PICK t \in Seq(S) : t = [s EXCEPT ![k] = y]
  BY <1>a
<1>0. /\ DOMAIN t = DOMAIN s
      /\ \A j \in DOMAIN s : t[j] = IF j = k THEN y ELSE s[j]
  OBVIOUS
<1>1. Places(x, t) = Places(x, s) \ {k}
  BY <1>0 DEF Places
<1>2. k \in Places(x, s) <=> s[k] = x
  BY DEF Places
<1>3. /\ IsFiniteSet(Places(x, s)) /\ Times(x, s) = Cardinality(Places(x, s))
      /\ Times(x, t) = Cardinality(Places(x, t)) /\ Times(x, s) \in Nat
  BY TimesType
<1>4. Cardinality(Places(x, s) \ {k}) =
        IF k \in Places(x, s) THEN Cardinality(Places(x, s)) - 1
                              ELSE Cardinality(Places(x, s))
  BY <1>3, FS_RemoveElement
<1>5. Times(x, s) = Times(x, t) + (IF s[k] = x THEN 1 ELSE 0)
  <2>1. Times(x, t) = Cardinality(Places(x, s) \ {k})
    BY <1>1, <1>3, Zenon
  <2>2. Times(x, t) = IF s[k] = x THEN Times(x, s) - 1 ELSE Times(x, s)
    BY <1>2, <1>3, <1>4, <2>1, Zenon
  <2>3. QED BY <1>3, <2>2
<1>6. Times(x, [s EXCEPT ![k] = y]) = Times(x, t)
  BY Zenon
<1>7. QED BY <1>5, <1>6

\* In the concatenation of many lists: as often as there are elements in the
\* union of sets, apart from each other, that are as large as x is frequent in
\* each of the lists.
LEMMA TimesFlatten ==
  ASSUME NEW S, NEW seqs \in Seq(Seq(S)), NEW x, NEW A,
         \A k \in 1 .. Len(seqs) :
           IsFiniteSet(A[k]) /\ Cardinality(A[k]) = Times(x, seqs[k]),
         \A j, k \in 1 .. Len(seqs) : j # k => A[j] \cap A[k] = {}
  PROVE  Times(x, FlattenSeq(seqs)) = Cardinality(UNION {A[k] : k \in 1 .. Len(seqs)})
<1> DEFINE U(m) == UNION {A[k] : k \in 1 .. m}
<1>1. Len(seqs) \in Nat /\ \A i \in 1 .. Len(seqs) : seqs[i] \in Seq(S)
  OBVIOUS
<1>2. CASE Len(seqs) = 0
  <2>1. seqs = <<>>
    BY <1>2
  <2>2. FlattenSeq(seqs) = seqs
    BY <1>2, Zenon DEF FlattenSeq
  <2>3. U(Len(seqs)) = {}
    BY <1>2
  <2>4. Times(x, <<>>) = 0
    BY TimesEmpty
  <2>5. QED BY <2>1, <2>2, <2>3, <2>4, FS_EmptySet
<1>3. CASE Len(seqs) # 0
  <2>1. PICK F : Flattens(F, seqs, Len(seqs)) /\ FlattenSeq(seqs) = F[Len(seqs)]
    BY <1>1, <1>3, FlattenUnfold
  <2> DEFINE T == {m \in Nat : m \in 1 .. Len(seqs) =>
                     /\ F[m] \in Seq(S) /\ IsFiniteSet(U(m))
                     /\ Times(x, F[m]) = Cardinality(U(m))}
  <2>2. 0 \in T
    OBVIOUS
  <2>3. ASSUME NEW m \in Nat, m \in T PROVE m + 1 \in T
    <3> SUFFICES ASSUME m + 1 \in 1 .. Len(seqs)
                 PROVE  /\ F[m + 1] \in Seq(S) /\ IsFiniteSet(U(m + 1))
                        /\ Times(x, F[m + 1]) = Cardinality(U(m + 1))
      OBVIOUS
    <3>1. F[m + 1] = IF m + 1 = 1 THEN seqs[m + 1] ELSE F[m] \o seqs[m + 1]
      <4>1. (m + 1) - 1 = m
        OBVIOUS
      <4>2. \A i \in 1 .. Len(seqs) :
              F[i] = IF i = 1 THEN seqs[i] ELSE F[i-1] \o seqs[i]
        BY <2>1, Zenon DEF Flattens
      <4>3. QED BY <4>1, <4>2
    <3>2. seqs[m + 1] \in Seq(S)
      BY <1>1
    <3>3. /\ IsFiniteSet(A[m + 1])
          /\ Cardinality(A[m + 1]) = Times(x, seqs[m + 1])
      OBVIOUS
    <3>4. U(m + 1) = U(m) \cup A[m + 1]
      <4>1. 1 .. m + 1 = (1 .. m) \cup {m + 1}
        OBVIOUS
      <4>2. QED BY <4>1, Zenon
    <3>5. CASE m = 0
      <4>1. U(m) = {}
        BY <3>5
      <4>2. U(m + 1) = A[m + 1]
        BY <3>4, <4>1, Zenon
      <4>3. F[m + 1] = seqs[m + 1]
        BY <3>1, <3>5
      <4> HIDE DEF U
      <4>4. QED BY <3>2, <3>3, <4>2, <4>3
    <3>6. CASE m # 0
      <4>1. /\ F[m] \in Seq(S) /\ IsFiniteSet(U(m))
            /\ Times(x, F[m]) = Cardinality(U(m))
        BY <1>1, <2>3, <3>6
      <4>2. F[m + 1] = F[m] \o seqs[m + 1]
        <5>1. m + 1 # 1
          BY <3>6
        <5>2. QED BY <3>1, <5>1, Zenon
      <4>3. /\ F[m + 1] \in Seq(S)
            /\ Times(x, F[m + 1]) = Times(x, F[m]) + Times(x, seqs[m + 1])
        BY <3>2, <4>1, <4>2, ConcatProperties, TimesConcat
      <4>4. U(m) \cap A[m + 1] = {}
        <5>1. ASSUME NEW k \in 1 .. m PROVE A[k] \cap A[m + 1] = {}
          <6>1. k \in 1 .. Len(seqs) /\ k # m + 1
            BY <1>1
          <6>2. QED BY <6>1
        <5>2. QED BY <5>1, Zenon
      <4> HIDE DEF U
      <4>5. /\ IsFiniteSet(U(m) \cup A[m + 1])
            /\ Cardinality(U(m) \cup A[m + 1]) =
                 Cardinality(U(m)) + Cardinality(A[m + 1])
        <5>1. /\ IsFiniteSet(U(m) \cup A[m + 1])
              /\ Cardinality(U(m) \cup A[m + 1]) =
                   Cardinality(U(m)) + Cardinality(A[m + 1])
                     - Cardinality(U(m) \cap A[m + 1])
          BY <3>3, <4>1, FS_Union
        <5>2. Cardinality(U(m) \cap A[m + 1]) = 0
          BY <4>4, FS_EmptySet
        <5>3. Cardinality(U(m)) \in Nat /\ Cardinality(A[m + 1]) \in Nat
          BY <3>3, <4>1, FS_CardinalityType
        <5>4. QED BY <5>1, <5>2, <5>3
      <4>6. QED BY <3>3, <3>4, <4>1, <4>3, <4>5
    <3>7. QED BY <3>5, <3>6
  <2> HIDE DEF T
  <2>4. Nat \subseteq T
    BY <2>2, <2>3, SetInduction
  <2>5. Len(seqs) \in T /\ Len(seqs) \in 1 .. Len(seqs)
    BY <1>1, <1>3, <2>4
  <2>6. QED BY <2>1, <2>5 DEF T
<1>4. QED BY <1>2, <1>3

\* In the concatenation of lists, of which those numbered in K hold x once and
\* the others not at all.
OnceIn(x, seqs, K) ==
  \A k \in 1 .. Len(seqs) : Times(x, seqs[k]) = IF k \in K THEN 1 ELSE 0

LEMMA TimesSelected ==
  ASSUME NEW S, NEW seqs \in Seq(Seq(S)), NEW x, NEW K \in SUBSET (1 .. Len(seqs)),
         OnceIn(x, seqs, K)
  PROVE  Times(x, FlattenSeq(seqs)) = Cardinality(K)
<1>0. PICK A : A = [k \in 1 .. Len(seqs) |-> IF k \in K THEN {k} ELSE {}]
  OBVIOUS
<1>1. ASSUME NEW k \in 1 .. Len(seqs)
      PROVE  IsFiniteSet(A[k]) /\ Cardinality(A[k]) = Times(x, seqs[k])
  <2>1. A[k] = IF k \in K THEN {k} ELSE {}
    BY <1>0
  <2>2. CASE k \in K
    <3>1. A[k] = {k} /\ Times(x, seqs[k]) = 1
      BY <2>1, <2>2 DEF OnceIn
    <3>2. QED BY <3>1, FS_Singleton, Zenon
  <2>3. CASE k \notin K
    <3>1. A[k] = {} /\ Times(x, seqs[k]) = 0
      BY <2>1, <2>3 DEF OnceIn
    <3>2. QED BY <3>1, FS_EmptySet, Zenon
  <2>4. QED BY <2>2, <2>3
<1>2. \A j, k \in 1 .. Len(seqs) : j # k => A[j] \cap A[k] = {}
  BY <1>0
<1>3. UNION {A[k] : k \in 1 .. Len(seqs)} = K
  <2>1. \A k \in K : k \in A[k] /\ k \in 1 .. Len(seqs)
    BY <1>0
  <2>2. \A k \in 1 .. Len(seqs) : A[k] \subseteq K
    BY <1>0
  <2>3. QED BY <2>1, <2>2
<1>4. Times(x, FlattenSeq(seqs)) = Cardinality(UNION {A[k] : k \in 1 .. Len(seqs)})
  <2>1. \A k \in 1 .. Len(seqs) :
          IsFiniteSet(A[k]) /\ Cardinality(A[k]) = Times(x, seqs[k])
    BY <1>1, Zenon
  <2>2. QED BY <1>2, <2>1, TimesFlatten
<1>5. QED BY <1>3, <1>4, Zenon

\* Vec::retain keeps an element as often as it is there, or not at all.
LEMMA TimesRetain ==
  ASSUME NEW S, NEW list \in Seq(S), NEW kept, NEW x
  PROVE  Times(x, Retain(list, kept)) = IF x \in kept THEN Times(x, list) ELSE 0
<1> DEFINE parts == [k \in DOMAIN list |-> IF list[k] \in kept THEN <<list[k]>> ELSE <<>>]
<1> PICK K : K = IF x \in kept THEN Places(x, list) ELSE {}
  OBVIOUS
<1>1. DOMAIN list = 1 .. Len(list) /\ Len(list) \in Nat
  OBVIOUS
<1>2. ASSUME NEW k \in 1 .. Len(list)
      PROVE  /\ parts[k] \in Seq(S)
             /\ Times(x, parts[k]) = IF k \in K THEN 1 ELSE 0
  <2>1. list[k] \in S
    OBVIOUS
  <2>2. <<list[k]>> \in Seq(S) /\ <<>> \in Seq(S)
    BY <2>1
  <2>3. parts[k] = IF list[k] \in kept THEN <<list[k]>> ELSE <<>>
    BY <1>1
  <2>4. k \in K <=> x \in kept /\ list[k] = x
    BY <1>1 DEF Places
  <2>5. /\ Times(x, <<list[k]>>) = IF x = list[k] THEN 1 ELSE 0
        /\ Times(x, <<>>) = 0
    BY TimesOne, TimesEmpty
  <2> HIDE DEF parts
  <2>6. CASE list[k] \in kept
    <3>1. parts[k] = <<list[k]>>
      BY <2>3, <2>6, Zenon
    <3>2. QED BY <2>2, <2>4, <2>5, <2>6, <3>1, Zenon
  <2>7. CASE list[k] \notin kept
    <3>1. parts[k] = <<>>
      BY <2>3, <2>7, Zenon
    <3>2. QED BY <2>2, <2>4, <2>5, <2>7, <3>1, Zenon
  <2>8. QED BY <2>6, <2>7
<1>3. parts \in Seq(Seq(S)) /\ Len(parts) = Len(list)
  <2>1. parts \in [1 .. Len(list) -> Seq(S)]
    BY <1>1, <1>2
  <2> HIDE DEF parts
  <2>2. QED BY <1>1, <2>1, FunctionIsSeq
<1>4. K \in SUBSET (1 .. Len(list))
  BY <1>1 DEF Places
<1> HIDE DEF parts
<1>5. Times(x, FlattenSeq(parts)) = Cardinality(K)
  <2>1. OnceIn(x, parts, K)
    BY <1>2, <1>3, Zenon DEF OnceIn
  <2>2. QED BY <1>3, <1>4, <2>1, TimesSelected
<1>6. Cardinality(K) = IF x \in kept THEN Times(x, list) ELSE 0
  BY TimesType, FS_EmptySet, Zenon
<1>7. QED BY <1>5, <1>6, Zenon DEF Retain, parts

-----------------------------------------------------------------------------
(* What the lists of the hub come to for one receiver.                     *)

\* A waiter waits in one place: it is made with its channel.
WaitersOnce == \A ch \in ChannelIds, i \in Ids : Times(i, creation_senders[ch]) <= 1

\* Who is not live is in no list.
LEMMA NotLiveNotListed ==
  ASSUME NEW list \in Seq(Live), NEW i, i \notin Live
  PROVE  ~Contains(list, i) /\ Times(i, list) = 0
<1>1. ~Contains(list, i)
  <2>1. \A k \in 1 .. Len(list) : list[k] \in Live
    BY ElementOfSeq
  <2>2. QED BY <2>1 DEF Contains
<1>2. QED BY <1>1, TimesType

\* A notice for each insertion of a channel that j waits for.
LEMMA NoticesCounted ==
  ASSUME HInv, WaitersOnce, NEW ids \in Seq(ChannelIds), NEW j \in Ids
  PROVE  Times(j, ToNotify(ids))
           = Cardinality({k \in DOMAIN ids : ids[k] \in WaitsFor(j)})
<1> DEFINE parts == [k \in DOMAIN ids |-> creation_senders[ids[k]]]
<1> PICK K : K = {k \in DOMAIN ids : ids[k] \in WaitsFor(j)}
  OBVIOUS
<1>1. DOMAIN ids = 1 .. Len(ids) /\ Len(ids) \in Nat
  OBVIOUS
<1>2. ASSUME NEW k \in 1 .. Len(ids)
      PROVE  /\ parts[k] \in Seq(Live)
             /\ Times(j, parts[k]) = IF k \in K THEN 1 ELSE 0
  <2>1. PICK ch \in ChannelIds : ch = ids[k]
    OBVIOUS
  <2>2. PICK list \in Seq(Live) : list = creation_senders[ch]
    BY DEF HInv, Lists
  <2>3. parts[k] = list
    BY <1>1, <2>1, <2>2
  <2>4. Times(j, list) <= 1 /\ Times(j, list) \in Nat
    BY <2>2, TimesType DEF WaitersOnce
  <2>5. k \in K <=> Contains(list, j)
    BY <1>1, <2>1, <2>2 DEF WaitsFor
  <2>6. Contains(list, j) => Times(j, list) # 0
    <3>1. SUFFICES ASSUME Contains(list, j), Times(j, list) = 0 PROVE FALSE
      OBVIOUS
    <3>2. Places(j, list) = {}
      BY <3>1, TimesType, FS_EmptySet
    <3>3. DOMAIN list = 1 .. Len(list)
      OBVIOUS
    <3>4. QED BY <3>1, <3>2, <3>3 DEF Contains, Places
  <2>7. ~Contains(list, j) => Times(j, list) = 0
    BY TimesType
  <2> HIDE DEF parts
  <2>8. Times(j, list) = IF k \in K THEN 1 ELSE 0
    BY <2>4, <2>5, <2>6, <2>7
  <2>9. QED BY <2>3, <2>8, Zenon
<1>3. parts \in Seq(Seq(Live)) /\ Len(parts) = Len(ids)
  <2>1. parts \in [1 .. Len(ids) -> Seq(Live)]
    BY <1>1, <1>2
  <2> HIDE DEF parts
  <2>2. QED BY <1>1, <2>1, FunctionIsSeq
<1>4. K \in SUBSET (1 .. Len(ids))
  BY <1>1
<1> HIDE DEF parts
<1>5. Times(j, FlattenSeq(parts)) = Cardinality(K)
  <2>1. OnceIn(j, parts, K)
    BY <1>2, <1>3, Zenon DEF OnceIn
  <2>2. QED BY <1>3, <1>4, <2>1, TimesSelected
<1>6. QED BY <1>5, Zenon DEF ToNotify, parts

\* The subscriptions to one channel, and their number.
SubscriptionsTo(i, ch) == {ch} \X (1 .. Times(i, senders[ch]))

LEMMA SubscriptionsCounted ==
  ASSUME HInv, NEW i \in Ids, ~IsClosed(i), NEW ch \in ChannelIds
  PROVE  /\ IsFiniteSet(SubscriptionsTo(i, ch))
         /\ Cardinality(SubscriptionsTo(i, ch)) = Times(i, OpenSenders(ch))
         /\ Times(i, OpenSenders(ch)) = Times(i, senders[ch])
<1>1. senders[ch] \in Seq(Live)
  BY DEF HInv, Lists
<1>2. PICK n \in Nat : n = Times(i, senders[ch])
  BY <1>1, TimesType
<1>3. Times(i, OpenSenders(ch)) = n
  <2>1. i \in {j \in Ids : ~IsClosed(j)}
    OBVIOUS
  <2>2. QED BY <1>1, <1>2, <2>1, TimesRetain, Zenon DEF OpenSenders
<1>4. IsFiniteSet(1 .. n) /\ Cardinality(1 .. n) = n
  BY FS_Interval
<1>5. IsFiniteSet({ch}) /\ Cardinality({ch}) = 1
  BY FS_Singleton
<1>6. IsFiniteSet({ch} \X (1 .. n)) /\ Cardinality({ch} \X (1 .. n)) = 1 * n
  BY <1>4, <1>5, FS_Product
<1>7. IsFiniteSet({ch} \X (1 .. n)) /\ Cardinality({ch} \X (1 .. n)) = n
  BY <1>6
<1>8. QED BY <1>2, <1>3, <1>7, Zenon DEF SubscriptionsTo

\* A message is written to an open receiver once for each of its subscriptions
\* to the channel, ...
LEMMA SendCounted ==
  ASSUME HInv, NEW i \in Ids, ~IsClosed(i), NEW ch \in ChannelIds
  PROVE  Times(i, OpenSenders(ch))
           = Cardinality({s \in Subscriptions(i) : s[1] \in {ch}})
<1>1. {s \in Subscriptions(i) : s[1] \in {ch}} = SubscriptionsTo(i, ch)
  BY DEF Subscriptions, SubscriptionsTo
<1>2. QED BY <1>1, SubscriptionsCounted, Zenon

\* ... or to the channels there are, in whatever order they come.
LEMMA BroadcastCounted ==
  ASSUME HInv, NEW i \in Ids, ~IsClosed(i), NEW order \in SetToSeqs(opened)
  PROVE  Times(i, FlattenSeq([k \in DOMAIN order |-> OpenSenders(order[k])]))
           = Cardinality({s \in Subscriptions(i) : s[1] \in opened})
<1> DEFINE parts == [k \in DOMAIN order |-> OpenSenders(order[k])]
<1>1. PICK n \in Nat : n = Cardinality(opened)
  BY FS_CardinalityType DEF HInv, Hub
<1>2. /\ order \in [1 .. n -> opened] /\ opened \subseteq ChannelIds
      /\ IsFiniteSet(opened)
      /\ \A j, k \in 1 .. n : j # k => order[j] # order[k]
  BY <1>1 DEF SetToSeqs, HInv, Hub
<1>3. ASSUME NEW ch \in opened PROVE \E k \in 1 .. n : order[k] = ch
  <2>1. order \in Injection(1 .. n, opened)
    BY <1>2 DEF Injection, IsInjective
  <2>2. IsFiniteSet(1 .. n) /\ Cardinality(1 .. n) = Cardinality(opened)
    BY <1>1, FS_Interval
  <2>3. order \in Surjection(1 .. n, opened)
    BY <1>2, <2>1, <2>2, FS_Injection
  <2>4. QED BY <2>3 DEF Surjection
<1>a. PICK A : A = [k \in 1 .. n |-> SubscriptionsTo(i, order[k])]
  OBVIOUS
<1>4. ASSUME NEW k \in 1 .. n
      PROVE  /\ parts[k] \in Seq(Live)
             /\ IsFiniteSet(A[k]) /\ Cardinality(A[k]) = Times(i, parts[k])
  <2>1. PICK ch \in ChannelIds : ch = order[k]
    BY <1>2
  <2>2. OpenSenders(ch) \in Seq(Live)
    <3>1. senders[ch] \in Seq(Live)
      BY DEF HInv, Lists
    <3>2. QED BY <3>1, RetainType DEF OpenSenders
  <2>3. parts[k] = OpenSenders(ch) /\ A[k] = SubscriptionsTo(i, ch)
    BY <1>2, <1>a, <2>1
  <2> HIDE DEF parts
  <2>4. QED BY <2>2, <2>3, SubscriptionsCounted, Zenon
<1>5. \A j, k \in 1 .. n : j # k => A[j] \cap A[k] = {}
  BY <1>2, <1>a DEF SubscriptionsTo
<1>6. parts \in Seq(Seq(Live)) /\ Len(parts) = n
  <2>1. parts \in [1 .. n -> Seq(Live)]
    BY <1>2, <1>4
  <2> HIDE DEF parts
  <2>2. QED BY <2>1, FunctionIsSeq
<1>7. UNION {A[k] : k \in 1 .. n} = {s \in Subscriptions(i) : s[1] \in opened}
  <2>1. ASSUME NEW k \in 1 .. n, NEW s \in A[k]
        PROVE  s \in Subscriptions(i) /\ s[1] \in opened
    BY <1>2, <1>a, <2>1 DEF Subscriptions, SubscriptionsTo
  <2>2. ASSUME NEW s \in Subscriptions(i), s[1] \in opened
        PROVE  \E k \in 1 .. n : s \in A[k]
    <3>1. PICK k \in 1 .. n : order[k] = s[1]
      BY <1>3, <2>2
    <3>2. s \in SubscriptionsTo(i, order[k])
      BY <3>1 DEF Subscriptions, SubscriptionsTo
    <3>3. QED BY <1>a, <3>2
  <2>3. QED BY <2>1, <2>2, Zenon
<1> HIDE DEF parts
<1>8. Times(i, FlattenSeq(parts)) = Cardinality(UNION {A[k] : k \in 1 .. n})
  <2>1. \A k \in 1 .. Len(parts) :
          IsFiniteSet(A[k]) /\ Cardinality(A[k]) = Times(i, parts[k])
    BY <1>4, <1>6, Zenon
  <2>2. \A j, k \in 1 .. Len(parts) : j # k => A[j] \cap A[k] = {}
    BY <1>5, <1>6, Zenon
  <2>3. Times(i, FlattenSeq(parts)) = Cardinality(UNION {A[k] : k \in 1 .. Len(parts)})
    BY <1>6, <2>1, <2>2, TimesFlatten
  <2>4. QED BY <1>6, <2>3, Zenon
<1>9. QED BY <1>7, <1>8, Zenon DEF parts

-----------------------------------------------------------------------------
(* The hub as the promise sees it, and what leaves it as it is.            *)

\* What is due is counted.
LEMMA DueType ==
  ASSUME HInv, NEW i \in Ids, NEW m \in 0 .. MaxSends
  PROVE  /\ Times(m, buffer[i]) \in Nat /\ Pending(i, m) \in Nat
         /\ Owed(i, m) \in Nat /\ Due[i][m] \in Nat
         /\ Due[i][m] = IF Open(i) THEN Owed(i, m) ELSE 0
<1>1. Times(m, buffer[i]) \in Nat
  <2>1. buffer[i] \in Seq(0 .. MaxSends)
    BY DEF HInv, Channels
  <2>2. QED BY <2>1, TimesType
<1>2. Pending(i, m) \in Nat
  <2>1. Pending(i, m) = Times([to |-> i, msg |-> m, state |-> "sending"], writes)
    BY DEF Pending, Times
  <2>2. writes \in Seq(Write)
    BY DEF HInv, Tasks
  <2>3. QED BY <2>1, <2>2, TimesType
<1>3. Owed(i, m) \in Nat
  BY <1>1, <1>2 DEF Owed
<1>4. Due[i][m] = IF Open(i) THEN Owed(i, m) ELSE 0
  BY DEF Due
<1>5. QED BY <1>1, <1>2, <1>3, <1>4

\* Tasks are spawned: their messages are due to those in the list.
LEMMA PendingSpawned ==
  ASSUME HInv, NEW to \in Seq(Ids), NEW msg \in 0 .. MaxSends, Spawn(to, msg),
         NEW i \in Ids, NEW m \in 0 .. MaxSends
  PROVE  Pending(i, m)' = Pending(i, m) + (IF m = msg THEN Times(i, to) ELSE 0)
<1> DEFINE new == [k \in DOMAIN to |-> [to |-> to[k], msg |-> msg, state |-> "sending"]]
<1> PICK task \in Write : task = [to |-> i, msg |-> m, state |-> "sending"]
  BY DEF Write
<1>1. DOMAIN to = 1 .. Len(to) /\ Len(to) \in Nat
  OBVIOUS
<1>2. new \in Seq(Write)
  <2>1. ASSUME NEW k \in 1 .. Len(to) PROVE new[k] \in Write
    <3>1. to[k] \in Ids
      OBVIOUS
    <3>2. QED BY <1>1, <3>1 DEF Write
  <2>2. new \in [1 .. Len(to) -> Write]
    BY <1>1, <2>1
  <2> HIDE DEF new
  <2>3. QED BY <1>1, <2>2, FunctionIsSeq
<1>3. Times(task, new) = IF m = msg THEN Times(i, to) ELSE 0
  <2>1. Places(task, new) = IF m = msg THEN Places(i, to) ELSE {}
    BY DEF Places
  <2>2. /\ Times(task, new) = Cardinality(Places(task, new))
        /\ Times(i, to) = Cardinality(Places(i, to))
    BY <1>2, TimesType
  <2> HIDE DEF new
  <2>3. QED BY <2>1, <2>2, FS_EmptySet, Zenon
<1>4. writes \in Seq(Write) /\ writes' = writes \o new
  BY DEF HInv, Tasks, Spawn
<1>5. Pending(i, m) = Times(task, writes) /\ Pending(i, m)' = Times(task, writes')
  BY DEF Pending, Times
<1> HIDE DEF new
<1>6. Times(task, writes \o new) = Times(task, writes) + Times(task, new)
  BY <1>2, <1>4, TimesConcat
<1>7. Times(task, writes') = Times(task, writes \o new)
  BY <1>4, Zenon
<1>8. QED BY <1>3, <1>5, <1>6, <1>7, Zenon

\* Who is open stays so while the receivers do.
LEMMA StandingSame ==
  ASSUME UNCHANGED rx
  PROVE  UNCHANGED Standing /\ \A i \in Ids : Open(i)' <=> Open(i)
  BY DEF Standing, Open

LEMMA AwaitingSame ==
  ASSUME UNCHANGED <<rx, creation_senders>>
  PROVE  UNCHANGED Awaiting
  BY DEF Awaiting, WaitsFor, Open

LEMMA SubscribedSame ==
  ASSUME UNCHANGED rx,
         \A i \in Ids, ch \in ChannelIds :
           Open(i) => Times(i, senders'[ch]) = Times(i, senders[ch])
  PROVE  UNCHANGED Subscribed
<1>1. \A i \in Ids : Open(i)' <=> Open(i)
  BY StandingSame
<1>2. ASSUME NEW i \in Ids, Open(i) PROVE Subscriptions(i)' = Subscriptions(i)
  <2>1. \A ch \in ChannelIds : Times(i, senders'[ch]) = Times(i, senders[ch])
    BY <1>2
  <2>2. \A ch \in ChannelIds : {ch} \X (1 .. Times(i, senders'[ch]))
                                 = {ch} \X (1 .. Times(i, senders[ch]))
    BY <2>1
  <2>3. {{ch} \X (1 .. Times(i, senders'[ch])) : ch \in ChannelIds}
          = {{ch} \X (1 .. Times(i, senders[ch])) : ch \in ChannelIds}
    BY <2>2, Zenon
  <2>4. QED BY <2>3, Zenon DEF Subscriptions
<1>3. QED BY <1>1, <1>2 DEF Subscribed

LEMMA DueSame ==
  ASSUME UNCHANGED <<rx, buffer, writes>>
  PROVE  UNCHANGED Due
  BY DEF Due, Owed, Pending, Open

\* What is due grows by the tasks spawned.
LEMMA DueSpawned ==
  ASSUME HInv, NEW to \in Seq(Ids), NEW msg \in 0 .. MaxSends, Spawn(to, msg),
         UNCHANGED <<rx, buffer>>, NEW i \in Ids, NEW m \in 0 .. MaxSends
  PROVE  Due'[i][m] = Due[i][m] + (IF Open(i) /\ m = msg THEN Times(i, to) ELSE 0)
<1>1. Pending(i, m)' = Pending(i, m) + (IF m = msg THEN Times(i, to) ELSE 0)
  BY PendingSpawned
<1>2. PICK n \in Nat : n = Times(i, to)
  BY TimesType
<1>3. PICK p \in Nat, b \in Nat : p = Pending(i, m) /\ b = Times(m, buffer[i])
  BY DueType
<1>4. /\ Due[i][m] = IF Open(i) THEN b + p ELSE 0
      /\ Due'[i][m] = IF Open(i)' THEN b + Pending(i, m)' ELSE 0
  BY <1>3, Zenon DEF Due, Owed
<1>5. Open(i)' <=> Open(i)
  BY StandingSame
<1>6. QED BY <1>1, <1>2, <1>3, <1>4, <1>5

\* What is due is the same when it is so for each receiver and message, ...
LEMMA DueEqual ==
  ASSUME \A i \in Ids, m \in 0 .. MaxSends : Due'[i][m] = Due[i][m]
  PROVE  Due' = Due
<1>1. ASSUME NEW i \in Ids PROVE Due'[i] = Due[i]
  <2>1. /\ Due[i] = [m \in 0 .. MaxSends |-> Due[i][m]]
        /\ Due'[i] = [m \in 0 .. MaxSends |-> Due'[i][m]]
    BY DEF Due
  <2>2. QED BY <2>1
<1>2. /\ Due = [i \in Ids |-> Due[i]]
      /\ Due' = [i \in Ids |-> Due'[i]]
  BY DEF Due
<1>3. QED BY <1>1, <1>2

\* ... and changes by one copy when it is so for all but one of them.
LEMMA DueChanged ==
  ASSUME NEW i \in Ids, NEW m \in 0 .. MaxSends, NEW c, Due'[i][m] = c,
         \A j \in Ids, n \in 0 .. MaxSends :
           ~(j = i /\ n = m) => Due'[j][n] = Due[j][n]
  PROVE  Due' = [Due EXCEPT ![i] = [Due[i] EXCEPT ![m] = c]]
<1>1. ASSUME NEW j \in Ids
      PROVE  Due'[j] = IF j = i THEN [Due[i] EXCEPT ![m] = c] ELSE Due[j]
  <2>1. /\ Due[j] = [n \in 0 .. MaxSends |-> Due[j][n]]
        /\ Due'[j] = [n \in 0 .. MaxSends |-> Due'[j][n]]
    BY DEF Due
  <2>2. PICK old, new : old = Due[j] /\ new = Due'[j]
    OBVIOUS
  <2>3. /\ DOMAIN old = 0 .. MaxSends /\ DOMAIN new = 0 .. MaxSends
        /\ old = [n \in 0 .. MaxSends |-> old[n]]
        /\ new = [n \in 0 .. MaxSends |-> new[n]]
    BY <2>1, <2>2
  <2>4. CASE j = i
    <3>1. new[m] = c /\ \A n \in 0 .. MaxSends : n # m => new[n] = old[n]
      BY <2>2, <2>4
    <3>2. new = [old EXCEPT ![m] = c]
      BY <2>3, <3>1
    <3>3. QED BY <2>2, <2>4, <3>2, Zenon
  <2>5. CASE j # i
    <3>1. \A n \in 0 .. MaxSends : new[n] = old[n]
      BY <2>2, <2>5
    <3>2. new = old
      BY <2>3, <3>1
    <3>3. QED BY <2>2, <2>5, <3>2
  <2>6. QED BY <2>4, <2>5
<1>2. /\ Due = [j \in Ids |-> Due[j]]
      /\ Due' = [j \in Ids |-> Due'[j]]
  BY DEF Due
<1>3. QED BY <1>1, <1>2

\* Where the lists, the channels and the tasks stay as they are, so does all.
LEMMA QuietStep ==
  ASSUME UNCHANGED <<senders, creation_senders, rx, buffer, writes>>
  PROVE  UNCHANGED Promise!vars
<1>1. UNCHANGED Subscribed
  BY SubscribedSame
<1>2. QED BY <1>1, StandingSame, AwaitingSame, DueSame DEF Promise!vars

-----------------------------------------------------------------------------
(* The steps of the hub as steps of the promise.                           *)

\* To thin out the senders of the receivers that are dropped changes nothing.
LEMMA CleanView ==
  ASSUME HInv, NEW chs, CleanChannels(chs), UNCHANGED rx
  PROVE  UNCHANGED Subscribed
<1>1. ASSUME NEW i \in Ids, NEW ch \in ChannelIds, Open(i)
      PROVE  Times(i, senders'[ch]) = Times(i, senders[ch])
  <2>1. ~IsClosed(i)
    BY <1>1 DEF Open, IsClosed, Roles
  <2>2. Times(i, OpenSenders(ch)) = Times(i, senders[ch])
    BY <2>1, SubscriptionsCounted
  <2>3. senders'[ch] = OpenSenders(ch) \/ senders'[ch] = senders[ch]
    BY DEF CleanChannels
  <2>4. QED BY <2>2, <2>3, Zenon
<1>2. QED BY <1>1, SubscribedSame

LEMMA CleanStep ==
  ASSUME HInv, CleanAll \/ \E ch \in ChannelIds : CleanChannel(ch)
  PROVE  UNCHANGED Promise!vars
<1>1. /\ UNCHANGED <<rx, buffer, creation_senders, writes>>
      /\ \E chs : CleanChannels(chs)
  BY DEF CleanAll, CleanChannel, channelVars
<1>2. UNCHANGED Subscribed
  BY <1>1, CleanView
<1>3. QED BY <1>1, <1>2, StandingSame, AwaitingSame, DueSame DEF Promise!vars

\* A receiver leaves channels.
LEMMA LeaveView ==
  ASSUME HInv, NEW i \in Ids, NEW chs \in SUBSET ChannelIds, RemoveSenders(chs, i)
  PROVE  Promise!Leave(i, chs)
<1>1. /\ UNCHANGED <<rx, buffer, creation_senders, writes>>
      /\ rx[i] = "subscriber"
      /\ senders' = [ch \in ChannelIds |->
           IF ch \in chs THEN RetainUnbound(ch, i) ELSE senders[ch]]
  BY DEF RemoveSenders, channelVars
<1>2. Open(i) /\ \A j \in Ids : Open(j)' <=> Open(j)
  BY <1>1, StandingSame DEF Open, Roles
<1>3. ASSUME NEW j \in Ids, NEW ch \in ChannelIds
      PROVE  Times(j, senders'[ch])
               = IF j = i /\ ch \in chs THEN 0 ELSE Times(j, senders[ch])
  <2>1. senders[ch] \in Seq(Live)
    BY DEF HInv, Lists
  <2>2. Times(j, RetainUnbound(ch, i)) = IF j = i THEN 0 ELSE Times(j, senders[ch])
    <3>1. j \in Ids \ {i} <=> j # i
      OBVIOUS
    <3>2. QED BY <2>1, <3>1, TimesRetain, Zenon DEF RetainUnbound
  <2>3. senders'[ch] = IF ch \in chs THEN RetainUnbound(ch, i) ELSE senders[ch]
    BY <1>1
  <2>4. QED BY <2>2, <2>3, Zenon
<1>4. Subscriptions(i)' = {s \in Subscriptions(i) : s[1] \notin chs}
  <2>1. Subscriptions(i)'
          = UNION {{ch} \X (1 .. Times(i, senders'[ch])) : ch \in ChannelIds}
    BY DEF Subscriptions
  <2>2. ASSUME NEW ch \in ChannelIds
        PROVE  {ch} \X (1 .. Times(i, senders'[ch]))
                 = IF ch \in chs THEN {} ELSE {ch} \X (1 .. Times(i, senders[ch]))
    <3>1. Times(i, senders'[ch]) = IF ch \in chs THEN 0 ELSE Times(i, senders[ch])
      BY <1>3
    <3>2. CASE ch \in chs
      BY <3>1, <3>2
    <3>3. CASE ch \notin chs
      BY <3>1, <3>3
    <3>4. QED BY <3>2, <3>3
  <2>3. ASSUME NEW s
        PROVE  s \in Subscriptions(i)'
                 <=> s \in Subscriptions(i) /\ s[1] \notin chs
    <3>1. s \in Subscriptions(i)' <=>
            \E ch \in ChannelIds \ chs : s \in {ch} \X (1 .. Times(i, senders[ch]))
      BY <2>1, <2>2
    <3>2. s \in Subscriptions(i) <=>
            \E ch \in ChannelIds : s \in {ch} \X (1 .. Times(i, senders[ch]))
      BY DEF Subscriptions
    <3>3. \A ch \in ChannelIds :
            s \in {ch} \X (1 .. Times(i, senders[ch])) => s[1] = ch
      OBVIOUS
    <3>4. QED BY <3>1, <3>2, <3>3, Zenon
  <2>4. QED BY <2>3
<1>5. \A j \in Ids : j # i => Subscribed'[j] = Subscribed[j]
  <2> SUFFICES ASSUME NEW j \in Ids, j # i PROVE Subscribed'[j] = Subscribed[j]
    OBVIOUS
  <2>1. \A ch \in ChannelIds : Times(j, senders'[ch]) = Times(j, senders[ch])
    BY <1>3
  <2>2. \A ch \in ChannelIds : {ch} \X (1 .. Times(j, senders'[ch]))
                                 = {ch} \X (1 .. Times(j, senders[ch]))
    BY <2>1
  <2>3. {{ch} \X (1 .. Times(j, senders'[ch])) : ch \in ChannelIds}
          = {{ch} \X (1 .. Times(j, senders[ch])) : ch \in ChannelIds}
    BY <2>2, Zenon
  <2>4. Subscriptions(j)' = Subscriptions(j)
    BY <2>3, Zenon DEF Subscriptions
  <2>5. QED BY <1>2, <2>4 DEF Subscribed
<1>6. Subscribed' = [Subscribed EXCEPT ![i] = {s \in @ : s[1] \notin chs}]
  <2>1. /\ Subscribed[i] = Subscriptions(i)
        /\ Subscribed'[i] = Subscriptions(i)'
        /\ Subscribed = [j \in Ids |-> Subscribed[j]]
        /\ Subscribed' = [j \in Ids |-> Subscribed'[j]]
    BY <1>2 DEF Subscribed
  <2>2. QED BY <1>4, <1>5, <2>1
<1>7. QED BY <1>1, <1>6, StandingSame, AwaitingSame, DueSame DEF Promise!Leave

\* The subscriptions the promise counts are those of the open receivers.
LEMMA PublishCount ==
  ASSUME NEW i \in Ids, NEW chs
  PROVE  Promise!Cardinality({s \in Subscribed[i] : s[1] \in chs}) =
           IF Open(i) THEN Cardinality({s \in Subscriptions(i) : s[1] \in chs}) ELSE 0
<1>1. \A S : Promise!Cardinality(S) = Cardinality(S)
  BY DEF Cardinality, Promise!Cardinality
<1>2. CASE Open(i)
  <2>1. Subscribed[i] = Subscriptions(i)
    BY <1>2 DEF Subscribed
  <2>2. QED BY <1>1, <1>2, <2>1, Zenon
<1>3. CASE ~Open(i)
  <2>1. {s \in Subscribed[i] : s[1] \in chs} = {}
    BY <1>3 DEF Subscribed
  <2>2. QED BY <1>1, <1>3, <2>1, FS_EmptySet, Zenon
<1>4. QED BY <1>2, <1>3

\* A message is published to the channels whose senders it is written to.
LEMMA PublishView ==
  ASSUME HInv, NEW to \in Seq(Ids), WriteTo(to), NEW chs \in SUBSET ChannelIds,
         CleanChannels(chs), UNCHANGED <<rx, buffer, creation_senders>>,
         \A i \in Ids : Open(i) =>
           Times(i, to) = Cardinality({s \in Subscriptions(i) : s[1] \in chs})
  PROVE  \E m \in (0 .. MaxSends) \ {Notice} : Promise!Publish(m, chs)
<1>1. PICK m \in 0 .. MaxSends : m = sent + 1 /\ m # Notice
  BY HubConstants DEF WriteTo, HInv, Hub, Notice
<1>2. Spawn(to, m)
  BY <1>1 DEF WriteTo
<1>3. UNCHANGED <<Subscribed, Standing, Awaiting>>
  BY CleanView, StandingSame, AwaitingSame
<1>4. ASSUME NEW i \in Ids
      PROVE  Due'[i] = [Due[i] EXCEPT ![m] =
               @ + Promise!Cardinality({s \in Subscribed[i] : s[1] \in chs})]
  <2>1. PICK c : /\ c = Promise!Cardinality({s \in Subscribed[i] : s[1] \in chs})
                 /\ c = IF Open(i) THEN Times(i, to) ELSE 0
    BY PublishCount, Zenon
  <2>2. \A n \in 0 .. MaxSends :
          Due'[i][n] = Due[i][n] + (IF Open(i) /\ n = m THEN Times(i, to) ELSE 0)
    BY <1>2, DueSpawned
  <2>3. \A n \in 0 .. MaxSends : Due[i][n] \in Nat
    BY DueType
  <2>4. \A n \in 0 .. MaxSends :
          Due'[i][n] = IF n = m THEN Due[i][n] + c ELSE Due[i][n]
    BY <2>1, <2>2, <2>3
  <2>5. DOMAIN Due[i] = 0 .. MaxSends /\ Due'[i] = [n \in 0 .. MaxSends |-> Due'[i][n]]
        /\ Due[i] = [n \in 0 .. MaxSends |-> Due[i][n]]
    BY DEF Due
  <2>6. Due'[i] = [Due[i] EXCEPT ![m] = @ + c]
    BY <2>4, <2>5
  <2>7. QED BY <2>1, <2>6, Zenon
<1>5. Due' = [i \in Ids |-> Due'[i]]
  BY DEF Due
<1>6. Due' = [i \in Ids |-> [Due[i] EXCEPT ![m] =
        @ + Promise!Cardinality({s \in Subscribed[i] : s[1] \in chs})]]
  BY <1>4, <1>5, Zenon
<1>7. Promise!Publish(m, chs)
  BY <1>3, <1>6, Zenon DEF Promise!Publish
<1>8. QED BY <1>1, <1>7

\* The lists of the hub are lists of receivers.
LEMMA SeqLive ==
  ASSUME NEW list \in Seq(Live)
  PROVE  list \in Seq(Ids)
<1>1. Live \subseteq Ids
  BY DEF Live
<1>2. QED BY <1>1, SeqMonotonic

LEMMA SendView ==
  ASSUME HInv, NEW ch \in ChannelIds, Send(ch)
  PROVE  \E m \in (0 .. MaxSends) \ {Notice}, chs \in SUBSET ChannelIds :
           Promise!Publish(m, chs)
<1>1. /\ CleanChannels({ch}) /\ WriteTo(OpenSenders(ch))
      /\ UNCHANGED <<rx, buffer, creation_senders>>
  BY DEF Send, channelVars
<1>2. OpenSenders(ch) \in Seq(Ids)
  <2>1. senders[ch] \in Seq(Live)
    BY DEF HInv, Lists
  <2>2. OpenSenders(ch) \in Seq(Live)
    BY <2>1, RetainType DEF OpenSenders
  <2>3. QED BY <2>2, SeqLive
<1>3. \A i \in Ids : Open(i) => Times(i, OpenSenders(ch))
        = Cardinality({s \in Subscriptions(i) : s[1] \in {ch}})
  <2>1. \A i \in Ids : Open(i) => ~IsClosed(i)
    BY DEF Open, IsClosed, Roles
  <2>2. QED BY <2>1, SendCounted
<1>4. {ch} \in SUBSET ChannelIds
  OBVIOUS
<1>5. \E m \in (0 .. MaxSends) \ {Notice} : Promise!Publish(m, {ch})
  BY <1>1, <1>2, <1>3, <1>4, PublishView
<1>6. QED BY <1>4, <1>5, Zenon

LEMMA BroadcastView ==
  ASSUME HInv, Broadcast
  PROVE  \E m \in (0 .. MaxSends) \ {Notice}, chs \in SUBSET ChannelIds :
           Promise!Publish(m, chs)
<1>1. PICK order \in SetToSeqs(opened) :
        WriteTo(FlattenSeq([k \in DOMAIN order |-> OpenSenders(order[k])]))
  BY DEF Broadcast
<1> PICK to : to = FlattenSeq([k \in DOMAIN order |-> OpenSenders(order[k])])
  OBVIOUS
<1>2. CleanChannels(opened) /\ UNCHANGED <<rx, buffer, creation_senders>>
  BY DEF Broadcast, channelVars
<1>3. to \in Seq(Ids)
  <2> DEFINE parts == [k \in DOMAIN order |-> OpenSenders(order[k])]
  <2>1. PICK n \in Nat : n = Cardinality(opened)
    BY FS_CardinalityType DEF HInv, Hub
  <2>2. order \in [1 .. n -> opened] /\ opened \subseteq ChannelIds
    BY <2>1 DEF SetToSeqs, HInv, Hub
  <2>3. ASSUME NEW k \in 1 .. n PROVE parts[k] \in Seq(Live)
    <3>1. PICK ch \in ChannelIds : ch = order[k]
      BY <2>2
    <3>2. senders[ch] \in Seq(Live)
      BY DEF HInv, Lists
    <3>3. OpenSenders(ch) \in Seq(Live)
      BY <3>2, RetainType DEF OpenSenders
    <3>4. parts[k] = OpenSenders(ch)
      BY <2>2, <3>1
    <3> HIDE DEF parts
    <3>5. QED BY <3>3, <3>4
  <2>4. parts \in [1 .. n -> Seq(Live)]
    BY <2>2, <2>3
  <2> HIDE DEF parts
  <2>5. parts \in Seq(Seq(Live))
    BY <2>1, <2>4, FunctionIsSeq
  <2>6. FlattenSeq(parts) \in Seq(Live)
    BY <2>5, FlattenType
  <2>7. to = FlattenSeq(parts)
    BY DEF parts
  <2>8. QED BY <2>6, <2>7, SeqLive
<1>4. ASSUME NEW i \in Ids, Open(i)
      PROVE  Times(i, to) = Cardinality({s \in Subscriptions(i) : s[1] \in opened})
  <2>1. ~IsClosed(i)
    BY <1>4 DEF Open, IsClosed, Roles
  <2>2. QED BY <1>1, <2>1, BroadcastCounted, Zenon
<1>5. opened \in SUBSET ChannelIds
  BY DEF HInv, Hub
<1>6. WriteTo(to)
  BY <1>1, Zenon
<1>7. \E m \in (0 .. MaxSends) \ {Notice} : Promise!Publish(m, opened)
  BY <1>2, <1>3, <1>4, <1>5, <1>6, PublishView
<1>8. QED BY <1>5, <1>7, Zenon

\* A holder of a sender writes to its receiver.
LEMMA WhisperView ==
  ASSUME HInv, NEW i \in Ids, WriteHeld(i)
  PROVE  \/ \E m \in (0 .. MaxSends) \ {Notice} : Promise!Whisper(m, i)
         \/ UNCHANGED Promise!vars
<1>1. PICK m \in 0 .. MaxSends : m = sent + 1 /\ m # Notice
  BY HubConstants DEF WriteHeld, HInv, Hub, Notice
<1>2. /\ Spawn(<<i>>, m) /\ <<i>> \in Seq(Ids)
      /\ UNCHANGED <<senders, creation_senders, rx, buffer>>
  BY <1>1 DEF WriteHeld, hubVars, channelVars
<1>3. UNCHANGED <<Subscribed, Standing, Awaiting>>
  BY <1>2, SubscribedSame, StandingSame, AwaitingSame
<1>4. ASSUME NEW j \in Ids, NEW n \in 0 .. MaxSends
      PROVE  /\ Due[j][n] \in Nat
             /\ Due'[j][n] =
                  IF j = i /\ n = m /\ Open(i) THEN Due[j][n] + 1 ELSE Due[j][n]
  <2>1. Due'[j][n] = Due[j][n] + (IF Open(j) /\ n = m THEN Times(j, <<i>>) ELSE 0)
    BY <1>2, DueSpawned
  <2>2. Times(j, <<i>>) = IF j = i THEN 1 ELSE 0
    BY TimesOne
  <2>3. QED BY <2>1, <2>2, DueType
<1>5. CASE Open(i)
  <2>1. Standing[i] = "in"
    BY <1>5 DEF Standing, Open, Roles
  <2>2. Due' = [Due EXCEPT ![i] = [Due[i] EXCEPT ![m] = Due[i][m] + 1]]
    BY <1>4, <1>5, DueChanged
  <2>3. Promise!Whisper(m, i)
    BY <1>3, <2>1, <2>2 DEF Promise!Whisper
  <2>4. QED BY <1>1, <2>3
<1>6. CASE ~Open(i)
  <2>1. Due' = Due
    BY <1>4, <1>6, DueEqual
  <2>2. QED BY <1>3, <2>1 DEF Promise!vars
<1>7. QED BY <1>5, <1>6

\* The hub is dropped: nobody is subscribed, nobody waits.
LEMMA CloseView == ASSUME HInv, DropHub PROVE Promise!Close
<1>1. /\ senders' = [ch \in ChannelIds |-> <<>>]
      /\ creation_senders' = [ch \in ChannelIds |-> <<>>]
      /\ UNCHANGED <<rx, buffer, writes>>
  BY DEF DropHub, channelVars
<1>2. ASSUME NEW i \in Ids PROVE Subscriptions(i)' = {} /\ WaitsFor(i)' = {}
  <2>1. ASSUME NEW ch \in ChannelIds
        PROVE  {ch} \X (1 .. Times(i, senders'[ch])) = {}
    <3>1. Times(i, <<>>) = 0
      BY TimesEmpty
    <3>2. senders'[ch] = <<>>
      BY <1>1
    <3>3. Times(i, senders'[ch]) = 0
      BY <3>1, <3>2, Zenon
    <3>4. QED BY <3>3
  <2>2. Subscriptions(i)' = {}
    BY <2>1 DEF Subscriptions
  <2>3. WaitsFor(i)' = {}
    <3>1. ASSUME NEW ch \in ChannelIds PROVE ~Contains(creation_senders'[ch], i)
      <4>1. creation_senders'[ch] = <<>> /\ Len(<<>>) = 0
        BY <1>1
      <4>2. QED BY <4>1 DEF Contains
    <3>2. QED BY <3>1 DEF WaitsFor
  <2>4. QED BY <2>2, <2>3
<1>3. Subscribed' = [i \in Ids |-> {}] /\ Awaiting' = [i \in Ids |-> {}]
  BY <1>2 DEF Subscribed, Awaiting
<1>4. QED BY <1>1, <1>3, StandingSame, DueSame DEF Promise!Close

\* A task puts its message into the channel: it stays due; or finds the
\* receiver dropped: nothing is due to it.
LEMMA WriteView ==
  ASSUME HInv, NEW w \in DOMAIN writes, TaskStep(w)
  PROVE  UNCHANGED Promise!vars
<1>1. PICK i \in Ids, msg \in 0 .. MaxSends :
        /\ i = writes[w].to /\ msg = writes[w].msg
        /\ writes[w] = [to |-> i, msg |-> msg, state |-> "sending"]
        /\ writes[w] \in Write
  <2>1. PICK task \in Write : task = writes[w]
    BY DEF HInv, Tasks
  <2>2. task.state = "sending"
    BY <2>1 DEF TaskStep, WriteSent, WriteFailed
  <2>3. task = [to |-> task.to, msg |-> task.msg, state |-> "sending"]
    BY <2>2 DEF Write
  <2>4. task.to \in Ids /\ task.msg \in 0 .. MaxSends
    BY DEF Write
  <2>5. QED BY <2>1, <2>3, <2>4
<1>2. PICK new \in Write : new.state # "sending" /\ writes' = [writes EXCEPT ![w] = new]
  <2>1. PICK outcome \in {"sent", "failed"} : Settle(w, outcome)
    BY DEF TaskStep, WriteSent, WriteFailed
  <2>2. PICK new \in Write : new = [to |-> i, msg |-> msg, state |-> outcome]
    BY DEF Write
  <2>3. writes' = [writes EXCEPT ![w] = [writes[w] EXCEPT !.state = outcome]]
    BY <2>1 DEF Settle
  <2>4. [writes[w] EXCEPT !.state = outcome] = new
    BY <1>1, <2>2
  <2>5. writes' = [writes EXCEPT ![w] = new]
    BY <2>3, <2>4, Zenon
  <2>6. QED BY <2>2, <2>5
<1>3. /\ UNCHANGED <<senders, creation_senders, rx>>
      /\ \/ buffer' = [buffer EXCEPT ![i] = Append(@, msg)]
         \/ IsClosed(i) /\ UNCHANGED buffer
  BY <1>1 DEF TaskStep, WriteSent, WriteFailed, hubVars, channelVars
<1>4. ASSUME NEW j \in Ids, NEW m \in 0 .. MaxSends
      PROVE  Pending(j, m) = Pending(j, m)' + (IF j = i /\ m = msg THEN 1 ELSE 0)
  <2> PICK task \in Write : task = [to |-> j, msg |-> m, state |-> "sending"]
    BY DEF Write
  <2>1. Pending(j, m) = Times(task, writes) /\ Pending(j, m)' = Times(task, writes')
    BY DEF Pending, Times
  <2>2. new # task /\ writes \in Seq(Write)
    BY <1>2 DEF HInv, Tasks
  <2>3. Times(task, writes) = Times(task, [writes EXCEPT ![w] = new])
                                + (IF writes[w] = task THEN 1 ELSE 0)
    BY <2>2, TimesReplaced
  <2>4. writes[w] = task <=> j = i /\ m = msg
    BY <1>1
  <2>5. Times(task, writes') = Times(task, [writes EXCEPT ![w] = new])
    BY <1>2, Zenon
  <2>6. Times(task, writes) = Times(task, writes') + (IF writes[w] = task THEN 1 ELSE 0)
    BY <2>3, <2>5, Zenon
  <2>7. QED BY <2>1, <2>4, <2>6, Zenon
<1>5. ASSUME NEW j \in Ids, NEW m \in 0 .. MaxSends PROVE Due'[j][m] = Due[j][m]
  <2>1. PICK list \in Seq(0 .. MaxSends) : list = buffer[j]
    BY DEF HInv, Channels
  <2>2. PICK b \in Nat, p \in Nat : b = Times(m, list) /\ p = Pending(j, m)
    BY <2>1, DueType
  <2>3. Pending(j, m)' \in Nat
    <3>1. Pending(j, m)' = Times([to |-> j, msg |-> m, state |-> "sending"], writes')
      BY DEF Pending, Times
    <3>2. writes' \in Seq(Write)
      <4>1. writes \in Seq(Write) /\ w \in 1 .. Len(writes)
        BY DEF HInv, Tasks
      <4>2. QED BY <1>2, <4>1, ExceptSeq
    <3>3. QED BY <3>1, <3>2, TimesType
  <2>4. /\ Due[j][m] = IF Open(j) THEN b + p ELSE 0
        /\ Due'[j][m] = IF Open(j)' THEN Times(m, buffer'[j]) + Pending(j, m)' ELSE 0
    BY <2>1, <2>2, Zenon DEF Due, Owed
  <2>5. Open(j)' <=> Open(j)
    BY <1>3, StandingSame
  <2>6. CASE buffer'[j] = Append(list, msg) /\ j = i
    <3>1. Times(m, Append(list, msg)) = b + (IF m = msg THEN 1 ELSE 0)
      BY <2>2, TimesAppend
    <3>2. Times(m, buffer'[j]) = b + (IF m = msg THEN 1 ELSE 0)
      BY <2>6, <3>1, Zenon
    <3>3. p = Pending(j, m)' + (IF m = msg THEN 1 ELSE 0)
      BY <1>4, <2>2, <2>6
    <3>4. QED BY <2>3, <2>4, <2>5, <3>2, <3>3
  <2>7. CASE buffer'[j] = list /\ j # i
    <3>1. Pending(j, m)' = p
      BY <1>4, <2>2, <2>3, <2>7
    <3>2. Times(m, buffer'[j]) = b
      BY <2>2, <2>7, Zenon
    <3>3. QED BY <2>4, <2>5, <3>1, <3>2
  <2>8. CASE ~Open(j)
    BY <2>4, <2>5, <2>8
  <2>9. QED
    <3>1. buffer \in [Ids -> Seq(0 .. MaxSends)]
      BY DEF HInv, Channels
    <3>2. IsClosed(i) => ~Open(i)
      BY DEF Open, IsClosed, Roles
    <3>3. QED BY <1>3, <2>1, <2>6, <2>7, <2>8, <3>1, <3>2
<1>6. UNCHANGED Due
  BY <1>5, DueEqual
<1>7. UNCHANGED Subscribed
  BY <1>3, SubscribedSame
<1>8. QED BY <1>3, <1>6, <1>7, StandingSame, AwaitingSame DEF Promise!vars

\* A receiver takes what comes first in its channel.
LEMMA TakeView ==
  ASSUME HInv, NEW i \in Ids, Receive(i)
  PROVE  (\E m \in 0 .. MaxSends : Promise!Take(i, m)) \/ UNCHANGED Promise!vars
<1>1. PICK list \in Seq(0 .. MaxSends) : list = buffer[i] /\ list # <<>>
  BY DEF Receive, HInv, Channels
<1>2. PICK msg \in 0 .. MaxSends : msg = list[1]
  <2>1. 1 \in 1 .. Len(list)
    BY <1>1, EmptySeq
  <2>2. QED BY <2>1, ElementOfSeq
<1>3. /\ buffer' = [buffer EXCEPT ![i] = Tail(list)]
      /\ buffer \in [Ids -> Seq(0 .. MaxSends)]
      /\ UNCHANGED <<senders, creation_senders, rx, writes>>
  BY <1>1 DEF Receive, hubVars, HInv, Channels
<1>4. UNCHANGED <<Subscribed, Standing, Awaiting>>
  BY <1>3, SubscribedSame, StandingSame, AwaitingSame
<1>5. ASSUME NEW j \in Ids, NEW m \in 0 .. MaxSends
      PROVE  /\ Due[j][m] \in Nat /\ Due'[j][m] \in Nat
             /\ Due[j][m] =
                  IF j = i /\ m = msg /\ Open(i) THEN Due'[j][m] + 1 ELSE Due'[j][m]
  <2>1. PICK p \in Nat, b \in Nat : p = Pending(j, m) /\ b = Times(m, buffer[j])
    BY DueType
  <2>2. /\ Due[j][m] = IF Open(j) THEN b + p ELSE 0
        /\ Due'[j][m] = IF Open(j)' THEN Times(m, buffer'[j]) + Pending(j, m)' ELSE 0
    BY <2>1, Zenon DEF Due, Owed
  <2>3. (Open(j)' <=> Open(j)) /\ Pending(j, m)' = p
    BY <1>3, <2>1, StandingSame DEF Pending
  <2>4. CASE j = i
    <3>1. Times(m, list) = Times(m, Tail(list)) + (IF m = list[1] THEN 1 ELSE 0)
      BY <1>1, TimesTail
    <3>2. Tail(list) \in Seq(0 .. MaxSends)
      BY <1>1, HeadTailProperties
    <3>3. PICK rest \in Nat : rest = Times(m, Tail(list))
      BY <3>2, TimesType
    <3>4. b = rest + (IF m = msg THEN 1 ELSE 0)
      BY <1>1, <1>2, <2>1, <2>4, <3>1, <3>3, Zenon
    <3>5. Times(m, buffer'[j]) = rest
      <4>1. buffer'[j] = Tail(list)
        BY <1>3, <2>4
      <4>2. QED BY <3>3, <4>1, Zenon
    <3>6. QED BY <2>2, <2>3, <2>4, <3>4, <3>5
  <2>5. CASE j # i
    <3>1. buffer'[j] = buffer[j]
      BY <1>3, <2>5
    <3>2. Times(m, buffer'[j]) = b
      BY <2>1, <3>1, Zenon
    <3>3. QED BY <2>2, <2>3, <2>5, <3>2
  <2>6. QED BY <2>4, <2>5
<1>6. CASE Open(i)
  <2>1. Due' = [Due EXCEPT ![i] = [Due[i] EXCEPT ![msg] = Due[i][msg] - 1]]
    <3>1. Due'[i][msg] = Due[i][msg] - 1
      BY <1>5, <1>6
    <3>2. \A j \in Ids, n \in 0 .. MaxSends :
            ~(j = i /\ n = msg) => Due'[j][n] = Due[j][n]
      BY <1>5, Zenon
    <3>3. QED BY <3>1, <3>2, DueChanged
  <2>2. Due[i][msg] > 0
    BY <1>5, <1>6
  <2>3. Promise!Take(i, msg)
    BY <1>4, <2>1, <2>2 DEF Promise!Take
  <2>4. QED BY <2>3
<1>7. CASE ~Open(i)
  <2>1. Due' = Due
    BY <1>5, <1>7, DueEqual
  <2>2. QED BY <1>4, <2>1 DEF Promise!vars
<1>8. QED BY <1>6, <1>7

\* A receiver that has come to its end is still open.
LEMMA EndView ==
  ASSUME HInv, NEW i \in Ids, ReceiveNone(i)
  PROVE  UNCHANGED Promise!vars
<1>1. /\ rx[i] \in Roles /\ rx' = [rx EXCEPT ![i] = "ended"]
      /\ rx \in [Ids -> Roles \cup {"unused", "ended", "dropped"}]
      /\ UNCHANGED <<senders, creation_senders, buffer, writes>>
  BY DEF ReceiveNone, hubVars, HInv, Channels
<1>2. \A j \in Ids : /\ Open(j)' <=> Open(j)
                     /\ rx'[j] = "unused" <=> rx[j] = "unused"
  BY <1>1 DEF Open, Roles
<1>3. UNCHANGED Standing
  BY <1>2 DEF Standing
<1>4. \A j \in Ids : Subscriptions(j)' = Subscriptions(j) /\ WaitsFor(j)' = WaitsFor(j)
  BY <1>1 DEF Subscriptions, WaitsFor
<1>5. \A j \in Ids, m \in 0 .. MaxSends : Owed(j, m)' = Owed(j, m)
  BY <1>1 DEF Owed, Pending
<1>6. UNCHANGED Subscribed /\ UNCHANGED Awaiting
  BY <1>2, <1>4 DEF Subscribed, Awaiting
<1>7. \A j \in Ids, m \in 0 .. MaxSends : Due'[j][m] = Due[j][m]
  BY <1>2, <1>5, Zenon DEF Due
<1>8. QED BY <1>3, <1>6, <1>7, DueEqual DEF Promise!vars

\* A receiver is dropped.
LEMMA QuitView ==
  ASSUME HInv, NEW i \in Ids, DropReceiver(i)
  PROVE  Promise!Quit(i)
<1>1. /\ rx[i] \in Roles \cup {"ended"} /\ rx' = [rx EXCEPT ![i] = "dropped"]
      /\ rx \in [Ids -> Roles \cup {"unused", "ended", "dropped"}]
      /\ buffer' = [buffer EXCEPT ![i] = <<>>]
      /\ UNCHANGED <<senders, creation_senders, writes>>
  BY DEF DropReceiver, hubVars, HInv, Channels
<1>2. /\ Open(i) /\ ~Open(i)'
      /\ \A j \in Ids \ {i} : (Open(j)' <=> Open(j)) /\ rx'[j] = rx[j]
  BY <1>1 DEF Open, Roles
<1>3. Standing[i] = "in" /\ Standing' = [Standing EXCEPT ![i] = "out"]
  <2>1. \A j \in Ids : rx'[j] = IF j = i THEN "dropped" ELSE rx[j]
    BY <1>1
  <2>2. Standing[i] = "in"
    BY <1>1, <1>2 DEF Standing, Roles
  <2>3. \A j \in Ids : Standing'[j] = IF j = i THEN "out" ELSE Standing[j]
    BY <1>2, <2>1 DEF Standing
  <2>4. QED BY <2>2, <2>3 DEF Standing
<1>4. \A j \in Ids : Subscriptions(j)' = Subscriptions(j) /\ WaitsFor(j)' = WaitsFor(j)
  BY <1>1 DEF Subscriptions, WaitsFor
<1>5. Subscribed' = [Subscribed EXCEPT ![i] = {}]
  BY <1>2, <1>4 DEF Subscribed
<1>6. Awaiting' = [Awaiting EXCEPT ![i] = {}]
  BY <1>2, <1>4 DEF Awaiting
<1>7. Due' = [Due EXCEPT ![i] = [m \in 0 .. MaxSends |-> 0]]
  <2>1. Due'[i] = [m \in 0 .. MaxSends |-> 0]
    BY <1>2 DEF Due
  <2>2. ASSUME NEW j \in Ids \ {i} PROVE Due'[j] = Due[j]
    <3>1. buffer'[j] = buffer[j]
      BY <1>1 DEF HInv, Channels
    <3>2. \A m \in 0 .. MaxSends : Owed(j, m)' = Owed(j, m)
      BY <1>1, <3>1 DEF Owed, Pending
    <3>3. QED BY <1>2, <3>2 DEF Due
  <2>3. /\ Due = [j \in Ids |-> Due[j]]
        /\ Due' = [j \in Ids |-> Due'[j]]
    BY DEF Due
  <2>4. QED BY <2>1, <2>2, <2>3
<1>8. QED BY <1>3, <1>5, <1>6, <1>7 DEF Promise!Quit

\* The receiver to be made next: nobody knows it.
LEMMA NextReceiver ==
  ASSUME HInv, NEW i \in Ids, i = connection_id
  PROVE  /\ rx[i] = "unused" /\ ~Open(i) /\ Standing[i] = "new" /\ buffer[i] = <<>>
         /\ i \notin Live /\ WaitsFor(i) = {}
         /\ \A ch \in ChannelIds : Times(i, senders[ch]) = 0
         /\ \A m \in 0 .. MaxSends : Pending(i, m) = 0 /\ Times(m, buffer[i]) = 0
<1>1. rx[i] = "unused" /\ buffer[i] = <<>> /\ i \notin Live
  BY HubConstants DEF HInv, Hub, Channels, Live, Ids
<1>2. ~Open(i) /\ Standing[i] = "new"
  BY <1>1 DEF Open, Roles, Standing
<1>3. ASSUME NEW ch \in ChannelIds
      PROVE  Times(i, senders[ch]) = 0 /\ ~Contains(creation_senders[ch], i)
  <2>1. senders[ch] \in Seq(Live) /\ creation_senders[ch] \in Seq(Live)
    BY DEF HInv, Lists
  <2>2. QED BY <1>1, <2>1, NotLiveNotListed
<1>4. WaitsFor(i) = {}
  BY <1>3 DEF WaitsFor
<1>5. ASSUME NEW m \in 0 .. MaxSends
      PROVE  Pending(i, m) = 0 /\ Times(m, buffer[i]) = 0
  <2>1. \A w \in DOMAIN writes :
          writes[w] # [to |-> i, msg |-> m, state |-> "sending"]
    BY <1>1 DEF HInv, Tasks
  <2>2. {w \in DOMAIN writes :
          writes[w] = [to |-> i, msg |-> m, state |-> "sending"]} = {}
    BY <2>1
  <2>3. Pending(i, m) = 0
    BY <2>2, FS_EmptySet, Zenon DEF Pending
  <2>4. Times(m, buffer[i]) = 0
    BY <1>1, TimesEmpty, Zenon
  <2>5. QED BY <2>3, <2>4
<1>6. QED BY <1>1, <1>2, <1>3, <1>4, <1>5

\* A receiver is made: it enters, and nobody else does.
LEMMA EnterView ==
  ASSUME HInv, NEW role \in Roles, NEW i \in Ids, i = connection_id, NewChannel(role)
  PROVE  /\ Promise!Enter(i) /\ Open(i)'
         /\ \A j \in Ids : j # i => (Open(j)' <=> Open(j))
<1>1. /\ rx' = [rx EXCEPT ![i] = role] /\ rx[i] = "unused" /\ Standing[i] = "new"
      /\ rx \in [Ids -> Roles \cup {"unused", "ended", "dropped"}]
  BY NextReceiver DEF NewChannel, HInv, Channels
<1>2. \A j \in Ids : rx'[j] = IF j = i THEN role ELSE rx[j]
  BY <1>1
<1>3. /\ Open(i)' /\ role # "unused"
      /\ \A j \in Ids : j # i => (Open(j)' <=> Open(j))
  BY <1>2 DEF Open, Roles
<1>4. \A j \in Ids : Standing'[j] = IF j = i THEN "in" ELSE Standing[j]
  BY <1>2, <1>3 DEF Standing
<1>5. Standing' = [Standing EXCEPT ![i] = "in"]
  BY <1>4 DEF Standing
<1>6. QED BY <1>1, <1>3, <1>5 DEF Promise!Enter

\* A receiver is made for a list of channels, those who wait for them are told.
LEMMA JoinView ==
  ASSUME HInv, WaitersOnce, NEW ids \in Seq(ChannelIds), InsertSenders(ids)
  PROVE  \E i \in Ids : Promise!Join(i, ids)
<1>1. /\ NewChannel("subscriber") /\ Spawn(ToNotify(ids), Notice)
      /\ UNCHANGED <<creation_senders, buffer>>
  BY DEF InsertSenders
<1>0. PICK i \in Ids : i = connection_id
  BY <1>1, NewChannelStep DEF Roles
<1>2. /\ Promise!Enter(i) /\ Open(i)'
      /\ \A j \in Ids : j # i => (Open(j)' <=> Open(j))
  BY <1>0, <1>1, EnterView DEF Roles
<1>3. /\ ~Open(i) /\ i \notin Live /\ WaitsFor(i) = {}
      /\ \A ch \in ChannelIds : Times(i, senders[ch]) = 0
      /\ \A m \in 0 .. MaxSends : Pending(i, m) = 0 /\ Times(m, buffer[i]) = 0
  BY <1>0, NextReceiver
<1>4. \A S : Promise!Cardinality(S) = Cardinality(S)
  BY DEF Cardinality, Promise!Cardinality
<1>5. ASSUME NEW j \in Ids, NEW ch \in ChannelIds
      PROVE  Times(j, senders'[ch])
               = IF j = i THEN Times(ch, ids) ELSE Times(j, senders[ch])
  <2>1. PICK n \in Nat : n = Times(ch, ids)
    BY TimesType
  <2>2. PICK more \in Seq(Ids) : more = [k \in 1 .. n |-> i] /\ Len(more) = n
    <3>1. PICK more : more = [k \in 1 .. n |-> i]
      OBVIOUS
    <3>2. more \in Seq(Ids) /\ Len(more) = n
      <4>1. more \in [1 .. n -> Ids]
        BY <3>1
      <4>2. QED BY <4>1, FunctionIsSeq
    <3>3. QED BY <3>1, <3>2
  <2>3. PICK list \in Seq(Ids) : list = senders[ch]
    <3>1. senders[ch] \in Seq(Live)
      BY DEF HInv, Lists
    <3>2. QED BY <3>1, SeqLive
  <2>4. senders'[ch] = list \o more
    BY <1>0, <2>1, <2>2, <2>3 DEF InsertSenders
  <2>5. Times(j, list \o more) = Times(j, list) + Times(j, more)
    BY TimesConcat
  <2>6. Times(j, more) = IF j = i THEN n ELSE 0
    <3>1. \A k \in 1 .. Len(more) : more[k] = i
      BY <2>2
    <3>2. Times(j, more) = IF j = i THEN Len(more) ELSE 0
      BY <3>1, TimesConstant
    <3>3. QED BY <2>2, <3>2, Zenon
  <2>7. PICK t \in Nat : t = Times(j, list)
    BY TimesType
  <2>8. j = i => t = 0
    BY <1>3, <2>3, <2>7
  <2>9. Times(j, senders'[ch]) = Times(j, list) + Times(j, more)
    BY <2>4, <2>5, Zenon
  <2>10. Times(j, senders'[ch]) = IF j = i THEN n ELSE t
    BY <2>6, <2>7, <2>8, <2>9
  <2>11. QED BY <2>1, <2>3, <2>7, <2>10, Zenon
<1>6. Subscribed' = [Subscribed EXCEPT ![i] = Promise!Subscriptions(ids)]
  <2>1. Subscriptions(i)' = Promise!Subscriptions(ids)
    <3>1. \A ch \in ChannelIds : Promise!Count(ids, ch) = Times(ch, ids)
      BY <1>4, Zenon DEF Promise!Count, Times
    <3>2. \A ch \in ChannelIds : Times(i, senders'[ch]) = Promise!Count(ids, ch)
      BY <1>5, <3>1
    <3>3. \A ch \in ChannelIds : {ch} \X (1 .. Times(i, senders'[ch]))
                                   = {ch} \X (1 .. Promise!Count(ids, ch))
      BY <3>2
    <3>4. {{ch} \X (1 .. Times(i, senders'[ch])) : ch \in ChannelIds}
            = {{ch} \X (1 .. Promise!Count(ids, ch)) : ch \in ChannelIds}
      BY <3>3, Zenon
    <3>5. QED BY <3>4, Zenon DEF Subscriptions, Promise!Subscriptions
  <2>2. ASSUME NEW j \in Ids, j # i PROVE Subscriptions(j)' = Subscriptions(j)
    <3>1. \A ch \in ChannelIds : Times(j, senders'[ch]) = Times(j, senders[ch])
      BY <1>5, <2>2
    <3>2. \A ch \in ChannelIds : {ch} \X (1 .. Times(j, senders'[ch]))
                                   = {ch} \X (1 .. Times(j, senders[ch]))
      BY <3>1
    <3>3. {{ch} \X (1 .. Times(j, senders'[ch])) : ch \in ChannelIds}
            = {{ch} \X (1 .. Times(j, senders[ch])) : ch \in ChannelIds}
      BY <3>2, Zenon
    <3>4. QED BY <3>3, Zenon DEF Subscriptions
  <2>3. \A j \in Ids : Subscribed'[j] =
          IF j = i THEN Promise!Subscriptions(ids) ELSE Subscribed[j]
    BY <1>2, <2>1, <2>2 DEF Subscribed
  <2>4. /\ Subscribed = [j \in Ids |-> Subscribed[j]]
        /\ Subscribed' = [j \in Ids |-> Subscribed'[j]]
    BY DEF Subscribed
  <2>5. QED BY <2>3, <2>4
<1>7. UNCHANGED Awaiting
  <2>1. \A j \in Ids : WaitsFor(j)' = WaitsFor(j)
    BY <1>1 DEF WaitsFor
  <2>2. \A j \in Ids : Awaiting'[j] = Awaiting[j]
    BY <1>2, <1>3, <2>1 DEF Awaiting
  <2>3. QED BY <2>2 DEF Awaiting
<1>8. ToNotify(ids) \in Seq(Live) /\ ToNotify(ids) \in Seq(Ids)
  <2>1. ToNotify(ids) \in Seq(Live)
    BY ToNotifyType DEF HInv, Lists
  <2>2. QED BY <2>1, SeqLive
<1>9. Notice \in 0 .. MaxSends
  BY HubConstants DEF Notice
<1>10. ASSUME NEW j \in Ids
       PROVE  Promise!Notices(j, ids) =
                IF Open(j) THEN Times(j, ToNotify(ids)) ELSE 0
  <2>1. CASE Open(j)
    <3>1. Awaiting[j] = WaitsFor(j)
      BY <2>1 DEF Awaiting
    <3>2. Promise!Notices(j, ids)
            = Cardinality({k \in DOMAIN ids : ids[k] \in WaitsFor(j)})
      BY <1>4, <3>1, Zenon DEF Promise!Notices
    <3>3. QED BY <2>1, <3>2, NoticesCounted, Zenon
  <2>2. CASE ~Open(j)
    <3>1. {k \in DOMAIN ids : ids[k] \in Awaiting[j]} = {}
      BY <2>2 DEF Awaiting
    <3>2. Promise!Notices(j, ids) = 0
      BY <1>4, <3>1, FS_EmptySet, Zenon DEF Promise!Notices
    <3>3. QED BY <2>2, <3>2, Zenon
  <2>3. QED BY <2>1, <2>2
<1>11. ASSUME NEW j \in Ids, NEW m \in 0 .. MaxSends
       PROVE  /\ Due[j][m] \in Nat
              /\ Due'[j][m] = IF m = Notice THEN Due[j][m] + Promise!Notices(j, ids)
                                             ELSE Due[j][m]
  <2>1. PICK p \in Nat, b \in Nat : p = Pending(j, m) /\ b = Times(m, buffer[j])
    BY DueType
  <2>2. PICK n \in Nat : n = Times(j, ToNotify(ids))
    BY <1>8, TimesType
  <2>3. Pending(j, m)' = p + (IF m = Notice THEN n ELSE 0)
    BY <1>1, <1>8, <1>9, <2>1, <2>2, PendingSpawned
  <2>4. Times(m, buffer'[j]) = b
    BY <1>1, <2>1
  <2>5. /\ Due[j][m] = IF Open(j) THEN b + p ELSE 0
        /\ Due'[j][m] = IF Open(j)' THEN b + Pending(j, m)' ELSE 0
    BY <2>1, <2>4, Zenon DEF Due, Owed
  <2>6. Promise!Notices(j, ids) = IF Open(j) THEN n ELSE 0
    BY <1>10, <2>2, Zenon
  <2>7. CASE j = i
    <3>1. p = 0 /\ b = 0
      BY <1>3, <2>1, <2>7
    <3>2. n = 0
      BY <1>3, <1>8, <2>2, <2>7, NotLiveNotListed
    <3>3. QED BY <1>2, <1>3, <2>3, <2>5, <2>6, <2>7, <3>1, <3>2
  <2>8. CASE j # i
    BY <1>2, <2>3, <2>5, <2>6, <2>8
  <2>9. QED BY <2>7, <2>8
<1>12. Due' = [j \in Ids |-> [Due[j] EXCEPT ![Notice] = @ + Promise!Notices(j, ids)]]
  <2>1. ASSUME NEW j \in Ids
        PROVE  Due'[j] = [Due[j] EXCEPT ![Notice] = @ + Promise!Notices(j, ids)]
    <3>1. PICK old, new, c : /\ old = Due[j] /\ new = Due'[j]
                             /\ c = Promise!Notices(j, ids)
      OBVIOUS
    <3>2. /\ old = [m \in 0 .. MaxSends |-> old[m]]
          /\ new = [m \in 0 .. MaxSends |-> new[m]]
      BY <3>1 DEF Due
    <3>3. \A m \in 0 .. MaxSends : new[m] = IF m = Notice THEN old[m] + c ELSE old[m]
      BY <1>11, <3>1, Zenon
    <3>4. new = [old EXCEPT ![Notice] = @ + c]
      BY <1>9, <3>2, <3>3
    <3>5. QED BY <3>1, <3>4, Zenon
  <2>2. Due' = [j \in Ids |-> Due'[j]]
    BY DEF Due
  <2>3. QED BY <2>1, <2>2, Zenon
<1>13. Promise!Join(i, ids)
  BY <1>2, <1>6, <1>7, <1>12, Zenon DEF Promise!Join
<1>14. QED BY <1>13

\* A waiter is made.
LEMMA AwaitView ==
  ASSUME HInv, NEW ch \in ChannelIds, GetCreationWaiter(ch)
  PROVE  \E i \in Ids : Promise!Await(i, ch)
<1>1. /\ NewChannel("waiter") /\ UNCHANGED <<senders, buffer, writes>>
      /\ creation_senders' = [creation_senders EXCEPT ![ch] = Append(@, connection_id)]
  BY DEF GetCreationWaiter
<1> PICK i \in Ids : i = connection_id
  BY <1>1, NewChannelStep DEF Roles
<1>2. /\ Promise!Enter(i) /\ Open(i)'
      /\ \A j \in Ids : j # i => (Open(j)' <=> Open(j))
  BY <1>1, EnterView DEF Roles
<1>3. /\ ~Open(i) /\ WaitsFor(i) = {}
      /\ \A c \in ChannelIds : Times(i, senders[c]) = 0
      /\ \A m \in 0 .. MaxSends : Pending(i, m) = 0 /\ Times(m, buffer[i]) = 0
  BY NextReceiver
<1>4. UNCHANGED Subscribed
  <2>1. \A j \in Ids : Subscriptions(j)' = Subscriptions(j)
    BY <1>1 DEF Subscriptions
  <2>2. Subscriptions(i) = {}
    <3>1. \A c \in ChannelIds : {c} \X (1 .. Times(i, senders[c])) = {}
      BY <1>3
    <3>2. QED BY <3>1 DEF Subscriptions
  <2>3. \A j \in Ids : Subscribed'[j] = Subscribed[j]
    BY <1>2, <1>3, <2>1, <2>2 DEF Subscribed
  <2>4. QED BY <2>3 DEF Subscribed
<1>5. UNCHANGED Due
  <2>1. \A j \in Ids, m \in 0 .. MaxSends : Owed(j, m)' = Owed(j, m)
    BY <1>1 DEF Owed, Pending
  <2>2. \A m \in 0 .. MaxSends : Owed(i, m) = 0
    BY <1>3 DEF Owed
  <2>3. \A j \in Ids, m \in 0 .. MaxSends : Due'[j][m] = Due[j][m]
    BY <1>2, <1>3, <2>1, <2>2 DEF Due
  <2>4. QED BY <2>3, DueEqual
<1>6. Awaiting' = [Awaiting EXCEPT ![i] = {ch}]
  <2>1. ASSUME NEW j \in Ids, NEW c \in ChannelIds
        PROVE  Contains(creation_senders'[c], j)
                 <=> Contains(creation_senders[c], j) \/ (j = i /\ c = ch)
    <3>1. PICK list \in Seq(Ids) : list = creation_senders[c]
      <4>1. creation_senders[c] \in Seq(Live)
        BY DEF HInv, Lists
      <4>2. QED BY <4>1, SeqLive
    <3>2. creation_senders'[c] = IF c = ch THEN Append(list, i) ELSE list
      BY <1>1, <3>1 DEF HInv, Lists
    <3>3. Contains(Append(list, i), j) <=> Contains(list, j) \/ j = i
      <4>1. /\ Len(Append(list, i)) = Len(list) + 1 /\ Len(list) \in Nat
            /\ \A k \in 1 .. Len(list) : Append(list, i)[k] = list[k]
            /\ Append(list, i)[Len(list) + 1] = i
        BY AppendProperties
      <4>2. \A k \in 1 .. Len(list) + 1 : k \in 1 .. Len(list) \/ k = Len(list) + 1
        BY <4>1
      <4>3. 1 .. Len(list) \subseteq 1 .. Len(list) + 1
            /\ Len(list) + 1 \in 1 .. Len(list) + 1
        BY <4>1
      <4>4. QED BY <4>1, <4>2, <4>3, Zenon DEF Contains
    <3>4. CASE c = ch
      BY <3>1, <3>2, <3>3, <3>4
    <3>5. CASE c # ch
      BY <3>1, <3>2, <3>5
    <3>6. QED BY <3>4, <3>5
  <2>2. WaitsFor(i)' = {ch}
    <3>1. \A c \in ChannelIds : ~Contains(creation_senders[c], i)
      BY <1>3 DEF WaitsFor
    <3>2. QED BY <2>1, <3>1 DEF WaitsFor
  <2>3. \A j \in Ids : j # i => WaitsFor(j)' = WaitsFor(j)
    BY <2>1 DEF WaitsFor
  <2>4. \A j \in Ids : Awaiting'[j] = IF j = i THEN {ch} ELSE Awaiting[j]
    BY <1>2, <2>2, <2>3 DEF Awaiting
  <2>5. /\ Awaiting = [j \in Ids |-> Awaiting[j]]
        /\ Awaiting' = [j \in Ids |-> Awaiting'[j]]
    BY DEF Awaiting
  <2>6. QED BY <2>4, <2>5
<1>7. QED BY <1>2, <1>4, <1>5, <1>6 DEF Promise!Await

-----------------------------------------------------------------------------
(* The refinement.                                                         *)

\* A waiter is in one list, once: it is put there when it is made.
LEMMA WaitersOnceStep ==
  ASSUME HInv, WaitersOnce, [Next]_vars
  PROVE  WaitersOnce'
<1>1. CASE UNCHANGED creation_senders
  BY <1>1 DEF WaitersOnce
<1>2. ASSUME NEW ch \in ChannelIds, GetCreationWaiter(ch) PROVE WaitersOnce'
  <2>1. /\ NewChannel("waiter") /\ UNCHANGED buffer
        /\ creation_senders' = [creation_senders EXCEPT ![ch] = Append(@, connection_id)]
    BY <1>2 DEF GetCreationWaiter
  <2>2. PICK new \in Ids : new = connection_id /\ new \notin Live
    BY <2>1, NewChannelStep, NextReceiver DEF Roles
  <2>3. ASSUME NEW c \in ChannelIds, NEW j \in Ids
        PROVE  Times(j, creation_senders'[c]) <= 1
    <3>1. PICK list \in Seq(Live) : list = creation_senders[c]
      BY DEF HInv, Lists
    <3>2. list \in Seq(Ids)
      BY SeqLive
    <3>3. Times(j, Append(list, new)) = Times(j, list) + (IF j = new THEN 1 ELSE 0)
      BY <3>2, TimesAppend
    <3>4. PICK n \in Nat : n = Times(j, list)
      BY TimesType
    <3>5. n <= 1
      BY <3>1, <3>4 DEF WaitersOnce
    <3>6. j = new => n = 0
      BY <2>2, <3>4, NotLiveNotListed
    <3>7. creation_senders'[c] = IF c = ch THEN Append(list, new) ELSE list
      BY <2>1, <2>2, <3>1 DEF HInv, Lists
    <3>8. CASE c = ch
      <4>1. Times(j, creation_senders'[c]) = n + (IF j = new THEN 1 ELSE 0)
        BY <3>3, <3>4, <3>7, <3>8, Zenon
      <4>2. QED BY <3>5, <3>6, <4>1
    <3>9. CASE c # ch
      <4>1. Times(j, creation_senders'[c]) = n
        BY <3>4, <3>7, <3>9, Zenon
      <4>2. QED BY <3>5, <4>1
    <3>10. QED BY <3>8, <3>9
  <2>4. QED BY <2>3 DEF WaitersOnce
<1>3. CASE DropHub
  <2>1. ASSUME NEW c \in ChannelIds, NEW j \in Ids
        PROVE  Times(j, creation_senders'[c]) <= 1
    <3>1. creation_senders'[c] = <<>>
      BY <1>3 DEF DropHub
    <3>2. Times(j, creation_senders'[c]) = 0
      BY <3>1, TimesEmpty, Zenon
    <3>3. QED BY <3>2
  <2>2. QED BY <2>1 DEF WaitersOnce
<1>4. CASE HubStep
  <2>1. ASSUME NEW ids, InsertSenders(ids) PROVE UNCHANGED creation_senders
    BY <2>1 DEF InsertSenders
  <2>2. ASSUME NEW chs, NEW i, RemoveSenders(chs, i) PROVE UNCHANGED creation_senders
    BY <2>2 DEF RemoveSenders
  <2>3. ASSUME \/ CleanAll \/ Broadcast \/ \E i \in Ids : GetSender(i)
               \/ \E ch \in ChannelIds : CleanChannel(ch) \/ Send(ch)
        PROVE  UNCHANGED creation_senders
    BY <2>3 DEF CleanAll, Broadcast, GetSender, CleanChannel, Send, hubVars
  <2>4. \/ UNCHANGED creation_senders
        \/ DropHub
        \/ \E ch \in ChannelIds : GetCreationWaiter(ch)
    BY <1>4, <2>1, <2>2, <2>3, Zenon
    DEF HubStep, Subscribe, SubscribeMultiple, Unsubscribe, UnsubscribeMultiple,
        UnsubscribeAll
  <2>5. QED BY <1>1, <1>2, <1>3, <2>4
<1>5. CASE ~HubStep
  <2>1. UNCHANGED creation_senders
    BY <1>5 DEF Next, CallerStep, WriteHeld, DropSender, DropReceiver, DropHandler,
                Wait, TaskStep, WriteSent, WriteFailed, WaitStep, Joined, Timeout,
                WaitReturns, SetHandler, ReceiverStep, Receive, ReceiveNone, Tick,
                hubVars, vars
  <2>2. QED BY <1>1, <2>1
<1>6. QED BY <1>4, <1>5

\* A step of the hub is a step of the promise.
LEMMA HubView ==
  ASSUME HInv, WaitersOnce, HubStep
  PROVE  [Promise!Next]_Promise!vars
<1> DEFINE Joinable == IdLists \cup {<<ch>> : ch \in ChannelIds}
<1>1. ASSUME NEW ids \in Joinable, InsertSenders(ids) PROVE Promise!Next
  <2>1. ids \in Seq(ChannelIds)
    <3>1. CASE ids \in IdLists
      BY <3>1, HubConstants
    <3>2. CASE \E ch \in ChannelIds : ids = <<ch>>
      BY <3>2
    <3>3. QED BY <3>1, <3>2
  <2>2. \E i \in Ids : Promise!Join(i, ids)
    BY <1>1, <2>1, JoinView
  <2>3. QED BY <2>2 DEF Promise!Next
<1>2. ASSUME NEW ch \in ChannelIds, GetCreationWaiter(ch) PROVE Promise!Next
  BY <1>2, AwaitView DEF Promise!Next
<1>3. ASSUME NEW i \in Ids, NEW chs \in SUBSET ChannelIds, RemoveSenders(chs, i)
      PROVE  Promise!Next
  BY <1>3, LeaveView DEF Promise!Next
<1>4. CASE CleanAll \/ \E ch \in ChannelIds : CleanChannel(ch)
  BY <1>4, CleanStep
<1>5. CASE Broadcast \/ \E ch \in ChannelIds : Send(ch)
  <2>1. \E m \in (0 .. MaxSends) \ {Notice}, chs \in SUBSET ChannelIds :
          Promise!Publish(m, chs)
    BY <1>5, SendView, BroadcastView
  <2>2. CASE Ids # {}
    BY <2>1, <2>2 DEF Promise!Next
  <2>3. CASE Ids = {}
    <3>1. UNCHANGED <<Standing, Subscribed, Awaiting, Due>>
      BY <2>3 DEF Standing, Subscribed, Awaiting, Due
    <3>2. QED BY <3>1 DEF Promise!vars
  <2>4. QED BY <2>2, <2>3
<1>6. CASE \E i \in Ids : GetSender(i)
  <2>1. UNCHANGED <<senders, creation_senders, rx, buffer, writes>>
    BY <1>6 DEF GetSender, hubVars, channelVars
  <2>2. QED BY <2>1, QuietStep
<1>7. CASE DropHub
  BY <1>7, CloseView DEF Promise!Next
<1>8. CASE \E ch \in ChannelIds : Subscribe(ch)
  <2>1. \E ids \in Joinable : InsertSenders(ids)
    BY <1>8 DEF Subscribe
  <2>2. QED BY <1>1, <2>1
<1>9. CASE \E ids \in IdLists : SubscribeMultiple(ids)
  <2>1. \E ids \in Joinable : InsertSenders(ids)
    BY <1>9 DEF SubscribeMultiple
  <2>2. QED BY <1>1, <2>1
<1>10. CASE \/ \E ch \in ChannelIds, i \in Ids : Unsubscribe(ch, i)
            \/ \E ids \in IdLists, i \in Ids : UnsubscribeMultiple(ids, i)
            \/ \E i \in Ids : UnsubscribeAll(i)
  <2>1. /\ \A ch \in ChannelIds : {ch} \in SUBSET ChannelIds
        /\ \A ids \in IdLists : ToSet(ids) \in SUBSET ChannelIds
        /\ \A i \in Ids : SubscribedList(i) \in SUBSET ChannelIds
    <3>1. \A ids \in IdLists : ToSet(ids) \subseteq ChannelIds
      BY ElementsFinite, HubConstants
    <3>2. QED BY <3>1 DEF SubscribedList, HInv, Hub
  <2>2. \E i \in Ids, chs \in SUBSET ChannelIds : RemoveSenders(chs, i)
    BY <1>10, <2>1, Zenon DEF Unsubscribe, UnsubscribeMultiple, UnsubscribeAll
  <2>3. QED BY <1>3, <2>2
<1>11. QED
  BY <1>2, <1>4, <1>5, <1>6, <1>7, <1>8, <1>9, <1>10, Zenon DEF HubStep

\* So is every other step, or it leaves the promise as it is.
LEMMA DeliveryStep ==
  ASSUME HInv, WaitersOnce, [Next]_vars
  PROVE  [Promise!Next]_Promise!vars
<1>1. CASE HubStep
  BY <1>1, HubView
<1>2. ASSUME NEW i \in Ids, WriteHeld(i) PROVE [Promise!Next]_Promise!vars
  BY <1>2, WhisperView DEF Promise!Next
<1>3. ASSUME NEW i \in Ids, DropReceiver(i) PROVE [Promise!Next]_Promise!vars
  BY <1>3, QuitView DEF Promise!Next
<1>4. CASE \E w \in DOMAIN writes : TaskStep(w)
  BY <1>4, WriteView
<1>5. ASSUME NEW i \in Ids, ReceiverStep(i) PROVE [Promise!Next]_Promise!vars
  BY <1>5, TakeView, EndView DEF ReceiverStep, Promise!Next
<1>6. CASE HandlerStep \/ UNCHANGED vars \/ \E i \in Ids : DropSender(i)
  <2>1. UNCHANGED <<senders, creation_senders, rx, buffer, writes>>
    BY <1>6 DEF HandlerStep, DropHandler, WaitStep, Wait, Joined, Timeout,
                WaitReturns, Tick, SetHandler, DropSender, hubVars, channelVars, vars
  <2>2. QED BY <2>1, QuietStep
<1>7. QED BY <1>1, <1>2, <1>3, <1>4, <1>5, <1>6 DEF Next, CallerStep, HandlerStep

LEMMA DeliveryInit == Init => Promise!Init
<1> SUFFICES ASSUME Init PROVE Promise!Init
  OBVIOUS
<1>1. \A i \in Ids : ~Open(i) /\ rx[i] = "unused"
  BY DEF Init, Open, Roles
<1>2. /\ Standing = [i \in Ids |-> "new"]
      /\ Subscribed = [i \in Ids |-> {}]
      /\ Awaiting = [i \in Ids |-> {}]
      /\ Due = [i \in Ids |-> [m \in 0 .. MaxSends |-> 0]]
  BY <1>1 DEF Standing, Subscribed, Awaiting, Due
<1>3. QED BY <1>2 DEF Promise!Init

\* The hub delivers: to every open receiver each message once for each of its
\* subscriptions at the time, each notice once for each insertion it waits for,
\* and nothing else, whatever the tasks, the other receivers and the callers do.
THEOREM HubDelivers == Spec => DeliversAsPromised
<1>1. Init => WaitersOnce
  <2> SUFFICES ASSUME Init, NEW ch \in ChannelIds, NEW i \in Ids
               PROVE  Times(i, creation_senders[ch]) <= 1
    BY DEF WaitersOnce
  <2>1. creation_senders[ch] = <<>>
    BY DEF Init
  <2>2. Times(i, creation_senders[ch]) = 0
    BY <2>1, TimesEmpty, Zenon
  <2>3. QED BY <2>2
<1>2. HInv /\ WaitersOnce /\ [Next]_vars => WaitersOnce'
  BY WaitersOnceStep
<1>3. HInv /\ WaitersOnce /\ [Next]_vars => [Promise!Next]_Promise!vars
  BY DeliveryStep
<1>4. QED
  BY <1>1, <1>2, <1>3, HubInvariance, DeliveryInit, PTL
  DEF Spec, DeliversAsPromised, Promise!Spec
=============================================================================
