-------------------------- MODULE HubIdentityProofs --------------------------
(***************************************************************************)
(* What a SmartChannelId guarantees, for every number of hubs, addresses   *)
(* and channels, however the hubs are moved, and what a hub that is shown  *)
(* a receiver does.                                                        *)
(***************************************************************************)
EXTENDS HubIdentity, FlattenTheorems

-----------------------------------------------------------------------------
(* The inductive invariant.                                                *)

Typed == /\ address \in [Hubs -> Addresses \cup {NotMade, Gone}]
         /\ connection_id \in [Hubs -> Nat]
         /\ channels \in Seq(Channel)

\* Two live hubs are at two addresses.
Apart == \A g, h \in Hubs :
  address[g] = address[h] /\ address[g] \in Addresses => g = h

MadeBy(k, h) == channels[k].by = h
Counter(k)   == channels[k].id.channel_counter

\* A hub's counter is ahead of every id it has issued, and these differ.
Counted == \A h \in Hubs, k \in DOMAIN channels :
  MadeBy(k, h) => Counter(k) < connection_id[h]
Numbered == \A h \in Hubs, j, k \in DOMAIN channels :
  MadeBy(j, h) /\ MadeBy(k, h) /\ Counter(j) = Counter(k) => j = k

IdInv == Typed /\ Apart /\ Counted /\ Numbered

-----------------------------------------------------------------------------
\* A hub that makes a channel gives it a counter no other channel of it has.
LEMMA HubChannelStep ==
  ASSUME IdInv, NEW h \in Hubs, HubMakesChannel(h)
  PROVE  IdInv'
<1> DEFINE n == Len(channels)
           c == [by |-> h, id |-> GetNewId(h), open |-> TRUE]
<1>1. /\ address[h] \in Addresses /\ UNCHANGED address
      /\ connection_id' = [connection_id EXCEPT ![h] = connection_id[h] + 1]
      /\ channels' = Append(channels, c)
  BY DEF HubMakesChannel, Live, MakeChannel, NextId
<1>2. c \in Channel
  BY <1>1 DEF IdInv, Typed, GetNewId, Channel, SmartChannelId
<1>3. Typed' /\ Apart'
  BY <1>1, <1>2 DEF IdInv, Typed, Apart
<1>4. /\ n \in Nat /\ DOMAIN channels = 1 .. n /\ DOMAIN channels' = 1 .. n+1
      /\ \A k \in 1 .. n : channels'[k] = channels[k] /\ channels[k] \in Channel
      /\ channels'[n+1] = c
  BY <1>1, <1>2 DEF IdInv, Typed
<1>5. /\ c.by = h /\ c.id.channel_counter = connection_id[h]
      /\ connection_id[h] \in Nat
  BY DEF GetNewId, IdInv, Typed
<1> HIDE DEF c, n
<1>6. \A k \in 1 .. n : channels[k].id.channel_counter \in Nat
  BY <1>4 DEF Channel, SmartChannelId
<1>7. Counted'
  <2> SUFFICES ASSUME NEW g \in Hubs, NEW k \in 1 .. n+1, channels'[k].by = g
               PROVE  channels'[k].id.channel_counter < connection_id'[g]
    BY <1>4 DEF Counted, MadeBy, Counter
  <2>1. connection_id[g] \in Nat
    BY DEF IdInv, Typed
  <2>2. connection_id'[g] = IF g = h THEN connection_id[h] + 1 ELSE connection_id[g]
    BY <1>1 DEF IdInv, Typed
  <2>3. CASE k \in 1 .. n
    <3>1. channels[k].id.channel_counter < connection_id[g]
      BY <2>3, <1>4 DEF IdInv, Counted, MadeBy, Counter
    <3>2. QED BY <2>1, <2>2, <2>3, <3>1, <1>4, <1>5, <1>6
  <2>4. CASE k = n+1
    BY <2>4, <2>2, <1>4, <1>5
  <2>5. QED BY <2>3, <2>4, <1>4
<1>8. Numbered'
  <2> SUFFICES ASSUME NEW g \in Hubs, NEW j \in 1 .. n+1, NEW k \in 1 .. n+1,
                      channels'[j].by = g, channels'[k].by = g,
                      channels'[j].id.channel_counter
                        = channels'[k].id.channel_counter
               PROVE  j = k
    BY <1>4 DEF Numbered, MadeBy, Counter
  <2>1. \A i \in 1 .. n :
          channels[i].by = h => channels[i].id.channel_counter # connection_id[h]
    <3> SUFFICES ASSUME NEW i \in 1 .. n, channels[i].by = h
                 PROVE  channels[i].id.channel_counter # connection_id[h]
      OBVIOUS
    <3>1. channels[i].id.channel_counter < connection_id[h]
      BY <1>4 DEF IdInv, Counted, MadeBy, Counter
    <3>2. QED BY <3>1, <1>5, <1>6
  <2>2. CASE j \in 1 .. n /\ k \in 1 .. n
    BY <2>2, <1>4 DEF IdInv, Numbered, MadeBy, Counter
  <2>3. CASE j = n+1 \/ k = n+1
    BY <2>1, <2>3, <1>4, <1>5
  <2>4. QED BY <2>2, <2>3, <1>4
<1>9. QED BY <1>3, <1>7, <1>8 DEF IdInv

\* What callers do with receivers touches neither counters nor the hubs' ids.
LEMMA ReceiverIdStep ==
  ASSUME IdInv, NEW k \in DOMAIN channels, ReceiverStep(k)
  PROVE  IdInv'
<1>1. CASE UNCHANGED <<address, connection_id, channels>>
  BY <1>1 DEF IdInv, Typed, Apart, Counted, Numbered, MadeBy, Counter
<1>2. CASE Bind(k)
  <2> DEFINE n == Len(channels)
             c == [by |-> Caller, id |-> channels[k].id, open |-> TRUE]
  <2>1. /\ UNCHANGED <<address, connection_id>>
        /\ channels' = Append(channels, c)
    BY <1>2 DEF Bind, MakeChannel, hubVars
  <2>2. c \in Channel
    <3>1. channels[k] \in Channel
      BY DEF IdInv, Typed
    <3>2. channels[k].id \in SmartChannelId
      BY <3>1 DEF Channel
    <3>3. QED BY <3>2 DEF Channel
  <2>3. Typed' /\ Apart'
    BY <2>1, <2>2 DEF IdInv, Typed, Apart
  <2>4. /\ n \in Nat /\ DOMAIN channels = 1 .. n /\ DOMAIN channels' = 1 .. n+1
        /\ \A i \in 1 .. n : channels'[i] = channels[i]
        /\ channels'[n+1].by \notin Hubs
    BY <2>1, <2>2, IdentityConstants DEF IdInv, Typed
  <2> HIDE DEF c, n
  <2>5. \A i \in DOMAIN channels' :
          channels'[i].by \in Hubs => i \in DOMAIN channels
    BY <2>4
  <2>6. Counted' /\ Numbered'
    BY <2>1, <2>4, <2>5 DEF IdInv, Counted, Numbered, MadeBy, Counter
  <2>7. QED BY <2>3, <2>6 DEF IdInv
<1>3. CASE DropReceiver(k)
  <2>1. /\ UNCHANGED <<address, connection_id>>
        /\ channels' = [channels EXCEPT ![k].open = FALSE]
    BY <1>3 DEF DropReceiver, hubVars
  <2>2. [channels[k] EXCEPT !.open = FALSE] \in Channel
    <3>1. channels[k] \in Channel
      BY DEF IdInv, Typed
    <3>2. QED BY <3>1 DEF Channel
  <2>3. Typed' /\ Apart'
    BY <2>1, <2>2 DEF IdInv, Typed, Apart
  <2>4. /\ DOMAIN channels' = DOMAIN channels
        /\ \A i \in DOMAIN channels : /\ channels'[i].by = channels[i].by
                                      /\ channels'[i].id = channels[i].id
    <3>1. /\ [channels[k] EXCEPT !.open = FALSE].by = channels[k].by
          /\ [channels[k] EXCEPT !.open = FALSE].id = channels[k].id
      <4>1. channels[k] \in Channel
        BY DEF IdInv, Typed
      <4>2. QED BY <4>1 DEF Channel
    <3>2. QED BY <2>1, <3>1
  <2>5. Counted' /\ Numbered'
    BY <2>1, <2>4 DEF IdInv, Counted, Numbered, MadeBy, Counter
  <2>6. QED BY <2>3, <2>5 DEF IdInv
<1>4. Bind(k) \/ DropReceiver(k) \/ UNCHANGED <<address, connection_id, channels>>
  BY DEF ReceiverStep, UnsubscribeAll, UnsubscribeMultiple, Leave, GetSender, hubVars
<1>5. QED BY <1>1, <1>2, <1>3, <1>4

\* Hubs are made and moved to places where no other is.
LEMMA PlacesStep ==
  ASSUME IdInv, MoveHubs \/ \E h \in Hubs : NewHub(h) \/ DropHub(h)
  PROVE  IdInv'
<1>1. UNCHANGED <<connection_id, channels>>
  BY DEF MoveHubs, NewHub, DropHub
<1>2. Typed' /\ Apart'
  <2>1. CASE MoveHubs
    BY <1>1, <2>1, IdentityConstants
    DEF IdInv, Typed, Apart, MoveHubs, Live, IsInjective
  <2>2. CASE \E h \in Hubs : NewHub(h)
    BY <1>1, <2>2, IdentityConstants DEF IdInv, Typed, Apart, NewHub, Free
  <2>3. CASE \E h \in Hubs : DropHub(h)
    BY <1>1, <2>3, IdentityConstants DEF IdInv, Typed, Apart, DropHub
  <2>4. QED BY <2>1, <2>2, <2>3
<1>3. Counted' /\ Numbered'
  BY <1>1 DEF IdInv, Counted, Numbered, MadeBy, Counter
<1>4. QED BY <1>2, <1>3 DEF IdInv

\* The invariant holds in every reachable state.
LEMMA IdInvariance == Spec => []IdInv
<1>1. Init => IdInv
  <2> SUFFICES ASSUME Init PROVE IdInv
    OBVIOUS
  <2>1. Typed /\ Apart
    BY IdentityConstants DEF Init, Typed, Apart
  <2>2. DOMAIN channels = {}
    BY DEF Init
  <2>3. QED BY <2>1, <2>2 DEF IdInv, Counted, Numbered
<1>2. IdInv /\ [Next]_vars => IdInv'
  <2> SUFFICES ASSUME IdInv, [Next]_vars PROVE IdInv'
    OBVIOUS
  <2>1. CASE UNCHANGED <<address, connection_id, channels>>
    BY <2>1 DEF IdInv, Typed, Apart, Counted, Numbered, MadeBy, Counter
  <2>2. ASSUME NEW h \in Hubs, HubStep(h) PROVE IdInv'
    <3>1. \/ NewHub(h) \/ DropHub(h) \/ HubMakesChannel(h)
          \/ UNCHANGED <<address, connection_id, channels>>
      BY <2>2 DEF HubStep, GetCreationWaiter, CleanChannel, Subscribe
    <3>2. QED BY <3>1, <2>1, HubChannelStep, PlacesStep
  <2>3. CASE UNCHANGED vars
    BY <2>1, <2>3 DEF vars, hubVars
  <2>4. QED BY <2>2, <2>3, PlacesStep, ReceiverIdStep DEF Next
<1>3. QED BY <1>1, <1>2, PTL DEF Spec

\* The ids of one hub differ for ever, and an id is shared by two hubs only
\* when one of them is no longer where it issued it.
THEOREM IdsTellChannelsApart == Spec => []SharedIdMeansMoved
<1>1. IdInv => SharedIdMeansMoved
  <2> SUFFICES ASSUME IdInv, NEW j \in DOMAIN channels, NEW k \in DOMAIN channels,
                      j # k, channels[j].by # Caller, channels[k].by # Caller,
                      channels[j].id = channels[k].id
               PROVE  /\ channels[j].by # channels[k].by
                      /\ ~(InPlace(j) /\ InPlace(k))
    BY DEF SharedIdMeansMoved
  <2>1. /\ channels[j].by \in Hubs /\ channels[k].by \in Hubs
        /\ channels[j].id.notifier_address \in Addresses
    <3>1. channels[j] \in Channel /\ channels[k] \in Channel
      BY DEF IdInv, Typed
    <3>2. channels[j].id \in SmartChannelId
      BY <3>1 DEF Channel
    <3>3. QED BY <3>1, <3>2 DEF Channel, SmartChannelId
  <2>2. channels[j].by # channels[k].by
    BY <2>1 DEF IdInv, Numbered, MadeBy, Counter
  <2>3. ~(InPlace(j) /\ InPlace(k))
    BY <2>1, <2>2 DEF IdInv, Apart, InPlace
  <2>4. QED BY <2>2, <2>3
<1>2. QED BY <1>1, IdInvariance, PTL

-----------------------------------------------------------------------------
(* The senders the hubs hold.                                              *)

\* A hub holds senders of its own channels only, and of finitely many.
Holds ==
  /\ senders \in [Hubs -> [ChannelIds -> SUBSET DOMAIN channels]]
  /\ \A h \in Hubs, ch \in ChannelIds : \A j \in senders[h][ch] : MadeBy(j, h)
  /\ \A h \in Hubs : IsFiniteSet({ch \in ChannelIds : senders[h][ch] # {}})

\* F holds the outcomes of the first m rounds of unsubscribe_multiple.
RoundsBy(F, start, ids, k, m) ==
  F = [n \in 0 .. m |-> IF n = 0 THEN start ELSE Unsubscribe(F[n - 1], ids[n], k)]

\* Such a function exists for every number of rounds.
LEMMA RoundsExist ==
  ASSUME NEW start, NEW ids, NEW k, NEW n \in Nat
  PROVE  \E F : RoundsBy(F, start, ids, k, n)
<1> DEFINE T == {m \in Nat : \E F : RoundsBy(F, start, ids, k, m)}
<1>1. 0 \in T
  <2> DEFINE F == [i \in 0 .. 0 |-> start]
             H == [i \in 0 .. 0 |-> IF i = 0 THEN start ELSE Unsubscribe(F[i - 1], ids[i], k)]
  <2>1. F = H
    OBVIOUS
  <2>2. RoundsBy(F, start, ids, k, 0)
    BY <2>1, Zenon DEF RoundsBy
  <2> HIDE DEF F
  <2>3. QED BY <2>2
<1>2. ASSUME NEW m \in Nat, m \in T PROVE m + 1 \in T
  <2>1. PICK F : RoundsBy(F, start, ids, k, m)
    BY <1>2
  <2> DEFINE last == Unsubscribe(F[m], ids[m + 1], k)
             G == [i \in 0 .. m + 1 |-> IF i = m + 1 THEN last ELSE F[i]]
             H == [i \in 0 .. m + 1 |->
                    IF i = 0 THEN start ELSE Unsubscribe(G[i - 1], ids[i], k)]
  <2>2. ASSUME NEW i \in 0 .. m + 1 PROVE G[i] = H[i]
    <3>1. H[i] = IF i = 0 THEN start ELSE Unsubscribe(G[i - 1], ids[i], k)
      OBVIOUS
    <3>2. CASE i = m + 1
      <4>1. G[i] = last
        BY <3>2
      <4>2. G[m] = F[m] /\ i - 1 = m /\ i # 0
        BY <3>2
      <4> HIDE DEF G, H
      <4>3. QED BY <3>1, <3>2, <4>1, <4>2
    <3>3. CASE i # m + 1
      <4>1. i \in 0 .. m /\ (i # 0 => i - 1 \in 0 .. m)
        BY <3>3
      <4>2. G[i] = F[i] /\ (i # 0 => G[i - 1] = F[i - 1])
        <5>1. \A x \in 0 .. m : G[x] = F[x]
          OBVIOUS
        <5> HIDE DEF G
        <5>2. QED BY <4>1, <5>1
      <4>3. F[i] = IF i = 0 THEN start ELSE Unsubscribe(F[i - 1], ids[i], k)
        BY <2>1, <4>1, Zenon DEF RoundsBy
      <4> HIDE DEF G, H
      <4>4. QED BY <3>1, <4>2, <4>3
    <3>4. QED BY <3>2, <3>3
  <2>3. G = H
    BY <2>2
  <2>4. RoundsBy(G, start, ids, k, m + 1)
    BY <2>3, Zenon DEF RoundsBy
  <2> HIDE DEF G
  <2>5. QED BY <2>4
<1> HIDE DEF T
<1>3. Nat \subseteq T
  BY <1>1, <1>2, SetInduction
<1>4. QED BY <1>3 DEF T

LEMMA RoundsUnfold ==
  ASSUME NEW h, NEW ids, Len(ids) \in Nat, NEW k
  PROVE  RoundsBy(Rounds(h, ids, k), [held |-> senders[h], errors |-> <<>>],
                  ids, k, Len(ids))
<1> DEFINE start == [held |-> senders[h], errors |-> <<>>]
           F == CHOOSE G : G = [n \in 0 .. Len(ids) |->
                  IF n = 0 THEN start ELSE Unsubscribe(G[n - 1], ids[n], k)]
<1>1. \E G : G = [n \in 0 .. Len(ids) |->
                  IF n = 0 THEN start ELSE Unsubscribe(G[n - 1], ids[n], k)]
  <2> HIDE DEF start
  <2>1. \E G : RoundsBy(G, start, ids, k, Len(ids))
    BY RoundsExist
  <2>2. QED BY <2>1, Zenon DEF RoundsBy
<1>2. F = [n \in 0 .. Len(ids) |->
            IF n = 0 THEN start ELSE Unsubscribe(F[n - 1], ids[n], k)]
  <2> HIDE DEF start
  <2>1. QED BY <1>1, Zenon
<1>3. Rounds(h, ids, k) = F
  BY Zenon DEF Rounds
<1>4. RoundsBy(F, start, ids, k, Len(ids))
  <2> HIDE DEF start
  <2>1. PICK G : G = F
    OBVIOUS
  <2>2. G = [n \in 0 .. Len(ids) |->
            IF n = 0 THEN start ELSE Unsubscribe(G[n - 1], ids[n], k)]
    BY <1>2, <2>1, Zenon
  <2> HIDE DEF F
  <2>3. QED BY <2>1, <2>2, Zenon DEF RoundsBy
<1>5. QED BY <1>3, <1>4, Zenon

\* What a hub that held the senders held holds, and answers, after n rounds: it
\* has left the channels seen, with an error for each round that found nothing
\* to leave.
LeftBy(held, ids, k, n) ==
  [ch \in ChannelIds |-> IF ch \in {ids[i] : i \in 1 .. n}
                         THEN Retain(held[ch], k) ELSE held[ch]]
Served(held, ids, k, n) ==
  {ch \in {ids[i] : i \in 1 .. n} : IsSubscribed(held, ch, k)}
After(d, held, ids, k, n) ==
  \E errors \in Seq(ChannelIds) :
    /\ d = [held |-> LeftBy(held, ids, k, n), errors |-> errors]
    /\ IsFiniteSet(Served(held, ids, k, n))
    /\ Len(errors) + Cardinality(Served(held, ids, k, n)) = n

LEMMA OneRound ==
  ASSUME NEW held \in [ChannelIds -> SUBSET DOMAIN channels], NEW k,
         NEW ids \in Seq(ChannelIds), NEW n \in Nat, n + 1 \in 1 .. Len(ids),
         NEW d, After(d, held, ids, k, n)
  PROVE  After(Unsubscribe(d, ids[n + 1], k), held, ids, k, n + 1)
<1> DEFINE seen == {ids[i] : i \in 1 .. n}
           more == {ids[i] : i \in 1 .. n + 1}
           subs == Served(held, ids, k, n)
           msubs == Served(held, ids, k, n + 1)
<1>1. PICK c \in ChannelIds : c = ids[n + 1]
  OBVIOUS
<1>2. more = seen \cup {c}
  <2>1. \A x : x \in more <=> x \in seen \/ x = c
    <3>1. \A i \in 1 .. n + 1 : i \in 1 .. n \/ i = n + 1
      OBVIOUS
    <3>2. 1 .. n \subseteq 1 .. n + 1 /\ n + 1 \in 1 .. n + 1
      OBVIOUS
    <3>3. QED BY <1>1, <3>1, <3>2
  <2> HIDE DEF more, seen
  <2>2. QED BY <2>1
<1>3. PICK errors \in Seq(ChannelIds) :
        /\ d = [held |-> LeftBy(held, ids, k, n), errors |-> errors]
        /\ IsFiniteSet(subs) /\ Len(errors) + Cardinality(subs) = n
  BY DEF After
<1>4. PICK f : f = LeftBy(held, ids, k, n)
  OBVIOUS
<1>5. /\ f = [ch \in ChannelIds |-> IF ch \in seen THEN Retain(held[ch], k) ELSE held[ch]]
      /\ d = [held |-> f, errors |-> errors]
  BY <1>3, <1>4 DEF LeftBy
<1>6. LeftBy(held, ids, k, n + 1) =
        [ch \in ChannelIds |-> IF ch \in more THEN Retain(held[ch], k) ELSE held[ch]]
  BY DEF LeftBy
<1>s. /\ subs = {ch \in seen : IsSubscribed(held, ch, k)}
      /\ msubs = {ch \in more : IsSubscribed(held, ch, k)}
  BY DEF Served
<1> HIDE DEF seen, more, subs, msubs
<1>7. \A ch \in ChannelIds : ~IsSubscribed(held, ch, k) => Retain(held[ch], k) = held[ch]
  BY DEF IsSubscribed, Retain
<1>8. IsSubscribed(f, c, k) <=> c \notin seen /\ IsSubscribed(held, c, k)
  <2>1. f[c] = IF c \in seen THEN Retain(held[c], k) ELSE held[c]
    BY <1>5
  <2>2. QED BY <2>1 DEF IsSubscribed, Retain
<1>9. IsFiniteSet(subs) => Cardinality(subs) \in Nat
  BY FS_CardinalityType
<1>10. Len(errors) \in Nat
  BY <1>3
<1>11. CASE IsSubscribed(f, c, k)
  <2>1. PICK g : g = [f EXCEPT ![c] = Retain(@, k)]
    OBVIOUS
  <2>2. Unsubscribe(d, c, k) = [held |-> g, errors |-> errors]
    <3>1. d.held = f
      BY <1>5
    <3>2. Unsubscribe(d, c, k) = [d EXCEPT !.held[c] = Retain(@, k)]
      BY <1>11, <3>1 DEF Unsubscribe
    <3>3. QED BY <1>5, <2>1, <3>2
  <2>3. g = LeftBy(held, ids, k, n + 1)
    <3>1. c \notin seen /\ f[c] = held[c]
      BY <1>5, <1>8, <1>11
    <3>2. g = [ch \in ChannelIds |-> IF ch = c THEN Retain(held[c], k) ELSE f[ch]]
      BY <1>5, <2>1, <3>1
    <3>3. ASSUME NEW ch \in ChannelIds
          PROVE  (IF ch = c THEN Retain(held[c], k) ELSE f[ch])
                   = IF ch \in more THEN Retain(held[ch], k) ELSE held[ch]
      BY <1>2, <1>5
    <3>4. QED BY <1>6, <3>2, <3>3
  <2>4. msubs = subs \cup {c} /\ c \notin subs
    BY <1>2, <1>8, <1>11, <1>s
  <2>5. IsFiniteSet(msubs) /\ Cardinality(msubs) = Cardinality(subs) + 1
    BY <1>3, <2>4, FS_AddElement
  <2>6. Len(errors) + Cardinality(msubs) = n + 1
    BY <1>3, <1>9, <1>10, <2>5
  <2>7. QED BY <1>1, <2>2, <2>3, <2>5, <2>6 DEF After, msubs
<1>12. CASE ~IsSubscribed(f, c, k)
  <2>1. PICK new : new = Append(errors, c)
    OBVIOUS
  <2>2. Unsubscribe(d, c, k) = [held |-> f, errors |-> new]
    <3>1. d.held = f
      BY <1>5
    <3>2. Unsubscribe(d, c, k) = [d EXCEPT !.errors = Append(@, c)]
      BY <1>12, <3>1 DEF Unsubscribe
    <3>3. QED BY <1>5, <2>1, <3>2
  <2>3. f = LeftBy(held, ids, k, n + 1)
    <3>1. ASSUME NEW ch \in ChannelIds
          PROVE  (IF ch \in seen THEN Retain(held[ch], k) ELSE held[ch])
                   = IF ch \in more THEN Retain(held[ch], k) ELSE held[ch]
      <4>1. CASE ch = c /\ c \notin seen
        BY <1>7, <1>8, <1>12, <4>1
      <4>2. CASE ch # c \/ c \in seen
        BY <1>2, <4>2
      <4>3. QED BY <4>1, <4>2
    <3>2. QED BY <1>5, <1>6, <3>1
  <2>4. msubs = subs
    BY <1>2, <1>8, <1>12, <1>s
  <2>5. new \in Seq(ChannelIds) /\ Len(new) = Len(errors) + 1
    BY <2>1, AppendProperties
  <2>6. IsFiniteSet(msubs) /\ Len(new) + Cardinality(msubs) = n + 1
    <3>1. IsFiniteSet(msubs) /\ Cardinality(msubs) = Cardinality(subs)
      BY <1>3, <2>4, Zenon
    <3>2. PICK m \in Nat : m = Cardinality(subs)
      BY <1>3, <1>9
    <3>3. Len(errors) + m = n /\ Len(new) = Len(errors) + 1
      BY <1>3, <2>5, <3>2
    <3>4. Len(new) + m = n + 1
      BY <1>10, <3>3
    <3>5. Cardinality(msubs) = m
      BY <3>1, <3>2, Zenon
    <3>6. QED BY <3>1, <3>4, <3>5
  <2>7. QED BY <1>1, <2>2, <2>3, <2>5, <2>6 DEF After, msubs
<1>13. QED BY <1>11, <1>12

LEMMA AllRounds ==
  ASSUME Holds, NEW h \in Hubs, NEW k, NEW ids \in Seq(ChannelIds)
  PROVE  After(Rounds(h, ids, k)[Len(ids)], senders[h], ids, k, Len(ids))
<1>1. Len(ids) \in Nat
  OBVIOUS
<1>2. PICK held \in [ChannelIds -> SUBSET DOMAIN channels] : held = senders[h]
  BY DEF Holds
<1>3. PICK F : F = Rounds(h, ids, k)
  OBVIOUS
<1>4. RoundsBy(F, [held |-> held, errors |-> <<>>], ids, k, Len(ids))
  BY <1>1, <1>2, <1>3, RoundsUnfold
<1>5. PICK start : start = [held |-> held, errors |-> <<>>]
  OBVIOUS
<1>6. /\ F[0] = start
      /\ \A n \in Nat : n + 1 \in 1 .. Len(ids) =>
           F[n + 1] = Unsubscribe(F[n], ids[n + 1], k)
  <2>1. \A n \in 0 .. Len(ids) :
          F[n] = IF n = 0 THEN start ELSE Unsubscribe(F[n - 1], ids[n], k)
    BY <1>4, <1>5, Zenon DEF RoundsBy
  <2>2. \A n \in Nat : n + 1 \in 1 .. Len(ids) =>
          n + 1 \in 0 .. Len(ids) /\ n + 1 # 0 /\ (n + 1) - 1 = n
    OBVIOUS
  <2>3. 0 \in 0 .. Len(ids)
    BY <1>1
  <2>4. QED BY <2>1, <2>2, <2>3
<1> DEFINE T == {n \in Nat : n \in 0 .. Len(ids) => After(F[n], held, ids, k, n)}
<1>7. 0 \in T
  <2> DEFINE none == {ids[i] : i \in 1 .. 0}
  <2>1. none = {}
    OBVIOUS
  <2>2. LeftBy(held, ids, k, 0) = held
    <3>1. LeftBy(held, ids, k, 0) =
            [ch \in ChannelIds |-> IF ch \in none THEN Retain(held[ch], k) ELSE held[ch]]
      BY DEF LeftBy
    <3> HIDE DEF none
    <3>2. QED BY <2>1, <3>1
  <2>3. Served(held, ids, k, 0) = {}
    BY <2>1 DEF Served
  <2>4. <<>> \in Seq(ChannelIds) /\ Len(<<>>) = 0
    BY EmptySeq
  <2>5. IsFiniteSet({}) /\ Cardinality({}) = 0
    BY FS_EmptySet
  <2>6. After(start, held, ids, k, 0)
    <3>1. start = [held |-> LeftBy(held, ids, k, 0), errors |-> <<>>]
      BY <1>5, <2>2
    <3>2. /\ IsFiniteSet(Served(held, ids, k, 0))
          /\ Len(<<>>) + Cardinality(Served(held, ids, k, 0)) = 0
      <4>1. IsFiniteSet(Served(held, ids, k, 0)) /\ Cardinality(Served(held, ids, k, 0)) = 0
        BY <2>3, <2>5, Zenon
      <4>2. QED BY <2>4, <4>1
    <3>3. QED BY <2>4, <3>1, <3>2 DEF After
  <2>7. QED BY <1>6, <2>6
<1>8. ASSUME NEW n \in Nat, n \in T PROVE n + 1 \in T
  <2> SUFFICES ASSUME n + 1 \in 0 .. Len(ids) PROVE After(F[n + 1], held, ids, k, n + 1)
    OBVIOUS
  <2>1. n \in 0 .. Len(ids) /\ n + 1 \in 1 .. Len(ids)
    BY <1>1
  <2>2. After(F[n], held, ids, k, n)
    BY <1>8, <2>1
  <2>3. F[n + 1] = Unsubscribe(F[n], ids[n + 1], k)
    BY <1>6, <2>1
  <2>4. QED BY <2>1, <2>2, <2>3, OneRound
<1> HIDE DEF T
<1>9. Nat \subseteq T
  BY <1>7, <1>8, SetInduction
<1>10. Len(ids) \in T /\ Len(ids) \in 0 .. Len(ids)
  BY <1>1, <1>9
<1>11. After(F[Len(ids)], held, ids, k, Len(ids))
  BY <1>10 DEF T
<1>12. QED BY <1>2, <1>3, <1>11

\* What a call that leaves channels does to the hub and answers.
LEMMA LeaveResult ==
  ASSUME Holds, NEW h \in Hubs, NEW k, NEW ids \in Seq(ChannelIds), NEW op,
         Leave(op, h, ids, k)
  PROVE  /\ senders' = [senders EXCEPT ![h] = LeftBy(senders[h], ids, k, Len(ids))]
         /\ UNCHANGED <<address, connection_id, channels>>
         /\ \E errors \in Seq(ChannelIds) :
              /\ answer' = [op |-> op, hub |-> h, rx |-> k, ids |-> ids,
                            errors |-> errors]
              /\ Len(errors) + Cardinality(Served(senders[h], ids, k, Len(ids)))
                   = Len(ids)
<1>1. After(Rounds(h, ids, k)[Len(ids)], senders[h], ids, k, Len(ids))
  BY AllRounds
<1>2. PICK errors \in Seq(ChannelIds) :
        /\ Rounds(h, ids, k)[Len(ids)]
             = [held |-> LeftBy(senders[h], ids, k, Len(ids)), errors |-> errors]
        /\ Len(errors) + Cardinality(Served(senders[h], ids, k, Len(ids))) = Len(ids)
  BY <1>1, Zenon DEF After
<1>3. PICK done : done = Rounds(h, ids, k)[Len(ids)]
  OBVIOUS
<1>4. /\ done.held = LeftBy(senders[h], ids, k, Len(ids)) /\ done.errors = errors
  BY <1>2, <1>3
<1>5. /\ senders' = [senders EXCEPT ![h] = done.held]
      /\ answer' = [op |-> op, hub |-> h, rx |-> k, ids |-> ids,
                    errors |-> done.errors]
      /\ UNCHANGED <<address, connection_id, channels>>
  BY <1>3, Zenon DEF Leave
<1>6. QED BY <1>2, <1>4, <1>5

\* subscribed_list has every channel once.
LEMMA SubscribedListProperties ==
  ASSUME Holds, NEW h \in Hubs, NEW k, NEW ids \in SubscribedList(h, k)
  PROVE  /\ ids \in Seq(ChannelIds)
         /\ \A i \in 1 .. Len(ids) : IsSubscribed(senders[h], ids[i], k)
         /\ \A i, j \in 1 .. Len(ids) : i # j => ids[i] # ids[j]
<1> DEFINE S == {ch \in ChannelIds : IsSubscribed(senders[h], ch, k)}
           n == Cardinality(S)
<1>1. IsFiniteSet(S)
  <2>1. S \subseteq {ch \in ChannelIds : senders[h][ch] # {}}
    BY DEF IsSubscribed
  <2>2. QED BY <2>1, FS_Subset DEF Holds
<1>2. n \in Nat
  BY <1>1, FS_CardinalityType
<1>3. /\ ids \in [1 .. n -> S]
      /\ \A i, j \in 1 .. n : i # j => ids[i] # ids[j]
  BY Zenon DEF SubscribedList, SetToSeqs
<1>4. S \subseteq ChannelIds /\ \A ch \in S : IsSubscribed(senders[h], ch, k)
  OBVIOUS
<1> HIDE DEF n, S
<1>5. ids \in Seq(S) /\ Len(ids) = n
  BY <1>2, <1>3, FunctionIsSeq
<1>6. ids \in Seq(ChannelIds)
  BY <1>4, <1>5, SeqMonotonic
<1>7. QED BY <1>3, <1>4, <1>5, <1>6

\* No step makes a hub of another the maker of a channel.
Kept == /\ DOMAIN channels \subseteq DOMAIN channels'
        /\ \A j \in DOMAIN channels : channels'[j].by = channels[j].by

LEMMA AppendKept ==
  ASSUME IdInv, NEW by, NEW id, MakeChannel(by, id)
  PROVE  /\ Kept /\ NewChannel \in DOMAIN channels'
         /\ channels'[NewChannel].by = by
<1>1. PICK c : c = [by |-> by, id |-> id, open |-> TRUE]
  OBVIOUS
<1>2. channels' = Append(channels, c) /\ channels \in Seq(Channel) /\ c.by = by
  BY <1>1 DEF MakeChannel, IdInv, Typed
<1>3. PICK n \in Nat : n = Len(channels)
  BY <1>2
<1>4. /\ DOMAIN channels = 1 .. n /\ DOMAIN channels' = 1 .. n + 1
      /\ \A j \in 1 .. n : channels'[j] = channels[j]
      /\ channels'[n + 1] = c
  BY <1>2, <1>3
<1>5. QED BY <1>2, <1>3, <1>4 DEF Kept, NewChannel

\* Hubs that hold no more than before, of the channels there were.
LEMMA HoldsFewer ==
  ASSUME Holds, Kept,
         senders' = [h \in Hubs |-> [ch \in ChannelIds |-> senders'[h][ch]]],
         \A h \in Hubs, ch \in ChannelIds : senders'[h][ch] \subseteq senders[h][ch]
  PROVE  Holds'
<1>1. ASSUME NEW h \in Hubs, NEW ch \in ChannelIds
      PROVE  /\ senders'[h][ch] \subseteq DOMAIN channels'
             /\ \A j \in senders'[h][ch] : channels'[j].by = h
  <2>1. senders[h][ch] \subseteq DOMAIN channels
    BY DEF Holds
  <2>2. \A j \in senders[h][ch] : channels[j].by = h
    BY DEF Holds, MadeBy
  <2>3. QED BY <2>1, <2>2 DEF Kept
<1>2. senders' \in [Hubs -> [ChannelIds -> SUBSET DOMAIN channels']]
  <2>1. ASSUME NEW h \in Hubs
        PROVE  senders'[h] \in [ChannelIds -> SUBSET DOMAIN channels']
    <3>1. senders'[h] = [ch \in ChannelIds |-> senders'[h][ch]]
      OBVIOUS
    <3>2. QED BY <1>1, <3>1
  <2>2. senders' = [h \in Hubs |-> senders'[h]]
    OBVIOUS
  <2>3. QED BY <2>1, <2>2
<1>3. ASSUME NEW h \in Hubs
      PROVE  IsFiniteSet({ch \in ChannelIds : senders'[h][ch] # {}})
  <2>1. {ch \in ChannelIds : senders'[h][ch] # {}}
          \subseteq {ch \in ChannelIds : senders[h][ch] # {}}
    OBVIOUS
  <2>2. QED BY <2>1, FS_Subset DEF Holds
<1>4. QED BY <1>1, <1>2, <1>3 DEF Holds, MadeBy

LEMMA SubscribeHolds ==
  ASSUME IdInv, Holds, NEW h \in Hubs, NEW ids \in Seq(ChannelIds), Subscribe(h, ids)
  PROVE  Holds'
<1> DEFINE new == NewChannel
<1>1. /\ Kept /\ new \in DOMAIN channels' /\ channels'[new].by = h
  BY AppendKept DEF Subscribe, HubMakesChannel
<1>2. senders' = [senders EXCEPT ![h] = [ch \in ChannelIds |->
        senders[h][ch] \cup (IF Contains(ids, ch) THEN {new} ELSE {})]]
  BY DEF Subscribe
<1> HIDE DEF new
<1>3. /\ senders' = [g \in Hubs |-> senders'[g]]
      /\ \A g \in Hubs : senders'[g] = [ch \in ChannelIds |-> senders'[g][ch]]
      /\ \A g \in Hubs, ch \in ChannelIds : senders'[g][ch]
           = IF g = h /\ Contains(ids, ch) THEN senders[g][ch] \cup {new}
             ELSE senders[g][ch]
  BY <1>2 DEF Holds
<1>4. ASSUME NEW g \in Hubs, NEW ch \in ChannelIds
      PROVE  /\ senders'[g][ch] \subseteq DOMAIN channels'
             /\ \A j \in senders'[g][ch] : channels'[j].by = g
  <2>1. /\ senders[g][ch] \subseteq DOMAIN channels
        /\ \A j \in senders[g][ch] : channels[j].by = g
    BY DEF Holds, MadeBy
  <2>2. /\ senders[g][ch] \subseteq DOMAIN channels'
        /\ \A j \in senders[g][ch] : channels'[j].by = g
    BY <1>1, <2>1 DEF Kept
  <2>3. \A j \in senders'[g][ch] : j \in senders[g][ch] \/ (g = h /\ j = new)
    <3>1. PICK now, old : now = senders'[g][ch] /\ old = senders[g][ch]
      OBVIOUS
    <3>2. now = IF g = h /\ Contains(ids, ch) THEN old \cup {new} ELSE old
      BY <1>3, <3>1
    <3>3. \A j \in now : j \in old \/ (g = h /\ j = new)
      BY <3>2
    <3>4. QED BY <3>1, <3>3
  <2>4. QED BY <1>1, <2>2, <2>3
<1>5. senders' \in [Hubs -> [ChannelIds -> SUBSET DOMAIN channels']]
  <2>1. ASSUME NEW g \in Hubs
        PROVE  senders'[g] \in [ChannelIds -> SUBSET DOMAIN channels']
    BY <1>3, <1>4
  <2>2. QED BY <1>3, <2>1
<1>6. ASSUME NEW g \in Hubs
      PROVE  IsFiniteSet({ch \in ChannelIds : senders'[g][ch] # {}})
  <2>1. {ch \in ChannelIds : senders'[g][ch] # {}}
          \subseteq {ch \in ChannelIds : senders[g][ch] # {}} \cup ToSet(ids)
    <3>1. \A ch : Contains(ids, ch) => ch \in ToSet(ids)
      <4>1. DOMAIN ids = 1 .. Len(ids)
        OBVIOUS
      <4>2. QED BY <4>1 DEF Contains, ToSet
    <3>2. \A ch \in ChannelIds :
            senders'[g][ch] # {} => senders[g][ch] # {} \/ Contains(ids, ch)
      BY <1>3
    <3>3. QED BY <3>1, <3>2
  <2>2. IsFiniteSet(ToSet(ids))
    BY ElementsFinite
  <2>3. IsFiniteSet({ch \in ChannelIds : senders[g][ch] # {}} \cup ToSet(ids))
    BY <2>2, FS_Union DEF Holds
  <2>4. QED BY <2>1, <2>3, FS_Subset
<1>7. QED BY <1>4, <1>5, <1>6 DEF Holds, MadeBy

LEMMA LeaveHolds ==
  ASSUME Holds, NEW h \in Hubs, NEW k, NEW ids \in Seq(ChannelIds), NEW op,
         Leave(op, h, ids, k)
  PROVE  Holds'
<1>1. PICK left : left = LeftBy(senders[h], ids, k, Len(ids))
  OBVIOUS
<1>2. senders' = [senders EXCEPT ![h] = left] /\ UNCHANGED channels
  BY <1>1, LeaveResult
<1>3. /\ left = [ch \in ChannelIds |-> left[ch]]
      /\ \A ch \in ChannelIds : left[ch] \subseteq senders[h][ch]
  BY <1>1 DEF LeftBy, Retain
<1>4. /\ senders' = [g \in Hubs |-> [ch \in ChannelIds |-> senders'[g][ch]]]
      /\ \A g \in Hubs, ch \in ChannelIds : senders'[g][ch] \subseteq senders[g][ch]
  <2>1. ASSUME NEW g \in Hubs
        PROVE  /\ senders'[g] = [ch \in ChannelIds |-> senders'[g][ch]]
               /\ \A ch \in ChannelIds : senders'[g][ch] \subseteq senders[g][ch]
    <3>1. senders'[g] = IF g = h THEN left ELSE senders[g]
      BY <1>2 DEF Holds
    <3>2. senders[g] = [ch \in ChannelIds |-> senders[g][ch]]
      BY DEF Holds
    <3>3. QED BY <1>3, <3>1, <3>2
  <2>2. senders' = [g \in Hubs |-> senders'[g]]
    BY <1>2 DEF Holds
  <2>3. QED BY <2>1, <2>2
<1>5. Kept
  BY <1>2 DEF Kept
<1>6. QED BY <1>4, <1>5, HoldsFewer

\* The calls that are shown a receiver.
ShownStep(h, k) ==
  \/ UnsubscribeAll(h, k)
  \/ \E ids \in IdLists : UnsubscribeMultiple(h, ids, k)
  \/ \E ch \in ChannelIds : GetSender(h, ch, k)

LEMMA ShownLeaves ==
  ASSUME Holds, NEW h \in Hubs, NEW k, ShownStep(h, k)
  PROVE  \/ \E ids \in SubscribedList(h, k) :
              ids \in Seq(ChannelIds) /\ Leave("unsubscribe_all", h, ids, k)
         \/ \E ids \in Seq(ChannelIds) : Leave("unsubscribe_multiple", h, ids, k)
         \/ \E ch \in ChannelIds : GetSender(h, ch, k)
<1>1. \A ids \in IdLists : ids \in Seq(ChannelIds)
  BY IdentityConstants
<1>2. \A ids \in SubscribedList(h, k) : ids \in Seq(ChannelIds)
  BY SubscribedListProperties
<1>3. QED BY <1>1, <1>2, Zenon DEF ShownStep, UnsubscribeAll, UnsubscribeMultiple

LEMMA HoldsStep == IdInv /\ Holds /\ [Next]_vars => Holds'
<1> SUFFICES ASSUME IdInv, Holds, [Next]_vars PROVE Holds'
  OBVIOUS
<1>1. ASSUME UNCHANGED senders, Kept PROVE Holds'
  <2>1. /\ senders' = [h \in Hubs |-> [ch \in ChannelIds |-> senders'[h][ch]]]
        /\ \A h \in Hubs, ch \in ChannelIds : senders'[h][ch] \subseteq senders[h][ch]
    <3>1. \A h \in Hubs : senders[h] = [ch \in ChannelIds |-> senders[h][ch]]
      BY DEF Holds
    <3>2. senders = [h \in Hubs |-> senders[h]]
      BY DEF Holds
    <3>3. QED BY <1>1, <3>1, <3>2
  <2>2. QED BY <1>1, <2>1, HoldsFewer
<1>2. UNCHANGED channels => Kept
  BY DEF Kept
<1>3. ASSUME NEW h \in Hubs, HubStep(h) PROVE Holds'
  <2>1. CASE NewHub(h)
    BY <1>1, <1>2, <2>1 DEF NewHub
  <2>2. CASE GetCreationWaiter(h)
    BY <1>1, <2>2, AppendKept DEF GetCreationWaiter, HubMakesChannel
  <2>3. CASE DropHub(h)
    <3>1. /\ senders' = [senders EXCEPT ![h] = [ch \in ChannelIds |-> {}]]
          /\ UNCHANGED channels
      BY <2>3 DEF DropHub
    <3>2. /\ senders' = [g \in Hubs |-> [ch \in ChannelIds |-> senders'[g][ch]]]
          /\ \A g \in Hubs, ch \in ChannelIds : senders'[g][ch] \subseteq senders[g][ch]
      BY <3>1 DEF Holds
    <3>3. QED BY <1>2, <3>1, <3>2, HoldsFewer
  <2>4. ASSUME NEW ch \in ChannelIds, CleanChannel(h, ch) PROVE Holds'
    <3>1. /\ senders' = [senders EXCEPT ![h][ch] = {j \in @ : channels[j].open}]
          /\ UNCHANGED channels
      BY <2>4 DEF CleanChannel
    <3>2. /\ senders' = [g \in Hubs |-> [c \in ChannelIds |-> senders'[g][c]]]
          /\ \A g \in Hubs, c \in ChannelIds : senders'[g][c] \subseteq senders[g][c]
      BY <3>1 DEF Holds
    <3>3. QED BY <1>2, <3>1, <3>2, HoldsFewer
  <2>5. ASSUME NEW ids \in IdLists, Subscribe(h, ids) PROVE Holds'
    <3>1. ids \in Seq(ChannelIds)
      BY IdentityConstants
    <3>2. QED BY <2>5, <3>1, SubscribeHolds
  <2>6. QED BY <1>3, <2>1, <2>2, <2>3, <2>4, <2>5 DEF HubStep
<1>4. ASSUME NEW k \in DOMAIN channels, ReceiverStep(k) PROVE Holds'
  <2>1. CASE Bind(k)
    BY <1>1, <2>1, AppendKept DEF Bind, hubVars
  <2>2. CASE DropReceiver(k)
    <3>1. /\ channels' = [channels EXCEPT ![k].open = FALSE] /\ UNCHANGED senders
          /\ channels \in Seq(Channel)
      BY <2>2 DEF DropReceiver, hubVars, IdInv, Typed
    <3>2. Kept
      <4>1. PICK c \in Channel : c = channels[k]
        BY <3>1
      <4>2. PICK new : new = [c EXCEPT !.open = FALSE]
        OBVIOUS
      <4>3. new.by = c.by
        BY <4>2 DEF Channel
      <4>4. channels' = [channels EXCEPT ![k] = new]
        BY <3>1, <4>1, <4>2
      <4>5. QED BY <3>1, <4>1, <4>3, <4>4 DEF Kept
    <3>3. QED BY <1>1, <3>1, <3>2
  <2>3. ASSUME NEW h \in Hubs, ShownStep(h, k) PROVE Holds'
    <3>1. ASSUME NEW ch \in ChannelIds, GetSender(h, ch, k) PROVE Holds'
      BY <1>1, <1>2, <3>1 DEF GetSender, hubVars
    <3>2. QED BY <2>3, <3>1, ShownLeaves, LeaveHolds
  <2>4. QED BY <1>4, <2>1, <2>2, <2>3 DEF ReceiverStep, ShownStep
<1>5. CASE MoveHubs \/ UNCHANGED vars
  BY <1>1, <1>2, <1>5 DEF MoveHubs, vars, hubVars
<1>6. QED BY <1>3, <1>4, <1>5 DEF Next

LEMMA HoldsInvariance == Spec => [](IdInv /\ Holds)
<1>1. Init => Holds
  <2> SUFFICES ASSUME Init PROVE Holds
    OBVIOUS
  <2>1. senders = [h \in Hubs |-> [ch \in ChannelIds |-> {}]]
    BY DEF Init
  <2>2. \A h \in Hubs : {ch \in ChannelIds : senders[h][ch] # {}} = {}
    BY <2>1
  <2>3. \A h \in Hubs : IsFiniteSet({ch \in ChannelIds : senders[h][ch] # {}})
    BY <2>2, FS_EmptySet, Zenon
  <2>4. QED BY <2>1, <2>3 DEF Holds
<1>2. QED BY <1>1, HoldsStep, IdInvariance, PTL DEF Spec

\* The types: counters, addresses and ids, and every sender that of a channel
\* made.
THEOREM IdentityTypes == Spec => []TypeOK
<1>1. IdInv /\ Holds => TypeOK
  BY DEF IdInv, Typed, Holds, TypeOK
<1>2. QED BY <1>1, HoldsInvariance, PTL

\* An answer changes only in a call that is shown a receiver.
LEMMA AnswerStep ==
  ASSUME Next, answer' # answer
  PROVE  \E h \in Hubs, k \in DOMAIN channels : ShownStep(h, k)
<1>1. \A h \in Hubs : HubStep(h) => UNCHANGED answer
  BY DEF HubStep, NewHub, DropHub, GetCreationWaiter, HubMakesChannel,
         CleanChannel, Subscribe
<1>2. MoveHubs => UNCHANGED answer
  BY DEF MoveHubs
<1>3. \A k : Bind(k) \/ DropReceiver(k) => UNCHANGED answer
  BY DEF Bind, DropReceiver
<1>4. PICK k \in DOMAIN channels : ReceiverStep(k)
  BY <1>1, <1>2 DEF Next
<1>5. QED BY <1>3, <1>4, Zenon DEF ReceiverStep, ShownStep

\* A sender a hub holds and the receiver of one of its own channels have one id
\* only if they are of one channel.
LEMMA OwnIds ==
  ASSUME IdInv, Holds, NEW h \in Hubs, NEW ch \in ChannelIds,
         NEW j \in senders[h][ch], NEW k \in DOMAIN channels,
         channels[k].by = h, IsBoundTo(j, k)
  PROVE  j = k
<1>1. j \in DOMAIN channels /\ channels[j].by = h
  BY DEF Holds, MadeBy
<1>2. Counter(j) = Counter(k)
  BY DEF IsBoundTo, Counter
<1>3. QED BY <1>1, <1>2 DEF IdInv, Numbered, MadeBy

\* A hub that is shown a receiver of its own making takes out this receiver's
\* senders and no others, and returns no other: whatever ids callers have bound
\* and other hubs have issued at its address.
THEOREM OwnReceiversOnly == Spec => OwnReceiverOwnSenders
<1> DEFINE P ==
      /\ answer' # answer /\ channels[answer'.rx].by = answer'.hub
      => \A h \in Hubs, ch \in ChannelIds :
           /\ senders[h][ch] \ senders'[h][ch] \subseteq {answer'.rx}
           /\ answer'.op = "get_sender" => answer'.got = answer'.rx
<1>1. IdInv /\ Holds /\ [Next]_vars => [P]_vars
  <2> SUFFICES ASSUME IdInv, Holds, Next, answer' # answer,
                      channels[answer'.rx].by = answer'.hub,
                      NEW g \in Hubs, NEW ch \in ChannelIds
               PROVE  /\ senders[g][ch] \ senders'[g][ch] \subseteq {answer'.rx}
                      /\ answer'.op = "get_sender" => answer'.got = answer'.rx
    OBVIOUS
  <2>1. PICK h \in Hubs, k \in DOMAIN channels : ShownStep(h, k)
    BY AnswerStep
  <2>2. ASSUME NEW ids \in Seq(ChannelIds), NEW op, op # "get_sender",
               Leave(op, h, ids, k)
        PROVE  /\ senders[g][ch] \ senders'[g][ch] \subseteq {answer'.rx}
               /\ answer'.op # "get_sender"
    <3>1. PICK errors \in Seq(ChannelIds) :
            answer' = [op |-> op, hub |-> h, rx |-> k, ids |-> ids, errors |-> errors]
      <4>1. Leave(op, h, ids, k)
        BY <2>2
      <4>2. \E errors \in Seq(ChannelIds) :
              /\ answer' = [op |-> op, hub |-> h, rx |-> k, ids |-> ids, errors |-> errors]
              /\ Len(errors) + Cardinality(Served(senders[h], ids, k, Len(ids))) = Len(ids)
        BY <4>1, LeaveResult
      <4>3. QED BY <4>2, Zenon
    <3>2. answer'.op = op /\ answer'.hub = h /\ answer'.rx = k
      BY <3>1
    <3>3. PICK left : left = LeftBy(senders[h], ids, k, Len(ids))
      OBVIOUS
    <3>4. senders' = [senders EXCEPT ![h] = left]
      BY <2>2, <3>3, LeaveResult
    <3>5. senders[h][ch] \ left[ch] \subseteq {j \in senders[h][ch] : IsBoundTo(j, k)}
      BY <3>3 DEF LeftBy, Retain
    <3>6. senders[h][ch] \ left[ch] \subseteq {k}
      BY <3>2, <3>5, OwnIds
    <3>7. senders'[g] = IF g = h THEN left ELSE senders[g]
      BY <3>4 DEF Holds
    <3>8. QED BY <2>2, <3>2, <3>6, <3>7
  <2>3. ASSUME NEW c \in ChannelIds, GetSender(h, c, k)
        PROVE  /\ senders[g][ch] \ senders'[g][ch] \subseteq {answer'.rx}
               /\ answer'.got = answer'.rx
    <3>1. PICK j \in senders[h][c] :
            /\ IsBoundTo(j, k) /\ UNCHANGED senders
            /\ answer' = [op |-> "get_sender", hub |-> h, rx |-> k, got |-> j]
      BY <2>3 DEF GetSender, hubVars
    <3>2. answer'.hub = h /\ answer'.rx = k /\ answer'.got = j
      BY <3>1
    <3>3. j = k
      BY <3>1, <3>2, OwnIds
    <3>4. QED BY <3>1, <3>2, <3>3
  <2>4. QED BY <2>1, <2>2, <2>3, ShownLeaves
<1>2. Spec => [][P]_vars
  BY <1>1, HoldsInvariance, PTL DEF Spec
<1>3. QED BY <1>2 DEF OwnReceiverOwnSenders

\* unsubscribe_multiple goes through its whole list: no channel of it is left
\* with a sender of the receiver, and the errors count the entries that found
\* none.  unsubscribe_all has no error to hide.
THEOREM WholeListLeft == Spec => LeavesWholeList
<1> DEFINE P == answer' # answer /\ answer'.op # "get_sender" =>
                  /\ StillIn(senders') = {}
                  /\ Len(answer'.ids) = Len(answer'.errors) + Cardinality(StillIn(senders))
                  /\ answer'.op = "unsubscribe_all" => answer'.errors = <<>>
<1>1. IdInv /\ Holds /\ [Next]_vars => [P]_vars
  <2> SUFFICES ASSUME IdInv, Holds, Next, answer' # answer, answer'.op # "get_sender"
               PROVE  /\ StillIn(senders') = {}
                      /\ Len(answer'.ids)
                           = Len(answer'.errors) + Cardinality(StillIn(senders))
                      /\ answer'.op = "unsubscribe_all" => answer'.errors = <<>>
    OBVIOUS
  <2>1. PICK h \in Hubs, k \in DOMAIN channels : ShownStep(h, k)
    BY AnswerStep
  <2>2. ASSUME NEW ch \in ChannelIds PROVE ~GetSender(h, ch, k)
    <3> SUFFICES ASSUME GetSender(h, ch, k) PROVE FALSE
      OBVIOUS
    <3>1. PICK j : answer' = [op |-> "get_sender", hub |-> h, rx |-> k, got |-> j]
      BY DEF GetSender
    <3>2. QED BY <3>1
  <2>3. PICK op \in {"unsubscribe_all", "unsubscribe_multiple"},
             ids \in Seq(ChannelIds) :
          /\ Leave(op, h, ids, k)
          /\ op = "unsubscribe_all" => ids \in SubscribedList(h, k)
    <3>1. CASE \E ids \in SubscribedList(h, k) :
                 ids \in Seq(ChannelIds) /\ Leave("unsubscribe_all", h, ids, k)
      BY <3>1, Zenon
    <3>2. CASE \E ids \in Seq(ChannelIds) : Leave("unsubscribe_multiple", h, ids, k)
      <4>1. "unsubscribe_multiple" # "unsubscribe_all"
        OBVIOUS
      <4>2. QED BY <3>2, <4>1, Zenon
    <3>3. QED BY <2>1, <2>2, <3>1, <3>2, ShownLeaves
  <2>4. PICK errors \in Seq(ChannelIds) :
          /\ answer' = [op |-> op, hub |-> h, rx |-> k, ids |-> ids, errors |-> errors]
          /\ Len(errors) + Cardinality(Served(senders[h], ids, k, Len(ids))) = Len(ids)
    <3>1. Leave(op, h, ids, k)
      BY <2>3
    <3>2. \E errors \in Seq(ChannelIds) :
            /\ answer' = [op |-> op, hub |-> h, rx |-> k, ids |-> ids, errors |-> errors]
            /\ Len(errors) + Cardinality(Served(senders[h], ids, k, Len(ids))) = Len(ids)
      BY <3>1, LeaveResult
    <3>3. QED BY <3>2, Zenon
  <2>5. /\ answer'.op = op /\ answer'.hub = h /\ answer'.rx = k
        /\ answer'.ids = ids /\ answer'.errors = errors
    BY <2>4
  <2>6. ToSet(ids) = {ids[i] : i \in 1 .. Len(ids)} /\ ToSet(ids) \subseteq ChannelIds
    <3>1. DOMAIN ids = 1 .. Len(ids)
      OBVIOUS
    <3>2. QED BY <3>1, ElementsFinite DEF ToSet
  <2>7. StillIn(senders') = {}
    <3>1. PICK now : now = LeftBy(senders[h], ids, k, Len(ids))
      OBVIOUS
    <3>2. senders'[h] = now
      <4>1. Leave(op, h, ids, k)
        BY <2>3
      <4>2. senders' = [senders EXCEPT ![h] = now]
        BY <3>1, <4>1, LeaveResult
      <4>3. QED BY <4>2 DEF Holds
    <3>3. ASSUME NEW ch \in ToSet(ids) PROVE ~IsSubscribed(now, ch, k)
      <4>1. now[ch] = Retain(senders[h][ch], k)
        BY <2>6, <3>1 DEF LeftBy
      <4>2. QED BY <4>1 DEF IsSubscribed, Retain
    <3>4. StillIn(senders') = {ch \in ToSet(ids) : IsSubscribed(now, ch, k)}
      BY <2>5, <3>2 DEF StillIn
    <3>5. QED BY <3>3, <3>4
  <2>8. StillIn(senders) = Served(senders[h], ids, k, Len(ids))
    BY <2>5, <2>6 DEF Served, StillIn
  <2>9. Len(ids) = Len(errors) + Cardinality(StillIn(senders))
    <3>1. Len(errors) + Cardinality(StillIn(senders)) = Len(ids)
      BY <2>4, <2>8, Zenon
    <3>2. QED BY <3>1
  <2>10. op = "unsubscribe_all" => errors = <<>>
    <3> SUFFICES ASSUME op = "unsubscribe_all" PROVE errors = <<>>
      OBVIOUS
    <3>1. /\ \A i \in 1 .. Len(ids) : IsSubscribed(senders[h], ids[i], k)
          /\ \A i, j \in 1 .. Len(ids) : i # j => ids[i] # ids[j]
      BY <2>3, SubscribedListProperties
    <3>2. Cardinality(ToSet(ids)) = Len(ids)
      BY <3>1, ElementsFinite
    <3>3. Served(senders[h], ids, k, Len(ids)) = ToSet(ids)
      BY <2>6, <3>1 DEF Served
    <3>4. Len(errors) + Len(ids) = Len(ids)
      BY <2>4, <3>2, <3>3, Zenon
    <3>5. Len(errors) = 0
      BY <3>4
    <3>6. QED BY <3>5
  <2>11. QED BY <2>5, <2>7, <2>9, <2>10
<1>2. Spec => [][P]_vars
  BY <1>1, HoldsInvariance, PTL DEF Spec
<1>3. QED BY <1>2 DEF LeavesWholeList
=============================================================================
