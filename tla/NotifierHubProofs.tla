-------------------------- MODULE NotifierHubProofs --------------------------
(***************************************************************************)
(* The safety of NotifierHub for every set of channels, every number of    *)
(* receivers and messages and every capacity: the types, the end a         *)
(* receiver sees, and what a wait on a handler says.                       *)
(***************************************************************************)
EXTENDS NotifierHub, FlattenTheorems

-----------------------------------------------------------------------------
(* The inductive invariant.                                                *)

\* The receivers made that have not come to their end.
Live == {i \in Ids : rx[i] \notin {"unused", "ended"}}

Hub == /\ alive \in BOOLEAN /\ connection_id \in 0 .. MaxIds
       /\ opened \subseteq ChannelIds /\ IsFiniteSet(opened)
       /\ sent \in 0 .. MaxSends

\* Nobody keeps a sender of a receiver that has come to its end ...
Lists == /\ senders \in [ChannelIds -> Seq(Live)]
         /\ creation_senders \in [ChannelIds -> Seq(Live)]
         /\ held \subseteq Live

\* ... which has nothing more to read ...
Channels == /\ rx \in [Ids -> Roles \cup {"unused", "ended", "dropped"}]
            /\ buffer \in [Ids -> Seq(0 .. MaxSends)]
            /\ \A i \in Ids : Len(buffer[i]) <= Capacity(i)
            /\ \A i \in Ids \ Live : buffer[i] = <<>>
            /\ \A i \in Ids : i >= connection_id => rx[i] = "unused"

\* ... and no task writes to it.
Tasks == /\ writes \in Seq(Write)
         /\ \A w \in DOMAIN writes :
              writes[w].state = "sending" => writes[w].to \in Live

HInv == Hub /\ Lists /\ Channels /\ Tasks

\* A handler whose wait has seen no failure has seen the tasks before next in
\* their channels; held, it has seen none, and Ok it has seen them all.
Answers(r) ==
  /\ r.last <= Len(writes) /\ r.next <= r.last + 1
  /\ ~r.failed => \A w \in r.first .. r.next - 1 : writes[w].state = "sent"
  /\ r.stage = "held" => r.next = r.first /\ r.waited = 0 /\ ~r.failed
  /\ r.stage = "Ok" => ~r.failed /\ r.next > r.last

\* What it has waited, what is left to the task it awaits and a full duration
\* for each task after that one are no more than a duration for each task.
Lasts(r) == r.duration # NoDuration =>
  /\ r.next > r.last => r.timer = r.duration
  /\ r.waited + r.timer + (r.last - r.next) * r.duration
       <= (r.last - r.first + 1) * r.duration

Waits == /\ handlers \in Seq(Handler)
         /\ \A h \in DOMAIN handlers : Answers(handlers[h]) /\ Lasts(handlers[h])

-----------------------------------------------------------------------------
(* Facts about the operators the actions are built from.                   *)

\* Vec::retain keeps no element that was not there.
LEMMA RetainType ==
  ASSUME NEW S, NEW list \in Seq(S), NEW kept
  PROVE  Retain(list, kept) \in Seq(S)
<1> DEFINE parts == [k \in DOMAIN list |-> IF list[k] \in kept THEN <<list[k]>> ELSE <<>>]
<1>1. DOMAIN list = 1 .. Len(list) /\ Len(list) \in Nat
  OBVIOUS
<1>2. ASSUME NEW k \in DOMAIN list PROVE parts[k] \in Seq(S)
  <2>1. list[k] \in S
    OBVIOUS
  <2>2. <<list[k]>> \in Seq(S) /\ <<>> \in Seq(S)
    BY <2>1
  <2>3. parts[k] = <<list[k]>> \/ parts[k] = <<>>
    OBVIOUS
  <2> HIDE DEF parts
  <2>4. QED BY <2>2, <2>3
<1>3. parts \in Seq(Seq(S))
  <2>1. parts \in [1 .. Len(list) -> Seq(S)]
    BY <1>1, <1>2
  <2> HIDE DEF parts
  <2>2. QED BY <1>1, <2>1, FunctionIsSeq
<1> HIDE DEF parts
<1>4. FlattenSeq(parts) \in Seq(S)
  BY <1>3, FlattenType
<1>5. QED BY <1>4 DEF Retain, parts

\* The notices of a list of insertions go to waiters the hub has.
LEMMA ToNotifyType ==
  ASSUME NEW L, creation_senders \in [ChannelIds -> Seq(L)],
         NEW ids \in Seq(ChannelIds)
  PROVE  ToNotify(ids) \in Seq(L)
<1> DEFINE parts == [k \in DOMAIN ids |-> creation_senders[ids[k]]]
<1>1. DOMAIN ids = 1 .. Len(ids) /\ Len(ids) \in Nat
  OBVIOUS
<1>2. ASSUME NEW k \in DOMAIN ids PROVE parts[k] \in Seq(L)
  <2>1. ids[k] \in ChannelIds
    OBVIOUS
  <2>2. creation_senders[ids[k]] \in Seq(L)
    BY <2>1
  <2>3. parts[k] = creation_senders[ids[k]]
    OBVIOUS
  <2> HIDE DEF parts
  <2>4. QED BY <2>2, <2>3
<1>3. parts \in Seq(Seq(L))
  <2>1. parts \in [1 .. Len(ids) -> Seq(L)]
    BY <1>1, <1>2
  <2> HIDE DEF parts
  <2>2. QED BY <1>1, <2>1, FunctionIsSeq
<1> HIDE DEF parts
<1>4. FlattenSeq(parts) \in Seq(L)
  BY <1>3, FlattenType
<1>5. QED BY <1>4 DEF ToNotify, parts

\* One task is spawned for each sender of the list, after those there are.
LEMMA SpawnProperties ==
  ASSUME writes \in Seq(Write), NEW L \in SUBSET Ids, NEW to \in Seq(L),
         NEW msg \in 0 .. MaxSends, Spawn(to, msg)
  PROVE  /\ writes' \in Seq(Write) /\ Len(writes') = Len(writes) + Len(to)
         /\ \A w \in 1 .. Len(writes) : writes'[w] = writes[w]
         /\ \A w \in DOMAIN writes' :
              w \in DOMAIN writes \/ writes'[w].to \in L
<1> DEFINE new == [k \in DOMAIN to |-> [to |-> to[k], msg |-> msg, state |-> "sending"]]
<1>1. /\ DOMAIN to = 1 .. Len(to) /\ Len(to) \in Nat
      /\ \A k \in 1 .. Len(to) : to[k] \in L
      /\ DOMAIN writes = 1 .. Len(writes) /\ Len(writes) \in Nat
  OBVIOUS
<1>2. ASSUME NEW k \in 1 .. Len(to) PROVE new[k] \in Write /\ new[k].to \in L
  <2>1. to[k] \in L /\ to[k] \in Ids
    BY <1>1
  <2>2. new[k] = [to |-> to[k], msg |-> msg, state |-> "sending"]
    BY <1>1
  <2> HIDE DEF new
  <2>3. QED BY <2>1, <2>2 DEF Write
<1>3. new \in [1 .. Len(to) -> Write]
  BY <1>1, <1>2
<1> HIDE DEF new
<1>4. new \in Seq(Write) /\ Len(new) = Len(to)
  BY <1>1, <1>3, FunctionIsSeq
<1>5. writes' = writes \o new
  BY DEF Spawn, new
<1>6. /\ writes \o new \in Seq(Write)
      /\ Len(writes \o new) = Len(writes) + Len(new)
      /\ \A w \in 1 .. Len(writes) + Len(new) : (writes \o new)[w] =
           IF w <= Len(writes) THEN writes[w] ELSE new[w - Len(writes)]
  BY <1>4, ConcatProperties
<1>7. /\ writes' \in Seq(Write) /\ Len(writes') = Len(writes) + Len(to)
      /\ DOMAIN writes' = 1 .. Len(writes) + Len(to)
      /\ \A w \in 1 .. Len(writes) + Len(to) : writes'[w] =
           IF w <= Len(writes) THEN writes[w] ELSE new[w - Len(writes)]
  <2>1. /\ writes' \in Seq(Write) /\ Len(writes') = Len(writes) + Len(to)
        /\ \A w \in 1 .. Len(writes) + Len(to) : writes'[w] =
             IF w <= Len(writes) THEN writes[w] ELSE new[w - Len(writes)]
    BY <1>4, <1>5, <1>6
  <2>2. QED BY <2>1
<1>8. \A w \in 1 .. Len(writes) : writes'[w] = writes[w]
  BY <1>1, <1>7
<1>9. ASSUME NEW w \in 1 .. Len(writes) + Len(to), w \notin 1 .. Len(writes)
      PROVE  writes'[w].to \in L
  <2>1. w - Len(writes) \in 1 .. Len(to) /\ ~(w <= Len(writes))
    BY <1>1, <1>9
  <2>2. writes'[w] = new[w - Len(writes)]
    BY <1>7, <2>1
  <2>3. QED BY <1>2, <2>1, <2>2
<1>10. QED BY <1>1, <1>7, <1>8, <1>9

\* Where no receiver changes the same ones are live.
LEMMA LiveSame ==
  ASSUME UNCHANGED rx
  PROVE  Live' = Live
  BY DEF Live

\* The lists, with the senders of some channels retained or not.
LEMMA RetainLists ==
  ASSUME HInv, UNCHANGED <<rx, creation_senders, held>>, NEW chs,
         \E kept : senders' = [ch \in ChannelIds |->
                     IF ch \in chs THEN Retain(senders[ch], kept) ELSE senders[ch]]
  PROVE  Lists'
<1>1. PICK kept : senders' = [ch \in ChannelIds |->
                    IF ch \in chs THEN Retain(senders[ch], kept) ELSE senders[ch]]
  OBVIOUS
<1>2. ASSUME NEW ch \in ChannelIds
      PROVE  senders'[ch] \in Seq(Live)
  <2>1. senders[ch] \in Seq(Live)
    BY DEF HInv, Lists
  <2>2. Retain(senders[ch], kept) \in Seq(Live)
    BY <2>1, RetainType
  <2>3. senders'[ch] = IF ch \in chs THEN Retain(senders[ch], kept) ELSE senders[ch]
    BY <1>1
  <2>4. QED BY <2>1, <2>2, <2>3
<1>3. senders' \in [ChannelIds -> Seq(Live)]
  BY <1>1, <1>2
<1>4. QED BY <1>3, LiveSame DEF HInv, Lists

\* New tasks write to live receivers.
LEMMA SpawnTasks ==
  ASSUME HInv, NEW to \in Seq(Live), NEW msg \in 0 .. MaxSends, Spawn(to, msg),
         Live \subseteq Live'
  PROVE  Tasks'
<1>1. writes \in Seq(Write) /\ Live \in SUBSET Ids
  BY DEF HInv, Tasks, Live
<1>2. /\ writes' \in Seq(Write)
      /\ \A w \in 1 .. Len(writes) : writes'[w] = writes[w]
      /\ \A w \in DOMAIN writes' : w \in DOMAIN writes \/ writes'[w].to \in Live
  BY <1>1, SpawnProperties
<1>3. DOMAIN writes = 1 .. Len(writes)
  BY <1>1
<1>4. \A w \in DOMAIN writes' : writes'[w].state = "sending" => writes'[w].to \in Live
  BY <1>2, <1>3 DEF HInv, Tasks
<1>5. QED BY <1>2, <1>4 DEF Tasks

\* A pair of channel ends is made for an unused id.
LEMMA NewChannelStep ==
  ASSUME HInv, NEW role \in Roles, NewChannel(role), UNCHANGED buffer
  PROVE  /\ connection_id \in Ids /\ connection_id' \in 0 .. MaxIds
         /\ Live \subseteq Live' /\ connection_id \in Live'
         /\ Channels'
<1> DEFINE new == connection_id
<1>0. MaxIds \in Nat /\ Size \in Nat /\ NotifierSize \in Nat
  BY HubConstants
<1>1. new \in Ids /\ connection_id' \in 0 .. MaxIds /\ connection_id' = new + 1
  BY <1>0 DEF HInv, Hub, NewChannel, Ids
<1>2. /\ rx' = [rx EXCEPT ![new] = role] /\ role \notin {"unused", "ended"}
      /\ rx \in [Ids -> Roles \cup {"unused", "ended", "dropped"}]
      /\ \A i \in Ids : i >= new => rx[i] = "unused"
  BY DEF NewChannel, Roles, HInv, Channels
<1>3. \A i \in Ids : rx'[i] = IF i = new THEN role ELSE rx[i]
  BY <1>1, <1>2
<1>4. Live \subseteq Live' /\ new \in Live'
  BY <1>1, <1>2, <1>3 DEF Live
<1>5. buffer[new] = <<>>
  <2>1. new \in Ids \ Live
    <3>1. rx[new] = "unused"
      BY <1>1, <1>2 DEF Ids
    <3>2. QED BY <1>1, <3>1 DEF Live
  <2>2. QED BY <2>1 DEF HInv, Channels
<1>6. \A i \in Ids : Len(buffer[i]) <= Capacity(i)'
  <2> SUFFICES ASSUME NEW i \in Ids PROVE Len(buffer[i]) <= Capacity(i)'
    OBVIOUS
  <2>1. CASE i = new
    <3>1. Len(buffer[i]) = 0
      BY <1>5, <2>1
    <3>2. QED BY <1>0, <3>1 DEF Capacity
  <2>2. CASE i # new
    <3>1. Capacity(i)' = Capacity(i)
      BY <1>3, <2>2 DEF Capacity
    <3>2. QED BY <3>1 DEF HInv, Channels
  <2>3. QED BY <2>1, <2>2
<1>7. \A i \in Ids : i >= connection_id' => rx'[i] = "unused"
  BY <1>1, <1>2, <1>3 DEF Ids
<1>8. rx' \in [Ids -> Roles \cup {"unused", "ended", "dropped"}]
  BY <1>2
<1> HIDE DEF new
<1>9. Channels'
  BY <1>4, <1>6, <1>7, <1>8 DEF HInv, Channels
<1>10. QED BY <1>1, <1>4, <1>9 DEF new

-----------------------------------------------------------------------------
(* The steps.                                                              *)

\* A subscription: the new sender at the end of the lists, a notice to every
\* waiter of the channels.
LEMMA InsertStep ==
  ASSUME HInv, NEW ids \in Seq(ChannelIds), InsertSenders(ids)
  PROVE  HInv'
<1>1. /\ NewChannel("subscriber") /\ UNCHANGED <<alive, creation_senders, buffer, held, sent>>
      /\ opened' = opened \cup ToSet(ids)
      /\ Spawn(ToNotify(ids), Notice)
  BY DEF InsertSenders, NewChannel
<1>2. /\ connection_id \in Ids /\ connection_id' \in 0 .. MaxIds
      /\ Live \subseteq Live' /\ connection_id \in Live'
      /\ Channels'
  BY <1>1, NewChannelStep DEF Roles
<1>3. Hub'
  <2>1. IsFiniteSet(ToSet(ids)) /\ ToSet(ids) \subseteq ChannelIds
    BY ElementsFinite
  <2>2. IsFiniteSet(opened \cup ToSet(ids))
    BY <2>1, FS_Union DEF HInv, Hub
  <2>3. QED BY <1>1, <1>2, <2>1, <2>2 DEF HInv, Hub
<1>4. Lists'
  <2>1. ASSUME NEW ch \in ChannelIds
        PROVE  senders'[ch] \in Seq(Live')
    <3> DEFINE times == Times(ch, ids)
               more == [n \in 1 .. times |-> connection_id]
    <3>1. times \in Nat
      <4>1. DOMAIN ids = 1 .. Len(ids) /\ Len(ids) \in Nat
        OBVIOUS
      <4>2. IsFiniteSet(1 .. Len(ids))
        BY <4>1, FS_Interval
      <4>3. {k \in DOMAIN ids : ids[k] = ch} \in SUBSET (1 .. Len(ids))
        BY <4>1
      <4>4. IsFiniteSet({k \in DOMAIN ids : ids[k] = ch})
        BY <4>2, <4>3, FS_Subset
      <4>5. QED BY <4>4, FS_CardinalityType DEF Times
    <3> HIDE DEF times
    <3>2. more \in Seq(Live')
      <4>1. more \in [1 .. times -> Live']
        BY <1>2
      <4> HIDE DEF more
      <4>2. QED BY <3>1, <4>1, FunctionIsSeq
    <3> HIDE DEF more
    <3>3. senders[ch] \in Seq(Live')
      <4>1. senders[ch] \in Seq(Live)
        BY DEF HInv, Lists
      <4>2. QED BY <1>2, <4>1, SeqMonotonic
    <3>4. senders'[ch] = senders[ch] \o more
      BY DEF InsertSenders, more, times
    <3>5. QED BY <3>2, <3>3, <3>4, ConcatProperties
  <2>2. ASSUME NEW ch \in ChannelIds
        PROVE  creation_senders[ch] \in Seq(Live')
    <3>1. creation_senders[ch] \in Seq(Live)
      BY DEF HInv, Lists
    <3>2. QED BY <1>2, <3>1, SeqMonotonic
  <2>3. senders' \in [ChannelIds -> Seq(Live')]
    <3>1. senders' = [ch \in ChannelIds |-> senders'[ch]]
      BY DEF InsertSenders
    <3>2. QED BY <2>1, <3>1
  <2>4. creation_senders \in [ChannelIds -> Seq(Live')]
    BY <2>2 DEF HInv, Lists
  <2>5. QED BY <1>1, <1>2, <2>3, <2>4 DEF HInv, Lists
<1>5. Tasks'
  <2>1. ToNotify(ids) \in Seq(Live)
    BY ToNotifyType DEF HInv, Lists
  <2>2. Notice \in 0 .. MaxSends
    BY HubConstants DEF Notice
  <2>3. QED BY <1>1, <1>2, <2>1, <2>2, SpawnTasks
<1>6. QED BY <1>2, <1>3, <1>4, <1>5 DEF HInv

\* A new waiter of subscriptions.
LEMMA WaiterStep ==
  ASSUME HInv, NEW ch \in ChannelIds, GetCreationWaiter(ch)
  PROVE  HInv'
<1>1. /\ NewChannel("waiter")
      /\ UNCHANGED <<alive, opened, senders, buffer, held, writes, sent>>
      /\ creation_senders' = [creation_senders EXCEPT ![ch] = Append(@, connection_id)]
  BY DEF GetCreationWaiter, NewChannel
<1>2. /\ connection_id \in Ids /\ connection_id' \in 0 .. MaxIds
      /\ Live \subseteq Live' /\ connection_id \in Live'
      /\ Channels'
  BY <1>1, NewChannelStep DEF Roles
<1>3. Hub'
  BY <1>1, <1>2 DEF HInv, Hub
<1>4. Lists'
  <2>1. ASSUME NEW c \in ChannelIds
        PROVE  senders[c] \in Seq(Live') /\ creation_senders[c] \in Seq(Live')
    <3>1. senders[c] \in Seq(Live) /\ creation_senders[c] \in Seq(Live)
      BY DEF HInv, Lists
    <3>2. QED BY <1>2, <3>1, SeqMonotonic
  <2>2. Append(creation_senders[ch], connection_id) \in Seq(Live')
    BY <1>2, <2>1, AppendProperties
  <2>3. senders \in [ChannelIds -> Seq(Live')]
    BY <2>1 DEF HInv, Lists
  <2>4. creation_senders' \in [ChannelIds -> Seq(Live')]
    <3>1. creation_senders \in [ChannelIds -> Seq(Live')]
      BY <2>1 DEF HInv, Lists
    <3>2. QED BY <1>1, <2>2, <3>1
  <2>5. QED BY <1>1, <1>2, <2>3, <2>4 DEF HInv, Lists
<1>5. Tasks'
  BY <1>1, <1>2 DEF HInv, Tasks
<1>6. QED BY <1>2, <1>3, <1>4, <1>5 DEF HInv

\* The senders of some channels are thinned out.
LEMMA RetainStep ==
  ASSUME HInv,
         \/ \E ch \in ChannelIds : CleanChannel(ch)
         \/ CleanAll
         \/ \E chs, i : RemoveSenders(chs, i)
  PROVE  HInv'
<1>1. /\ UNCHANGED <<alive, connection_id, opened, creation_senders, rx, buffer,
                     held, writes, sent>>
      /\ \E chs, kept : senders' = [ch \in ChannelIds |->
                          IF ch \in chs THEN Retain(senders[ch], kept) ELSE senders[ch]]
  <2>1. UNCHANGED <<alive, connection_id, opened, creation_senders, rx, buffer,
                    held, writes, sent>>
    BY DEF CleanChannel, CleanAll, RemoveSenders, channelVars
  <2>2. ASSUME NEW chs, CleanChannels(chs)
        PROVE  \E kept : senders' = [ch \in ChannelIds |->
                 IF ch \in chs THEN Retain(senders[ch], kept) ELSE senders[ch]]
    BY <2>2 DEF CleanChannels, OpenSenders
  <2>3. ASSUME NEW chs, NEW i, RemoveSenders(chs, i)
        PROVE  \E kept : senders' = [ch \in ChannelIds |->
                 IF ch \in chs THEN Retain(senders[ch], kept) ELSE senders[ch]]
    BY <2>3 DEF RemoveSenders, RetainUnbound
  <2>4. \/ \E chs : CleanChannels(chs)
        \/ \E chs, i : RemoveSenders(chs, i)
    BY Zenon DEF CleanChannel, CleanAll
  <2>5. QED BY <2>1, <2>2, <2>3, <2>4, Zenon
<1>2. Lists'
  BY <1>1, RetainLists
<1>3. Live' = Live
  BY <1>1, LiveSame
<1>4. Channels'
  BY <1>1, <1>3 DEF HInv, Channels, Capacity
<1>5. Hub' /\ Tasks'
  BY <1>1, <1>3 DEF HInv, Hub, Tasks
<1>6. QED BY <1>2, <1>4, <1>5 DEF HInv

\* A message goes to the open senders of one channel, or of all.
LEMMA MessageStep ==
  ASSUME HInv, Broadcast \/ \E ch \in ChannelIds : Send(ch)
  PROVE  HInv' /\ \E to \in Seq(Ids) : WriteTo(to)
<1>1. /\ UNCHANGED <<alive, connection_id, opened, creation_senders, rx, buffer, held>>
      /\ sent < MaxSends /\ sent' = sent + 1
      /\ \E chs : CleanChannels(chs)
  BY DEF Broadcast, Send, WriteTo, channelVars
<1>2. Lists'
  <2>1. \E chs, kept : senders' = [ch \in ChannelIds |->
                         IF ch \in chs THEN Retain(senders[ch], kept) ELSE senders[ch]]
    BY <1>1 DEF CleanChannels, OpenSenders
  <2>2. QED BY <1>1, <2>1, RetainLists
<1>3. Live' = Live /\ Live \subseteq Ids
  BY <1>1 DEF Live
<1>4. sent + 1 \in 0 .. MaxSends
  BY <1>1, HubConstants DEF HInv, Hub
<1>5. ASSUME NEW ch \in ChannelIds PROVE OpenSenders(ch) \in Seq(Live)
  <2>1. senders[ch] \in Seq(Live)
    BY DEF HInv, Lists
  <2>2. QED BY <2>1, RetainType DEF OpenSenders
<1>6. PICK to \in Seq(Live) : WriteTo(to)
  <2>1. ASSUME NEW ch \in ChannelIds, Send(ch)
        PROVE  \E to \in Seq(Live) : WriteTo(to)
    BY <1>5, <2>1 DEF Send
  <2>2. ASSUME Broadcast PROVE \E to \in Seq(Live) : WriteTo(to)
    <3>1. PICK order \in SetToSeqs(opened) :
            WriteTo(FlattenSeq([k \in DOMAIN order |-> OpenSenders(order[k])]))
      BY <2>2 DEF Broadcast
    <3>2. Cardinality(opened) \in Nat
      BY FS_CardinalityType DEF HInv, Hub
    <3>3. order \in [1 .. Cardinality(opened) -> opened]
      BY <3>1 DEF SetToSeqs
    <3> DEFINE n == Cardinality(opened)
               parts == [k \in DOMAIN order |-> OpenSenders(order[k])]
    <3>4. DOMAIN order = 1 .. n
      BY <3>3
    <3>5. ASSUME NEW k \in 1 .. n PROVE parts[k] \in Seq(Live)
      <4>1. order[k] \in ChannelIds
        BY <3>3 DEF HInv, Hub
      <4>2. OpenSenders(order[k]) \in Seq(Live)
        BY <1>5, <4>1
      <4>3. parts[k] = OpenSenders(order[k])
        BY <3>4
      <4> HIDE DEF parts
      <4>4. QED BY <4>2, <4>3
    <3>6. parts \in [1 .. n -> Seq(Live)]
      BY <3>4, <3>5
    <3> HIDE DEF n, parts
    <3>7. parts \in Seq(Seq(Live))
      BY <3>2, <3>6, FunctionIsSeq DEF n
    <3>8. FlattenSeq(parts) \in Seq(Live)
      BY <3>7, FlattenType
    <3>9. QED BY <3>1, <3>8 DEF parts
  <2>3. QED BY <2>1, <2>2
<1>7. Tasks'
  <2>1. Spawn(to, sent + 1)
    BY <1>6 DEF WriteTo
  <2>2. QED BY <1>3, <1>4, <2>1, SpawnTasks
<1>8. Hub'
  BY <1>1, <1>4 DEF HInv, Hub
<1>9. Channels'
  BY <1>1, <1>3 DEF HInv, Channels, Capacity
<1>10. to \in Seq(Ids)
  BY <1>3, SeqMonotonic
<1>11. QED BY <1>2, <1>6, <1>7, <1>8, <1>9, <1>10 DEF HInv

\* A caller takes a sender, uses it or drops it.
LEMMA HeldStep ==
  ASSUME HInv, NEW i \in Ids, GetSender(i) \/ WriteHeld(i) \/ DropSender(i)
  PROVE  HInv'
<1>1. /\ UNCHANGED <<alive, connection_id, opened, senders, creation_senders, rx, buffer>>
      /\ sent' \in 0 .. MaxSends
  BY HubConstants
  DEF GetSender, WriteHeld, DropSender, hubVars, channelVars, HInv, Hub
<1>2. Live' = Live
  BY <1>1, LiveSame
<1>3. Hub' /\ Channels'
  BY <1>1, <1>2 DEF HInv, Hub, Channels, Capacity
<1>4. Lists'
  <2>1. held' \subseteq held \cup {i} /\ (held' \subseteq held \/ GetSender(i))
    BY DEF GetSender, WriteHeld, DropSender
  <2>2. GetSender(i) => i \in Live
    BY DEF GetSender, Live
  <2>3. QED BY <1>1, <1>2, <2>1, <2>2 DEF HInv, Lists
<1>5. Tasks'
  <2>1. CASE UNCHANGED writes
    BY <1>2, <2>1 DEF HInv, Tasks
  <2>2. CASE WriteHeld(i)
    <3>1. i \in Live /\ Spawn(<<i>>, sent + 1) /\ sent + 1 \in 0 .. MaxSends
      BY <2>2, HubConstants DEF WriteHeld, HInv, Lists, Hub
    <3>2. <<i>> \in Seq(Live)
      BY <3>1
    <3>3. QED BY <1>2, <3>1, <3>2, SpawnTasks
  <2>3. QED BY <2>1, <2>2 DEF GetSender, DropSender
<1>6. QED BY <1>3, <1>4, <1>5 DEF HInv

\* The hub is dropped.
LEMMA DropHubStep == ASSUME HInv, DropHub PROVE HInv'
<1>1. /\ alive' = FALSE /\ opened' = {}
      /\ senders' = [ch \in ChannelIds |-> <<>>]
      /\ creation_senders' = [ch \in ChannelIds |-> <<>>]
      /\ UNCHANGED <<connection_id, rx, buffer, held, writes, sent>>
  BY DEF DropHub, channelVars
<1>2. Live' = Live
  BY <1>1, LiveSame
<1>3. Hub'
  BY <1>1, FS_EmptySet DEF HInv, Hub
<1>4. Lists'
  BY <1>1, <1>2 DEF HInv, Lists
<1>5. Channels' /\ Tasks'
  BY <1>1, <1>2 DEF HInv, Channels, Capacity, Tasks
<1>6. QED BY <1>3, <1>4, <1>5 DEF HInv

\* A task settles: its tasks are those there were, one no longer sending.
LEMMA SettleProperties ==
  ASSUME writes \in Seq(Write), NEW w \in DOMAIN writes,
         NEW outcome \in {"sent", "failed"}, Settle(w, outcome),
         writes[w].state = "sending"
  PROVE  /\ writes' \in Seq(Write) /\ Len(writes') = Len(writes)
         /\ \A v \in DOMAIN writes : v # w => writes'[v] = writes[v]
         /\ writes'[w].state = outcome
<1>1. writes[w] \in Write
  OBVIOUS
<1>2. writes' = [writes EXCEPT ![w] = [writes[w] EXCEPT !.state = outcome]]
  BY DEF Settle
<1>3. /\ [writes[w] EXCEPT !.state = outcome] \in Write
      /\ [writes[w] EXCEPT !.state = outcome].state = outcome
  BY <1>1 DEF Write
<1> DEFINE new == [writes[w] EXCEPT !.state = outcome]
<1> HIDE DEF new
<1>4. writes' = [writes EXCEPT ![w] = new] /\ new \in Write /\ new.state = outcome
  BY <1>2, <1>3 DEF new
<1>5. QED BY <1>4

\* A task puts its message into the channel, or finds it closed.
LEMMA WriteStep ==
  ASSUME HInv, NEW w \in DOMAIN writes, TaskStep(w)
  PROVE  HInv'
<1>1. PICK i \in Ids : i = writes[w].to /\ i \in Live
  BY DEF TaskStep, WriteSent, WriteFailed, HInv, Tasks, Write, Live
<1>2. /\ writes[w].state = "sending" /\ \E outcome \in {"sent", "failed"} : Settle(w, outcome)
      /\ UNCHANGED <<hubVars, rx, held, sent>>
      /\ \/ UNCHANGED buffer
         \/ /\ Len(buffer[i]) < Capacity(i)
            /\ buffer' = [buffer EXCEPT ![i] = Append(@, writes[w].msg)]
  BY <1>1 DEF TaskStep, WriteSent, WriteFailed, Room, channelVars
<1>3. Live' = Live
  BY <1>2, LiveSame
<1>4. Hub' /\ Lists'
  BY <1>2, <1>3 DEF HInv, Hub, Lists, hubVars
<1>5. Tasks'
  <2>1. /\ writes' \in Seq(Write) /\ Len(writes') = Len(writes)
        /\ \A v \in DOMAIN writes : v # w => writes'[v] = writes[v]
        /\ writes'[w].state # "sending"
    BY <1>2, SettleProperties DEF HInv, Tasks
  <2>2. DOMAIN writes' = DOMAIN writes
    BY <2>1 DEF HInv, Tasks
  <2>3. QED BY <1>3, <2>1, <2>2 DEF HInv, Tasks
<1>6. Channels'
  <2>1. CASE UNCHANGED buffer
    BY <1>2, <1>3, <2>1 DEF HInv, Channels, Capacity, hubVars
  <2>2. CASE ~UNCHANGED buffer
    <3>1. PICK msg \in 0 .. MaxSends : msg = writes[w].msg
      <4>1. writes[w] \in Write
        BY DEF HInv, Tasks
      <4>2. QED BY <4>1 DEF Write
    <3>2. /\ buffer' = [buffer EXCEPT ![i] = Append(@, msg)]
          /\ Len(buffer[i]) < Capacity(i)
          /\ buffer \in [Ids -> Seq(0 .. MaxSends)]
      BY <1>2, <2>2, <3>1 DEF HInv, Channels
    <3>3. /\ Append(buffer[i], msg) \in Seq(0 .. MaxSends)
          /\ Len(Append(buffer[i], msg)) = Len(buffer[i]) + 1
          /\ Len(buffer[i]) \in Nat
      BY <3>1, <3>2, AppendProperties
    <3>4. Capacity(i) \in Nat
      BY HubConstants DEF Capacity
    <3>5. /\ buffer' \in [Ids -> Seq(0 .. MaxSends)]
          /\ Len(buffer'[i]) <= Capacity(i)
          /\ \A j \in Ids \ {i} : buffer'[j] = buffer[j]
      BY <3>2, <3>3, <3>4
    <3>6. \A j \in Ids : Capacity(j)' = Capacity(j)
      BY <1>2 DEF Capacity
    <3>7. QED BY <1>1, <1>2, <1>3, <3>5, <3>6 DEF HInv, Channels, hubVars
  <2>3. QED BY <2>1, <2>2
<1>7. QED BY <1>4, <1>5, <1>6 DEF HInv

\* A receiver reads.
LEMMA ReceiveStep == ASSUME HInv, NEW i \in Ids, Receive(i) PROVE HInv'
<1>1. /\ buffer[i] # <<>> /\ buffer' = [buffer EXCEPT ![i] = Tail(@)]
      /\ UNCHANGED <<hubVars, rx, held, writes, sent>>
  BY DEF Receive
<1>2. Live' = Live
  BY <1>1, LiveSame
<1>3. Hub' /\ Lists' /\ Tasks'
  BY <1>1, <1>2 DEF HInv, Hub, Lists, Tasks, hubVars
<1>4. Channels'
  <2>1. /\ buffer \in [Ids -> Seq(0 .. MaxSends)]
        /\ Tail(buffer[i]) \in Seq(0 .. MaxSends)
        /\ Len(Tail(buffer[i])) = Len(buffer[i]) - 1 /\ Len(buffer[i]) \in Nat
    BY <1>1, HeadTailProperties DEF HInv, Channels
  <2>2. Capacity(i) \in Nat /\ Len(buffer[i]) <= Capacity(i)
    BY HubConstants DEF Capacity, HInv, Channels
  <2>3. /\ buffer' \in [Ids -> Seq(0 .. MaxSends)]
        /\ Len(buffer'[i]) <= Capacity(i)
        /\ \A j \in Ids \ {i} : buffer'[j] = buffer[j]
    BY <1>1, <2>1, <2>2
  <2>4. i \in Live
    BY <1>1 DEF HInv, Channels
  <2>5. \A j \in Ids : Capacity(j)' = Capacity(j)
    BY <1>1 DEF Capacity
  <2>6. QED BY <1>1, <1>2, <2>3, <2>4, <2>5 DEF HInv, Channels, hubVars
<1>5. QED BY <1>3, <1>4 DEF HInv

\* A list in which i does not occur is one of the others.
LEMMA WithoutElement ==
  ASSUME NEW S, NEW list \in Seq(S), NEW i, ~Contains(list, i)
  PROVE  list \in Seq(S \ {i})
<1>1. Len(list) \in Nat /\ list \in [1 .. Len(list) -> S]
  OBVIOUS
<1>2. \A k \in 1 .. Len(list) : list[k] # i
  BY DEF Contains
<1>3. list \in [1 .. Len(list) -> S \ {i}]
  BY <1>1, <1>2
<1>4. QED BY <1>1, <1>3, FunctionIsSeq

\* A receiver comes to its end: nobody has a sender of it.
LEMMA ReceiveNoneStep == ASSUME HInv, NEW i \in Ids, ReceiveNone(i) PROVE HInv'
<1>1. /\ rx[i] \in Roles /\ buffer[i] = <<>> /\ rx' = [rx EXCEPT ![i] = "ended"]
      /\ UNCHANGED <<hubVars, buffer, held, writes, sent>>
      /\ i \notin held
      /\ \A ch \in ChannelIds : /\ ~Contains(senders[ch], i)
                                /\ ~Contains(creation_senders[ch], i)
      /\ \A w \in DOMAIN writes : ~(writes[w].to = i /\ writes[w].state = "sending")
  BY DEF ReceiveNone, Connected, Kept, IsSubscribed
<1>2. \A j \in Ids : rx'[j] = IF j = i THEN "ended" ELSE rx[j]
  BY <1>1 DEF HInv, Channels
<1>3. Live' = Live \ {i}
  BY <1>2 DEF Live
<1>4. Hub'
  BY <1>1 DEF HInv, Hub, hubVars
<1>5. Lists'
  <2>1. ASSUME NEW ch \in ChannelIds
        PROVE  senders[ch] \in Seq(Live \ {i}) /\ creation_senders[ch] \in Seq(Live \ {i})
    <3>1. senders[ch] \in Seq(Live) /\ creation_senders[ch] \in Seq(Live)
      BY DEF HInv, Lists
    <3>2. QED BY <1>1, <3>1, WithoutElement
  <2>2. /\ senders \in [ChannelIds -> Seq(Live \ {i})]
        /\ creation_senders \in [ChannelIds -> Seq(Live \ {i})]
    BY <2>1 DEF HInv, Lists
  <2>3. held \subseteq Live \ {i}
    BY <1>1 DEF HInv, Lists
  <2>4. QED BY <1>1, <1>3, <2>2, <2>3 DEF Lists, hubVars
<1>6. Tasks'
  BY <1>1, <1>3 DEF HInv, Tasks
<1>7. Channels'
  <2>1. \A j \in Ids : Len(buffer[j]) <= Capacity(j)'
    <3>1. Len(<<>>) = 0 /\ Size \in Nat /\ NotifierSize \in Nat
      BY HubConstants
    <3>2. Len(buffer[i]) <= Capacity(i)'
      BY <1>1, <3>1 DEF Capacity
    <3>3. \A j \in Ids \ {i} : Capacity(j)' = Capacity(j)
      BY <1>2 DEF Capacity
    <3>4. QED BY <3>2, <3>3 DEF HInv, Channels
  <2>2. \A j \in Ids : j >= connection_id => rx'[j] = "unused"
    BY <1>1, <1>2 DEF HInv, Channels, Roles
  <2>3. rx' \in [Ids -> Roles \cup {"unused", "ended", "dropped"}]
    BY <1>1 DEF HInv, Channels
  <2>4. QED BY <1>1, <1>3, <2>1, <2>2, <2>3 DEF HInv, Channels, hubVars
<1>8. QED BY <1>4, <1>5, <1>6, <1>7 DEF HInv

\* A receiver is dropped, at its end or before.
LEMMA DropReceiverStep == ASSUME HInv, NEW i \in Ids, DropReceiver(i) PROVE HInv'
<1>1. /\ rx[i] \in Roles \cup {"ended"} /\ rx' = [rx EXCEPT ![i] = "dropped"]
      /\ buffer' = [buffer EXCEPT ![i] = <<>>]
      /\ UNCHANGED <<hubVars, held, writes, sent>>
  BY DEF DropReceiver
<1>2. \A j \in Ids : rx'[j] = IF j = i THEN "dropped" ELSE rx[j]
  BY <1>1 DEF HInv, Channels
<1>3. Live' = Live \cup {i}
  BY <1>2 DEF Live
<1>4. Hub'
  BY <1>1 DEF HInv, Hub, hubVars
<1>5. Lists'
  <2>1. ASSUME NEW ch \in ChannelIds
        PROVE  senders[ch] \in Seq(Live') /\ creation_senders[ch] \in Seq(Live')
    <3>1. senders[ch] \in Seq(Live) /\ creation_senders[ch] \in Seq(Live)
      BY DEF HInv, Lists
    <3>2. QED BY <1>3, <3>1, SeqMonotonic
  <2>2. /\ senders \in [ChannelIds -> Seq(Live')]
        /\ creation_senders \in [ChannelIds -> Seq(Live')]
    BY <2>1 DEF HInv, Lists
  <2>3. QED BY <1>1, <1>3, <2>2 DEF HInv, Lists, hubVars
<1>6. Tasks'
  BY <1>1, <1>3 DEF HInv, Tasks
<1>7. Channels'
  <2>1. /\ buffer' \in [Ids -> Seq(0 .. MaxSends)] /\ buffer'[i] = <<>>
        /\ \A j \in Ids \ {i} : buffer'[j] = buffer[j]
    <3>1. <<>> \in Seq(0 .. MaxSends)
      BY EmptySeq
    <3>2. QED BY <1>1, <3>1 DEF HInv, Channels
  <2>2. \A j \in Ids : Len(buffer'[j]) <= Capacity(j)'
    <3>1. Len(<<>>) = 0 /\ Size \in Nat /\ NotifierSize \in Nat
      BY HubConstants
    <3>2. Len(buffer'[i]) <= Capacity(i)'
      BY <2>1, <3>1 DEF Capacity
    <3>3. \A j \in Ids \ {i} : Capacity(j)' = Capacity(j)
      BY <1>2 DEF Capacity
    <3>4. QED BY <2>1, <3>2, <3>3 DEF HInv, Channels
  <2>3. \A j \in Ids : j >= connection_id => rx'[j] = "unused"
    BY <1>1, <1>2 DEF HInv, Channels, Roles
  <2>4. rx' \in [Ids -> Roles \cup {"unused", "ended", "dropped"}]
    BY <1>1 DEF HInv, Channels
  <2>5. QED BY <1>1, <1>3, <2>1, <2>2, <2>3, <2>4 DEF HInv, Channels, hubVars
<1>8. QED BY <1>4, <1>5, <1>6, <1>7 DEF HInv

\* What the callers, the handlers and the clock do with the handlers concerns
\* the handlers only.
HandlerStep ==
  \/ \E h \in DOMAIN handlers :
       DropHandler(h) \/ WaitStep(h) \/ \E d \in Durations : Wait(h, d)
  \/ Tick

\* A step of the hub keeps the invariant, ...
LEMMA HubKeeps == ASSUME HInv, HubStep PROVE HInv'
<1>1. CASE \E ch \in ChannelIds : \/ Subscribe(ch) \/ GetCreationWaiter(ch)
  <2>1. ASSUME NEW ch \in ChannelIds, Subscribe(ch) PROVE HInv'
    <3>1. <<ch>> \in Seq(ChannelIds)
      OBVIOUS
    <3>2. QED BY <2>1, <3>1, InsertStep DEF Subscribe
  <2>2. QED BY <1>1, <2>1, WaiterStep
<1>2. CASE \/ \E ch \in ChannelIds : CleanChannel(ch)
           \/ CleanAll
           \/ \E chs, i : RemoveSenders(chs, i)
  BY <1>2, RetainStep
<1>3. CASE Broadcast \/ \E ch \in ChannelIds : Send(ch)
  BY <1>3, MessageStep
<1>4. CASE \E ids \in IdLists : SubscribeMultiple(ids)
  <2>1. \A ids \in IdLists : ids \in Seq(ChannelIds)
    BY HubConstants
  <2>2. QED BY <1>4, <2>1, InsertStep DEF SubscribeMultiple
<1>5. CASE \E i \in Ids : GetSender(i)
  BY <1>5, HeldStep
<1>6. CASE DropHub
  BY <1>6, DropHubStep
<1>7. CASE \/ \E ch \in ChannelIds, i \in Ids : Unsubscribe(ch, i)
           \/ \E ids \in IdLists, i \in Ids : UnsubscribeMultiple(ids, i)
           \/ \E i \in Ids : UnsubscribeAll(i)
  <2>1. \E chs, i : RemoveSenders(chs, i)
    BY <1>7, Zenon DEF Unsubscribe, UnsubscribeMultiple, UnsubscribeAll
  <2>2. QED BY <1>2, <2>1
<1>8. QED BY <1>1, <1>2, <1>3, <1>4, <1>5, <1>6, <1>7, Zenon DEF HubStep

\* ... and so does every other.
LEMMA HubInvariantStep == HInv /\ [Next]_vars => HInv'
<1> SUFFICES ASSUME HInv, [Next]_vars PROVE HInv'
  OBVIOUS
<1>1. CASE HubStep
  BY <1>1, HubKeeps
<1>2. CASE \E i \in Ids : WriteHeld(i) \/ DropSender(i) \/ DropReceiver(i)
  BY <1>2, HeldStep, DropReceiverStep
<1>3. CASE HandlerStep \/ UNCHANGED vars
  <2>1. UNCHANGED <<hubVars, channelVars, held, writes, sent>>
    BY <1>3 DEF HandlerStep, DropHandler, WaitStep, Wait, Joined, Timeout,
                WaitReturns, Tick, SetHandler, vars
  <2>2. Live' = Live
    BY <2>1, LiveSame DEF channelVars
  <2>3. QED BY <2>1, <2>2 DEF HInv, Hub, Lists, Channels, Capacity, Tasks,
                              hubVars, channelVars
<1>4. CASE \E w \in DOMAIN writes : TaskStep(w)
  BY <1>4, WriteStep
<1>5. CASE \E i \in Ids : ReceiverStep(i)
  BY <1>5, ReceiveStep, ReceiveNoneStep DEF ReceiverStep
<1>6. QED BY <1>1, <1>2, <1>3, <1>4, <1>5 DEF Next, CallerStep, HandlerStep

LEMMA HubInitially == Init => HInv
<1> SUFFICES ASSUME Init PROVE HInv
  OBVIOUS
<1>1. Hub
  BY HubConstants, FS_EmptySet DEF Init, Hub
<1>2. Lists
  BY DEF Init, Lists
<1>3. Channels
  <2>1. <<>> \in Seq(0 .. MaxSends) /\ Len(<<>>) = 0
    BY EmptySeq
  <2>2. \A i \in Ids : Capacity(i) \in Nat
    BY HubConstants DEF Capacity
  <2>3. QED BY <2>1, <2>2 DEF Init, Channels
<1>4. Tasks
  BY DEF Init, Tasks
<1>5. QED BY <1>1, <1>2, <1>3, <1>4 DEF HInv

LEMMA HubInvariance == Spec => []HInv
  BY HubInitially, HubInvariantStep, PTL DEF Spec

\* The end a receiver sees is final: no call of the hub, no task and no caller
\* brings a sender or a message back.
THEOREM EndsAreFinal == Spec => []DisconnectedIsFinal
<1>1. HInv => DisconnectedIsFinal
  <2> SUFFICES ASSUME HInv, NEW i \in Ids, rx[i] = "ended"
               PROVE  /\ buffer[i] = <<>> /\ i \notin held
                      /\ \A ch \in ChannelIds : ~IsSubscribed(ch, i)
                      /\ \A w \in DOMAIN writes :
                           writes[w].to = i => writes[w].state # "sending"
    BY DEF DisconnectedIsFinal
  <2>1. i \notin Live
    BY DEF Live
  <2>2. buffer[i] = <<>> /\ i \notin held
    BY <2>1 DEF HInv, Channels, Lists
  <2>3. ASSUME NEW ch \in ChannelIds PROVE ~IsSubscribed(ch, i)
    <3>1. senders[ch] \in Seq(Live)
      BY DEF HInv, Lists
    <3>2. \A k \in 1 .. Len(senders[ch]) : senders[ch][k] \in Live
      BY <3>1, ElementOfSeq
    <3>3. QED BY <2>1, <3>2 DEF IsSubscribed, Contains
  <2>4. \A w \in DOMAIN writes : writes[w].to = i => writes[w].state # "sending"
    BY <2>1 DEF HInv, Tasks
  <2>5. QED BY <2>2, <2>3, <2>4
<1>2. QED BY <1>1, HubInvariance, PTL

-----------------------------------------------------------------------------
(* The waits.                                                              *)

\* The tasks there were are there, and a message that is in its channel stays
\* sent.
Grows == /\ Len(writes') >= Len(writes)
         /\ \A w \in DOMAIN writes :
              writes[w].state = "sent" => writes'[w].state = "sent"

LEMMA SpawnGrows ==
  ASSUME HInv, NEW L \in SUBSET Ids, NEW to \in Seq(L), NEW msg \in 0 .. MaxSends,
         Spawn(to, msg)
  PROVE  Grows /\ Len(writes') = Len(writes) + Len(to)
<1>1. /\ writes \in Seq(Write) /\ Len(writes) \in Nat /\ Len(to) \in Nat
      /\ DOMAIN writes = 1 .. Len(writes)
  BY DEF HInv, Tasks
<1>2. /\ Len(writes') = Len(writes) + Len(to)
      /\ \A w \in 1 .. Len(writes) : writes'[w] = writes[w]
  BY <1>1, SpawnProperties
<1>3. QED BY <1>1, <1>2 DEF Grows

\* What a handler has seen of the tasks is not undone.
LEMMA AnswersGrow ==
  ASSUME writes \in Seq(Write), writes' \in Seq(Write), Grows,
         NEW r \in Handler, Answers(r)
  PROVE  Answers(r)'
<1>1. /\ r.first \in Nat \ {0} /\ r.next \in Nat \ {0} /\ r.last \in Nat
      /\ Len(writes) \in Nat /\ Len(writes') \in Nat
      /\ DOMAIN writes = 1 .. Len(writes)
  BY DEF Handler
<1>2. ASSUME ~r.failed, NEW w \in r.first .. r.next - 1
      PROVE  writes'[w].state = "sent"
  <2>1. writes[w].state = "sent" /\ w \in DOMAIN writes
    BY <1>1, <1>2 DEF Answers
  <2>2. QED BY <2>1 DEF Grows
<1>3. r.last <= Len(writes')
  BY <1>1 DEF Answers, Grows
<1>4. QED BY <1>2, <1>3 DEF Answers

LEMMA WaitsGrow ==
  ASSUME HInv, HInv', Waits, Grows, UNCHANGED handlers
  PROVE  Waits'
<1>1. writes \in Seq(Write) /\ writes' \in Seq(Write)
  BY DEF HInv, Tasks
<1>2. ASSUME NEW h \in DOMAIN handlers
      PROVE  Answers(handlers[h])' /\ Lasts(handlers[h])'
  <2>1. PICK r \in Handler : r = handlers[h]
    BY DEF Waits
  <2>2. Answers(r) /\ Lasts(r)
    BY <2>1 DEF Waits
  <2>3. Answers(r)'
    BY <1>1, <2>2, AnswersGrow
  <2>4. Lasts(r)'
    BY <2>2 DEF Lasts
  <2>5. handlers'[h] = r
    BY <2>1
  <2>6. QED BY <2>3, <2>4, <2>5 DEF Answers, Lasts
<1>3. QED BY <1>2 DEF Waits

\* A message makes a handler of its tasks.
LEMMA WriteToWaits ==
  ASSUME HInv, HInv', Waits, NEW to \in Seq(Ids), WriteTo(to)
  PROVE  Waits'
<1>1. PICK new : new =
        [first |-> Len(writes) + 1, last |-> Len(writes) + Len(to),
         next |-> Len(writes) + 1, stage |-> "held", duration |-> NoDuration,
         timer |-> 0, waited |-> 0, failed |-> FALSE]
  OBVIOUS
<1>2. /\ writes \in Seq(Write) /\ writes' \in Seq(Write)
      /\ Len(writes) \in Nat /\ Len(to) \in Nat
      /\ sent + 1 \in 0 .. MaxSends
      /\ Spawn(to, sent + 1) /\ handlers' = Append(handlers, new)
  BY <1>1, HubConstants DEF HInv, Tasks, Hub, WriteTo
<1>3. Grows /\ Len(writes') = Len(writes) + Len(to)
  BY <1>2, SpawnGrows
<1>4. new \in Handler
  BY <1>1, <1>2 DEF Handler
<1>5. /\ new.last = Len(writes') /\ new.next <= new.last + 1
      /\ new.next = new.first /\ new.stage = "held" /\ new.waited = 0
      /\ ~new.failed /\ new.duration = NoDuration
      /\ new.first \in Nat
  BY <1>1, <1>2, <1>3
<1>6. Answers(new)' /\ Lasts(new)'
  BY <1>2, <1>5 DEF Answers, Lasts
<1>7. /\ handlers' \in Seq(Handler) /\ Len(handlers') = Len(handlers) + 1
      /\ \A h \in 1 .. Len(handlers) : handlers'[h] = handlers[h]
      /\ handlers'[Len(handlers) + 1] = new
      /\ Len(handlers) \in Nat
  BY <1>2, <1>4, AppendProperties DEF Waits
<1>8. ASSUME NEW h \in 1 .. Len(handlers) + 1
      PROVE  Answers(handlers[h])' /\ Lasts(handlers[h])'
  <2>1. CASE h = Len(handlers) + 1
    BY <1>6, <1>7, <2>1 DEF Answers, Lasts
  <2>2. CASE h # Len(handlers) + 1
    <3>1. h \in DOMAIN handlers /\ h \in 1 .. Len(handlers)
      BY <1>7, <2>2 DEF Waits
    <3>2. PICK r \in Handler : r = handlers[h]
      BY <3>1 DEF Waits
    <3>3. Answers(r) /\ Lasts(r)
      BY <3>1, <3>2 DEF Waits
    <3>4. Answers(r)'
      BY <1>2, <1>3, <3>3, AnswersGrow
    <3>5. Lasts(r)' /\ handlers'[h] = r
      BY <1>7, <3>1, <3>2, <3>3 DEF Lasts
    <3>6. QED BY <3>4, <3>5 DEF Answers, Lasts
  <2>3. QED BY <2>1, <2>2
<1>9. DOMAIN handlers' = 1 .. Len(handlers) + 1
  BY <1>7
<1>10. QED BY <1>7, <1>8, <1>9 DEF Waits

\* A handler is replaced by a sound one.
LEMMA SetHandlerWaits ==
  ASSUME Waits, UNCHANGED writes, NEW h \in DOMAIN handlers,
         NEW new \in Handler, SetHandler(h, new), Answers(new), Lasts(new)
  PROVE  Waits'
<1>1. handlers' = [handlers EXCEPT ![h] = new] /\ handlers \in Seq(Handler)
  BY DEF SetHandler, Waits
<1>2. /\ handlers' \in Seq(Handler) /\ DOMAIN handlers' = DOMAIN handlers
      /\ \A g \in DOMAIN handlers : handlers'[g] = IF g = h THEN new ELSE handlers[g]
  BY <1>1
<1>3. ASSUME NEW g \in DOMAIN handlers
      PROVE  Answers(handlers[g])' /\ Lasts(handlers[g])'
  <2>1. PICK r : r = handlers'[g]
    OBVIOUS
  <2>2. Answers(r) /\ Lasts(r)
    BY <1>2, <2>1 DEF Waits
  <2>3. QED BY <2>1, <2>2 DEF Answers, Lasts
<1>4. QED BY <1>2, <1>3 DEF Waits

\* One more task is a duration more.
LEMMA OneMore ==
  ASSUME NEW n \in Int, NEW d \in Int
  PROVE  (n - 1) * d = n * d - d /\ (n + 1) * d = n * d + d /\ n * d \in Int
  OBVIOUS

LEMMA DurationType == \A d \in Durations \cup {NoDuration} : d = NoDuration \/ d \in Nat
  BY HubConstants

\* A wait moves on to the next task, of which it has seen that it was sent, that
\* it failed or that it was too late.
LEMMA MovedOnWaits ==
  ASSUME HInv, Waits, UNCHANGED writes, NEW h \in DOMAIN handlers,
         NEW failed \in BOOLEAN, SetHandler(h, MovedOn(h, failed)), Waiting(h),
         failed \/ Awaited(h).state = "sent"
  PROVE  Waits'
<1>1. PICK r \in Handler : r = handlers[h]
  BY DEF Waits
<1>2. /\ r.first \in Nat \ {0} /\ r.next \in Nat \ {0} /\ r.last \in Nat
      /\ r.timer \in Nat /\ r.waited \in Nat /\ r.failed \in BOOLEAN
      /\ r.duration = NoDuration \/ r.duration \in Nat
      /\ r.duration \in Durations \cup {NoDuration}
  BY DurationType DEF Handler
<1>3. /\ Answers(r) /\ Lasts(r) /\ r.stage = "waiting" /\ r.next <= r.last
      /\ failed \/ writes[r.next].state = "sent"
  BY <1>1 DEF Waits, Waiting, Awaited
<1>4. PICK timer \in Nat : timer = Arm(r.duration)
  BY <1>2 DEF Arm
<1>5. PICK new : new = [r EXCEPT !.next = @ + 1, !.timer = timer,
                                 !.failed = @ \/ failed]
  OBVIOUS
<1>6. SetHandler(h, new)
  BY <1>1, <1>4, <1>5 DEF MovedOn
<1>7. new \in Handler
  <2>1. PICK next \in Nat \ {0} : next = r.next + 1
    BY <1>2
  <2>2. PICK fails \in BOOLEAN : fails = (r.failed \/ failed)
    OBVIOUS
  <2>3. new = [r EXCEPT !.next = next, !.timer = timer, !.failed = fails]
    BY <1>5, <2>1, <2>2
  <2>4. QED BY <1>4, <2>1, <2>2, <2>3 DEF Handler
<1>8. /\ new.first = r.first /\ new.last = r.last /\ new.next = r.next + 1
      /\ new.stage = "waiting" /\ new.duration = r.duration /\ new.timer = timer
      /\ new.waited = r.waited /\ (~new.failed <=> ~r.failed /\ ~failed)
  BY <1>2, <1>3, <1>5 DEF Handler
<1>9. Answers(new)
  <2>1. ASSUME ~new.failed, NEW w \in new.first .. new.next - 1
        PROVE  writes[w].state = "sent"
    <3>1. ~r.failed /\ ~failed
      BY <1>8, <2>1
    <3>2. CASE w = r.next
      BY <1>3, <3>1, <3>2
    <3>3. CASE w # r.next
      <4>1. w \in r.first .. r.next - 1
        BY <1>2, <1>8, <2>1, <3>3
      <4>2. QED BY <1>3, <3>1, <4>1 DEF Answers
    <3>4. QED BY <3>2, <3>3
  <2>2. new.last <= Len(writes) /\ new.next <= new.last + 1
    BY <1>2, <1>3, <1>8 DEF Answers
  <2>3. QED BY <1>8, <2>1, <2>2 DEF Answers
<1>10. Lasts(new)
  <2> SUFFICES ASSUME r.duration # NoDuration
               PROVE  /\ timer = r.duration
                      /\ r.waited + timer + (r.last - (r.next + 1)) * r.duration
                           <= (r.last - r.first + 1) * r.duration
    BY <1>8 DEF Lasts
  <2>1. timer = r.duration /\ r.duration \in Nat
    BY <1>2, <1>4 DEF Arm
  <2>2. r.waited + r.timer + (r.last - r.next) * r.duration
          <= (r.last - r.first + 1) * r.duration
    BY <1>3 DEF Lasts
  <2>3. /\ (r.last - r.next - 1) * r.duration = (r.last - r.next) * r.duration - r.duration
        /\ (r.last - r.next) * r.duration \in Int
        /\ (r.last - r.first + 1) * r.duration \in Int
    BY <1>2, <2>1, OneMore
  <2>4. r.last - (r.next + 1) = r.last - r.next - 1
    BY <1>2
  <2>5. QED BY <1>2, <2>1, <2>2, <2>3, <2>4
<1>11. QED BY <1>6, <1>7, <1>9, <1>10, SetHandlerWaits

\* A wait begins.
LEMMA WaitWaits ==
  ASSUME Waits, NEW h \in DOMAIN handlers, NEW d \in Durations, Wait(h, d)
  PROVE  Waits'
<1>1. PICK r \in Handler : r = handlers[h]
  BY DEF Waits
<1>2. /\ r.first \in Nat \ {0} /\ r.next \in Nat \ {0} /\ r.last \in Nat
      /\ d = NoDuration \/ d \in Nat
  BY DurationType DEF Handler
<1>3. Answers(r) /\ r.stage = "held" /\ UNCHANGED writes
  BY <1>1 DEF Waits, Wait
<1>4. PICK timer \in Nat : timer = Arm(d)
  BY <1>2 DEF Arm
<1>5. PICK new : new = [r EXCEPT !.stage = "waiting", !.duration = d, !.timer = timer]
  OBVIOUS
<1>6. SetHandler(h, new)
  BY <1>1, <1>4, <1>5 DEF Wait
<1>7. new \in Handler
  BY <1>4, <1>5 DEF Handler
<1>8. /\ new.first = r.first /\ new.last = r.last /\ new.next = r.next
      /\ new.stage = "waiting" /\ new.duration = d /\ new.timer = timer
      /\ new.waited = r.waited /\ new.failed = r.failed
  BY <1>5 DEF Handler
<1>9. Answers(new)
  BY <1>3, <1>8 DEF Answers
<1>10. Lasts(new)
  <2> SUFFICES ASSUME d # NoDuration
               PROVE  /\ timer = d
                      /\ 0 + timer + (r.last - r.first) * d
                           <= (r.last - r.first + 1) * d
    BY <1>3, <1>8 DEF Lasts, Answers
  <2>1. timer = d /\ d \in Nat
    BY <1>2, <1>4 DEF Arm
  <2>2. /\ (r.last - r.first + 1) * d = (r.last - r.first) * d + d
        /\ (r.last - r.first) * d \in Int
    BY <1>2, <2>1, OneMore
  <2>3. QED BY <1>2, <2>1, <2>2
<1>11. QED BY <1>3, <1>6, <1>7, <1>9, <1>10, SetHandlerWaits

\* A wait returns, or the handler is dropped.
LEMMA StageWaits ==
  ASSUME Waits, NEW h \in DOMAIN handlers, WaitReturns(h) \/ DropHandler(h)
  PROVE  Waits'
<1>1. PICK r \in Handler : r = handlers[h]
  BY DEF Waits
<1>2. /\ Answers(r) /\ Lasts(r) /\ r.next \in Nat /\ r.last \in Nat
      /\ UNCHANGED writes
  BY <1>1 DEF Waits, WaitReturns, DropHandler, Handler
<1>3. PICK stage \in {"Ok", "Err", "dropped"} :
        /\ SetHandler(h, [r EXCEPT !.stage = stage])
        /\ stage = "Ok" => ~r.failed /\ ~(r.next <= r.last)
  BY <1>1 DEF WaitReturns, DropHandler, Waiting
<1>4. PICK new : new = [r EXCEPT !.stage = stage]
  OBVIOUS
<1>5. new \in Handler
  BY <1>4 DEF Handler
<1>6. /\ new.first = r.first /\ new.last = r.last /\ new.next = r.next
      /\ new.stage = stage /\ new.duration = r.duration /\ new.timer = r.timer
      /\ new.waited = r.waited /\ new.failed = r.failed
  BY <1>4 DEF Handler
<1>7. Answers(new) /\ Lasts(new)
  BY <1>2, <1>3, <1>6 DEF Answers, Lasts
<1>8. QED BY <1>2, <1>3, <1>4, <1>5, <1>7, SetHandlerWaits

\* Time passes: what a wait has waited grows by what its timer loses.
LEMMA TickWaits == ASSUME Waits, Tick PROVE Waits'
<1>1. /\ handlers \in Seq(Handler) /\ UNCHANGED writes
      /\ DOMAIN handlers = 1 .. Len(handlers) /\ Len(handlers) \in Nat
  <2>1. handlers \in Seq(Handler)
    BY DEF Waits
  <2>2. UNCHANGED writes
    BY DEF Tick
  <2>3. QED BY <2>1, <2>2
<1>2. ASSUME NEW h \in DOMAIN handlers
      PROVE  /\ handlers'[h] \in Handler
             /\ Answers(handlers[h])' /\ Lasts(handlers[h])'
  <2>1. PICK r \in Handler : r = handlers[h]
    BY DEF Waits
  <2>2. Answers(r) /\ Lasts(r)
    BY <2>1 DEF Waits
  <2>3. CASE handlers'[h] = r
    <3>1. Answers(r)' /\ Lasts(r)'
      BY <1>1, <2>2 DEF Answers, Lasts
    <3>2. QED BY <2>3, <3>1 DEF Answers, Lasts
  <2>4. CASE handlers'[h] # r
    <3>1. /\ Blocked(h) /\ Timed(h)
          /\ handlers'[h] = [handlers[h] EXCEPT !.timer = @ - 1, !.waited = @ + 1]
      BY <1>1, <2>1, <2>4 DEF Tick
    <3>2. r.stage = "waiting" /\ r.next <= r.last /\ r.timer > 0
      BY <2>1, <3>1 DEF Tick, Blocked, Waiting
    <3>3. PICK new : new = [r EXCEPT !.timer = @ - 1, !.waited = @ + 1]
      OBVIOUS
    <3>4. r.timer \in Nat /\ r.waited \in Nat /\ r.next \in Nat /\ r.last \in Nat
      BY DEF Handler
    <3>5. new \in Handler
      <4>1. PICK timer \in Nat : timer = r.timer - 1
        BY <3>2, <3>4
      <4>2. PICK waited \in Nat : waited = r.waited + 1
        BY <3>4
      <4>3. new = [r EXCEPT !.timer = timer, !.waited = waited]
        BY <3>3, <4>1, <4>2
      <4>4. QED BY <4>1, <4>2, <4>3 DEF Handler
    <3>6. /\ new.first = r.first /\ new.last = r.last /\ new.next = r.next
          /\ new.stage = r.stage /\ new.duration = r.duration
          /\ new.timer = r.timer - 1
          /\ new.waited = r.waited + 1 /\ new.failed = r.failed
      BY <3>3 DEF Handler
    <3>7. new.waited + new.timer = r.waited + r.timer
      BY <3>4, <3>6
    <3>8. Answers(new) /\ Lasts(new)
      BY <2>2, <3>2, <3>4, <3>6, <3>7 DEF Answers, Lasts
    <3>9. Answers(new)' /\ Lasts(new)'
      BY <1>1, <3>8 DEF Answers, Lasts
    <3>10. handlers'[h] = new
      BY <2>1, <3>1, <3>3
    <3>11. QED BY <3>5, <3>9, <3>10 DEF Answers, Lasts
  <2>5. QED BY <2>1, <2>3, <2>4
<1>3. DOMAIN handlers' = 1 .. Len(handlers)
  BY <1>1 DEF Tick
<1>4. handlers' \in Seq(Handler)
  <2>1. PICK n \in Nat : n = Len(handlers)
    BY <1>1
  <2>2. handlers' \in [1 .. n -> Handler]
    <3>1. handlers' = [h \in 1 .. n |-> handlers'[h]]
      BY <1>1, <2>1 DEF Tick
    <3>2. QED BY <1>1, <1>2, <2>1, <3>1
  <2>3. QED BY <2>1, <2>2, FunctionIsSeq
<1>5. QED BY <1>1, <1>2, <1>3, <1>4 DEF Waits

\* Every step keeps what the handlers have seen and how long they wait.
LEMMA WaitsStep == HInv /\ Waits /\ [Next]_vars => Waits'
<1> SUFFICES ASSUME HInv, Waits, [Next]_vars PROVE Waits'
  OBVIOUS
<1>0. HInv'
  BY HubInvariantStep
<1>1. ASSUME UNCHANGED <<writes, handlers>> PROVE Waits'
  BY <1>1 DEF Waits, Answers, Lasts
<1>2. ASSUME NEW ids \in Seq(ChannelIds), InsertSenders(ids) PROVE Waits'
  <2>1. Spawn(ToNotify(ids), Notice) /\ UNCHANGED handlers
    BY <1>2 DEF InsertSenders
  <2>2. ToNotify(ids) \in Seq(Live) /\ Live \in SUBSET Ids
    BY ToNotifyType DEF HInv, Lists, Live
  <2>3. Notice \in 0 .. MaxSends
    BY HubConstants DEF Notice
  <2>4. QED BY <1>0, <2>1, <2>2, <2>3, SpawnGrows, WaitsGrow
<1>3. CASE HubStep
  <2>1. CASE Broadcast \/ \E ch \in ChannelIds : Send(ch)
    BY <1>0, <2>1, MessageStep, WriteToWaits
  <2>2. ASSUME NEW ch \in ChannelIds, Subscribe(ch) PROVE Waits'
    <3>1. <<ch>> \in Seq(ChannelIds)
      OBVIOUS
    <3>2. QED BY <1>2, <2>2, <3>1 DEF Subscribe
  <2>3. ASSUME NEW ids \in IdLists, SubscribeMultiple(ids) PROVE Waits'
    BY <1>2, <2>3, HubConstants DEF SubscribeMultiple
  <2>4. CASE \/ \E ch \in ChannelIds :
                  \/ GetCreationWaiter(ch) \/ CleanChannel(ch)
                  \/ \E i \in Ids : Unsubscribe(ch, i)
             \/ \E ids \in IdLists, i \in Ids : UnsubscribeMultiple(ids, i)
             \/ \E i \in Ids : UnsubscribeAll(i) \/ GetSender(i)
             \/ CleanAll \/ DropHub
    <3>1. UNCHANGED <<writes, handlers>>
      BY <2>4 DEF GetCreationWaiter, CleanChannel, Unsubscribe, UnsubscribeMultiple,
                  UnsubscribeAll, RemoveSenders, GetSender, CleanAll, DropHub
    <3>2. QED BY <1>1, <3>1
  <2>5. QED BY <1>3, <2>1, <2>2, <2>3, <2>4, Zenon DEF HubStep
<1>4. CASE \E i \in Ids : WriteHeld(i) \/ DropSender(i) \/ DropReceiver(i)
  <2>1. ASSUME NEW i \in Ids, WriteHeld(i) PROVE Waits'
    <3>1. /\ i \in Ids /\ Spawn(<<i>>, sent + 1) /\ sent + 1 \in 0 .. MaxSends
          /\ UNCHANGED handlers
      BY <2>1, HubConstants DEF WriteHeld, HInv, Hub
    <3>2. <<i>> \in Seq(Ids) /\ Ids \in SUBSET Ids
      OBVIOUS
    <3>3. QED BY <1>0, <3>1, <3>2, SpawnGrows, WaitsGrow
  <2>2. CASE \E i \in Ids : DropSender(i) \/ DropReceiver(i)
    BY <1>1, <2>2 DEF DropSender, DropReceiver
  <2>3. QED BY <1>4, <2>1, <2>2
<1>5. ASSUME NEW w \in DOMAIN writes, TaskStep(w) PROVE Waits'
  <2>1. /\ writes[w].state = "sending" /\ UNCHANGED handlers
        /\ \E outcome \in {"sent", "failed"} : Settle(w, outcome)
    BY <1>5 DEF TaskStep, WriteSent, WriteFailed
  <2>2. /\ Len(writes') = Len(writes) /\ Len(writes) \in Nat
        /\ \A v \in DOMAIN writes : v # w => writes'[v] = writes[v]
    BY <2>1, SettleProperties DEF HInv, Tasks
  <2>3. Grows
    BY <2>1, <2>2 DEF Grows
  <2>4. QED BY <1>0, <2>1, <2>3, WaitsGrow
<1>6. ASSUME NEW i \in Ids, ReceiverStep(i) PROVE Waits'
  BY <1>1, <1>6 DEF ReceiverStep, Receive, ReceiveNone
<1>7. ASSUME NEW h \in DOMAIN handlers, Joined(h) \/ Timeout(h) PROVE Waits'
  <2>1. UNCHANGED writes /\ Waiting(h)
    BY <1>7 DEF Joined, Timeout, Blocked
  <2>2. PICK failed \in BOOLEAN :
          /\ SetHandler(h, MovedOn(h, failed))
          /\ failed \/ Awaited(h).state \notin {"failed", "sending"}
    BY <1>7, <2>1 DEF Joined, Timeout, TimedOut, Blocked
  <2>3. Awaited(h).state \in {"sending", "sent", "failed"}
    <3>1. PICK r \in Handler : r = handlers[h] /\ Answers(r)
      BY DEF Waits
    <3>2. r.next \in Nat \ {0} /\ r.last \in Nat /\ r.next <= r.last
      BY <2>1, <3>1 DEF Handler, Waiting
    <3>3. r.next \in 1 .. Len(writes) /\ writes \in Seq(Write)
      BY <3>1, <3>2 DEF Answers, HInv, Tasks
    <3>4. writes[r.next] \in Write
      BY <3>3
    <3>5. QED BY <3>1, <3>4 DEF Awaited, Write
  <2>4. QED BY <2>1, <2>2, <2>3, MovedOnWaits
<1>8. CASE HandlerStep
  BY <1>7, <1>8, WaitWaits, StageWaits, TickWaits, Zenon DEF HandlerStep, WaitStep
<1>9. QED BY <1>1, <1>3, <1>4, <1>5, <1>6, <1>8
          DEF Next, CallerStep, HandlerStep, vars

LEMMA WaitsInvariance == Spec => [](HInv /\ Waits)
<1>1. Init => HInv /\ Waits
  BY HubInitially DEF Init, Waits
<1>2. HInv /\ Waits /\ [Next]_vars => HInv' /\ Waits'
  BY HubInvariantStep, WaitsStep
<1>3. QED BY <1>1, <1>2, PTL DEF Spec

\* The types: no list of the hub, no task and no handler holds anything else,
\* and no channel holds more than its capacity.
THEOREM HubTypes == Spec => []TypeOK
<1>1. HInv /\ Waits => TypeOK
  <2> SUFFICES ASSUME HInv, Waits PROVE TypeOK
    OBVIOUS
  <2>1. Live \subseteq Ids
    BY DEF Live
  <2>2. \A list \in Seq(Live) : list \in Seq(Ids)
    BY <2>1, SeqMonotonic
  <2>3. /\ senders \in [ChannelIds -> Seq(Ids)]
        /\ creation_senders \in [ChannelIds -> Seq(Ids)]
    BY <2>2 DEF HInv, Lists
  <2>4. QED BY <2>1, <2>3 DEF HInv, Hub, Lists, Channels, Tasks, Waits, TypeOK
<1>2. QED BY <1>1, WaitsInvariance, PTL

\* wait returns Ok only when the message of each of its tasks is in the channel:
\* whatever the callers, the receivers and the clock did in between.
THEOREM OkIsSent == Spec => []WaitOkMeansSent
<1>1. HInv /\ Waits => WaitOkMeansSent
  <2> SUFFICES ASSUME HInv, Waits, NEW h \in DOMAIN handlers,
                      handlers[h].stage = "Ok",
                      NEW w \in handlers[h].first .. handlers[h].last
               PROVE  writes[w].state = "sent"
    BY DEF WaitOkMeansSent
  <2>1. PICK r \in Handler : r = handlers[h]
    BY DEF Waits
  <2>2. /\ Answers(r) /\ r.stage = "Ok" /\ w \in r.first .. r.last
        /\ r.first \in Nat /\ r.last \in Nat /\ r.next \in Nat
    BY <2>1 DEF Waits, Handler
  <2>3. ~r.failed /\ w \in r.first .. r.next - 1
    BY <2>2 DEF Answers
  <2>4. QED BY <2>2, <2>3 DEF Answers
<1>2. QED BY <1>1, WaitsInvariance, PTL

\* wait(Some(d)) takes at most d for each of its tasks, whatever the number of
\* tasks and the durations.
THEOREM WaitsAreBounded == Spec => []WaitIsBounded
<1>1. HInv /\ Waits => WaitIsBounded
  <2> SUFFICES ASSUME Waits, NEW h \in DOMAIN handlers, Timed(h)
               PROVE  handlers[h].waited <=
                 (handlers[h].last - handlers[h].first + 1) * handlers[h].duration
    BY DEF WaitIsBounded
  <2>1. PICK r \in Handler : r = handlers[h]
    BY DEF Waits
  <2>2. /\ Answers(r) /\ Lasts(r) /\ r.duration # NoDuration
        /\ r.duration \in Durations \cup {NoDuration}
        /\ r.first \in Nat /\ r.last \in Nat /\ r.next \in Nat
        /\ r.waited \in Nat /\ r.timer \in Nat
    BY <2>1 DEF Waits, Handler, Timed
  <2>3. PICK d \in Nat : d = r.duration
    BY <2>2, DurationType
  <2>4. PICK left \in Int : left = (r.last - r.next) * d
    BY <2>2, <2>3
  <2>5. PICK total \in Int : total = (r.last - r.first + 1) * d
    BY <2>2, <2>3
  <2>6. r.waited + r.timer + left <= total
    BY <2>2, <2>3, <2>4, <2>5 DEF Lasts
  <2>7. r.timer + left >= 0
    <3>1. CASE r.next <= r.last
      <4>1. left >= 0
        BY <2>2, <2>4, <3>1
      <4>2. QED BY <2>2, <4>1
    <3>2. CASE r.next > r.last
      <4>1. r.next = r.last + 1 /\ r.timer = d
        BY <2>2, <2>3, <3>2 DEF Answers, Lasts
      <4>2. r.last - r.next = 0 - 1
        BY <2>2, <4>1
      <4>3. left = 0 - d
        BY <2>4, <4>2
      <4>4. QED BY <4>1, <4>3
    <3>3. QED BY <2>2, <3>1, <3>2
  <2>8. r.waited <= total
    BY <2>2, <2>6, <2>7
  <2>9. QED BY <2>1, <2>3, <2>5, <2>8
<1>2. QED BY <1>1, WaitsInvariance, PTL
=============================================================================
