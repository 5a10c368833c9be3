----------------------------- MODULE HubIdentity -----------------------------
(***************************************************************************)
(* How crates smart_channel and notifier_hub tell channels apart.  A hub   *)
(* finds the senders of a receiver it is shown by comparing ids, and an id *)
(* is made of a counter of the hub and of the address the hub has at that  *)
(* moment.  Here several hubs are made, moved and dropped, and callers     *)
(* make channels of their own with ids they have seen (bind).              *)
(***************************************************************************)
EXTENDS Integers, SequencesExt

CONSTANTS
  Hubs,
  Addresses,      \* where a hub can lie in memory
  ChannelIds,
  IdLists,        \* arguments of subscribe_multiple and unsubscribe_multiple
  MaxChannels,    \* bound: pairs of a sender and a receiver made
  NotMade, Gone,  \* stand for the address of a hub before and after its life
  Caller          \* made a channel that no hub made

ASSUME IdentityConstants ==
  /\ IdLists \subseteq Seq(ChannelIds)
  /\ MaxChannels \in Nat
  /\ NotMade \notin Addresses /\ Gone \notin Addresses
  /\ Caller \notin Hubs

VARIABLES
  address,          \* hub -> where it is
  connection_id,    \* hub -> its counter
  senders,          \* hub -> channel id -> the channels it holds senders of
  channels,         \* the channels made, in order; a channel is its position
  answer            \* the last call that was shown a receiver, and its outcome

hubVars == <<address, connection_id, senders>>
vars    == <<hubVars, channels, answer>>

NoAnswer == [op |-> "none"]
Live     == {h \in Hubs : address[h] \in Addresses}

SmartChannelId == [channel_counter : Nat, notifier_address : Addresses]
Channel == [by : Hubs \cup {Caller}, id : SmartChannelId, open : BOOLEAN]

TypeOK ==
  /\ address \in [Hubs -> Addresses \cup {NotMade, Gone}]
  /\ connection_id \in [Hubs -> Nat]
  /\ senders \in [Hubs -> [ChannelIds -> SUBSET DOMAIN channels]]
  /\ channels \in Seq(Channel)

-----------------------------------------------------------------------------
(* The life of the hubs.  No two live hubs overlap in memory.              *)

Free(a) == \A h \in Hubs : address[h] # a

NewHub(h) ==
  /\ address[h] = NotMade
  /\ \E a \in Addresses : Free(a) /\ address' = [address EXCEPT ![h] = a]
  /\ UNCHANGED <<connection_id, senders, channels, answer>>

\* Hubs are moved: returned, pushed into a vector that grows, swapped.
MoveHubs ==
  /\ \E new \in [Live -> Addresses] :
       /\ IsInjective(new)
       /\ address' = [h \in Hubs |-> IF h \in Live THEN new[h] ELSE address[h]]
  /\ UNCHANGED <<connection_id, senders, channels, answer>>

\* The senders go with the hub, the receivers stay with their callers.
DropHub(h) ==
  /\ h \in Live
  /\ address' = [address EXCEPT ![h] = Gone]
  /\ senders' = [senders EXCEPT ![h] = [ch \in ChannelIds |-> {}]]
  /\ UNCHANGED <<connection_id, channels, answer>>

-----------------------------------------------------------------------------
(* Channels are made by hubs, and by callers.                              *)

\* The slip: the sender inserted is that of the channel made before.
SlipNewChannel == Len(channels)
NewChannel     == Len(channels) + 1

MakeChannel(by, id) ==
  /\ Len(channels) < MaxChannels
  /\ channels' = Append(channels, [by |-> by, id |-> id, open |-> TRUE])

\* get_new_id.  The slip: the counter is not increased.
SlipNextId(h) == connection_id[h]
NextId(h)     == connection_id[h] + 1
GetNewId(h) == [channel_counter |-> connection_id[h],
                notifier_address |-> address[h]]

HubMakesChannel(h) ==
  /\ h \in Live /\ MakeChannel(h, GetNewId(h))
  /\ connection_id' = [connection_id EXCEPT ![h] = NextId(h)]
  /\ UNCHANGED <<address, answer>>

\* subscribe and subscribe_multiple: clones of one sender.
Subscribe(h, ids) ==
  /\ HubMakesChannel(h)
  /\ senders' = [senders EXCEPT ![h] = [ch \in ChannelIds |->
       @[ch] \cup (IF Contains(ids, ch) THEN {NewChannel} ELSE {})]]

GetCreationWaiter(h) == HubMakesChannel(h) /\ UNCHANGED senders

\* bind, or channel, with an id read from a receiver.
Bind(k) ==
  /\ MakeChannel(Caller, channels[k].id)
  /\ UNCHANGED <<hubVars, answer>>

DropReceiver(k) ==
  /\ channels[k].open
  /\ channels' = [channels EXCEPT ![k].open = FALSE]
  /\ UNCHANGED <<hubVars, answer>>

\* A hub drops the senders whose own channel is closed, whatever their id.
CleanChannel(h, ch) ==
  /\ h \in Live
  /\ senders' = [senders EXCEPT ![h][ch] = {j \in @ : channels[j].open}]
  /\ UNCHANGED <<address, connection_id, channels, answer>>

-----------------------------------------------------------------------------
(* Calls that are shown a receiver.                                        *)

IsBoundTo(j, k) == channels[j].id = channels[k].id

IsSubscribed(held, ch, k) == \E j \in held[ch] : IsBoundTo(j, k)

\* senders.retain(not bound to the receiver); the slip: those that are bound.
SlipRetain(some, k) == {j \in some : IsBoundTo(j, k)}
Retain(some, k)     == {j \in some : ~IsBoundTo(j, k)}

\* unsubscribe, as one round of unsubscribe_multiple; the slip: the loop ends
\* with the first error.
SlipUnsubscribe(done, ch, k) ==
  IF IsSubscribed(done.held, ch, k) /\ done.errors = <<>>
  THEN [done EXCEPT !.held[ch] = Retain(@, k)]
  ELSE [done EXCEPT !.errors = Append(@, ch)]
Unsubscribe(done, ch, k) ==
  IF IsSubscribed(done.held, ch, k)
  THEN [done EXCEPT !.held[ch] = Retain(@, k)]
  ELSE [done EXCEPT !.errors = Append(@, ch)]

Shown(h, k) == h \in Live /\ channels[k].open

\* The senders hub h holds after the first n rounds, and the errors of these.
Rounds(h, ids, k) ==
  LET done[n \in 0 .. Len(ids)] ==
        IF n = 0 THEN [held |-> senders[h], errors |-> <<>>]
        ELSE Unsubscribe(done[n - 1], ids[n], k)
  IN  done

Leave(op, h, ids, k) ==
  LET done == Rounds(h, ids, k)[Len(ids)] IN
  /\ Shown(h, k)
  /\ senders' = [senders EXCEPT ![h] = done.held]
  /\ answer' = [op |-> op, hub |-> h, rx |-> k, ids |-> ids,
                errors |-> done.errors]
  /\ UNCHANGED <<address, connection_id, channels>>

UnsubscribeMultiple(h, ids, k) == Leave("unsubscribe_multiple", h, ids, k)

\* subscribed_list, the keys of a map in any order.
SubscribedList(h, k) ==
  SetToSeqs({ch \in ChannelIds : IsSubscribed(senders[h], ch, k)})

UnsubscribeAll(h, k) ==
  \E ids \in SubscribedList(h, k) : Leave("unsubscribe_all", h, ids, k)

GetSender(h, ch, k) ==
  /\ Shown(h, k)
  /\ \E j \in senders[h][ch] :
       /\ IsBoundTo(j, k)
       /\ answer' = [op |-> "get_sender", hub |-> h, rx |-> k, got |-> j]
  /\ UNCHANGED <<hubVars, channels>>

-----------------------------------------------------------------------------
Init ==
  /\ address = [h \in Hubs |-> NotMade]
  /\ connection_id = [h \in Hubs |-> 0]
  /\ senders = [h \in Hubs |-> [ch \in ChannelIds |-> {}]]
  /\ channels = <<>> /\ answer = NoAnswer

HubStep(h) ==
  \/ NewHub(h) \/ DropHub(h) \/ GetCreationWaiter(h)
  \/ \E ch \in ChannelIds : CleanChannel(h, ch)
  \/ \E ids \in IdLists : Subscribe(h, ids)

ReceiverStep(k) ==
  \/ Bind(k) \/ DropReceiver(k)
  \/ \E h \in Hubs : \/ UnsubscribeAll(h, k)
                     \/ \E ids \in IdLists : UnsubscribeMultiple(h, ids, k)
                     \/ \E ch \in ChannelIds : GetSender(h, ch, k)

Next ==
  \/ MoveHubs
  \/ \E h \in Hubs : HubStep(h)
  \/ \E k \in DOMAIN channels : ReceiverStep(k)

Spec == Init /\ [][Next]_vars

-----------------------------------------------------------------------------
(* Properties.                                                             *)

\* What the id guarantees (notifier.rs 36-41): two channels of one hub never
\* share one, however often it moves, and two of different hubs only if one of
\* these is no longer where it was when it made its channel.
InPlace(k) == address[channels[k].by] = channels[k].id.notifier_address
SharedIdMeansMoved == \A j, k \in DOMAIN channels :
  /\ j # k /\ Caller \notin {channels[j].by, channels[k].by}
  /\ channels[j].id = channels[k].id
  => channels[j].by # channels[k].by /\ ~(InPlace(j) /\ InPlace(k))

\* A hub that is shown a receiver of its own making finds this receiver's
\* senders and no others, whatever ids other hubs and callers have made.
OwnReceiverOwnSenders == [][
  /\ answer' # answer /\ channels[answer'.rx].by = answer'.hub
  => \A h \in Hubs, ch \in ChannelIds :
       /\ senders[h][ch] \ senders'[h][ch] \subseteq {answer'.rx}
       /\ answer'.op = "get_sender" => answer'.got = answer'.rx
  ]_vars

\* The channels of the call's list that are subscribed.
StillIn(held) == {ch \in ToSet(answer'.ids) :
                    IsSubscribed(held[answer'.hub], ch, answer'.rx)}

\* unsubscribe_multiple leaves every channel of its list "anyway" (329-333),
\* with one error for each entry it could not serve, and unsubscribe_all has
\* none to hide (299).
LeavesWholeList == [][
  answer' # answer /\ answer'.op # "get_sender" =>
    /\ StillIn(senders') = {}
    /\ Len(answer'.ids) = Len(answer'.errors) + Cardinality(StillIn(senders))
    /\ answer'.op = "unsubscribe_all" => answer'.errors = <<>>
  ]_vars
=============================================================================
