----------------------------- MODULE NotifierHub -----------------------------
(***************************************************************************)
(* The notifier hub of crate notifier_hub: a map from channel ids to the   *)
(* senders subscribed to them, the waiters of new subscriptions, the tasks *)
(* spawned to write into the subscribers' channels, and the handlers with  *)
(* which a caller waits for these tasks.                                   *)
(*                                                                         *)
(* The hub is called through &mut self and never awaits: each of its       *)
(* methods is one step.  The tasks, the receivers and the waits run beside *)
(* it.  A call the hub refuses (NotSubscribed, ChannelUninitialized) is    *)
(* no step: nothing but the error comes of it.                             *)
(***************************************************************************)
EXTENDS Integers, FiniteSets, SequencesExt

CONSTANTS
  ChannelIds,
  IdLists,      \* arguments of subscribe_multiple and unsubscribe_multiple
  Durations,    \* arguments of WritingHandler::wait: n is Some(n ticks)
  NoDuration,   \* wait(None)
  CallerOps,    \* what else callers do here: "get_sender", "drop_hub"
  MaxIds,       \* bound: pairs of a sender and a receiver the hub makes
  MaxSends,     \* bound: messages sent
  Size,         \* CHANNEL_SIZE (100 in the code)
  NotifierSize  \* NOTIFIER_CHANNEL_SIZE (10 in the code)

ASSUME HubConstants ==
  /\ IdLists \subseteq Seq(ChannelIds)
  /\ NoDuration \notin Nat /\ Durations \subseteq Nat \cup {NoDuration}
  /\ CallerOps \subseteq {"get_sender", "drop_hub"}
  /\ MaxIds \in Nat /\ MaxSends \in Nat
  /\ Size \in Nat \ {0} /\ NotifierSize \in Nat \ {0}

Notice == 0                    \* the () a creation waiter receives
Ids    == 0 .. MaxIds - 1      \* channel_counter of a SmartChannelId

VARIABLES
  \* NotifierHub; a sender is named by the id it shares with its receiver
  alive,              \* has the hub not been dropped?
  connection_id,
  opened,             \* the keys of the map senders
  senders,            \* channel id -> the senders subscribed to it
  creation_senders,   \* channel id -> the senders of its creation waiters
  \* the channels made
  rx,                 \* id -> what has become of the receiver
  buffer,             \* id -> what the channel holds
  held,               \* ids of which a caller keeps a sender (get_sender)
  \* the tasks spawned by get_handler, in order, and the handlers
  writes, handlers,
  sent                \* the messages sent so far

hubVars     == <<alive, connection_id, opened, senders, creation_senders>>
channelVars == <<rx, buffer>>
vars == <<hubVars, channelVars, held, writes, handlers, sent>>

Roles == {"subscriber", "waiter"}
Write == [to : Ids, msg : 0 .. MaxSends, state : {"sending", "sent", "failed"}]
Handler == [first : Nat \ {0}, last : Nat, next : Nat \ {0},
            stage : {"held", "waiting", "Ok", "Err", "dropped"},
            duration : Durations \cup {NoDuration}, timer : Nat, waited : Nat,
            failed : BOOLEAN]

\* The capacity given to the channel.
Capacity(i) == IF rx[i] = "waiter" THEN NotifierSize ELSE Size

TypeOK ==
  /\ alive \in BOOLEAN
  /\ connection_id \in 0 .. MaxIds
  /\ opened \subseteq ChannelIds
  /\ senders \in [ChannelIds -> Seq(Ids)]
  /\ creation_senders \in [ChannelIds -> Seq(Ids)]
  /\ rx \in [Ids -> Roles \cup {"unused", "ended", "dropped"}]
  /\ buffer \in [Ids -> Seq(0 .. MaxSends)]
  /\ \A i \in Ids : Len(buffer[i]) <= Capacity(i)
  /\ held \subseteq Ids
  /\ writes \in Seq(Write)
  /\ handlers \in Seq(Handler)
  /\ sent \in 0 .. MaxSends

-----------------------------------------------------------------------------
(* The tasks: each owns a clone of its sender and sends one message.       *)

IsClosed(i) == rx[i] = "dropped"

\* get_handler for every sender of the list, in that order.
Spawn(to, msg) ==
  writes' = writes \o [k \in DOMAIN to |->
              [to |-> to[k], msg |-> msg, state |-> "sending"]]

Settle(w, outcome) == writes' = [writes EXCEPT ![w].state = outcome]

\* The slip: one message more than the capacity is let in.
SlipRoomAbove(i) == Len(buffer[i]) <= Capacity(i)
Room(i)          == Len(buffer[i]) < Capacity(i)

\* sender.send(msg).await is over.
WriteSent(w) ==
  LET i == writes[w].to IN
  /\ writes[w].state = "sending" /\ ~IsClosed(i) /\ Room(i)
  /\ buffer' = [buffer EXCEPT ![i] = Append(@, writes[w].msg)]
  /\ Settle(w, "sent")
  /\ UNCHANGED <<hubVars, rx, held, handlers, sent>>

WriteFailed(w) ==
  /\ writes[w].state = "sending" /\ IsClosed(writes[w].to)
  /\ Settle(w, "failed")
  /\ UNCHANGED <<hubVars, channelVars, held, handlers, sent>>

-----------------------------------------------------------------------------
(* Subscriptions.                                                          *)

\* get_new_id and channel(size, id): the next id and its receiver.
NewChannel(role) ==
  /\ connection_id < MaxIds
  /\ connection_id' = connection_id + 1
  /\ rx' = [rx EXCEPT ![connection_id] = role]
  /\ UNCHANGED alive

Times(x, list) == Cardinality({k \in DOMAIN list : list[k] = x})

\* notify_creation at each insertion, its handler not kept.
ToNotify(ids) == FlattenSeq([k \in DOMAIN ids |-> creation_senders[ids[k]]])

\* insert_sender for each id of the list, with clones of the new sender.
InsertSenders(ids) ==
  /\ NewChannel("subscriber")
  /\ opened' = opened \cup ToSet(ids)
  /\ senders' = [ch \in ChannelIds |->
       senders[ch] \o [n \in 1 .. Times(ch, ids) |-> connection_id]]
  /\ Spawn(ToNotify(ids), Notice)
  /\ UNCHANGED <<creation_senders, buffer, held, handlers, sent>>

Subscribe(ch)         == InsertSenders(<<ch>>)
SubscribeMultiple(ids) == InsertSenders(ids)

GetCreationWaiter(ch) ==
  /\ NewChannel("waiter")
  /\ creation_senders' = [creation_senders EXCEPT ![ch] = Append(@, connection_id)]
  /\ UNCHANGED <<opened, senders, buffer, held, writes, handlers, sent>>

IsSubscribed(ch, i) == Contains(senders[ch], i)

\* Vec::retain: the elements of list that are in kept, in their order.
Retain(list, kept) ==
  FlattenSeq([k \in DOMAIN list |-> IF list[k] \in kept THEN <<list[k]>> ELSE <<>>])

\* senders.retain(not bound to i); the slip: the first one goes.
SlipRetainUnbound(ch, i) == RemoveFirst(senders[ch], i)
RetainUnbound(ch, i) == Retain(senders[ch], Ids \ {i})

\* The caller shows the receiver, so it is not dropped.
RemoveSenders(chs, i) ==
  /\ rx[i] = "subscriber"
  /\ \E ch \in chs : IsSubscribed(ch, i)
  /\ senders' = [ch \in ChannelIds |->
                  IF ch \in chs THEN RetainUnbound(ch, i) ELSE senders[ch]]
  /\ UNCHANGED <<alive, connection_id, opened, creation_senders, channelVars,
                 held, writes, handlers, sent>>

Unsubscribe(ch, i)          == RemoveSenders({ch}, i)
UnsubscribeMultiple(ids, i) == RemoveSenders(ToSet(ids), i)
SubscribedList(i)           == {ch \in opened : IsSubscribed(ch, i)}
UnsubscribeAll(i)           == RemoveSenders(SubscribedList(i), i)

-----------------------------------------------------------------------------
(* Messages.                                                               *)

\* senders.retain(!is_closed)
OpenSenders(ch) == Retain(senders[ch], {i \in Ids : ~IsClosed(i)})

CleanChannels(chs) ==
  senders' = [ch \in ChannelIds |->
               IF ch \in chs THEN OpenSenders(ch) ELSE senders[ch]]

CleanChannel(ch) ==
  /\ CleanChannels({ch})
  /\ UNCHANGED <<alive, connection_id, opened, creation_senders, channelVars,
                 held, writes, handlers, sent>>

CleanAll ==
  /\ CleanChannels(opened)
  /\ UNCHANGED <<alive, connection_id, opened, creation_senders, channelVars,
                 held, writes, handlers, sent>>

\* A new message is written to the senders listed, under a new handler.
WriteTo(to) ==
  /\ sent < MaxSends /\ sent' = sent + 1
  /\ Spawn(to, sent + 1)
  /\ handlers' = Append(handlers,
       [first |-> Len(writes) + 1, last |-> Len(writes) + Len(to),
        next |-> Len(writes) + 1, stage |-> "held", duration |-> NoDuration,
        timer |-> 0, waited |-> 0, failed |-> FALSE])

\* clone_send and arc_send; to a channel that is over the handler is empty.
Send(ch) ==
  /\ ch \in opened
  /\ CleanChannels({ch})
  /\ WriteTo(OpenSenders(ch))
  /\ UNCHANGED <<alive, connection_id, opened, creation_senders, channelVars, held>>

\* broadcast_clone and broadcast_arc; values() has the channels in any order.
Broadcast ==
  /\ CleanChannels(opened)
  /\ \E order \in SetToSeqs(opened) :
       WriteTo(FlattenSeq([k \in DOMAIN order |-> OpenSenders(order[k])]))
  /\ UNCHANGED <<alive, connection_id, opened, creation_senders, channelVars, held>>

\* get_sender and get_senders give a caller clones of what the hub holds ...
GetSender(i) ==
  /\ rx[i] = "subscriber" /\ i \notin held
  /\ \E ch \in ChannelIds : IsSubscribed(ch, i)
  /\ held' = held \cup {i}
  /\ UNCHANGED <<hubVars, channelVars, writes, handlers, sent>>

\* ... with which it can write past the hub, until it drops them.
WriteHeld(i) ==
  /\ i \in held /\ sent < MaxSends
  /\ Spawn(<<i>>, sent + 1) /\ sent' = sent + 1
  /\ UNCHANGED <<hubVars, channelVars, held, handlers>>

DropSender(i) ==
  /\ i \in held /\ held' = held \ {i}
  /\ UNCHANGED <<hubVars, channelVars, writes, handlers, sent>>

\* The hub is dropped, and with it the senders it holds; the tasks and their
\* handlers go on.
DropHub ==
  /\ alive' = FALSE /\ opened' = {}
  /\ senders' = [ch \in ChannelIds |-> <<>>]
  /\ creation_senders' = [ch \in ChannelIds |-> <<>>]
  /\ UNCHANGED <<connection_id, channelVars, held, writes, handlers, sent>>

-----------------------------------------------------------------------------
(* The receivers.                                                          *)

\* Has the hub or a caller a sender?
Kept(i) ==
  \/ i \in held
  \/ \E ch \in ChannelIds : \/ IsSubscribed(ch, i)
                            \/ Contains(creation_senders[ch], i)

\* Is there a sender left?  The slips: a task does not own its clone; it keeps
\* it when it has ended.
SlipConnected(i) == Kept(i)
SlipKeepClone(i) == Kept(i) \/ \E w \in DOMAIN writes : writes[w].to = i
Connected(i) ==
  \/ Kept(i)
  \/ \E w \in DOMAIN writes : writes[w].to = i /\ writes[w].state = "sending"

Receive(i) ==
  /\ buffer[i] # <<>>
  /\ buffer' = [buffer EXCEPT ![i] = Tail(@)]
  /\ UNCHANGED <<hubVars, rx, held, writes, handlers, sent>>

\* recv returns None.
ReceiveNone(i) ==
  /\ rx[i] \in Roles /\ buffer[i] = <<>> /\ ~Connected(i)
  /\ rx' = [rx EXCEPT ![i] = "ended"]
  /\ UNCHANGED <<hubVars, buffer, held, writes, handlers, sent>>

DropReceiver(i) ==
  /\ rx[i] \in Roles \cup {"ended"}
  /\ rx' = [rx EXCEPT ![i] = "dropped"]
  /\ buffer' = [buffer EXCEPT ![i] = <<>>]
  /\ UNCHANGED <<hubVars, held, writes, handlers, sent>>

-----------------------------------------------------------------------------
(* WritingHandler::wait: one task after the other, each with a timeout of  *)
(* its own.  A handler, or its wait, can be dropped; the tasks run on.     *)

SetHandler(h, new) ==
  /\ handlers' = [handlers EXCEPT ![h] = new]
  /\ UNCHANGED <<hubVars, channelVars, held, sent>>

Arm(d) == IF d = NoDuration THEN 0 ELSE d

Wait(h, d) ==
  /\ handlers[h].stage = "held"
  /\ SetHandler(h, [handlers[h] EXCEPT !.stage = "waiting", !.duration = d,
                                       !.timer = Arm(d)])
  /\ UNCHANGED writes

Waiting(h)  == handlers[h].stage = "waiting" /\ handlers[h].next <= handlers[h].last
Awaited(h)  == writes[handlers[h].next]
Blocked(h)  == Waiting(h) /\ Awaited(h).state = "sending"
Timed(h)    == handlers[h].duration # NoDuration

\* The handler with its wait moved on to the next task.
MovedOn(h, failed) ==
  [handlers[h] EXCEPT !.next = @ + 1, !.timer = Arm(handlers[h].duration),
                      !.failed = @ \/ failed]

Joined(h) ==
  /\ Waiting(h) /\ ~Blocked(h)
  /\ SetHandler(h, MovedOn(h, Awaited(h).state = "failed"))
  /\ UNCHANGED writes

\* What a timeout leaves: an error, and the next task to await.  The slips: the
\* error is forgotten; the task is awaited anew, with or without a timer.
SlipForget(h)  == MovedOn(h, FALSE)
SlipRetry(h)   == [MovedOn(h, TRUE) EXCEPT !.next = handlers[h].next]
SlipStay(h)    == [handlers[h] EXCEPT !.failed = TRUE]
TimedOut(h)    == MovedOn(h, TRUE)

\* The task whose wait timed out is detached, not stopped: it may still send.
\* The slip: it is aborted.
SlipTimeout(h) ==
  /\ Blocked(h) /\ Timed(h) /\ handlers[h].timer = 0
  /\ SetHandler(h, TimedOut(h))
  /\ Settle(handlers[h].next, "failed")
Timeout(h) ==
  /\ Blocked(h) /\ Timed(h) /\ handlers[h].timer = 0
  /\ SetHandler(h, TimedOut(h))
  /\ UNCHANGED writes

\* errors.is_empty() decides.
WaitReturns(h) ==
  /\ handlers[h].stage = "waiting" /\ ~Waiting(h)
  /\ SetHandler(h, [handlers[h] EXCEPT
                      !.stage = IF handlers[h].failed THEN "Err" ELSE "Ok"])
  /\ UNCHANGED writes

DropHandler(h) ==
  /\ handlers[h].stage \in {"held", "waiting"}
  /\ SetHandler(h, [handlers[h] EXCEPT !.stage = "dropped"])
  /\ UNCHANGED writes

\* Time passes for the waits that have a duration, while no wait can go on.
Tick ==
  /\ \A h \in DOMAIN handlers : handlers[h].stage = "waiting" =>
       Blocked(h) /\ (Timed(h) => handlers[h].timer > 0)
  /\ \E h \in DOMAIN handlers : Blocked(h) /\ Timed(h)
  /\ handlers' = [h \in DOMAIN handlers |->
       IF Blocked(h) /\ Timed(h)
       THEN [handlers[h] EXCEPT !.timer = @ - 1, !.waited = @ + 1]
       ELSE handlers[h]]
  /\ UNCHANGED <<hubVars, channelVars, held, writes, sent>>

-----------------------------------------------------------------------------
Init ==
  /\ alive = TRUE /\ connection_id = 0
  /\ opened = {}
  /\ senders = [ch \in ChannelIds |-> <<>>]
  /\ creation_senders = [ch \in ChannelIds |-> <<>>]
  /\ rx = [i \in Ids |-> "unused"]
  /\ buffer = [i \in Ids |-> <<>>]
  /\ held = {} /\ writes = <<>> /\ handlers = <<>> /\ sent = 0

\* All of these need the hub.
HubStep ==
  \/ \E ch \in ChannelIds :
       \/ Subscribe(ch) \/ GetCreationWaiter(ch) \/ CleanChannel(ch) \/ Send(ch)
       \/ \E i \in Ids : Unsubscribe(ch, i)
  \/ \E ids \in IdLists :
       SubscribeMultiple(ids) \/ \E i \in Ids : UnsubscribeMultiple(ids, i)
  \/ \E i \in Ids : UnsubscribeAll(i)
  \/ "get_sender" \in CallerOps /\ \E i \in Ids : GetSender(i)
  \/ CleanAll \/ Broadcast
  \/ "drop_hub" \in CallerOps /\ DropHub

CallerStep ==
  \/ \E i \in Ids : WriteHeld(i) \/ DropSender(i) \/ DropReceiver(i)
  \/ \E h \in DOMAIN handlers :
       DropHandler(h) \/ \E d \in Durations : Wait(h, d)

TaskStep(w)   == WriteSent(w) \/ WriteFailed(w)
WaitStep(h)   == Joined(h) \/ Timeout(h) \/ WaitReturns(h)
ReceiverStep(i) == Receive(i) \/ ReceiveNone(i)

Next ==
  \/ alive /\ HubStep
  \/ CallerStep
  \/ \E w \in DOMAIN writes : TaskStep(w)
  \/ \E h \in DOMAIN handlers : WaitStep(h)
  \/ \E i \in Ids : ReceiverStep(i)
  \/ Tick

Spec == Init /\ [][Next]_vars

\* What the runtime and the clock owe.  SF: room in a channel comes and goes,
\* but tokio hands it to the tasks that wait in turn.
Fairness ==
  /\ \A i \in Ids :
       SF_vars(\E w \in DOMAIN writes : writes[w].to = i /\ TaskStep(w))
  /\ \A h \in 1 .. MaxSends : WF_vars(h \in DOMAIN handlers /\ WaitStep(h))
  /\ WF_vars(Tick)

FairSpec == Spec /\ Fairness

\* What the subscribers may or may not do: read.
Reading == \A i \in Ids : WF_vars(ReceiverStep(i))

-----------------------------------------------------------------------------
(* Safety.                                                                 *)

\* wait returns Ok only when every message of its handler is in the channel of
\* its subscriber: no task failed, was overtaken by a timeout or forgotten.
WaitOkMeansSent == \A h \in DOMAIN handlers : handlers[h].stage = "Ok" =>
  \A w \in handlers[h].first .. handlers[h].last : writes[w].state = "sent"

\* wait(Some(d)) takes at most d for each of its tasks.
WaitIsBounded == \A h \in DOMAIN handlers : Timed(h) =>
  handlers[h].waited
    <= (handlers[h].last - handlers[h].first + 1) * handlers[h].duration

\* The end a receiver sees is final: it has read all that was sent to it, no
\* task is still writing to it, nobody holds a sender and no call of the hub
\* brings one back.
DisconnectedIsFinal == \A i \in Ids : rx[i] = "ended" =>
  /\ buffer[i] = <<>> /\ i \notin held
  /\ \A ch \in ChannelIds : ~IsSubscribed(ch, i)
  /\ \A w \in DOMAIN writes : writes[w].to = i => writes[w].state # "sending"

\* The hub delivers what module Delivery promises: each message once for every
\* subscription of an open receiver at the time it was sent, each notice once
\* for every insertion since the waiter was made, nothing to anyone else and
\* nothing twice, in no particular order.
Open(i) == rx[i] \in Roles \cup {"ended"}
Pending(i, m) == Cardinality({w \in DOMAIN writes :
                   writes[w] = [to |-> i, msg |-> m, state |-> "sending"]})

\* What i is subscribed to, the n-th subscription to ch as <<ch, n>>; what it
\* waits for; and the copies of m that are its due.
Subscriptions(i) ==
  UNION {{ch} \X (1 .. Times(i, senders[ch])) : ch \in ChannelIds}
WaitsFor(i) == {ch \in ChannelIds : Contains(creation_senders[ch], i)}
Owed(i, m)  == Times(m, buffer[i]) + Pending(i, m)

\* The copies of m that tasks were spawned to write to i, those that were written
\* and those that its receiver has taken.
Spawned(i, m)  == Cardinality({w \in DOMAIN writes :
                    writes[w].to = i /\ writes[w].msg = m})
Written(i, m)  == Cardinality({w \in DOMAIN writes :
                    writes[w] = [to |-> i, msg |-> m, state |-> "sent"]})
Received(i, m) == Written(i, m) - Times(m, buffer[i])

\* The hub as the promise sees it: the receivers that are open.
Standing   == [i \in Ids |->
  IF rx[i] = "unused" THEN "new" ELSE IF Open(i) THEN "in" ELSE "out"]
Subscribed == [i \in Ids |-> IF Open(i) THEN Subscriptions(i) ELSE {}]
Awaiting   == [i \in Ids |-> IF Open(i) THEN WaitsFor(i) ELSE {}]
Due        == [i \in Ids |-> [m \in 0 .. MaxSends |-> IF Open(i) THEN Owed(i, m) ELSE 0]]

Promise == INSTANCE Delivery WITH
  Msgs <- 0 .. MaxSends,
  Lists <- IdLists \cup {<<ch>> : ch \in ChannelIds},
  state <- Standing, subscribed <- Subscribed, waits <- Awaiting, owed <- Due

DeliversAsPromised == Promise!Spec

(* Liveness.                                                               *)

UnderTimedWait(h) ==
  h \in DOMAIN handlers /\ handlers[h].stage = "waiting" /\ Timed(h)

\* A wait with a duration returns whether or not anybody reads.
TimedWaitReturns == \A h \in 1 .. MaxSends : UnderTimedWait(h) ~> ~UnderTimedWait(h)

\* If the receivers read, one that is open comes to have received every copy of
\* a message or notice that a task was ever spawned to write to it, whether the
\* wait for the task is dropped, times out or was never made: none is lost on the
\* way, unless the receiver is dropped.
MessagesArrive == Reading => \A i \in Ids, m \in 0 .. MaxSends :
  (Open(i) /\ Received(i, m) < Spawned(i, m))
    ~> (Received(i, m) = Spawned(i, m) \/ ~Open(i))

\* If the receivers read, one whose sender neither the hub nor a caller has any
\* more (it unsubscribed everywhere, or the hub is gone) comes to the end of its
\* channel: every task that still owns a clone comes to an end itself.
EndArrives == Reading => \A i \in Ids :
  (rx[i] \in Roles /\ ~Kept(i)) ~> rx[i] \notin Roles
=============================================================================
