------------------------------- MODULE Delivery -------------------------------
(***************************************************************************)
(* What a notifier hub promises to those who hold its receivers: every     *)
(* receiver is owed each message once for every subscription it has when   *)
(* the message is sent, and each notice once for every subscription made   *)
(* to a channel it waits for.  What is owed is taken in any order.  There  *)
(* are no senders, buffers, tasks or handlers here.                        *)
(***************************************************************************)
EXTENDS Integers, FiniteSets

CONSTANTS
  ChannelIds,
  Ids,          \* receivers
  Msgs,         \* messages, Notice among them
  Notice,
  Lists         \* lists of channels to subscribe to

VARIABLES
  state,        \* receiver -> "new", "in" or "out"
  subscribed,   \* receiver -> its subscriptions: <<ch, n>>, the n-th it has to ch
  waits,        \* receiver -> channels it waits for
  owed          \* receiver -> message -> copies it is owed

vars == <<state, subscribed, waits, owed>>

Enter(i) == state[i] = "new" /\ state' = [state EXCEPT ![i] = "in"]

\* How often ch is in the list.
Count(list, ch) == Cardinality({k \in DOMAIN list : list[k] = ch})

\* What subscribing to a list comes to.
Subscriptions(list) ==
  UNION {{ch} \X (1 .. Count(list, ch)) : ch \in ChannelIds}

\* How many copies of a notice a list of subscriptions makes for receiver j.
Notices(j, list) == Cardinality({k \in DOMAIN list : list[k] \in waits[j]})

Join(i, list) ==
  /\ Enter(i)
  /\ subscribed' = [subscribed EXCEPT ![i] = Subscriptions(list)]
  /\ owed' = [j \in Ids |-> [owed[j] EXCEPT ![Notice] = @ + Notices(j, list)]]
  /\ UNCHANGED waits

Await(i, ch) ==
  /\ Enter(i)
  /\ waits' = [waits EXCEPT ![i] = {ch}]
  /\ UNCHANGED <<subscribed, owed>>

Leave(i, chs) ==
  /\ subscribed' = [subscribed EXCEPT ![i] = {s \in @ : s[1] \notin chs}]
  /\ UNCHANGED <<state, waits, owed>>

Publish(m, chs) ==
  /\ owed' = [i \in Ids |-> [owed[i] EXCEPT ![m] =
               @ + Cardinality({s \in subscribed[i] : s[1] \in chs})]]
  /\ UNCHANGED <<state, subscribed, waits>>

\* A message for one receiver, from a holder of its sender.
Whisper(m, i) ==
  /\ state[i] = "in"
  /\ owed' = [owed EXCEPT ![i][m] = @ + 1]
  /\ UNCHANGED <<state, subscribed, waits>>

Take(i, m) ==
  /\ owed[i][m] > 0 /\ owed' = [owed EXCEPT ![i][m] = @ - 1]
  /\ UNCHANGED <<state, subscribed, waits>>

Quit(i) ==
  /\ state[i] = "in" /\ state' = [state EXCEPT ![i] = "out"]
  /\ subscribed' = [subscribed EXCEPT ![i] = {}]
  /\ waits' = [waits EXCEPT ![i] = {}]
  /\ owed' = [owed EXCEPT ![i] = [m \in Msgs |-> 0]]

\* The end of the hub: nobody is subscribed and nobody waits; what is owed stays.
Close ==
  /\ subscribed' = [i \in Ids |-> {}]
  /\ waits' = [i \in Ids |-> {}]
  /\ UNCHANGED <<state, owed>>

Init ==
  /\ state = [i \in Ids |-> "new"]
  /\ subscribed = [i \in Ids |-> {}]
  /\ waits = [i \in Ids |-> {}]
  /\ owed = [i \in Ids |-> [m \in Msgs |-> 0]]

Next == Close \/ \E i \in Ids :
  \/ Quit(i)
  \/ \E list \in Lists : Join(i, list)
  \/ \E ch \in ChannelIds : Await(i, ch)
  \/ \E chs \in SUBSET ChannelIds : Leave(i, chs)
  \/ \E m \in Msgs : Take(i, m)
  \/ \E m \in Msgs \ {Notice} :
       Whisper(m, i) \/ \E chs \in SUBSET ChannelIds : Publish(m, chs)

Spec == Init /\ [][Next]_vars
=============================================================================
