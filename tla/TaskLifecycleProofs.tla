------------------------- MODULE TaskLifecycleProofs -------------------------
(***************************************************************************)
(* The task forge implements module TaskLifecycle, for every number of     *)
(* clients, ids, redirections and tasks; and what it has seen end and has  *)
(* forgotten when it answers a cleaning.                                   *)
(***************************************************************************)
EXTENDS TaskForgeProofs

-----------------------------------------------------------------------------
(* The waiters.                                                            *)

\* A waiter is known in one place: in the senders of the id it waits for, among
\* those new_task is about to notify of it, or by the notice in its channel
\* (which is why a channel of capacity one has room for it); and only while it
\* receives.
WaitersApart ==
  /\ (\A c \in Clients : pc[c] # "notify") => notifying = {}
  /\ \A c \in Clients :
       /\ c \in notified \/ c \in notifying =>
            pc[c] = "recv" /\ \A id \in Ids : c \notin task_creation_senders[id]
       /\ ~(c \in notified /\ c \in notifying)
       /\ c \in notifying => \A d \in Clients :
            pc[d] = "notify" => call[d].id = call[c].id
       /\ \A id \in Ids : c \in task_creation_senders[id] =>
            pc[c] = "recv" /\ call[c].id = id

\* The variables the refinement mapping reads, but for the calls.
mapped == <<forge, task_states, task_creation_senders, notified, notifying,
            cleaning_notifier, cleaner, log>>

\* A call changes at most from a stage at which it neither waits nor notifies,
\* and not to one at which it notifies.
CallsAside == \A d \in Clients :
  \/ pc'[d] = pc[d] /\ call'[d] = call[d]
  \/ pc[d] \notin {"recv", "notify"} /\ pc'[d] # "notify"

\* Every step but these leaves what is mapped alone.
LEMMA MappedFrame ==
  ASSUME IInv, [Next]_vars
  PROVE  \/ UNCHANGED mapped /\ CallsAside
         \/ \E c \in Clients : \/ MarkRunning(c) \/ NotifyWaiter(c) \/ BeginTask(c)
                               \/ WaitForTaskCreation(c) \/ RecvCreation(c)
                               \/ Clean(c) \/ DropCleaner(c)
                               \/ (Cancel(c) /\ (CancelWait(c) \/ CancelNotify(c)))
         \/ CloseTask \/ ClearForge
<1> USE DEF mapped, forgeVars, registry, waitVars, callVars, clientVars, world,
            outputVars, CallsAside
<1>0. pc \in [Clients -> Stages] /\ call \in [Clients -> Call \cup {None}]
  BY DEF IInv, TypeOK, ClientTypeOK
<1>1. ASSUME NEW c \in Clients, ClientStep(c)
      PROVE  \/ UNCHANGED mapped /\ CallsAside
             \/ MarkRunning(c) \/ NotifyWaiter(c) \/ BeginTask(c)
             \/ WaitForTaskCreation(c) \/ RecvCreation(c) \/ Clean(c)
  <2>1. CASE RejectNewTask(c) \/ SendNoTask(c) \/ IsEmpty(c) \/ NewResultRedirection(c)
    BY <1>0, <2>1 DEF RejectNewTask, SendNoTask, IsEmpty, NewResultRedirection,
                      MaySend, AtLock, Return
  <2>2. CASE SendAfterWait(c) \/ Send(c)
    BY <1>0, <2>2 DEF SendAfterWait, Send, MaySend, AtLock, Goto
  <2>3. CASE SendToInbox(c)
    BY <1>0, <2>3 DEF SendToInbox, Return
  <2>4. QED BY <1>1, <2>1, <2>2, <2>3 DEF ClientStep
<1>2. ASSUME NEW c \in Clients, ClientChoice(c)
      PROVE  \/ UNCHANGED mapped /\ CallsAside
             \/ DropCleaner(c)
             \/ (Cancel(c) /\ (CancelWait(c) \/ CancelNotify(c)))
  <2>1. CASE \E r \in Call : StartCall(c, r)
    BY <1>0, <2>1 DEF StartCall
  <2>2. CASE Cancel(c)
    BY <1>0, <2>2 DEF Cancel, CancelQueued, CancelSend, Return
  <2>3. QED BY <1>2, <2>1, <2>2 DEF ClientChoice
<1>3. ASSUME NEW i \in DOMAIN tasks, TaskStep(i) PROVE UNCHANGED <<mapped, pc, call>>
  BY <1>3 DEF TaskStep, TaskRecv, TaskOutput, TaskOutputSent, TaskCloseInbox,
              TaskExit, SetTask
<1>4. ASSUME ListenerStep
      PROVE  UNCHANGED <<mapped, pc, call>> \/ CloseTask \/ ClearForge
  BY <1>4 DEF ListenerStep, ListenerRecv, RefuseOutput, BroadcastSend,
              PruneSender, EndBroadcast, ReportError, Listen
<1>5. ASSUME \/ DrainError \/ DropErrorReceiver
             \/ \E s \in Subs : Receive(s) \/ DropReceiver(s)
             \/ UNCHANGED vars
      PROVE  UNCHANGED <<mapped, pc, call>>
  BY <1>5 DEF DrainError, DropErrorReceiver, Receive, DropReceiver, vars
<1>6. CASE UNCHANGED <<mapped, pc, call>>
  BY <1>6
<1>7. QED BY <1>1, <1>2, <1>3, <1>4, <1>5, <1>6 DEF Next

\* A step leaves each waiter known in one place.
LEMMA WaitersStep == IInv /\ WaitersApart /\ [Next]_vars => WaitersApart'
<1> SUFFICES ASSUME IInv, WaitersApart, [Next]_vars PROVE WaitersApart'
  OBVIOUS
<1>0. /\ pc \in [Clients -> Stages] /\ notified \subseteq Clients
      /\ notifying \subseteq Clients \cup {Dead} /\ Dead \notin Clients
      /\ task_creation_senders \in [Ids -> SUBSET (Clients \cup {Dead})]
      /\ call \in [Clients -> Call \cup {None}]
  BY ConstantsAssumption DEF IInv, TypeOK, ForgeTypeOK, ClientTypeOK
<1>1. CASE UNCHANGED mapped /\ CallsAside
  BY <1>0, <1>1 DEF mapped, CallsAside, WaitersApart
<1>2. ASSUME NEW c \in Clients, MarkRunning(c) PROVE WaitersApart'
  <2>1. call[c].id \in Ids /\ pc[c] = "lock"
    BY <1>2, CallArguments DEF MarkRunning, AtLock, TaskOps, IInv, Calls
  <2>2. \A d \in Clients : pc[d] # "notify"
    BY <1>2, ServedProperties, ConstantsAssumption
    DEF MarkRunning, StartWrite, IInv, TypeOK, Exclusion
  <2>3. QED BY <1>0, <1>2, <2>1, <2>2 DEF MarkRunning, WithoutWaiters, WaitersApart
<1>3. ASSUME NEW c \in Clients, NotifyWaiter(c) PROVE WaitersApart'
  BY <1>0, <1>3 DEF NotifyWaiter, WaitersApart, forgeVars, registry
<1>4. ASSUME NEW c \in Clients, BeginTask(c) PROVE WaitersApart'
  BY <1>0, <1>4 DEF BeginTask, Return, waitVars, WaitersApart
<1>5. ASSUME NEW c \in Clients, WaitForTaskCreation(c) PROVE WaitersApart'
  <2>1. call[c].id \in Ids /\ pc[c] = "lock"
    BY <1>5, CallArguments DEF WaitForTaskCreation, AtLock, TaskOps, IInv, Calls
  <2>2. QED
    BY <1>0, <1>5, <2>1 DEF WaitForTaskCreation, Created, Return, Goto,
                            NewTaskNotifReceiver, waitVars, WaitersApart
<1>6. ASSUME NEW c \in Clients, RecvCreation(c) PROVE WaitersApart'
  BY <1>0, <1>6 DEF RecvCreation, Created, Return, Goto, Awaiting, forgeVars,
                    registry, WaitersApart
<1>7. ASSUME NEW c \in Clients, Clean(c) PROVE WaitersApart'
  BY <1>0, <1>7 DEF Clean, AtLock, ForgetTasks, Return, waitVars, WaitersApart
<1>8. ASSUME NEW c \in Clients, Cancel(c), CancelWait(c) PROVE WaitersApart'
  BY <1>0, <1>8 DEF Cancel, CancelWait, Bury, Return, WaitersApart
<1>9. ASSUME NEW c \in Clients, Cancel(c), CancelNotify(c) PROVE WaitersApart'
  BY <1>0, <1>9 DEF Cancel, CancelNotify, Return, forgeVars, registry, WaitersApart
<1>10. ASSUME ClearForge PROVE WaitersApart'
  BY <1>0, <1>10 DEF ClearForge, EndTask, ForgetTasks, callVars, waitVars,
                     WaitersApart
<1>11. ASSUME CloseTask \/ \E c \in Clients : DropCleaner(c)
       PROVE  UNCHANGED <<task_creation_senders, notified, notifying, pc, call>>
  BY <1>11 DEF CloseTask, EndTask, DropCleaner, forgeVars, registry, callVars,
               waitVars
<1>12. CASE UNCHANGED <<task_creation_senders, notified, notifying, pc, call>>
  BY <1>12 DEF WaitersApart
<1>13. QED
  BY MappedFrame, <1>1, <1>2, <1>3, <1>4, <1>5, <1>6, <1>7, <1>8, <1>9, <1>10,
     <1>11, <1>12

-----------------------------------------------------------------------------
(* The refinement.                                                         *)

\* The states of the ids and the clients told, as the promise sees them.
StateOf == [id \in Ids |-> IF Lost(id) THEN "Lost" ELSE task_states[id]]
Notices == notified \cup (notifying \ {Dead})
ToldOf  == [id \in Ids |-> {c \in Notices : call[c].id = id}]

\* What touches neither the maps nor a call that notifies changes no state.
LEMMA StateSame ==
  ASSUME UNCHANGED <<forge, task_states>>,
         \A d \in Clients : \/ pc'[d] = pc[d] /\ call'[d] = call[d]
                            \/ pc[d] # "notify" /\ pc'[d] # "notify"
  PROVE  UNCHANGED StateOf
<1>1. ASSUME NEW id PROVE Lost(id)' <=> Lost(id)
  BY DEF Lost
<1>2. QED BY <1>1 DEF StateOf

\* What touches neither the notices nor a call that waits leaves those told.
LEMMA ToldSame ==
  ASSUME IInv, WaitersApart, UNCHANGED Notices,
         \A d \in Clients : pc[d] = "recv" => call'[d] = call[d]
  PROVE  UNCHANGED ToldOf
<1>1. \A c \in Notices : call'[c] = call[c]
  <2>1. Notices \subseteq Clients
    BY DEF IInv, TypeOK, ClientTypeOK, Notices
  <2>2. QED BY <2>1 DEF WaitersApart, Notices
<1>2. QED BY <1>1 DEF ToldOf

\* When the lock is granted for writing nobody is between the two inserts of
\* new_task: an id is Running for the promise exactly if its sender is held.
LEMMA RunningMeansHeld ==
  ASSUME IInv, NEW p, Served(p, "write")
  PROVE  /\ \A c \in Clients : pc[c] # "notify"
         /\ \A id \in Ids : /\ StateOf[id] = "Running" <=> forge[id] # NoTask
                            /\ task_states[id] # "Running" => StateOf[id] = task_states[id]
                            /\ task_states[id] = "Running" /\ forge[id] = NoTask <=> Lost(id)
<1>1. \A c \in Clients : pc[c] # "notify"
  BY ServedProperties, ConstantsAssumption DEF IInv, TypeOK, Exclusion
<1>2. QED BY <1>1 DEF IInv, SendersMatchStates, Lost, StateOf

\* So the end of a task closes its id and changes no other ...
LEMMA EndClosed ==
  ASSUME IInv, EndTask
  PROVE  /\ ending.id \in Ids
         /\ StateOf[ending.id] \in {"Running", "Lost"}
         /\ Lifecycle!Closed(ending.id) = [StateOf EXCEPT ![ending.id] = "Closed"]
         /\ \A id \in Ids : id # ending.id =>
              Lifecycle!Closed(ending.id)[id] = StateOf[id]
<1>1. ending.id \in Ids
  BY DEF EndTask, IInv, Broadcasting, Output
<1>2. StateOf[ending.id] \in {"Running", "Lost"}
  BY <1>1 DEF EndTask, Accepts, StateOf
<1>3. Lifecycle!Closed(ending.id) = [StateOf EXCEPT ![ending.id] = "Closed"]
  BY DEF Lifecycle!Closed, StateOf
<1>4. QED BY <1>1, <1>2, <1>3 DEF StateOf

\* ... and the listener's should_clear is the promise's Satisfied.
LEMMA ClearsWhenSatisfied ==
  ASSUME IInv, EndTask
  PROVE  ShouldClear(WithoutTask(ending.id), WithClosed(ending.id))
           <=> Lifecycle!Satisfied(Lifecycle!Closed(ending.id))
<1> DEFINE closed == Lifecycle!Closed(ending.id)
<1>1. /\ forge \in [Ids -> 0 .. Len(tasks)]
      /\ task_states \in [Ids -> {"None", "Running", "Closed"}]
  BY DEF IInv, TypeOK, ForgeTypeOK
<1>2. \A id \in Ids : /\ StateOf[id] = "Running" <=> forge[id] # NoTask
                      /\ StateOf[id] # "None" <=> task_states[id] # "None"
  <2>1. \A id \in Ids : StateOf[id] # "None" <=> task_states[id] # "None"
    BY DEF StateOf, Lost
  <2>2. QED BY <2>1, RunningMeansHeld DEF EndTask, StartWrite
<1>3. /\ ending.id \in Ids
      /\ closed = [StateOf EXCEPT ![ending.id] = "Closed"]
      /\ DOMAIN StateOf = Ids
  BY EndClosed DEF StateOf
<1> HIDE DEF closed
<1>4. \A id \in Ids : /\ WithoutTask(ending.id)[id] = NoTask <=> closed[id] # "Running"
                      /\ WithClosed(ending.id)[id] # "None" <=> closed[id] # "None"
  BY <1>1, <1>2, <1>3 DEF WithoutTask, WithClosed
<1>5. {id \in Ids : WithClosed(ending.id)[id] # "None"} = {id \in Ids : closed[id] # "None"}
  BY <1>4
<1>6. \A S : Lifecycle!Cardinality(S) = Cardinality(S)
  BY DEF Cardinality, Lifecycle!Cardinality
<1>7. QED BY <1>4, <1>5, <1>6 DEF ShouldClear, Lifecycle!Satisfied, closed

\* The ids of a log with one more event are those of the log and one more.
LEMMA AppendedId ==
  ASSUME NEW s \in Seq(Event), NEW e \in Event
  PROVE  [k \in DOMAIN Append(s, e) |-> Append(s, e)[k].id]
           = Append([k \in DOMAIN s |-> s[k].id], e.id)
<1> DEFINE ids == [k \in DOMAIN s |-> s[k].id]
           left == [k \in DOMAIN Append(s, e) |-> Append(s, e)[k].id]
<1>1. /\ Len(s) \in Nat /\ DOMAIN s = 1 .. Len(s)
      /\ Append(s, e) \in Seq(Event) /\ Len(Append(s, e)) = Len(s) + 1
      /\ \A k \in 1 .. Len(s) : Append(s, e)[k] = s[k] /\ s[k] \in Event
      /\ Append(s, e)[Len(s) + 1] = e
  OBVIOUS
<1>2. ids \in Seq(Ids) /\ Len(ids) = Len(s)
  <2>1. \A k \in 1 .. Len(s) : s[k].id \in Ids
    BY <1>1 DEF Event
  <2>2. ids \in [1 .. Len(s) -> Ids]
    BY <1>1, <2>1
  <2>3. QED BY <1>1, <2>2, LenProperties, SeqDef
<1>3. e.id \in Ids
  BY DEF Event
<1>4. /\ Append(ids, e.id) \in Seq(Ids) /\ Len(Append(ids, e.id)) = Len(s) + 1
      /\ \A k \in 1 .. Len(s) : Append(ids, e.id)[k] = ids[k]
      /\ Append(ids, e.id)[Len(s) + 1] = e.id
  <2> HIDE DEF ids
  <2>1. QED BY <1>2, <1>3
<1>5. DOMAIN left = 1 .. Len(s) + 1 /\ DOMAIN Append(ids, e.id) = 1 .. Len(s) + 1
  BY <1>1, <1>4
<1>6. \A k \in 1 .. Len(s) + 1 : left[k] = Append(ids, e.id)[k]
  <2> TAKE k \in 1 .. Len(s) + 1
  <2>1. left[k] = Append(s, e)[k].id
    BY <1>1
  <2>2. CASE k = Len(s) + 1
    BY <1>1, <1>4, <2>1, <2>2
  <2>3. CASE k \in 1 .. Len(s)
    BY <1>1, <1>4, <2>1, <2>3
  <2>4. QED BY <1>1, <2>2, <2>3
<1>7. left = Append(ids, e.id)
  <2>1. left = [k \in 1 .. Len(s) + 1 |-> left[k]]
    BY <1>5
  <2>2. Append(ids, e.id) = [k \in 1 .. Len(s) + 1 |-> Append(ids, e.id)[k]]
    BY <1>4, <1>5
  <2> HIDE DEF left, ids
  <2>3. QED BY <1>6, <2>1, <2>2
<1>8. QED BY <1>7

\* The initial state of the forge is that of the promise.
LEMMA LifecycleInit == Init => Lifecycle!Init
<1> SUFFICES ASSUME Init PROVE Lifecycle!Init
  OBVIOUS
<1>1. [k \in DOMAIN log |-> log[k].id] = << >>
  BY DEF Init
<1>2. [id \in Ids |-> task_creation_senders[id] \ {Dead}] = [id \in Ids |-> {}]
  BY DEF Init
<1>3. {c \in Clients : cleaner[c] = "waiting"} = {}
  BY DEF Init
<1>4. ToldOf = [id \in Ids |-> {}]
  BY DEF Init, ToldOf, Notices
<1>5. StateOf = [id \in Ids |-> "None"]
  BY DEF Init, StateOf, Lost
<1>6. QED
  BY <1>1, <1>2, <1>3, <1>4, <1>5
  DEF Init, Lifecycle!Init, None, StateOf, ToldOf, Notices

\* Every step of the forge is a step of the promise or leaves it as it is.
LEMMA LifecycleStep ==
  ASSUME IInv, WaitersApart, [Next]_vars
  PROVE  [Lifecycle!Next]_Lifecycle!vars
<1> DEFINE Waiting   == [id \in Ids |-> task_creation_senders[id] \ {Dead}]
           Listening == {c \in Clients : cleaner[c] = "waiting"}
           Announced == [k \in DOMAIN log |-> log[k].id]

<1>0. /\ notified \subseteq Clients /\ notifying \subseteq Clients \cup {Dead}
      /\ task_creation_senders \in [Ids -> SUBSET (Clients \cup {Dead})]
      /\ cleaner \in [Clients -> {"none", "waiting", "notified", "orphaned"}]
      /\ cleaning_notifier \in Notifier \cup {None}
      /\ task_states \in [Ids -> {"None", "Running", "Closed"}]
      /\ forge \in [Ids -> 0 .. Len(tasks)]
      /\ pc \in [Clients -> Stages] /\ call \in [Clients -> Call \cup {None}]
      /\ Dead \notin Clients
  BY ConstantsAssumption DEF IInv, TypeOK, ForgeTypeOK, ClientTypeOK

<1>1. CASE UNCHANGED StateOf /\ UNCHANGED ToldOf
           /\ UNCHANGED <<Waiting, cleaning_notifier, Listening, Announced>>
  BY <1>1 DEF Lifecycle!vars, Lifecycle!taskVars, Lifecycle!cleanVars, StateOf,
              ToldOf, Notices
<1>2. ASSUME UNCHANGED mapped, CallsAside
      PROVE  /\ UNCHANGED StateOf /\ UNCHANGED ToldOf
             /\ UNCHANGED <<Waiting, cleaning_notifier, Listening, Announced>>
  <2>1. UNCHANGED StateOf
    BY <1>2, StateSame DEF mapped, CallsAside
  <2>2. UNCHANGED ToldOf
    BY <1>2, ToldSame DEF mapped, CallsAside, Notices
  <2>3. QED BY <1>2, <2>1, <2>2 DEF mapped
<1>3. ASSUME NEW c \in Clients, MarkRunning(c) PROVE \E id \in Ids : Lifecycle!Start(id)
  <2>1. PICK id \in Ids : id = call[c].id
    BY <1>3, CallArguments DEF MarkRunning, AtLock, TaskOps, IInv, Calls
  <2>2. Served(c, "write") /\ pc[c] = "lock" /\ task_states[id] # "Running"
    BY <1>3, <2>1 DEF MarkRunning, StartWrite, AtLock, AlreadyRunning
  <2>3. (\A d \in Clients : pc[d] # "notify") /\ notifying = {}
    BY <2>2, RunningMeansHeld DEF WaitersApart
  <2>4. /\ pc' = [pc EXCEPT ![c] = "notify"] /\ UNCHANGED <<call, forge>>
        /\ task_states' = [task_states EXCEPT ![id] = "Running"]
        /\ notifying' = task_creation_senders[id] /\ UNCHANGED notified
    BY <1>3, <2>1 DEF MarkRunning
  <2>5. StateOf' = [StateOf EXCEPT ![id] = "Running"]
    <3>1. ~Lost(id)'
      BY <1>0, <2>1, <2>4 DEF Lost
    <3>2. \A other \in Ids \ {id} : Lost(other)' <=> Lost(other)
      BY <1>0, <2>1, <2>3, <2>4 DEF Lost
    <3>3. QED BY <1>0, <2>4, <3>1, <3>2 DEF StateOf
  <2>6. ToldOf' = [ToldOf EXCEPT ![id] = @ \cup Waiting[id]]
    <3>1. Notices' = Notices \cup Waiting[id]
      BY <2>3, <2>4 DEF Notices
    <3>2. \A d \in Waiting[id] : call[d].id = id
      BY <1>0 DEF WaitersApart
    <3>3. QED BY <2>4, <3>1, <3>2 DEF ToldOf
  <2>7. Waiting' = [Waiting EXCEPT ![id] = {}]
    BY <1>0, <1>3, <2>1 DEF MarkRunning, WithoutWaiters
  <2>8. UNCHANGED <<cleaning_notifier, Listening, Announced>>
    BY <1>3 DEF MarkRunning, world, outputVars
  <2>9. StateOf[id] \in {"None", "Closed"}
    BY <1>0, <2>2 DEF StateOf, Lost
  <2>10. Lifecycle!Start(id)
    BY <2>5, <2>6, <2>7, <2>8, <2>9
    DEF Lifecycle!Start, Lifecycle!cleanVars, StateOf, ToldOf, Notices
  <2>11. QED BY <2>10
<1>4. ASSUME NEW c \in Clients, NotifyWaiter(c)
      PROVE  /\ UNCHANGED StateOf /\ UNCHANGED ToldOf
             /\ UNCHANGED <<Waiting, cleaning_notifier, Listening, Announced>>
  <2>1. UNCHANGED <<forge, task_states, pc, call, Waiting, cleaning_notifier,
                    Listening, Announced>>
    BY <1>4 DEF NotifyWaiter, forgeVars, registry, world, outputVars
  <2>2. UNCHANGED Notices
    BY <1>0, <1>4 DEF NotifyWaiter, Notices
  <2>3. QED BY <2>1, <2>2, StateSame, ToldSame
<1>5. ASSUME NEW c \in Clients, BeginTask(c)
      PROVE  /\ UNCHANGED StateOf /\ UNCHANGED ToldOf
             /\ UNCHANGED <<Waiting, cleaning_notifier, Listening, Announced>>
  <2>1. /\ UNCHANGED <<task_states, Waiting, cleaning_notifier, Listening, Announced>>
        /\ UNCHANGED <<notified, notifying>>
        /\ Return(c, ret[c]) /\ pc[c] = "notify"
        /\ forge' = [forge EXCEPT ![call[c].id] = Len(tasks) + 1]
    BY <1>5 DEF BeginTask, waitVars, outputVars
  <2>2. UNCHANGED ToldOf
    BY <1>0, <2>1, ToldSame DEF Return, Notices
  <2>3. ASSUME NEW id \in Ids PROVE Lost(id)' <=> Lost(id)
    <3>1. \A d \in Clients : pc[d] = "notify" => d = c
      BY <2>1 DEF IInv, Exclusion
    <3>2. CASE id = call[c].id
      <4>1. Len(tasks) + 1 # NoTask
        BY DEF IInv, TypeOK, NoTask
      <4>2. QED BY <1>0, <2>1, <3>2, <4>1 DEF Lost
    <3>3. CASE id # call[c].id
      BY <1>0, <2>1, <3>1, <3>3 DEF Lost, Return
    <3>4. QED BY <3>2, <3>3
  <2>4. UNCHANGED StateOf
    BY <2>1, <2>3 DEF StateOf
  <2>5. QED BY <2>1, <2>2, <2>4
<1>6. ASSUME NEW c \in Clients, WaitForTaskCreation(c)
      PROVE  \/ \E id \in Ids : Lifecycle!Wait(c, id)
             \/ /\ UNCHANGED StateOf /\ UNCHANGED ToldOf
                /\ UNCHANGED <<Waiting, cleaning_notifier, Listening, Announced>>
  <2>1. PICK id \in Ids : id = call[c].id
    BY <1>6, CallArguments DEF WaitForTaskCreation, AtLock, TaskOps, IInv, Calls
  <2>2. /\ UNCHANGED <<forge, task_states, Notices, cleaning_notifier, Listening,
                       Announced>>
        /\ pc[c] = "lock"
        /\ \A d \in Clients \ {c} : pc'[d] = pc[d] /\ call'[d] = call[d]
        /\ pc'[c] # "notify"
    BY <1>0, <1>6 DEF WaitForTaskCreation, AtLock, Created, Return, Goto, waitVars,
                      world, outputVars, Notices
  <2>3. UNCHANGED StateOf
    BY <2>2, StateSame
  <2>4. UNCHANGED ToldOf
    BY <2>2, ToldSame
  <2>5. CASE NotCreated(id) /\ NewTaskNotifReceiver(c, id)
    <3>1. Waiting' = [Waiting EXCEPT ![id] = @ \cup {c}]
      BY <1>0, <2>1, <2>5 DEF NewTaskNotifReceiver
    <3>2. StateOf[id] = "None"
      BY <2>5 DEF NotCreated, StateOf, Lost
    <3>3. Lifecycle!Wait(c, id)
      BY <2>2, <2>3, <2>4, <3>1, <3>2
      DEF Lifecycle!Wait, Lifecycle!cleanVars, StateOf, ToldOf, Notices
    <3>4. QED BY <2>1, <3>3
  <2>6. CASE UNCHANGED task_creation_senders
    BY <2>2, <2>3, <2>4, <2>6
  <2>7. QED BY <1>6, <2>1, <2>5, <2>6 DEF WaitForTaskCreation
<1>7. ASSUME NEW c \in Clients, pc[c] = "recv", pc'[c] # "notify",
             \A d \in Clients \ {c} : pc'[d] = pc[d] /\ call'[d] = call[d],
             Notices' = Notices \ {c}
      PROVE  ToldOf' = [id \in Ids |-> ToldOf[id] \ {c}]
  <2>1. \A d \in Notices' : call'[d] = call[d]
    BY <1>0, <1>7 DEF Notices
  <2>2. QED BY <1>7, <2>1 DEF ToldOf
<1>8. ASSUME NEW c \in Clients, RecvCreation(c) PROVE Lifecycle!StopWaiting(c)
  <2>1. /\ pc[c] = "recv" /\ pc'[c] # "notify"
        /\ \A d \in Clients \ {c} : pc'[d] = pc[d] /\ call'[d] = call[d]
        /\ UNCHANGED <<forge, task_states, Waiting, cleaning_notifier, Listening,
                       Announced>>
    BY <1>0, <1>8 DEF RecvCreation, Created, Return, Goto, forgeVars, registry,
                      world, outputVars
  <2>2. Notices' = Notices \ {c}
    BY <1>8 DEF RecvCreation, Awaiting, WaitersApart, Notices
  <2>3. ToldOf' = [id \in Ids |-> ToldOf[id] \ {c}]
    BY <1>7, <2>1, <2>2
  <2>4. UNCHANGED StateOf
    BY <2>1, StateSame
  <2>5. QED
    BY <2>1, <2>3, <2>4
    DEF Lifecycle!StopWaiting, Lifecycle!cleanVars, StateOf, ToldOf, Notices
<1>9. ASSUME NEW c \in Clients, Cancel(c), CancelWait(c)
      PROVE  Lifecycle!StopWaiting(c)
  <2>1. /\ pc[c] = "recv" /\ pc'[c] # "notify"
        /\ \A d \in Clients \ {c} : pc'[d] = pc[d] /\ call'[d] = call[d]
        /\ UNCHANGED <<forge, task_states, cleaning_notifier, Listening, Announced>>
    BY <1>0, <1>9 DEF Cancel, CancelWait, Return, world, outputVars
  <2>2. Notices' = Notices \ {c}
    BY <1>0, <1>9 DEF CancelWait, Bury, Notices
  <2>3. Waiting' = [id \in Ids |-> Waiting[id] \ {c}]
    BY <1>0, <1>9 DEF CancelWait, Bury
  <2>4. ToldOf' = [id \in Ids |-> ToldOf[id] \ {c}]
    BY <1>7, <2>1, <2>2
  <2>5. UNCHANGED StateOf
    BY <2>1, StateSame
  <2>6. QED
    BY <2>1, <2>3, <2>4, <2>5
    DEF Lifecycle!StopWaiting, Lifecycle!cleanVars, StateOf, ToldOf, Notices
<1>10. ASSUME NEW c \in Clients, Cancel(c), CancelNotify(c)
       PROVE  \E id \in Ids : Lifecycle!Abandon(id)
  <2>1. PICK id \in Ids : id = call[c].id
    BY <1>10 DEF CancelNotify, IInv, Calls
  <2>2. /\ pc[c] = "notify" /\ "notify" \in Interruptible
        /\ pc' = [pc EXCEPT ![c] = "idle"] /\ call' = [call EXCEPT ![c] = None]
        /\ notifying' = {} /\ UNCHANGED notified
        /\ UNCHANGED <<forge, task_states, Waiting, cleaning_notifier, Listening,
                       Announced>>
    BY <1>10 DEF Cancel, CancelNotify, Return, forgeVars, registry, world, outputVars
  <2>3. \A d \in Clients : pc[d] = "notify" => d = c
    BY <2>2 DEF IInv, Exclusion
  <2>4. task_states[id] = "Running" /\ forge[id] = NoTask
    BY <2>1, <2>2 DEF IInv, Calls
  <2>5. StateOf' = [StateOf EXCEPT ![id] = "Lost"] /\ StateOf[id] = "Running"
    <3>1. Lost(id)' /\ ~Lost(id)
      BY <1>0, <2>1, <2>2, <2>3, <2>4 DEF Lost
    <3>2. \A other \in Ids \ {id} : Lost(other)' <=> Lost(other)
      BY <1>0, <2>1, <2>2, <2>3 DEF Lost
    <3>3. QED BY <2>2, <2>4, <3>1, <3>2 DEF StateOf
  <2>6. PICK untold : untold = notifying \ {Dead}
    OBVIOUS
  <2>7. ToldOf' = [ToldOf EXCEPT ![id] = @ \ untold] /\ untold \in SUBSET ToldOf[id]
    <3>1. \A d \in untold : call[d].id = id /\ d \notin notified
      BY <1>0, <2>1, <2>2, <2>6 DEF WaitersApart
    <3>2. Notices' = notified /\ Notices = notified \cup untold
      BY <1>0, <2>2, <2>6 DEF Notices
    <3>3. \A d \in notified : call'[d] = call[d]
      BY <1>0, <2>2 DEF WaitersApart
    <3>4. QED BY <3>1, <3>2, <3>3 DEF ToldOf
  <2>8. Lifecycle!Abandon(id)
    BY <2>2, <2>5, <2>7
    DEF Lifecycle!Abandon, Lifecycle!cleanVars, StateOf, ToldOf, Notices
  <2>9. QED BY <2>8
<1>11. ASSUME NEW c \in Clients, Clean(c)
       PROVE  Lifecycle!CleanNow \/ \E n \in Awaited : Lifecycle!RequestClean(c, n)
  <2>1. /\ Served(c, "write") /\ UNCHANGED forge
        /\ pc[c] = "lock" /\ Return(c, "Ok") /\ UNCHANGED <<Notices, Announced>>
    BY <1>11 DEF Clean, WriteOnce, AtLock, waitVars, world, outputVars, Notices
  <2>2. /\ \A d \in Clients : pc[d] # "notify"
        /\ \A id \in Ids : StateOf[id] = "Running" <=> forge[id] # NoTask
    BY <2>1, RunningMeansHeld
  <2>3. UNCHANGED ToldOf
    BY <1>0, <2>1, ToldSame DEF Return
  <2>4. CASE Empty /\ ForgetTasks /\ UNCHANGED <<cleaning_notifier, cleaner>>
    <3>1. Waiting' = [id \in Ids |-> {}] /\ StateOf' = [id \in Ids |-> "None"]
      BY <2>4 DEF ForgetTasks, StateOf, Lost
    <3>2. \A id \in Ids : StateOf[id] # "Running"
      BY <2>2, <2>4 DEF Empty
    <3>3. Lifecycle!CleanNow
      BY <2>1, <2>3, <2>4, <3>1, <3>2
      DEF Lifecycle!CleanNow, Lifecycle!ForgetAll, Lifecycle!cleanVars, StateOf,
          ToldOf, Notices
    <3>4. QED BY <3>3
  <2>5. CASE /\ ~Empty
             /\ cleaning_notifier' = [owner |-> c, awaited |-> call[c].awaited]
             /\ cleaner' = [Orphaned EXCEPT ![c] = "waiting"]
             /\ UNCHANGED <<task_states, task_creation_senders>>
    <3>1. PICK n \in Awaited : n = call[c].awaited
      BY <1>11, CallArguments DEF Clean, AtLock, IInv, Calls
    <3>2. Listening' = {d \in Listening : \/ cleaning_notifier = None
                                         \/ d # cleaning_notifier.owner} \cup {c}
      BY <1>0, <2>5 DEF Orphaned
    <3>3. UNCHANGED StateOf
      BY <1>0, <2>1, <2>2, <2>5, StateSame DEF Return
    <3>4. \E id \in Ids : StateOf[id] = "Running"
      BY <2>2, <2>5 DEF Empty
    <3>5. UNCHANGED Waiting
      BY <2>5
    <3>6. Lifecycle!RequestClean(c, n)
      BY <2>1, <2>3, <2>5, <3>1, <3>2, <3>3, <3>4, <3>5
      DEF Lifecycle!RequestClean, Lifecycle!taskVars, StateOf, ToldOf, Notices
    <3>7. QED BY <3>6
  <2>6. QED BY <1>11, <2>4, <2>5 DEF Clean
<1>12. ASSUME NEW c \in Clients, DropCleaner(c) PROVE Lifecycle!StopListening(c)
  <2>1. Listening' = Listening \ {c}
    BY <1>0, <1>12 DEF DropCleaner
  <2>2. /\ UNCHANGED <<forge, task_states, pc, call, Notices>>
        /\ UNCHANGED <<Waiting, cleaning_notifier, Announced>>
    BY <1>12 DEF DropCleaner, forgeVars, registry, callVars, waitVars, world,
                 outputVars, Notices
  <2>3. UNCHANGED StateOf /\ UNCHANGED ToldOf
    BY <2>2, StateSame, ToldSame
  <2>4. QED
    BY <2>1, <2>2, <2>3
    DEF Lifecycle!StopListening, Lifecycle!taskVars, StateOf, ToldOf, Notices
<1>13. ASSUME EndTask
       PROVE  /\ UNCHANGED <<pc, call>> /\ UNCHANGED ToldOf
              /\ \A d \in Clients : pc[d] # "notify"
              /\ \A cleared \in BOOLEAN : StartBroadcast(cleared) =>
                   Announced' = Append(Announced, ending.id)
  <2>1. ending \in Output /\ log \in Seq(Event)
    BY <1>13 DEF EndTask, IInv, TypeOK, SubTypeOK, Broadcasting
  <2>2. UNCHANGED <<pc, call>> /\ UNCHANGED ToldOf
    <3>1. UNCHANGED <<pc, call, Notices>>
      BY <1>13 DEF EndTask, callVars, waitVars, Notices
    <3>2. QED BY <3>1, ToldSame
  <2>3. ASSUME NEW cleared \in BOOLEAN, StartBroadcast(cleared)
        PROVE  Announced' = Append(Announced, ending.id)
    <3> DEFINE event == [id |-> ending.id, task |-> ending.task,
                         has_cleared |-> cleared]
    <3>1. event \in Event /\ event.id = ending.id
      BY <2>1 DEF Output, Event
    <3>2. log' = Append(log, event)
      BY <2>3 DEF StartBroadcast
    <3> HIDE DEF event
    <3>3. [k \in DOMAIN Append(log, event) |-> Append(log, event)[k].id]
            = Append(Announced, event.id)
      BY <2>1, <3>1, AppendedId
    <3>4. QED BY <3>1, <3>2, <3>3
  <2>4. \A d \in Clients : pc[d] # "notify"
    BY <1>13, RunningMeansHeld DEF EndTask, StartWrite
  <2>5. QED BY <2>2, <2>3, <2>4
<1>14. ASSUME CloseTask PROVE \E id \in Ids : Lifecycle!Finish(id)
  <2>1. EndTask /\ StartBroadcast(FALSE) /\ task_states' = WithClosed(ending.id)
    BY <1>14 DEF CloseTask
  <2>2. PICK id \in Ids : id = ending.id
    BY <2>1, EndClosed
  <2>3. StateOf[id] \in {"Running", "Lost"} /\ ~Lifecycle!Satisfied(Lifecycle!Closed(id))
    BY <1>14, <2>1, <2>2, EndClosed, ClearsWhenSatisfied DEF CloseTask
  <2>4. UNCHANGED <<Waiting, cleaning_notifier, Listening>>
    BY <1>14 DEF CloseTask
  <2>5. StateOf' = Lifecycle!Closed(id)
    <3>1. forge' = [forge EXCEPT ![id] = NoTask]
          /\ task_states' = [task_states EXCEPT ![id] = "Closed"]
      BY <2>1, <2>2 DEF EndTask, WithoutTask, WithClosed
    <3>2. ~Lost(id)'
      BY <1>0, <3>1 DEF Lost
    <3>3. \A other \in Ids \ {id} : Lost(other)' <=> Lost(other)
      BY <1>0, <1>13, <2>1, <3>1 DEF Lost
    <3>4. StateOf' = [StateOf EXCEPT ![id] = "Closed"]
      BY <1>0, <3>1, <3>2, <3>3 DEF StateOf
    <3>5. QED BY <2>1, <2>2, <3>4, EndClosed
  <2>6. Announced' = Append(Announced, id) /\ UNCHANGED ToldOf
    BY <1>13, <2>1, <2>2
  <2>7. Lifecycle!Finish(id)
    BY <2>3, <2>4, <2>5, <2>6
    DEF Lifecycle!Finish, Lifecycle!cleanVars, StateOf, ToldOf, Notices
  <2>8. QED BY <2>7
<1>15. ASSUME ClearForge PROVE \E id \in Ids : Lifecycle!FinishAll(id)
  <2> DEFINE owner == cleaning_notifier.owner
  <2>1. EndTask /\ ForgetTasks /\ cleaning_notifier' = None
    BY <1>15 DEF ClearForge
  <2>2. owner \in Clients
    BY <1>0, <1>15 DEF ClearForge, ShouldClear, Notifier
  <2>3. PICK id \in Ids : id = ending.id
    BY <2>1, EndClosed
  <2>4. StateOf[id] \in {"Running", "Lost"} /\ Lifecycle!Satisfied(Lifecycle!Closed(id))
    BY <1>15, <2>1, <2>3, EndClosed, ClearsWhenSatisfied DEF ClearForge
  <2>5. /\ Listening' = Listening \ {owner}
        /\ Announced' = IF owner \in Listening THEN Append(Announced, id)
                                                ELSE Announced
    <3>1. CASE /\ cleaner[owner] = "waiting"
               /\ cleaner' = [cleaner EXCEPT ![owner] = "notified"]
               /\ StartBroadcast(TRUE)
      BY <1>0, <1>13, <2>1, <2>2, <2>3, <3>1
    <3>2. CASE cleaner[owner] # "waiting" /\ UNCHANGED <<cleaner, log>>
      BY <2>2, <3>2
    <3>3. QED BY <1>15, <3>1, <3>2 DEF ClearForge
  <2>6. Waiting' = [other \in Ids |-> {}] /\ StateOf' = [other \in Ids |-> "None"]
    BY <2>1 DEF ForgetTasks, StateOf, Lost
  <2>7. UNCHANGED ToldOf
    BY <1>13, <2>1
  <2>8. Lifecycle!FinishAll(id)
    BY <2>1, <2>4, <2>5, <2>6, <2>7
    DEF Lifecycle!FinishAll, Lifecycle!ForgetAll, StateOf, ToldOf, Notices
  <2>9. QED BY <2>8
<1>16. ASSUME \/ CloseTask \/ ClearForge
              \/ \E c \in Clients :
                   \/ MarkRunning(c) \/ RecvCreation(c) \/ Clean(c) \/ DropCleaner(c)
                   \/ (Cancel(c) /\ (CancelWait(c) \/ CancelNotify(c)))
       PROVE  Lifecycle!Next
  BY <1>3, <1>8, <1>9, <1>10, <1>11, <1>12, <1>14, <1>15, <1>16 DEF Lifecycle!Next
<1>17. ASSUME NEW c \in Clients, WaitForTaskCreation(c)
       PROVE  [Lifecycle!Next]_Lifecycle!vars
  BY <1>1, <1>6, <1>17 DEF Lifecycle!Next
<1>18. QED
  BY MappedFrame, <1>1, <1>2, <1>4, <1>5, <1>16, <1>17

\* Clients see the forge as one table of ids on which each call, each end of a
\* task, each abandoned creation and each cleaning is one step, whatever the
\* lock, the listener and the notices under way do in between.
THEOREM LifecycleImplemented == Spec => ImplementsLifecycle
<1>1. Init => WaitersApart
  BY DEF Init, WaitersApart
<1>2. IInv /\ WaitersApart /\ [Next]_vars => WaitersApart'
  BY WaitersStep
<1>3. IInv /\ WaitersApart /\ [Next]_vars => [Lifecycle!Next]_Lifecycle!vars
  BY LifecycleStep
<1>4. QED
  BY <1>1, <1>2, <1>3, Invariance, LifecycleInit, PTL
  DEF Spec, ImplementsLifecycle, Lifecycle!Spec

-----------------------------------------------------------------------------
(* When a cleaning is answered: what the forge has seen end by then.       *)

\* The ids whose results were announced, and those the forge has a state for.
Announced == {log[k].id : k \in DOMAIN log}
Known     == {id \in Ids : task_states[id] # "None"}

\* An id is Closed only once its result is in the log; and finitely many ids
\* have a state, so that should_clear counts them.
ClosedLogged ==
  /\ \A id \in Ids : task_states[id] = "Closed" => id \in Announced
  /\ IsFiniteSet(Known)

\* A log with one more event announces one more id; a log announces finitely
\* many.
LEMMA AnnouncedProperties ==
  ASSUME NEW l \in Seq(Event)
  PROVE  /\ IsFiniteSet({l[k].id : k \in DOMAIN l})
         /\ \A e \in Event :
              {Append(l, e)[k].id : k \in DOMAIN Append(l, e)}
                = {l[k].id : k \in DOMAIN l} \cup {e.id}
<1>1. Len(l) \in Nat /\ DOMAIN l = 1 .. Len(l)
  OBVIOUS
<1>2. IsFiniteSet({l[k].id : k \in DOMAIN l})
  <2> DEFINE ids == [k \in 1 .. Len(l) |-> l[k].id]
             S   == {l[k].id : k \in DOMAIN l}
  <2>1. IsFiniteSet(1 .. Len(l))
    BY <1>1, FS_Interval
  <2>2. ids \in Surjection(1 .. Len(l), S)
    BY <1>1 DEF Surjection
  <2>3. QED BY <2>1, <2>2, FS_Surjection
<1>3. ASSUME NEW e \in Event
      PROVE  {Append(l, e)[k].id : k \in DOMAIN Append(l, e)}
               = {l[k].id : k \in DOMAIN l} \cup {e.id}
  <2>1. /\ DOMAIN Append(l, e) = 1 .. Len(l) + 1
        /\ \A k \in 1 .. Len(l) : Append(l, e)[k] = l[k]
        /\ Append(l, e)[Len(l) + 1] = e
    OBVIOUS
  <2>2. \A k : k \in 1 .. Len(l) + 1 <=> k \in 1 .. Len(l) \/ k = Len(l) + 1
    BY <1>1
  <2>3. QED BY <1>1, <2>1, <2>2, Zenon
<1>4. QED BY <1>2, <1>3

\* The end of a task announces its id.
LEMMA BroadcastAnnounces ==
  ASSUME IInv, EndTask, NEW cleared \in BOOLEAN, StartBroadcast(cleared)
  PROVE  Announced' = Announced \cup {ending.id}
<1>1. PICK event \in Event : event.id = ending.id /\ log' = Append(log, event)
  <2>1. ending \in Output
    BY DEF EndTask, IInv, Broadcasting
  <2>2. [id |-> ending.id, task |-> ending.task, has_cleared |-> cleared] \in Event
    BY <2>1 DEF Output, Event
  <2>3. QED BY <2>2 DEF StartBroadcast
<1>2. log \in Seq(Event)
  BY DEF IInv, TypeOK, SubTypeOK
<1>3. {Append(log, event)[k].id : k \in DOMAIN Append(log, event)}
        = {log[k].id : k \in DOMAIN log} \cup {event.id}
  BY <1>2, AnnouncedProperties
<1>4. QED BY <1>1, <1>3 DEF Announced

\* A step closes an id only as it announces it, and gives a state to one id.
LEMMA ClosedLoggedStep == IInv /\ ClosedLogged /\ [Next]_vars => ClosedLogged'
<1> SUFFICES ASSUME IInv, ClosedLogged, [Next]_vars PROVE ClosedLogged'
  OBVIOUS
<1>0. task_states \in [Ids -> {"None", "Running", "Closed"}]
  BY DEF IInv, TypeOK, ForgeTypeOK
<1> USE DEF mapped, forgeVars, registry, waitVars, clientVars, callVars, world,
            outputVars
<1>1. ASSUME UNCHANGED <<task_states, log>> PROVE ClosedLogged'
  BY <1>1 DEF ClosedLogged, Announced, Known
<1>2. ASSUME NEW id \in Ids, NEW st, task_states' = [task_states EXCEPT ![id] = st]
      PROVE  IsFiniteSet(Known')
  <2>1. IsFiniteSet(Known \cup {id})
    BY FS_AddElement DEF ClosedLogged
  <2>2. Known' \in SUBSET (Known \cup {id})
    BY <1>0, <1>2 DEF Known
  <2>3. QED BY <2>1, <2>2, FS_Subset
<1>3. ASSUME NEW c \in Clients, MarkRunning(c) PROVE ClosedLogged'
  <2>1. PICK id \in Ids : id = call[c].id
    BY <1>3, CallArguments DEF MarkRunning, AtLock, TaskOps, IInv, Calls
  <2>2. task_states' = [task_states EXCEPT ![id] = "Running"] /\ UNCHANGED log
    BY <1>3, <2>1 DEF MarkRunning
  <2>3. QED BY <1>0, <1>2, <2>2 DEF ClosedLogged, Announced
<1>4. ASSUME NEW c \in Clients,
             \/ NotifyWaiter(c) \/ BeginTask(c) \/ WaitForTaskCreation(c)
             \/ RecvCreation(c) \/ DropCleaner(c)
             \/ (Cancel(c) /\ (CancelWait(c) \/ CancelNotify(c)))
      PROVE  ClosedLogged'
  BY <1>1, <1>4 DEF NotifyWaiter, BeginTask, WaitForTaskCreation, RecvCreation,
                    DropCleaner, Cancel, CancelWait, CancelNotify
<1>5. ASSUME ForgetTasks PROVE ClosedLogged'
  <2>1. Known' = {}
    BY <1>5 DEF ForgetTasks, Known
  <2>2. QED BY <1>5, <2>1, FS_EmptySet DEF ForgetTasks, ClosedLogged
<1>6. ASSUME NEW c \in Clients, Clean(c) PROVE ClosedLogged'
  BY <1>1, <1>5, <1>6 DEF Clean
<1>7. ASSUME CloseTask PROVE ClosedLogged'
  <2>1. Announced' = Announced \cup {ending.id}
    BY <1>7, BroadcastAnnounces DEF CloseTask
  <2>2. /\ task_states' = [task_states EXCEPT ![ending.id] = "Closed"]
        /\ ending.id \in Ids
    BY <1>7, EndClosed DEF CloseTask, WithClosed
  <2>3. ASSUME NEW id \in Ids, task_states'[id] = "Closed"
        PROVE  id \in Announced'
    <3>1. id = ending.id \/ task_states[id] = "Closed"
      BY <1>0, <2>2, <2>3
    <3>2. QED BY <2>1, <3>1 DEF ClosedLogged
  <2>4. QED BY <1>2, <2>2, <2>3 DEF ClosedLogged
<1>8. ASSUME ClearForge PROVE ClosedLogged'
  BY <1>5, <1>8 DEF ClearForge
<1>9. QED BY MappedFrame, <1>1, <1>3, <1>4, <1>6, <1>7, <1>8

\* Only the end of a task answers a cleaning, and only its owner's.
LEMMA WhoIsNotified ==
  ASSUME IInv, [Next]_vars, NEW c \in Clients,
         cleaner[c] = "waiting", cleaner'[c] = "notified"
  PROVE  /\ ClearForge /\ cleaning_notifier.owner = c
         /\ StartBroadcast(TRUE)
<1>0. cleaner \in [Clients -> {"none", "waiting", "notified", "orphaned"}]
  BY DEF IInv, TypeOK, ClientTypeOK
<1> USE DEF mapped, forgeVars, registry, waitVars, clientVars, callVars, world,
            outputVars
<1>1. ~UNCHANGED cleaner
  OBVIOUS
<1>2. ASSUME NEW d \in Clients,
             \/ MarkRunning(d) \/ NotifyWaiter(d) \/ BeginTask(d)
             \/ WaitForTaskCreation(d) \/ RecvCreation(d)
             \/ (Cancel(d) /\ (CancelWait(d) \/ CancelNotify(d)))
      PROVE  UNCHANGED cleaner
  BY <1>2 DEF MarkRunning, NotifyWaiter, BeginTask, WaitForTaskCreation,
              RecvCreation, Cancel
<1>3. ASSUME NEW d \in Clients, Clean(d) PROVE cleaner'[c] # "notified"
  <2>1. cleaner' = [Orphaned EXCEPT ![d] = "waiting"]
    BY <1>1, <1>3 DEF Clean
  <2>2. Orphaned[c] \in {"waiting", "orphaned"}
    BY DEF Orphaned
  <2>3. DOMAIN Orphaned = Clients
    BY DEF Orphaned
  <2>4. QED BY <2>1, <2>2, <2>3
<1>4. ASSUME NEW d \in Clients, DropCleaner(d) PROVE cleaner'[c] # "notified"
  BY <1>0, <1>4 DEF DropCleaner
<1>5. ASSUME CloseTask PROVE UNCHANGED cleaner
  BY <1>5 DEF CloseTask
<1>6. ClearForge
  BY MappedFrame, <1>1, <1>2, <1>3, <1>4, <1>5
<1>7. QED BY <1>0, <1>1, <1>6 DEF ClearForge

\* The ids a cleaning forgets have all been announced, the last one by the step
\* that forgets them, or are lost: so those are as many as it awaited.
LEMMA AwaitedAnnounced ==
  ASSUME IInv, ClosedLogged, ClearForge, StartBroadcast(TRUE),
         cleaning_notifier.awaited # NoCount
  PROVE  Cardinality(Announced' \cup {id \in Ids : Lost(id)})
           >= cleaning_notifier.awaited
<1> DEFINE known == {id \in Ids : WithClosed(ending.id)[id] # "None"}
           lost  == {id \in Ids : Lost(id)}
           ended == Announced' \cup lost
<1>0. /\ EndTask /\ ending.id \in Ids
      /\ task_states \in [Ids -> {"None", "Running", "Closed"}]
      /\ forge \in [Ids -> 0 .. Len(tasks)]
  BY DEF ClearForge, EndTask, IInv, TypeOK, ForgeTypeOK, Broadcasting, Output
<1>1. Cardinality(known) = cleaning_notifier.awaited
  BY DEF ClearForge, ShouldClear
<1>2. \A id \in Ids : WithoutTask(ending.id)[id] = NoTask
  BY DEF ClearForge, ShouldClear
<1>3. \A id \in Ids : task_states[id] = "Running" /\ forge[id] = NoTask <=> Lost(id)
  BY <1>0, RunningMeansHeld DEF EndTask, StartWrite
<1>4. Announced' = Announced \cup {ending.id}
  BY <1>0, BroadcastAnnounces
<1>5. known \subseteq ended
  <2> SUFFICES ASSUME NEW id \in Ids, WithClosed(ending.id)[id] # "None"
               PROVE  id \in Announced' \/ Lost(id)
    OBVIOUS
  <2>1. CASE id = ending.id
    BY <1>4, <2>1
  <2>2. CASE id # ending.id
    <3>1. forge[id] = NoTask
      BY <1>0, <1>2, <2>2 DEF WithoutTask
    <3>2. task_states[id] # "None"
      BY <1>0, <2>2 DEF WithClosed
    <3>3. task_states[id] = "Closed" \/ Lost(id)
      BY <1>0, <1>3, <3>1, <3>2
    <3>4. QED BY <1>4, <3>3 DEF ClosedLogged
  <2>3. QED BY <2>1, <2>2
<1>6. IsFiniteSet(ended)
  <2>1. log \in Seq(Event)
    BY DEF IInv, TypeOK, SubTypeOK
  <2>2. IsFiniteSet(Announced')
    <3>1. IsFiniteSet(Announced)
      BY <2>1, AnnouncedProperties DEF Announced
    <3>2. QED BY <1>4, <3>1, FS_AddElement
  <2>3. IsFiniteSet(lost)
    <3>1. lost \in SUBSET Known
      BY DEF Lost, Known
    <3>2. QED BY <3>1, FS_Subset DEF ClosedLogged
  <2>4. QED BY <2>2, <2>3, FS_Union
<1> HIDE DEF known, ended
<1>7. Cardinality(known) <= Cardinality(ended)
  BY <1>5, <1>6, FS_Subset
<1>8. /\ Cardinality(known) \in Nat /\ Cardinality(ended) \in Nat
  BY <1>5, <1>6, FS_Subset, FS_CardinalityType
<1>9. Cardinality(ended) >= cleaning_notifier.awaited
  BY <1>1, <1>7, <1>8
<1>10. QED BY <1>9 DEF ended

\* A cleaning receiver is notified only by the step that empties the forge and
\* forgets every state and waiter, and not before as many different ids have
\* been announced, or are lost, as the clean awaited.
THEOREM CleaningAfterAwaited == Spec => CleanedAfterAwaited
<1> DEFINE P == \A c \in Clients :
      cleaner[c] = "waiting" /\ cleaner'[c] = "notified" =>
        /\ Empty' /\ cleaning_notifier.owner = c
        /\ \A id \in Ids : task_states'[id] = "None" /\ task_creation_senders'[id] = {}
        /\ cleaning_notifier.awaited # NoCount =>
             Cardinality({log'[k].id : k \in DOMAIN log'} \cup {id \in Ids : Lost(id)})
               >= cleaning_notifier.awaited
<1>1. Init => ClosedLogged
  <2>1. Init => Known = {}
    BY DEF Init, Known
  <2>2. QED BY <2>1, FS_EmptySet DEF Init, ClosedLogged
<1>2. IInv /\ ClosedLogged /\ [Next]_vars => ClosedLogged'
  BY ClosedLoggedStep
<1>3. IInv /\ ClosedLogged /\ [Next]_vars => [P]_vars
  <2> SUFFICES ASSUME IInv, ClosedLogged, [Next]_vars, NEW c \in Clients,
                      cleaner[c] = "waiting", cleaner'[c] = "notified"
               PROVE  /\ Empty' /\ cleaning_notifier.owner = c
                      /\ \A id \in Ids : /\ task_states'[id] = "None"
                                         /\ task_creation_senders'[id] = {}
                      /\ cleaning_notifier.awaited # NoCount =>
                           Cardinality({log'[k].id : k \in DOMAIN log'}
                                         \cup {id \in Ids : Lost(id)})
                             >= cleaning_notifier.awaited
    OBVIOUS
  <2>1. /\ ClearForge /\ cleaning_notifier.owner = c
        /\ StartBroadcast(TRUE)
    BY WhoIsNotified
  <2>2. Empty'
    BY <2>1 DEF ClearForge, EndTask, ShouldClear, Empty
  <2>3. \A id \in Ids : task_states'[id] = "None" /\ task_creation_senders'[id] = {}
    BY <2>1 DEF ClearForge, ForgetTasks
  <2>4. cleaning_notifier.awaited # NoCount =>
          Cardinality(Announced' \cup {id \in Ids : Lost(id)}) >= cleaning_notifier.awaited
    BY <2>1, AwaitedAnnounced
  <2>5. QED BY <2>1, <2>2, <2>3, <2>4 DEF Announced
<1>4. QED BY <1>1, <1>2, <1>3, Invariance, PTL DEF Spec, CleanedAfterAwaited
=============================================================================
