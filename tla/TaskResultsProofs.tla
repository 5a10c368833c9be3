-------------------------- MODULE TaskResultsProofs --------------------------
(***************************************************************************)
(* The results of the tasks: how many an id yields, and what every open    *)
(* redirection receives of them.                                           *)
(***************************************************************************)
EXTENDS TaskForgeProofs

-----------------------------------------------------------------------------
(* No more results than tasks.                                             *)

\* The results of the tasks of id from the n-th task on, and these tasks.
ResultsFrom(n, id) == {k \in DOMAIN log : log[k].id = id /\ log[k].task >= n}
TasksFrom(n, id)   == {j \in DOMAIN tasks : tasks[j].id = id /\ j >= n}

\* A result of one of these tasks may still come: one of them is held, or a
\* creation was abandoned and the id is Running without a task.
Outstanding(n, id) == (forge[id] # NoTask /\ forge[id] >= n) \/ Lost(id)

\* With the one that may still come, the results are no more than the creations.
ResultsCounted == \A id \in Ids, n \in Nat :
  Cardinality(ResultsFrom(n, id)) + (IF Outstanding(n, id) THEN 1 ELSE 0)
    <= Cardinality(TasksFrom(n, id)) + abandoned[id]

\* An output bears the id of its task.
Own(o) == o.task \in DOMAIN tasks /\ tasks[o.task].id = o.id
OwnOutputs == /\ \A k \in DOMAIN end_channel : Own(end_channel[k])
              /\ lpc = "lock" => Own(ending)

\* The task held is the last one of its id.
LatestHeld == \A id \in Ids : forge[id] # NoTask =>
                \A j \in DOMAIN tasks : tasks[j].id = id => j <= forge[id]

Counted == ResultsCounted /\ OwnOutputs /\ LatestHeld

\* One more position after those of a sequence is one more in a set of them.
LEMMA OneMore ==
  ASSUME NEW l \in Nat, NEW A \in SUBSET (1 .. l)
  PROVE  /\ Cardinality(A) \in Nat
         /\ Cardinality(A \cup {l + 1}) = Cardinality(A) + 1
<1>1. IsFiniteSet(A)
  <2>1. IsFiniteSet(1 .. l)
    BY FS_Interval
  <2>2. QED BY <2>1, FS_Subset
<1>0. l + 1 \notin A
  OBVIOUS
<1>2. Cardinality(A) \in Nat
  BY <1>1, FS_CardinalityType
<1>3. Cardinality(A \cup {l + 1}) = Cardinality(A) + 1
  BY <1>0, <1>1, FS_AddElement
<1>4. QED BY <1>2, <1>3

\* The sets counted are sets of positions, and their numbers naturals.
LEMMA CountType ==
  ASSUME IInv, NEW id, NEW n
  PROVE  /\ Cardinality(ResultsFrom(n, id)) \in Nat
         /\ Cardinality(ResultsFrom(n, id) \cup {Len(log) + 1})
              = Cardinality(ResultsFrom(n, id)) + 1
         /\ Cardinality(TasksFrom(n, id)) \in Nat
         /\ Cardinality(TasksFrom(n, id) \cup {Len(tasks) + 1})
              = Cardinality(TasksFrom(n, id)) + 1
<1>1. /\ DOMAIN log = 1 .. Len(log) /\ Len(log) \in Nat
      /\ DOMAIN tasks = 1 .. Len(tasks) /\ Len(tasks) \in Nat
  BY DEF IInv, TypeOK, SubTypeOK
<1>2. /\ ResultsFrom(n, id) \in SUBSET (1 .. Len(log))
      /\ TasksFrom(n, id) \in SUBSET (1 .. Len(tasks))
  BY <1>1 DEF ResultsFrom, TasksFrom
<1>3. QED BY <1>1, <1>2, OneMore

\* Tasks come and change, but none goes or changes its id.
SameTasks == /\ DOMAIN tasks' = DOMAIN tasks
             /\ \A j \in DOMAIN tasks : tasks'[j].id = tasks[j].id
MoreTasks == /\ DOMAIN tasks \subseteq DOMAIN tasks'
             /\ \A j \in DOMAIN tasks : tasks'[j].id = tasks[j].id

LEMMA TasksFrame ==
  ASSUME IInv, [Next]_vars
  PROVE  SameTasks \/ (MoreTasks /\ \E c \in Clients : BeginTask(c))
<1>0. /\ tasks \in Seq(Task) /\ forge \in [Ids -> 0 .. Len(tasks)]
      /\ \A c \in Clients : pc[c] = "inbox" =>
           call[c].id \in Ids /\ forge[call[c].id] # NoTask
  BY DEF IInv, TypeOK, ForgeTypeOK, Calls
<1>1. CASE UNCHANGED tasks
  BY <1>1 DEF SameTasks
<1>2. ASSUME NEW c \in Clients, BeginTask(c) PROVE MoreTasks
  <2>1. tasks' = Append(tasks, BegunTask(call[c].id))
    BY <1>2 DEF BeginTask
  <2>2. QED BY <1>0, <2>1 DEF MoreTasks
<1>3. ASSUME NEW c \in Clients, SendToInbox(c) PROVE SameTasks
  <2> DEFINE i == forge[call[c].id]
  <2>1. i \in DOMAIN tasks
    BY <1>0, <1>3 DEF SendToInbox, NoTask
  <2>2. \/ UNCHANGED tasks
        \/ tasks' = [tasks EXCEPT ![i] = [tasks[i] EXCEPT !.inbox = @ + 1]]
    BY <1>3 DEF SendToInbox
  <2>3. tasks[i] \in Task
    BY <1>0, <2>1
  <2>4. [tasks[i] EXCEPT !.inbox = @ + 1].id = tasks[i].id
    BY <2>3 DEF Task
  <2> HIDE DEF i
  <2>5. QED BY <1>0, <2>1, <2>2, <2>4 DEF SameTasks
<1>4. ASSUME NEW i \in DOMAIN tasks, TaskStep(i) PROVE SameTasks
  <2>1. tasks[i] \in Task
    BY <1>0
  <2>2. PICK new : new.id = tasks[i].id /\ tasks' = [tasks EXCEPT ![i] = new]
    BY <1>4, <2>1 DEF TaskStep, TaskRecv, TaskOutput, TaskOutputSent,
                      TaskCloseInbox, TaskExit, SetTask, Task
  <2>3. QED BY <1>0, <2>2 DEF SameTasks
<1> USE DEF world
<1>5. ASSUME NEW c \in Clients, ClientStep(c), ~BeginTask(c), ~SendToInbox(c)
      PROVE  UNCHANGED tasks
  BY <1>5 DEF ClientStep, RejectNewTask, SendNoTask, IsEmpty, RecvCreation,
              NewResultRedirection, Clean, WaitForTaskCreation, SendAfterWait,
              Send, MarkRunning, NotifyWaiter
<1>6. ASSUME NEW c \in Clients, ClientChoice(c) PROVE UNCHANGED tasks
  BY <1>6 DEF ClientChoice, StartCall, DropCleaner, Cancel
<1>7. ASSUME \/ ListenerStep \/ DrainError \/ DropErrorReceiver
             \/ \E s \in Subs : Receive(s) \/ DropReceiver(s)
             \/ UNCHANGED vars
      PROVE  UNCHANGED tasks
  BY <1>7 DEF ListenerStep, ListenerRecv, RefuseOutput, CloseTask, ClearForge,
              EndTask, BroadcastSend, PruneSender, EndBroadcast, ReportError,
              Listen, DrainError, DropErrorReceiver, Receive, DropReceiver, vars
<1> HIDE DEF world
<1>8. QED BY <1>1, <1>2, <1>3, <1>4, <1>5, <1>6, <1>7 DEF Next

\* Outputs keep their owners on the way to the listener.
LEMMA OwnStep == IInv /\ OwnOutputs /\ [Next]_vars => OwnOutputs'
<1> SUFFICES ASSUME IInv, OwnOutputs, [Next]_vars PROVE OwnOutputs'
  OBVIOUS
<1>0. /\ MoreTasks
      /\ end_channel \in Seq(Output) /\ tasks \in Seq(Task)
  BY TasksFrame DEF SameTasks, MoreTasks, IInv, TypeOK, ListenerTypeOK
<1>1. \A o : Own(o) => o.task \in DOMAIN tasks' /\ tasks'[o.task].id = o.id
  BY <1>0 DEF Own, MoreTasks
<1>2. CASE UNCHANGED end_channel /\ (lpc' = "lock" => lpc = "lock" /\ UNCHANGED ending)
  BY <1>1, <1>2 DEF OwnOutputs, Own
<1>3. ASSUME NEW i \in DOMAIN tasks, TaskOutputSent(i) PROVE OwnOutputs'
  <2> DEFINE o == [id |-> tasks[i].id, task |-> i]
  <2>1. /\ end_channel' = Append(end_channel, o)
        /\ UNCHANGED <<lpc, ending>>
    BY <1>3 DEF TaskOutputSent, SetTask, listenerVars
  <2>2. Own(o)
    BY DEF Own
  <2> HIDE DEF o
  <2>3. \A k \in DOMAIN end_channel' :
          \/ k \in DOMAIN end_channel /\ end_channel'[k] = end_channel[k]
          \/ end_channel'[k] = o
    BY <1>0, <2>1
  <2>4. \A k \in DOMAIN end_channel' : Own(end_channel'[k])
    BY <2>2, <2>3 DEF OwnOutputs
  <2>5. lpc' = "lock" => Own(ending')
    BY <2>1 DEF OwnOutputs
  <2>6. QED BY <1>1, <2>4, <2>5 DEF OwnOutputs, Own
<1>4. CASE ListenerRecv
  <2>1. /\ end_channel # <<>> /\ ending' = Head(end_channel)
        /\ end_channel' = Tail(end_channel)
    BY <1>4 DEF ListenerRecv
  <2>2. /\ 1 \in DOMAIN end_channel /\ ending' = end_channel[1]
        /\ \A k \in DOMAIN end_channel' :
             k + 1 \in DOMAIN end_channel /\ end_channel'[k] = end_channel[k + 1]
    BY <1>0, <2>1
  <2>3. Own(end_channel[1])
    BY <2>2 DEF OwnOutputs
  <2>4. \A k \in DOMAIN end_channel' : Own(end_channel[k + 1])
    BY <2>2 DEF OwnOutputs
  <2>5. QED BY <1>1, <2>2, <2>3, <2>4 DEF OwnOutputs, Own
<1> USE DEF world, outputVars, listenerVars
<1>5. ASSUME NEW c \in Clients, ClientStep(c) \/ ClientChoice(c)
      PROVE  UNCHANGED <<end_channel, lpc, ending>>
  BY <1>5 DEF ClientStep, RejectNewTask, SendNoTask, IsEmpty, RecvCreation,
              NewResultRedirection, Clean, WaitForTaskCreation, SendAfterWait,
              Send, MarkRunning, NotifyWaiter, BeginTask, SendToInbox,
              ClientChoice, StartCall, DropCleaner, Cancel
<1>6. ASSUME NEW i \in DOMAIN tasks, TaskStep(i), ~TaskOutputSent(i)
      PROVE  UNCHANGED <<end_channel, lpc, ending>>
  BY <1>6 DEF TaskStep, TaskRecv, TaskOutput, TaskCloseInbox, TaskExit, SetTask
<1>7. ASSUME \/ RefuseOutput \/ CloseTask \/ ClearForge \/ EndBroadcast \/ ReportError
      PROVE  UNCHANGED end_channel /\ lpc' # "lock"
  BY <1>7 DEF RefuseOutput, CloseTask, ClearForge, EndTask, StartBroadcast,
              EndBroadcast, ReportError, Listen
<1>8. ASSUME \/ BroadcastSend \/ PruneSender \/ DrainError \/ DropErrorReceiver
             \/ \E s \in Subs : Receive(s) \/ DropReceiver(s)
             \/ UNCHANGED vars
      PROVE  UNCHANGED <<end_channel, lpc, ending>>
  BY <1>8 DEF BroadcastSend, PruneSender, DrainError, DropErrorReceiver, Receive,
              DropReceiver, vars
<1> HIDE DEF world, outputVars, listenerVars
<1>9. QED BY <1>2, <1>3, <1>4, <1>5, <1>6, <1>7, <1>8 DEF Next, ListenerStep

\* What every step but these leaves alone; none of the others makes an id Lost.
LEMMA CountedFrame ==
  ASSUME IInv, [Next]_vars
  PROVE  \/ /\ UNCHANGED <<log, forge, abandoned>> /\ SameTasks
            /\ \A id \in Ids : Lost(id)' => Lost(id)
         \/ \E c \in Clients : BeginTask(c) \/ (Cancel(c) /\ CancelNotify(c))
         \/ CloseTask \/ ClearForge
<1> DEFINE Aside == /\ UNCHANGED <<log, forge, abandoned>>
                    /\ \A id \in Ids : Lost(id)' => Lost(id)
           Calling == \A d \in Clients : pc[d] = "notify" =>
                        pc'[d] = "notify" /\ call'[d] = call[d]
<1>0. pc \in [Clients -> Stages] /\ call \in [Clients -> Call \cup {None}]
  BY DEF IInv, TypeOK, ClientTypeOK
<1>1. ASSUME UNCHANGED <<log, forge, abandoned, task_states>>, Calling PROVE Aside
  BY <1>1 DEF Lost
<1> HIDE DEF Aside
<1> USE DEF forgeVars, registry, waitVars, clientVars, callVars, world, outputVars
<1>2. ASSUME NEW c \in Clients, ClientStep(c), ~BeginTask(c) PROVE Aside
  <2>1. CASE RejectNewTask(c) \/ SendNoTask(c) \/ IsEmpty(c) \/ SendToInbox(c)
             \/ NewResultRedirection(c)
    BY <1>0, <1>1, <2>1
    DEF RejectNewTask, SendNoTask, IsEmpty, SendToInbox, NewResultRedirection,
        MaySend, AtLock, Return
  <2>2. CASE SendAfterWait(c) \/ Send(c)
    BY <1>0, <1>1, <2>2 DEF SendAfterWait, Send, MaySend, AtLock, Goto
  <2>3. CASE WaitForTaskCreation(c)
    BY <1>0, <1>1, <2>3 DEF WaitForTaskCreation, AtLock, Created, Return, Goto
  <2>4. CASE RecvCreation(c)
    BY <1>0, <1>1, <2>4 DEF RecvCreation, Created, Return, Goto
  <2>5. CASE NotifyWaiter(c)
    BY <1>1, <2>5 DEF NotifyWaiter
  <2>6. CASE MarkRunning(c)
    <3>1. /\ \A d \in Clients : pc[d] # "notify"
          /\ task_states \in [Ids -> {"None", "Running", "Closed"}]
          /\ call[c].id \in Ids
      BY <2>6, ServedProperties, CallArguments, ConstantsAssumption
      DEF MarkRunning, StartWrite, AtLock, TaskOps, IInv, TypeOK, Exclusion,
          ForgeTypeOK, Calls
    <3>2. ASSUME NEW id \in Ids, Lost(id)' PROVE Lost(id)
      <4>1. id # call[c].id
        BY <1>0, <2>6, <3>2 DEF MarkRunning, Lost
      <4>2. task_states'[id] = task_states[id] /\ forge'[id] = forge[id]
        BY <2>6, <3>1, <4>1 DEF MarkRunning
      <4>3. QED BY <3>1, <3>2, <4>2 DEF Lost
    <3>3. QED BY <2>6, <3>2 DEF MarkRunning, Aside
  <2>7. CASE Clean(c)
    <3>1. \A d \in Clients : pc[d] # "notify"
      BY <2>7, ServedProperties, ConstantsAssumption
      DEF Clean, WriteOnce, IInv, TypeOK, Exclusion
    <3>2. \A id \in Ids : Lost(id)' => Lost(id)
      BY <2>7, <3>1 DEF Clean, ForgetTasks, Lost
    <3>3. QED BY <2>7, <3>2 DEF Clean, Aside
  <2>8. QED BY <1>2, <2>1, <2>2, <2>3, <2>4, <2>5, <2>6, <2>7 DEF ClientStep
<1>3. ASSUME NEW c \in Clients, ClientChoice(c), ~(Cancel(c) /\ CancelNotify(c))
      PROVE  Aside
  <2>1. CASE DropCleaner(c) \/ \E r \in Call : StartCall(c, r)
    BY <1>0, <1>1, <2>1 DEF DropCleaner, StartCall
  <2>2. CASE Cancel(c)
    BY <1>0, <1>1, <1>3, <2>2
    DEF Cancel, CancelQueued, CancelWait, CancelSend, Return
  <2>3. QED BY <1>3, <2>1, <2>2 DEF ClientChoice
<1>4. ASSUME \/ \E i \in DOMAIN tasks : TaskStep(i)
             \/ ListenerRecv \/ RefuseOutput \/ BroadcastSend \/ PruneSender
             \/ EndBroadcast \/ ReportError \/ DrainError \/ DropErrorReceiver
             \/ \E s \in Subs : Receive(s) \/ DropReceiver(s)
             \/ UNCHANGED vars
      PROVE  UNCHANGED <<log, forge, abandoned, task_states, pc, call>>
  BY <1>4 DEF TaskStep, TaskRecv, TaskOutput, TaskOutputSent, TaskCloseInbox,
              TaskExit, SetTask, ListenerRecv, RefuseOutput, BroadcastSend,
              PruneSender, EndBroadcast, ReportError, Listen, DrainError,
              DropErrorReceiver, Receive, DropReceiver, vars
<1>5. ASSUME UNCHANGED <<log, forge, abandoned, task_states, pc, call>> PROVE Aside
  BY <1>1, <1>5
<1> HIDE DEF Calling, forgeVars, registry, waitVars, clientVars, callVars, world,
             outputVars
<1>6. \/ Aside
      \/ \E c \in Clients : BeginTask(c) \/ (Cancel(c) /\ CancelNotify(c))
      \/ CloseTask \/ ClearForge
  BY <1>2, <1>3, <1>4, <1>5 DEF Next, ListenerStep
<1>7. SameTasks \/ \E c \in Clients : BeginTask(c)
  BY TasksFrame
<1>8. QED BY <1>6, <1>7 DEF Aside

\* A step keeps the task held the last one of its id.
LEMMA LatestStep == IInv /\ LatestHeld /\ [Next]_vars => LatestHeld'
<1> SUFFICES ASSUME IInv, LatestHeld, [Next]_vars PROVE LatestHeld'
  OBVIOUS
<1>0. tasks \in Seq(Task) /\ forge \in [Ids -> 0 .. Len(tasks)]
  BY DEF IInv, TypeOK, ForgeTypeOK
<1>1. CASE /\ SameTasks
           /\ \A id \in Ids : forge'[id] = forge[id] \/ forge'[id] = NoTask
  BY <1>1 DEF LatestHeld, SameTasks
<1>2. ASSUME NEW c \in Clients, BeginTask(c) PROVE LatestHeld'
  <2> DEFINE id == call[c].id
  <2>1. id \in Ids
    BY <1>2 DEF BeginTask, IInv, Calls
  <2>2. /\ tasks' = Append(tasks, BegunTask(id))
        /\ forge' = [forge EXCEPT ![id] = Len(tasks) + 1]
        /\ BegunTask(id).id = id
    BY <1>2 DEF BeginTask, BegunTask
  <2> HIDE DEF id
  <2>3. ASSUME NEW other \in Ids, forge'[other] # NoTask,
               NEW j \in DOMAIN tasks', tasks'[j].id = other
        PROVE  j <= forge'[other]
    <3>1. /\ Len(tasks) \in Nat /\ j \in 1 .. Len(tasks) + 1
          /\ j \in DOMAIN tasks => tasks'[j] = tasks[j]
          /\ tasks'[Len(tasks) + 1] = BegunTask(id)
      BY <1>0, <2>2, <2>3
    <3>2. CASE other = id
      BY <1>0, <2>1, <2>2, <3>1, <3>2
    <3>3. CASE other # id
      <4>1. forge'[other] = forge[other]
        BY <1>0, <2>2, <3>3
      <4>2. j \in DOMAIN tasks
        BY <1>0, <2>2, <2>3, <3>1, <3>3
      <4>3. QED BY <2>3, <3>1, <4>1, <4>2 DEF LatestHeld
    <3>4. QED BY <3>2, <3>3
  <2>4. QED BY <2>3 DEF LatestHeld
<1>3. ASSUME ~ \E c \in Clients : BeginTask(c)
      PROVE  /\ SameTasks
             /\ \A id \in Ids : forge'[id] = forge[id] \/ forge'[id] = NoTask
  <2>1. SameTasks
    BY <1>3, TasksFrame
  <2>2. CASE UNCHANGED forge
    BY <2>1, <2>2
  <2>3. ASSUME NEW c \in Clients, CancelNotify(c) PROVE UNCHANGED forge
    BY <2>3 DEF CancelNotify, forgeVars, registry
  <2>4. CASE CloseTask \/ ClearForge
    BY <1>0, <2>1, <2>4 DEF CloseTask, ClearForge, EndTask, WithoutTask
  <2>5. QED BY <1>3, <2>1, <2>2, <2>3, <2>4, CountedFrame
<1>4. QED BY <1>1, <1>2, <1>3

\* A step keeps the count.
LEMMA ResultsStep == IInv /\ Counted /\ [Next]_vars => ResultsCounted'
<1> SUFFICES ASSUME IInv, Counted, [Next]_vars,
                    NEW id \in Ids, NEW n \in Nat
             PROVE  Cardinality(ResultsFrom(n, id))' + (IF Outstanding(n, id)' THEN 1 ELSE 0)
                      <= Cardinality(TasksFrom(n, id))' + abandoned'[id]
  BY DEF ResultsCounted
<1> DEFINE R == Cardinality(ResultsFrom(n, id))
           T == Cardinality(TasksFrom(n, id))
<1>0. /\ tasks \in Seq(Task) /\ log \in Seq(Event)
      /\ forge \in [Ids -> 0 .. Len(tasks)] /\ abandoned \in [Ids -> Nat]
      /\ pc \in [Clients -> Stages]
  BY DEF IInv, TypeOK, ForgeTypeOK, ClientTypeOK, SubTypeOK
<1>1. R \in Nat /\ T \in Nat /\ abandoned[id] \in Nat
  BY <1>0, CountType
<1>2. R + (IF Outstanding(n, id) THEN 1 ELSE 0) <= T + abandoned[id]
  BY DEF Counted, ResultsCounted
<1>3. CASE /\ UNCHANGED <<log, forge, abandoned>> /\ SameTasks
           /\ \A i \in Ids : Lost(i)' => Lost(i)
  <2>1. R' = R
    BY <1>3 DEF ResultsFrom
  <2>2. TasksFrom(n, id)' = TasksFrom(n, id)
    BY <1>3 DEF TasksFrom, SameTasks
  <2>3. T' = T
    BY <2>2
  <2>4. Outstanding(n, id)' => Outstanding(n, id)
    BY <1>3 DEF Outstanding
  <2> HIDE DEF R, T
  <2>5. R' + (IF Outstanding(n, id)' THEN 1 ELSE 0) <= T' + abandoned'[id]
    BY <1>1, <1>2, <1>3, <2>1, <2>3, <2>4
  <2>6. QED BY <2>5 DEF R, T
<1>4. ASSUME NEW c \in Clients, BeginTask(c)
      PROVE  R' + (IF Outstanding(n, id)' THEN 1 ELSE 0) <= T' + abandoned'[id]
  <2>1. /\ call[c].id \in Ids /\ pc[c] = "notify"
        /\ task_states[call[c].id] = "Running" /\ forge[call[c].id] = NoTask
    BY <1>4 DEF BeginTask, IInv, Calls
  <2>2. /\ UNCHANGED <<log, abandoned, task_states>>
        /\ tasks' = Append(tasks, BegunTask(call[c].id))
        /\ forge' = [forge EXCEPT ![call[c].id] = Len(tasks) + 1]
        /\ BegunTask(call[c].id).id = call[c].id
        /\ pc' = [pc EXCEPT ![c] = "idle"] /\ call' = [call EXCEPT ![c] = None]
    BY <1>4 DEF BeginTask, BegunTask, Return, waitVars, outputVars
  <2>3. R' = R
    BY <2>2 DEF ResultsFrom
  <2>4. Len(tasks) \in Nat /\ DOMAIN tasks' = 1 .. Len(tasks) + 1
    BY <1>0, <2>2
  <2>5. CASE id # call[c].id
    <3>1. TasksFrom(n, id)' = TasksFrom(n, id)
      BY <1>0, <2>2, <2>4, <2>5 DEF TasksFrom
    <3>2. T' = T
      BY <3>1
    <3>3. forge'[id] = forge[id]
      BY <1>0, <2>2, <2>5
    <3>4. Lost(id)' => Lost(id)
      <4>1. ASSUME NEW d \in Clients, pc[d] = "notify", call[d].id = id
            PROVE  pc'[d] = "notify" /\ call'[d].id = id
        <5>1. d # c
          BY <2>5, <4>1
        <5>2. pc'[d] = pc[d] /\ call'[d] = call[d]
          BY <1>0, <2>2, <5>1 DEF IInv, TypeOK, ClientTypeOK
        <5>3. QED BY <4>1, <5>2
      <4>2. QED BY <2>2, <3>3, <4>1 DEF Lost
    <3>5. Outstanding(n, id)' => Outstanding(n, id)
      BY <3>3, <3>4 DEF Outstanding
    <3> HIDE DEF R, T
    <3>6. QED BY <1>1, <1>2, <2>2, <2>3, <3>2, <3>5
  <2>6. CASE id = call[c].id
    <3>1. ~Outstanding(n, id)
      BY <2>1, <2>6 DEF Outstanding, Lost
    <3>2. forge'[id] = Len(tasks) + 1
      BY <1>0, <2>2, <2>6
    <3>3. ~Lost(id)'
      BY <2>4, <3>2 DEF Lost, NoTask
    <3>4. CASE n <= Len(tasks) + 1
      <4>1. TasksFrom(n, id)' = TasksFrom(n, id) \cup {Len(tasks) + 1}
        BY <1>0, <2>2, <2>4, <2>6, <3>4 DEF TasksFrom
      <4>2. T' = T + 1
        BY <4>1, CountType
      <4> HIDE DEF R, T
      <4>3. QED BY <1>1, <1>2, <2>2, <2>3, <4>2
    <3>5. CASE ~(n <= Len(tasks) + 1)
      <4>1. TasksFrom(n, id)' = TasksFrom(n, id)
        BY <1>0, <2>2, <2>4, <2>6, <3>5 DEF TasksFrom
      <4>2. T' = T
        BY <4>1
      <4>3. ~Outstanding(n, id)'
        BY <3>2, <3>3, <3>5 DEF Outstanding
      <4> HIDE DEF R, T
      <4>4. QED BY <1>1, <1>2, <2>2, <2>3, <4>2, <4>3
    <3>6. QED BY <3>4, <3>5
  <2>7. QED BY <2>5, <2>6
<1>5. ASSUME NEW c \in Clients, Cancel(c), CancelNotify(c)
      PROVE  R' + (IF Outstanding(n, id)' THEN 1 ELSE 0) <= T' + abandoned'[id]
  <2>1. /\ call[c].id \in Ids /\ pc[c] = "notify" /\ forge[call[c].id] = NoTask
    BY <1>5 DEF CancelNotify, IInv, Calls
  <2>2. /\ UNCHANGED <<log, tasks, forge, task_states>>
        /\ abandoned' = [abandoned EXCEPT ![call[c].id] = @ + 1]
        /\ pc' = [pc EXCEPT ![c] = "idle"] /\ call' = [call EXCEPT ![c] = None]
    BY <1>5 DEF Cancel, CancelNotify, Return, forgeVars, registry, world, outputVars
  <2>3. R' = R /\ T' = T
    BY <2>2 DEF ResultsFrom, TasksFrom
  <2>4. CASE id = call[c].id
    <3>1. ~Outstanding(n, id)
      BY <2>1, <2>4 DEF Outstanding, Lost
    <3>2. abandoned'[id] = abandoned[id] + 1
      BY <1>0, <2>2, <2>4
    <3> HIDE DEF R, T
    <3>3. QED BY <1>1, <1>2, <2>3, <3>1, <3>2
  <2>5. CASE id # call[c].id
    <3>1. abandoned'[id] = abandoned[id]
      BY <1>0, <2>2, <2>5
    <3>2. Lost(id)' => Lost(id)
      <4>1. ASSUME NEW d \in Clients, pc[d] = "notify", call[d].id = id
            PROVE  pc'[d] = "notify" /\ call'[d].id = id
        <5>1. d # c
          BY <2>5, <4>1
        <5>2. pc'[d] = pc[d] /\ call'[d] = call[d]
          BY <1>0, <2>2, <5>1 DEF IInv, TypeOK, ClientTypeOK
        <5>3. QED BY <4>1, <5>2
      <4>2. QED BY <2>2, <4>1 DEF Lost
    <3>3. Outstanding(n, id)' => Outstanding(n, id)
      BY <2>2, <3>2 DEF Outstanding
    <3> HIDE DEF R, T
    <3>4. QED BY <1>1, <1>2, <2>3, <3>1, <3>3
  <2>6. QED BY <2>4, <2>5
<1>6. ASSUME CloseTask \/ ClearForge
      PROVE  R' + (IF Outstanding(n, id)' THEN 1 ELSE 0) <= T' + abandoned'[id]
  <2>1. /\ EndTask /\ ending \in Output /\ ending.id \in Ids /\ Own(ending)
        /\ UNCHANGED <<tasks, abandoned, pc, call>>
        /\ task_states[ending.id] = "Running"
    BY <1>6 DEF CloseTask, ClearForge, EndTask, Accepts, IInv, Broadcasting, Output,
                Counted, OwnOutputs, callVars, waitVars
  <2>2. \A c \in Clients : pc[c] # "notify"
    BY <2>1, ServedProperties, ConstantsAssumption
    DEF EndTask, StartWrite, IInv, TypeOK, Exclusion
  <2>3. /\ forge' = [forge EXCEPT ![ending.id] = NoTask]
        /\ UNCHANGED log \/ \E event \in Event : /\ event.id = ending.id
                                               /\ event.task = ending.task
                                               /\ log' = Append(log, event)
    <3>1. \A cleared \in BOOLEAN : StartBroadcast(cleared) =>
            \E event \in Event : /\ event.id = ending.id /\ event.task = ending.task
                                 /\ log' = Append(log, event)
      BY <2>1 DEF StartBroadcast, Output, Event
    <3>2. UNCHANGED log \/ \E cleared \in BOOLEAN : StartBroadcast(cleared)
      BY <1>6 DEF CloseTask, ClearForge
    <3>3. QED BY <2>1, <3>1, <3>2 DEF EndTask, WithoutTask
  <2>4. T' = T
    BY <2>1 DEF TasksFrom
  <2>5. CASE ~ \/ id # ending.id
               \/ n > ending.task
    <3>1. Outstanding(n, id)
      <4>1. CASE forge[id] = NoTask
        BY <2>1, <2>2, <2>5, <4>1 DEF Outstanding, Lost
      <4>2. CASE forge[id] # NoTask
        <5>1. ending.task <= forge[id] /\ ending.task \in Nat
          BY <1>0, <2>1, <2>5, <4>2 DEF Counted, LatestHeld, Own
        <5>2. forge[id] \in Nat
          BY <1>0
        <5>3. forge[id] >= n
          BY <2>1, <2>5, <5>1, <5>2
        <5>4. QED BY <4>2, <5>3 DEF Outstanding
      <4>3. QED BY <4>1, <4>2
    <3>2. forge'[id] = NoTask /\ task_states'[id] # "Running"
      <4>1. task_states \in [Ids -> {"None", "Running", "Closed"}]
        BY DEF IInv, TypeOK, ForgeTypeOK
      <4>2. QED BY <1>0, <1>6, <2>3, <2>5, <4>1
                DEF CloseTask, ClearForge, ForgetTasks, WithClosed
    <3>3. ~Outstanding(n, id)'
      BY <3>2 DEF Outstanding, Lost
    <3>4. R' = R \/ R' = R + 1
      <4>1. CASE UNCHANGED log
        BY <4>1 DEF ResultsFrom
      <4>2. ASSUME NEW event \in Event, event.id = ending.id,
                   event.task = ending.task, log' = Append(log, event)
            PROVE  R' = R + 1
        <5>1. Len(log) \in Nat /\ DOMAIN log' = 1 .. Len(log) + 1
          BY <1>0, <4>2
        <5>2. event.id = id /\ event.task >= n
          BY <2>1, <2>5, <4>2 DEF Output
        <5>3. ResultsFrom(n, id)' = ResultsFrom(n, id) \cup {Len(log) + 1}
          BY <1>0, <4>2, <5>1, <5>2 DEF ResultsFrom
        <5>4. QED BY <5>3, CountType
      <4>3. QED BY <2>3, <4>1, <4>2
    <3> HIDE DEF R, T
    <3>5. QED BY <1>1, <1>2, <2>1, <2>4, <3>1, <3>3, <3>4
  <2>6. CASE \/ id # ending.id
             \/ n > ending.task
    <3>1. R' = R
      <4>1. CASE UNCHANGED log
        BY <4>1 DEF ResultsFrom
      <4>2. ASSUME NEW event \in Event, event.id = ending.id,
                   event.task = ending.task, log' = Append(log, event)
            PROVE  R' = R
        <5>1. Len(log) \in Nat /\ DOMAIN log' = 1 .. Len(log) + 1
          BY <1>0, <4>2
        <5>2. ~(event.id = id /\ event.task >= n)
          BY <2>1, <2>6, <4>2 DEF Output
        <5>3. ResultsFrom(n, id)' = ResultsFrom(n, id)
          BY <1>0, <4>2, <5>1, <5>2 DEF ResultsFrom
        <5>4. QED BY <5>3
      <4>3. QED BY <2>3, <4>1, <4>2
    <3>2. forge'[id] = forge[id] \/ forge'[id] = NoTask
      BY <1>0, <2>1, <2>3
    <3>3. Lost(id)' => Lost(id)
      <4>1. task_states \in [Ids -> {"None", "Running", "Closed"}]
        BY DEF IInv, TypeOK, ForgeTypeOK
      <4>2. task_states'[id] = "Running" => id # ending.id /\ task_states[id] = "Running"
        BY <1>6, <2>1, <4>1 DEF CloseTask, ClearForge, ForgetTasks, WithClosed
      <4>3. id # ending.id => forge'[id] = forge[id]
        BY <1>0, <2>3
      <4>4. QED BY <2>1, <4>2, <4>3 DEF Lost
    <3>4. Outstanding(n, id)' => Outstanding(n, id)
      BY <3>2, <3>3 DEF Outstanding
    <3> HIDE DEF R, T
    <3>5. QED BY <1>1, <1>2, <2>1, <2>4, <3>1, <3>4
  <2>7. QED BY <2>5, <2>6
<1>7. QED BY <1>3, <1>4, <1>5, <1>6, CountedFrame

\* Of the tasks of an id from any one on come no more results than these tasks and
\* the abandoned creations of that id make creations.  Told apart by the id alone,
\* a late output may be taken for the result of a later task, never for that of
\* an earlier one, and each uses up a creation.
THEOREM ResultsBounded == Spec => []ResultsWithinTasks
<1>1. Init => Counted
  <2> SUFFICES ASSUME Init PROVE Counted
    OBVIOUS
  <2>1. /\ log = <<>> /\ tasks = <<>> /\ end_channel = <<>> /\ lpc = "recv"
        /\ \A id \in Ids : /\ forge[id] = NoTask /\ task_states[id] = "None"
                           /\ abandoned[id] = 0
    BY DEF Init
  <2>2. OwnOutputs /\ LatestHeld
    BY <2>1 DEF OwnOutputs, LatestHeld
  <2>3. ASSUME NEW id \in Ids, NEW n \in Nat
        PROVE  Cardinality(ResultsFrom(n, id)) + (IF Outstanding(n, id) THEN 1 ELSE 0)
                 <= Cardinality(TasksFrom(n, id)) + abandoned[id]
    <3>1. ResultsFrom(n, id) = {} /\ TasksFrom(n, id) = {}
      BY <2>1 DEF ResultsFrom, TasksFrom
    <3>2. ~Outstanding(n, id)
      BY <2>1 DEF Outstanding, Lost
    <3>3. Cardinality({}) = 0
      BY FS_EmptySet
    <3>4. /\ Cardinality(ResultsFrom(n, id)) = 0
          /\ Cardinality(TasksFrom(n, id)) = 0
      BY <3>1, <3>3
    <3>5. QED BY <2>1, <3>2, <3>4
  <2>4. QED BY <2>2, <2>3 DEF Counted, ResultsCounted
<1>2. IInv /\ Counted /\ [Next]_vars => Counted'
  BY OwnStep, LatestStep, ResultsStep DEF Counted
<1>3. IInv /\ Counted => ResultsWithinTasks
  <2> SUFFICES ASSUME IInv, Counted, NEW i \in DOMAIN tasks
               PROVE  Cardinality(ResultsFrom(i, tasks[i].id))
                        <= Cardinality(TasksFrom(i, tasks[i].id))
                             + abandoned[tasks[i].id]
    BY DEF ResultsWithinTasks, ResultsFrom, TasksFrom
  <2>1. /\ i \in Nat /\ tasks[i].id \in Ids
        /\ abandoned[tasks[i].id] \in Nat
    <3>1. /\ tasks \in Seq(Task) /\ abandoned \in [Ids -> Nat]
          /\ DOMAIN tasks = 1 .. Len(tasks)
      BY DEF IInv, TypeOK, ClientTypeOK
    <3>2. tasks[i] \in Task
      BY <3>1
    <3>3. QED BY <3>1, <3>2 DEF Task
  <2>2. /\ Cardinality(ResultsFrom(i, tasks[i].id)) \in Nat
        /\ Cardinality(TasksFrom(i, tasks[i].id)) \in Nat
    BY CountType
  <2>3. Cardinality(ResultsFrom(i, tasks[i].id))
          + (IF Outstanding(i, tasks[i].id) THEN 1 ELSE 0)
          <= Cardinality(TasksFrom(i, tasks[i].id)) + abandoned[tasks[i].id]
    BY <2>1 DEF Counted, ResultsCounted
  <2>4. QED BY <2>1, <2>2, <2>3
<1>4. QED BY <1>1, <1>2, <1>3, Invariance, PTL DEF Spec

-----------------------------------------------------------------------------
(* What the open redirections receive.                                     *)

\* Every open redirection is in the list, at one place only, and only those
\* found closed are to be pruned.
Registered ==
  /\ \A j, k \in DOMAIN output_result_senders :
       output_result_senders[j] = output_result_senders[k] => j = k
  /\ \A s \in Subs : sub[s] = "open" =>
       \E k \in DOMAIN output_result_senders : output_result_senders[k] = s
  /\ \A k \in DOMAIN output_result_senders :
       sub[output_result_senders[k]] # "unused"
  /\ \A k \in DOMAIN senders_to_remove :
       sub[output_result_senders[senders_to_remove[k]]] = "closed"

\* Where the listener is: at the first redirection unless it broadcasts, and
\* then with the last event of the log.
AtEvent ==
  /\ lpc # "broadcast" => next_sub = 1
  /\ lpc = "broadcast" => Len(log) > 0 /\ ending = log[Len(log)]

\* The broadcast has still to reach s.
Lacks(s) == lpc = "broadcast" /\ \E k \in next_sub .. Len(output_result_senders) :
                                   output_result_senders[k] = s

\* What an open redirection holds is the end of the log, but for the event it
\* lacks; an unused one holds nothing.
Received == \A s \in Subs :
  /\ sub[s] = "unused" => sub_buf[s] = <<>>
  /\ sub[s] = "open" =>
       /\ cursor[s] + Len(sub_buf[s]) + (IF Lacks(s) THEN 1 ELSE 0) = Len(log)
       /\ \A j \in 1 .. Len(sub_buf[s]) : sub_buf[s][j] = log[cursor[s] + j]

OneLog == Registered /\ AtEvent /\ Received

\* The n elements of s after the first m.
LEMMA PartProperties ==
  ASSUME NEW S, NEW s \in Seq(S), NEW m \in Nat, NEW n \in Nat, m + n <= Len(s)
  PROVE  /\ SubSeq(s, m + 1, m + n) \in Seq(S)
         /\ Len(SubSeq(s, m + 1, m + n)) = n
         /\ \A k \in 1 .. n : SubSeq(s, m + 1, m + n)[k] = s[m + k]
<1> DEFINE l == m + 1
           r == m + n
           part == SubSeq(s, l, r)
<1>1. l \in Int /\ r \in Int /\ r - l + 1 = n /\ (~(l <= r) => n = 0)
  OBVIOUS
<1>2. \A i \in l .. r : s[i] \in S
  OBVIOUS
<1>3. \A k \in 1 .. n : l + k - 1 = m + k
  OBVIOUS
<1> HIDE DEF l, r
<1>4. /\ part \in Seq(S) /\ Len(part) = IF l <= r THEN r - l + 1 ELSE 0
      /\ \A k \in 1 .. r - l + 1 : part[k] = s[l + k - 1]
  BY <1>1, <1>2, SubSeqProperties
<1> HIDE DEF part
<1>5. /\ part \in Seq(S) /\ Len(part) = n
      /\ \A k \in 1 .. n : part[k] = s[m + k]
  BY <1>1, <1>3, <1>4
<1>6. QED BY <1>5 DEF part, l, r

\* What no other step touches: the listener, the redirections and the log.
LEMMA LogFrame ==
  ASSUME [Next]_vars
  PROVE  \/ UNCHANGED <<output_result_senders, listenerVars, subVars, log>>
         \/ \E c \in Clients : NewResultRedirection(c)
         \/ ListenerStep
         \/ \E s \in Subs : Receive(s) \/ DropReceiver(s)
<1> USE DEF forgeVars, world, outputVars
<1>1. ASSUME NEW c \in Clients, ClientStep(c), ~NewResultRedirection(c)
      PROVE  UNCHANGED <<output_result_senders, listenerVars, subVars, log>>
  BY <1>1 DEF ClientStep, RejectNewTask, MarkRunning, NotifyWaiter, BeginTask,
              WaitForTaskCreation, RecvCreation, SendAfterWait, SendNoTask, Send,
              SendToInbox, IsEmpty, Clean
<1>2. ASSUME NEW c \in Clients, ClientChoice(c)
      PROVE  UNCHANGED <<output_result_senders, listenerVars, subVars, log>>
  BY <1>2 DEF ClientChoice, StartCall, DropCleaner, Cancel, CancelQueued,
              CancelWait, CancelNotify, CancelSend
<1>3. ASSUME NEW i \in DOMAIN tasks, TaskStep(i)
      PROVE  UNCHANGED <<output_result_senders, listenerVars, subVars, log>>
  BY <1>3 DEF TaskStep, TaskRecv, TaskOutput, TaskOutputSent, TaskCloseInbox,
              TaskExit, SetTask
<1>4. ASSUME DrainError \/ DropErrorReceiver \/ UNCHANGED vars
      PROVE  UNCHANGED <<output_result_senders, listenerVars, subVars, log>>
  BY <1>4 DEF DrainError, DropErrorReceiver, vars
<1>5. QED BY <1>1, <1>2, <1>3, <1>4 DEF Next

\* A redirection is registered between two broadcasts, at the end of the list.
LEMMA RegisterStep ==
  ASSUME IInv, OneLog, NEW c \in Clients, NewResultRedirection(c)
  PROVE  OneLog'
<1> DEFINE n == Len(output_result_senders)
<1>1. PICK new \in Subs :
        /\ sub[new] = "unused"
        /\ output_result_senders' = Append(output_result_senders, new)
        /\ sub' = [sub EXCEPT ![new] = "open"]
        /\ cursor' = [cursor EXCEPT ![new] = Len(log)]
        /\ UNCHANGED <<senders_to_remove, lpc, ending, next_sub, sub_buf, log>>
  BY DEF NewResultRedirection, UnusedSubs, listenerVars, broadcastVars
<1>2. /\ output_result_senders \in Seq(Subs) /\ n \in Nat
      /\ sub \in [Subs -> {"unused", "open", "closed"}]
      /\ sub_buf \in [Subs -> Seq(Event)] /\ cursor \in [Subs -> Nat]
      /\ Len(log) \in Nat
  BY DEF IInv, TypeOK, ForgeTypeOK, SubTypeOK
<1>3. lpc # "broadcast" /\ senders_to_remove = <<>>
  BY ServedProperties, ConstantsAssumption
  DEF NewResultRedirection, WriteOnce, IInv, TypeOK, Exclusion, Broadcasting
<1>4. /\ DOMAIN output_result_senders = 1 .. n
      /\ DOMAIN output_result_senders' = 1 .. n + 1
      /\ \A k \in 1 .. n : output_result_senders'[k] = output_result_senders[k]
      /\ output_result_senders'[n + 1] = new
  BY <1>1, <1>2
<1>5. \A k \in 1 .. n : output_result_senders[k] \in Subs \ {new}
  <2>1. ASSUME NEW k \in 1 .. n
        PROVE  /\ output_result_senders[k] \in Subs
               /\ sub[output_result_senders[k]] # "unused"
    BY <1>2, <1>4 DEF OneLog, Registered
  <2>2. sub[new] = "unused"
    BY <1>1
  <2>3. QED BY <2>1, <2>2
<1> HIDE DEF n
<1>6. Registered'
  <2>1. ASSUME NEW j \in 1 .. n + 1, NEW k \in 1 .. n + 1,
               output_result_senders'[j] = output_result_senders'[k]
        PROVE  j = k
    <3>1. (j \in 1 .. n \/ j = n + 1) /\ (k \in 1 .. n \/ k = n + 1)
      BY <1>2
    <3>2. QED BY <1>4, <1>5, <2>1, <3>1 DEF OneLog, Registered
  <2>2. ASSUME NEW s \in Subs, sub'[s] = "open"
        PROVE  \E k \in 1 .. n + 1 : output_result_senders'[k] = s
    <3>1. CASE s = new
      BY <1>2, <1>4, <3>1
    <3>2. CASE s # new
      BY <1>1, <1>2, <1>4, <2>2, <3>2 DEF OneLog, Registered
    <3>3. QED BY <3>1, <3>2
  <2>3. ASSUME NEW k \in 1 .. n + 1
        PROVE  sub'[output_result_senders'[k]] # "unused"
    <3>1. k \in 1 .. n \/ k = n + 1
      BY <1>2
    <3>2. CASE k = n + 1
      <4>1. sub'[new] = "open"
        BY <1>1, <1>2
      <4>2. QED BY <1>4, <3>2, <4>1
    <3>3. CASE k \in 1 .. n
      <4>1. sub[output_result_senders[k]] # "unused"
        BY <1>4, <3>3 DEF OneLog, Registered
      <4>2. sub'[output_result_senders[k]] = sub[output_result_senders[k]]
        BY <1>1, <1>2, <1>5, <3>3
      <4>3. QED BY <1>4, <3>3, <4>1, <4>2
    <3>4. QED BY <3>1, <3>2, <3>3
  <2>4. DOMAIN senders_to_remove' = {}
    BY <1>1, <1>3
  <2>5. QED BY <1>4, <2>1, <2>2, <2>3, <2>4 DEF Registered
<1>7. AtEvent'
  BY <1>1, <1>3 DEF OneLog, AtEvent
<1>8. Received'
  <2>1. ASSUME NEW s \in Subs PROVE ~Lacks(s) /\ ~Lacks(s)'
    BY <1>1, <1>3 DEF Lacks
  <2>2. ASSUME NEW s \in Subs \ {new}
        PROVE  UNCHANGED <<sub[s], sub_buf[s], cursor[s]>>
    BY <1>1, <1>2
  <2>3. /\ sub'[new] = "open" /\ sub_buf'[new] = <<>> /\ cursor'[new] = Len(log)
        /\ UNCHANGED log
    BY <1>1, <1>2 DEF OneLog, Received
  <2>4. Len(<<>>) = 0
    OBVIOUS
  <2>5. ASSUME NEW s \in Subs
        PROVE  /\ sub'[s] = "unused" => sub_buf'[s] = <<>>
               /\ sub'[s] = "open" =>
                    /\ cursor'[s] + Len(sub_buf'[s]) = Len(log')
                    /\ \A j \in 1 .. Len(sub_buf'[s]) :
                         sub_buf'[s][j] = log'[cursor'[s] + j]
    <3>1. CASE s = new
      BY <1>2, <2>3, <2>4, <3>1
    <3>2. CASE s # new
      <4>1. s \in Subs \ {new}
        BY <3>2
      <4>2. cursor[s] \in Nat /\ Len(sub_buf[s]) \in Nat
        BY <1>2
      <4>3. /\ sub[s] = "unused" => sub_buf[s] = <<>>
            /\ sub[s] = "open" =>
                 /\ cursor[s] + Len(sub_buf[s]) = Len(log)
                 /\ \A j \in 1 .. Len(sub_buf[s]) : sub_buf[s][j] = log[cursor[s] + j]
        BY <2>1, <4>2 DEF OneLog, Received
      <4>4. QED BY <2>2, <2>3, <4>1, <4>3
    <3>3. QED BY <3>1, <3>2
  <2>6. \A s \in Subs : cursor'[s] \in Nat /\ Len(sub_buf'[s]) \in Nat
    BY <1>1, <1>2
  <2>7. QED BY <2>1, <2>5, <2>6 DEF Received
<1>9. QED BY <1>6, <1>7, <1>8 DEF OneLog

\* With a new event every open redirection lacks the last one.
LEMMA StartBroadcastStep ==
  ASSUME IInv, OneLog, lpc = "lock", NEW cleared \in BOOLEAN,
         StartBroadcast(cleared),
         UNCHANGED <<output_result_senders, broadcastVars, subVars>>
  PROVE  OneLog'
<1> DEFINE sent == [id |-> ending.id, task |-> ending.task, has_cleared |-> cleared]
<1>1. PICK event \in Event : /\ ending' = event /\ log' = Append(log, event)
                             /\ lpc' = "broadcast"
  <2>1. ending \in Output
    BY DEF IInv, Broadcasting
  <2>2. sent \in Event
    BY <2>1 DEF Output, Event
  <2>3. ending' = sent /\ log' = Append(log, sent) /\ lpc' = "broadcast"
    BY DEF StartBroadcast
  <2> HIDE DEF sent
  <2>4. QED BY <2>2, <2>3
<1>2. /\ log \in Seq(Event) /\ Len(log) \in Nat
      /\ sub_buf \in [Subs -> Seq(Event)] /\ cursor \in [Subs -> Nat]
      /\ output_result_senders \in Seq(Subs)
  BY DEF IInv, TypeOK, SubTypeOK, ForgeTypeOK
<1>3. /\ log' \in Seq(Event) /\ Len(log') = Len(log) + 1
      /\ log'[Len(log) + 1] = event
      /\ \A i \in 1 .. Len(log) : log'[i] = log[i]
  BY <1>1, <1>2
<1>4. next_sub = 1
  BY DEF OneLog, AtEvent
<1>5. Registered'
  BY DEF OneLog, Registered, subVars, broadcastVars
<1>6. AtEvent'
  BY <1>1, <1>2, <1>3 DEF AtEvent
<1>7. ASSUME NEW s \in Subs, sub[s] = "open"
      PROVE  /\ Lacks(s)'
             /\ cursor[s] + Len(sub_buf[s]) = Len(log)
             /\ \A j \in 1 .. Len(sub_buf[s]) : sub_buf[s][j] = log'[cursor[s] + j]
  <2>1. \E k \in 1 .. Len(output_result_senders) : output_result_senders[k] = s
    BY <1>2, <1>7 DEF OneLog, Registered
  <2>2. Lacks(s)'
    BY <1>1, <1>4, <2>1 DEF Lacks, broadcastVars
  <2>3. ~Lacks(s)
    BY DEF Lacks
  <2>4. /\ cursor[s] \in Nat /\ Len(sub_buf[s]) \in Nat
        /\ cursor[s] + Len(sub_buf[s]) = Len(log)
        /\ \A j \in 1 .. Len(sub_buf[s]) : sub_buf[s][j] = log[cursor[s] + j]
    BY <1>2, <1>7, <2>3 DEF OneLog, Received
  <2>5. \A j \in 1 .. Len(sub_buf[s]) : cursor[s] + j \in 1 .. Len(log)
    BY <1>2, <2>4
  <2>6. QED BY <1>3, <2>2, <2>4, <2>5
<1>8. Received'
  BY <1>2, <1>3, <1>7 DEF OneLog, Received, subVars
<1>9. QED BY <1>5, <1>6, <1>8 DEF OneLog

\* A send delivers the event to the redirection at hand, or finds it closed.
LEMMA BroadcastSendStep == ASSUME IInv, OneLog, BroadcastSend PROVE OneLog'
<1>0. /\ output_result_senders \in Seq(Subs) /\ next_sub \in Nat \ {0}
      /\ next_sub <= Len(output_result_senders)
  BY DEF BroadcastSend, IInv, TypeOK, ForgeTypeOK, ListenerTypeOK
<1>a. PICK n \in Nat : n = Len(output_result_senders)
  BY <1>0
<1>b. PICK s \in Subs : s = output_result_senders[next_sub]
  BY <1>0
<1>1. /\ next_sub \in 1 .. n /\ DOMAIN output_result_senders = 1 .. n
      /\ ending \in Event /\ lpc = "broadcast" /\ log \in Seq(Event) /\ Len(log) \in Nat
      /\ senders_to_remove \in Seq(Nat \ {0})
      /\ sub \in [Subs -> {"unused", "open", "closed"}]
      /\ sub_buf \in [Subs -> Seq(Event)] /\ cursor \in [Subs -> Nat]
  <2>1. next_sub \in 1 .. n /\ DOMAIN output_result_senders = 1 .. n
    BY <1>0, <1>a
  <2>2. lpc = "broadcast"
    BY DEF BroadcastSend
  <2>3. QED BY <2>1, <2>2 DEF IInv, TypeOK, ListenerTypeOK, SubTypeOK, Broadcasting
<1>2. /\ lpc = "broadcast" /\ next_sub' = next_sub + 1
      /\ UNCHANGED <<output_result_senders, lpc, ending, sub, cursor, log>>
      /\ \/ /\ sub[s] = "closed" /\ UNCHANGED sub_buf
            /\ senders_to_remove' = Append(senders_to_remove, next_sub)
         \/ /\ sub[s] = "open" /\ UNCHANGED senders_to_remove
            /\ sub_buf' = [sub_buf EXCEPT ![s] = Append(@, ending)]
  BY <1>b DEF BroadcastSend, SendFails, forgeVars
<1>3. Registered'
  <2>1. \A k \in DOMAIN senders_to_remove :
          sub[output_result_senders[senders_to_remove[k]]] = "closed"
    BY DEF OneLog, Registered
  <2>2. \A k \in DOMAIN senders_to_remove' :
          \/ /\ k \in DOMAIN senders_to_remove
             /\ senders_to_remove'[k] = senders_to_remove[k]
          \/ senders_to_remove'[k] = next_sub /\ sub[s] = "closed"
    <3>1. CASE senders_to_remove' = Append(senders_to_remove, next_sub)
      <4> DEFINE m == Len(senders_to_remove)
      <4>1. /\ m \in Nat /\ DOMAIN senders_to_remove = 1 .. m
            /\ DOMAIN Append(senders_to_remove, next_sub) = 1 .. m + 1
            /\ Append(senders_to_remove, next_sub)[m + 1] = next_sub
            /\ \A k \in 1 .. m : Append(senders_to_remove, next_sub)[k]
                                   = senders_to_remove[k]
        BY <1>1
      <4>2. sub[s] = "closed"
        <5>1. senders_to_remove' # senders_to_remove
          <6> HIDE DEF m
          <6>1. m + 1 \notin 1 .. m
            BY <4>1
          <6>2. m + 1 \in 1 .. m + 1
            BY <4>1
          <6>3. QED BY <3>1, <4>1, <6>1, <6>2
        <5>2. QED BY <1>2, <5>1
      <4> HIDE DEF m
      <4>3. \A k \in 1 .. m + 1 : k \in 1 .. m \/ k = m + 1
        BY <4>1
      <4>4. QED BY <3>1, <4>1, <4>2, <4>3
    <3>2. CASE UNCHANGED senders_to_remove
      BY <3>2
    <3>3. QED BY <1>2, <3>1, <3>2
  <2>3. \A k \in DOMAIN senders_to_remove' :
          sub[output_result_senders[senders_to_remove'[k]]] = "closed"
    BY <1>b, <2>1, <2>2
  <2>4. QED BY <1>2, <2>3 DEF OneLog, Registered
<1>4. AtEvent'
  BY <1>2 DEF OneLog, AtEvent
<1>5. Lacks(s) /\ ~Lacks(s)'
  <2>1. Lacks(s)
    BY <1>a, <1>b, <1>1, <1>2 DEF Lacks
  <2>2. ASSUME NEW k \in next_sub + 1 .. n PROVE output_result_senders[k] # s
    <3>1. k \in 1 .. n /\ k # next_sub
      BY <1>1
    <3>2. QED BY <1>b, <1>1, <3>1 DEF OneLog, Registered
  <2>3. QED BY <1>a, <1>2, <2>1, <2>2 DEF Lacks
<1>6. \A x \in Subs \ {s} : Lacks(x)' <=> Lacks(x)
  <2> SUFFICES ASSUME NEW x \in Subs \ {s} PROVE Lacks(x)' <=> Lacks(x)
    OBVIOUS
  <2>1. \A k \in next_sub .. n : k = next_sub \/ k \in next_sub + 1 .. n
    BY <1>1
  <2>2. next_sub + 1 .. n \subseteq next_sub .. n
    BY <1>1
  <2>3. (\E k \in next_sub .. n : output_result_senders[k] = x)
          <=> \E k \in next_sub + 1 .. n : output_result_senders[k] = x
    BY <1>b, <2>1, <2>2
  <2>4. QED BY <1>a, <1>2, <2>3 DEF Lacks
<1>7. ASSUME sub[s] = "open", sub_buf' = [sub_buf EXCEPT ![s] = Append(@, ending)]
      PROVE  /\ cursor[s] + Len(sub_buf'[s]) = Len(log)
             /\ \A j \in 1 .. Len(sub_buf'[s]) : sub_buf'[s][j] = log[cursor[s] + j]
  <2> DEFINE b == sub_buf[s]
  <2>1. /\ b \in Seq(Event) /\ Len(b) \in Nat /\ cursor[s] \in Nat
        /\ cursor[s] + Len(b) + 1 = Len(log)
        /\ \A j \in 1 .. Len(b) : b[j] = log[cursor[s] + j]
    BY <1>1, <1>5, <1>7 DEF OneLog, Received
  <2>2. sub_buf'[s] = Append(b, ending)
    BY <1>1, <1>7
  <2>3. /\ Len(Append(b, ending)) = Len(b) + 1
        /\ Append(b, ending)[Len(b) + 1] = ending
        /\ \A j \in 1 .. Len(b) : Append(b, ending)[j] = b[j]
    BY <1>1, <2>1
  <2>4. ending = log[cursor[s] + (Len(b) + 1)]
    <3>1. cursor[s] + (Len(b) + 1) = Len(log)
      BY <1>1, <2>1
    <3>2. QED BY <1>2, <3>1 DEF OneLog, AtEvent
  <2> HIDE DEF b
  <2>5. \A j \in 1 .. Len(b) + 1 : j \in 1 .. Len(b) \/ j = Len(b) + 1
    BY <2>1
  <2>6. QED BY <2>1, <2>2, <2>3, <2>4, <2>5
<1>8. Received'
  <2> SUFFICES ASSUME NEW x \in Subs
               PROVE  /\ sub[x] = "unused" => sub_buf'[x] = <<>>
                      /\ sub[x] = "open" =>
                           /\ cursor[x] + Len(sub_buf'[x]) + (IF Lacks(x)' THEN 1 ELSE 0)
                                = Len(log)
                           /\ \A j \in 1 .. Len(sub_buf'[x]) :
                                sub_buf'[x][j] = log[cursor[x] + j]
    BY <1>2 DEF Received
  <2>1. CASE x = s
    <3>1. CASE sub[s] = "closed"
      BY <2>1, <3>1
    <3>2. CASE sub[s] = "open"
      <4>1. sub_buf' = [sub_buf EXCEPT ![s] = Append(@, ending)]
        BY <1>2, <3>2
      <4>2. cursor[s] \in Nat /\ Len(sub_buf'[s]) \in Nat
        <5>1. Append(sub_buf[s], ending) \in Seq(Event)
          BY <1>1
        <5>2. sub_buf'[s] = Append(sub_buf[s], ending)
          BY <1>1, <4>1
        <5>3. QED BY <1>1, <5>1, <5>2
      <4>3. /\ cursor[s] + Len(sub_buf'[s]) = Len(log)
            /\ \A j \in 1 .. Len(sub_buf'[s]) : sub_buf'[s][j] = log[cursor[s] + j]
        BY <1>7, <3>2, <4>1
      <4>4. QED BY <1>5, <2>1, <3>2, <4>2, <4>3
    <3>3. QED BY <1>2, <2>1, <3>1, <3>2
  <2>2. CASE x # s
    <3>1. sub_buf'[x] = sub_buf[x]
      BY <1>1, <1>2, <2>2
    <3>2. QED BY <1>6, <2>2, <3>1 DEF OneLog, Received
  <2>3. QED BY <2>1, <2>2
<1>9. QED BY <1>3, <1>4, <1>8 DEF OneLog

\* The last position to prune goes; those before it still name closed ones.
LEMMA PruneSenderStep == ASSUME IInv, OneLog, PruneSender PROVE OneLog'
<1>1. PICK m \in Nat \ {0}, p \in Nat, n \in Nat :
        /\ m = Len(senders_to_remove) /\ n = Len(output_result_senders)
        /\ p = senders_to_remove[m] /\ p \in 1 .. n
        /\ DOMAIN senders_to_remove = 1 .. m
        /\ \A k \in 1 .. m - 1 : senders_to_remove[k] \in 1 .. p - 1
  <2> DEFINE m == Len(senders_to_remove)
  <2>1. /\ m \in Nat \ {0} /\ DOMAIN senders_to_remove = 1 .. m
        /\ Len(output_result_senders) \in Nat
        /\ \A k \in 1 .. m : senders_to_remove[k] \in Nat \ {0}
    BY DEF PruneSender, IInv, TypeOK, ForgeTypeOK, ListenerTypeOK
  <2>2. /\ \A k \in 1 .. m : senders_to_remove[k] <= Len(output_result_senders)
        /\ \A j, k \in 1 .. m : j < k => senders_to_remove[j] < senders_to_remove[k]
    BY <2>1 DEF IInv, Broadcasting
  <2> HIDE DEF m
  <2>3. m \in 1 .. m /\ \A k \in 1 .. m - 1 : k \in 1 .. m /\ k < m
    BY <2>1
  <2>4. \A k \in 1 .. m - 1 : senders_to_remove[k] \in 1 .. senders_to_remove[m] - 1
    BY <2>1, <2>2, <2>3
  <2>5. senders_to_remove[m] \in 1 .. Len(output_result_senders)
    BY <2>1, <2>2, <2>3
  <2>6. m = Len(senders_to_remove)
    BY DEF m
  <2> DEFINE p == senders_to_remove[m]
             n == Len(output_result_senders)
  <2>7. /\ m \in Nat \ {0} /\ p \in Nat /\ n \in Nat /\ p \in 1 .. n
        /\ \A k \in 1 .. m - 1 : senders_to_remove[k] \in 1 .. p - 1
    BY <2>1, <2>3, <2>4, <2>5
  <2>8. n = Len(output_result_senders) /\ p = senders_to_remove[m]
    OBVIOUS
  <2> HIDE DEF n, p
  <2>9. QED BY <2>1, <2>6, <2>7, <2>8, Zenon
<1>2. /\ output_result_senders' = RemoveAt(output_result_senders, p)
      /\ senders_to_remove' = RemoveAt(senders_to_remove, m)
      /\ UNCHANGED <<lpc, ending, next_sub, sub, sub_buf, cursor, log>>
      /\ lpc = "broadcast" /\ next_sub \in Nat /\ next_sub > n
  BY <1>1 DEF PruneSender, NextToPrune, subVars, IInv, TypeOK, ListenerTypeOK
<1>3. /\ output_result_senders \in Seq(Subs) /\ senders_to_remove \in Seq(Nat \ {0})
      /\ DOMAIN output_result_senders = 1 .. n
  BY <1>1 DEF IInv, TypeOK, ForgeTypeOK, ListenerTypeOK
<1>4. /\ Len(output_result_senders') = n - 1
      /\ DOMAIN output_result_senders' = 1 .. n - 1
      /\ \A k \in 1 .. n - 1 : output_result_senders'[k] =
           IF k < p THEN output_result_senders[k] ELSE output_result_senders[k+1]
  <2>1. p \in DOMAIN output_result_senders
    BY <1>1, <1>3
  <2> DEFINE l == RemoveAt(output_result_senders, p)
  <2>2. /\ l \in Seq(Subs) /\ Len(l) = Len(output_result_senders) - 1
        /\ \A k \in 1 .. Len(output_result_senders) - 1 : l[k] =
             IF k < p THEN output_result_senders[k] ELSE output_result_senders[k+1]
    BY <1>3, <2>1, RemoveAtProperties, Zenon
  <2>3. output_result_senders' = l /\ Len(output_result_senders) = n
    BY <1>1, <1>2
  <2> HIDE DEF l
  <2>4. QED BY <2>2, <2>3
<1>5. /\ DOMAIN senders_to_remove' = 1 .. m - 1
      /\ \A k \in 1 .. m - 1 : senders_to_remove'[k] = senders_to_remove[k]
  <2>1. m \in DOMAIN senders_to_remove
    BY <1>1
  <2> DEFINE l == RemoveAt(senders_to_remove, m)
  <2>2. /\ l \in Seq(Nat \ {0}) /\ Len(l) = Len(senders_to_remove) - 1
        /\ \A k \in 1 .. Len(senders_to_remove) - 1 : l[k] =
             IF k < m THEN senders_to_remove[k] ELSE senders_to_remove[k+1]
    BY <1>3, <2>1, RemoveAtProperties, Zenon
  <2>3. senders_to_remove' = l /\ Len(senders_to_remove) = m /\ m \in Nat
    BY <1>1, <1>2
  <2> HIDE DEF l
  <2>4. QED BY <2>2, <2>3
<1>6. sub[output_result_senders[p]] = "closed"
  <2>1. m \in DOMAIN senders_to_remove
    BY <1>1
  <2>2. QED BY <1>1, <2>1 DEF OneLog, Registered
<1>7. Registered'
  <2> DEFINE from(k) == IF k < p THEN k ELSE k + 1
  <2>1. ASSUME NEW k \in 1 .. n - 1
        PROVE  /\ from(k) \in 1 .. n
               /\ output_result_senders'[k] = output_result_senders[from(k)]
    BY <1>1, <1>4
  <2>2. ASSUME NEW j \in 1 .. n - 1, NEW k \in 1 .. n - 1,
               output_result_senders'[j] = output_result_senders'[k]
        PROVE  j = k
    <3>1. from(j) = from(k)
      <4>1. /\ from(j) \in 1 .. n /\ from(k) \in 1 .. n
            /\ output_result_senders[from(j)] = output_result_senders[from(k)]
        BY <2>1, <2>2
      <4> HIDE DEF from
      <4>2. QED BY <1>3, <4>1 DEF OneLog, Registered
    <3>2. QED BY <1>1, <3>1
  <2>3. ASSUME NEW s \in Subs, sub[s] = "open"
        PROVE  \E k \in 1 .. n - 1 : output_result_senders'[k] = s
    <3>1. PICK i \in 1 .. n : output_result_senders[i] = s
      BY <1>3, <2>3 DEF OneLog, Registered
    <3>2. i # p
      BY <1>6, <2>3, <3>1
    <3>3. CASE i < p
      <4>1. i \in 1 .. n - 1 /\ output_result_senders'[i] = output_result_senders[i]
        BY <1>1, <1>4, <3>3
      <4>2. QED BY <3>1, <4>1
    <3>4. CASE i > p
      <4>1. i - 1 \in 1 .. n - 1 /\ ~(i - 1 < p) /\ (i - 1) + 1 = i
        BY <1>1, <3>4
      <4>2. output_result_senders'[i - 1] = output_result_senders[i]
        BY <1>4, <4>1
      <4>3. QED BY <3>1, <4>1, <4>2
    <3>5. QED BY <1>1, <3>2, <3>3, <3>4
  <2>4. ASSUME NEW k \in 1 .. n - 1
        PROVE  sub[output_result_senders'[k]] # "unused"
    <3> HIDE DEF from
    <3>1. QED BY <1>3, <2>1 DEF OneLog, Registered
  <2>5. ASSUME NEW k \in 1 .. m - 1
        PROVE  sub[output_result_senders'[senders_to_remove'[k]]] = "closed"
    <3>1. k \in 1 .. m
      BY <1>1
    <3>2. sub[output_result_senders[senders_to_remove[k]]] = "closed"
      BY <1>1, <3>1 DEF OneLog, Registered
    <3>3. senders_to_remove[k] \in 1 .. n - 1 /\ senders_to_remove[k] < p
      BY <1>1
    <3>4. output_result_senders'[senders_to_remove[k]]
            = output_result_senders[senders_to_remove[k]]
      BY <1>4, <3>3
    <3>5. QED BY <1>5, <3>2, <3>4
  <2>6. QED BY <1>2, <1>4, <1>5, <2>2, <2>3, <2>4, <2>5 DEF Registered
<1>8. AtEvent'
  BY <1>2 DEF OneLog, AtEvent
<1>9. ASSUME NEW s PROVE ~Lacks(s) /\ ~Lacks(s)'
  <2>1. next_sub .. n = {} /\ next_sub .. n - 1 = {}
    BY <1>1, <1>2
  <2>2. Len(output_result_senders) = n /\ Len(output_result_senders') = n - 1
        /\ next_sub' = next_sub
    BY <1>1, <1>2, <1>4
  <2>3. QED BY <2>1, <2>2 DEF Lacks
<1>10. Received'
  BY <1>2, <1>9 DEF OneLog, Received
<1>11. QED BY <1>7, <1>8, <1>10 DEF OneLog

\* The broadcast over, no redirection lacks anything.
LEMMA ListenStep ==
  ASSUME IInv, OneLog, EndBroadcast \/ ReportError
  PROVE  OneLog'
<1>1. /\ lpc' = "recv" /\ next_sub' = 1
      /\ UNCHANGED <<output_result_senders, senders_to_remove, sub, sub_buf, cursor, log>>
  BY DEF EndBroadcast, ReportError, Listen, forgeVars, subVars
<1>2. ASSUME NEW s PROVE ~Lacks(s) /\ ~Lacks(s)'
  <2>1. lpc # "broadcast" \/ next_sub > Len(output_result_senders)
    BY DEF EndBroadcast, ReportError
  <2>2. next_sub \in Nat /\ Len(output_result_senders) \in Nat
    BY DEF IInv, TypeOK, ForgeTypeOK, ListenerTypeOK
  <2>3. next_sub > Len(output_result_senders) =>
          next_sub .. Len(output_result_senders) = {}
    BY <2>2
  <2>4. QED BY <1>1, <2>1, <2>3 DEF Lacks
<1>3. Registered' /\ AtEvent'
  BY <1>1 DEF OneLog, Registered, AtEvent
<1>4. Received'
  BY <1>1, <1>2 DEF OneLog, Received
<1>5. QED BY <1>3, <1>4 DEF OneLog

\* A subscriber takes the event its cursor points at, or closes its end.
LEMMA SubscriberStep ==
  ASSUME IInv, OneLog, NEW s \in Subs, Receive(s) \/ DropReceiver(s)
  PROVE  OneLog'
<1>1. UNCHANGED <<output_result_senders, senders_to_remove, lpc, ending, next_sub, log>>
  BY DEF Receive, DropReceiver, forgeVars, listenerVars, broadcastVars
<1>2. /\ sub \in [Subs -> {"unused", "open", "closed"}]
      /\ sub_buf \in [Subs -> Seq(Event)] /\ cursor \in [Subs -> Nat]
      /\ output_result_senders \in Seq(Subs)
  BY DEF IInv, TypeOK, SubTypeOK, ForgeTypeOK
<1>3. AtEvent'
  BY <1>1 DEF OneLog, AtEvent
<1>4. \A x : Lacks(x)' <=> Lacks(x)
  BY <1>1 DEF Lacks
<1>5. \A x \in Subs \ {s} : UNCHANGED <<sub[x], sub_buf[x], cursor[x]>>
  BY <1>2 DEF Receive, DropReceiver
<1>6. CASE Receive(s)
  <2> DEFINE b == sub_buf[s]
  <2>1. /\ b \in Seq(Event) /\ b # <<>> /\ cursor[s] \in Nat /\ sub[s] = "open"
        /\ sub_buf'[s] = Tail(b) /\ cursor'[s] = cursor[s] + 1 /\ UNCHANGED sub
    BY <1>2, <1>6 DEF Receive
  <2>2. /\ Len(b) \in Nat /\ Len(Tail(b)) = Len(b) - 1 /\ Len(Tail(b)) \in Nat
        /\ \A j \in 1 .. Len(b) - 1 : Tail(b)[j] = b[j + 1]
    BY <2>1
  <2>3. /\ cursor[s] + Len(b) + (IF Lacks(s) THEN 1 ELSE 0) = Len(log)
        /\ \A j \in 1 .. Len(b) : b[j] = log[cursor[s] + j]
    BY <2>1 DEF OneLog, Received
  <2> HIDE DEF b
  <2>4. \A j \in 1 .. Len(b) - 1 : Tail(b)[j] = log[(cursor[s] + 1) + j]
    <3> SUFFICES ASSUME NEW j \in 1 .. Len(b) - 1
                 PROVE  Tail(b)[j] = log[(cursor[s] + 1) + j]
      OBVIOUS
    <3>1. j + 1 \in 1 .. Len(b)
      BY <2>2
    <3>2. cursor[s] \in Nat
      BY <2>1
    <3>3. cursor[s] + (j + 1) = (cursor[s] + 1) + j
      BY <3>2
    <3>4. QED BY <2>2, <2>3, <3>1, <3>3
  <2>5. (cursor[s] + 1) + Len(Tail(b)) + (IF Lacks(s) THEN 1 ELSE 0) = Len(log)
    BY <2>1, <2>2, <2>3
  <2>6. Received'
    <3> SUFFICES ASSUME NEW x \in Subs
                 PROVE  /\ sub[x] = "unused" => sub_buf'[x] = <<>>
                        /\ sub[x] = "open" =>
                             /\ cursor'[x] + Len(sub_buf'[x])
                                  + (IF Lacks(x) THEN 1 ELSE 0) = Len(log)
                             /\ \A j \in 1 .. Len(sub_buf'[x]) :
                                  sub_buf'[x][j] = log[cursor'[x] + j]
      BY <1>1, <1>4, <2>1 DEF Received
    <3>1. CASE x = s
      BY <2>1, <2>2, <2>4, <2>5, <3>1
    <3>2. CASE x # s
      BY <1>5, <3>2 DEF OneLog, Received
    <3>3. QED BY <3>1, <3>2
  <2>7. Registered'
    BY <1>1, <2>1 DEF OneLog, Registered
  <2>8. QED BY <1>3, <2>6, <2>7 DEF OneLog
<1>7. CASE DropReceiver(s)
  <2>1. sub[s] = "open" /\ sub' = [sub EXCEPT ![s] = "closed"]
    BY <1>7 DEF DropReceiver
  <2>2. Received'
    <3>1. sub'[s] = "closed"
      BY <1>2, <2>1
    <3>2. QED BY <1>1, <1>4, <1>5, <3>1 DEF OneLog, Received
  <2>3. Registered'
    <3>1. \A x \in Subs : /\ sub'[x] = "open" => sub[x] = "open"
                          /\ sub[x] # "unused" => sub'[x] # "unused"
                          /\ sub[x] = "closed" => sub'[x] = "closed"
      BY <1>2, <2>1
    <3>2. \A k \in DOMAIN output_result_senders : output_result_senders[k] \in Subs
      BY <1>2
    <3>3. \A k \in DOMAIN senders_to_remove :
            senders_to_remove[k] \in DOMAIN output_result_senders
      BY DEF IInv, Broadcasting, TypeOK, ForgeTypeOK, ListenerTypeOK
    <3>4. QED BY <1>1, <3>1, <3>2, <3>3 DEF OneLog, Registered
  <2>4. QED BY <1>3, <2>2, <2>3 DEF OneLog
<1>8. QED BY <1>6, <1>7

\* A step keeps what the redirections hold.
LEMMA OneLogStep == IInv /\ OneLog /\ [Next]_vars => OneLog'
<1> SUFFICES ASSUME IInv, OneLog, [Next]_vars PROVE OneLog'
  OBVIOUS
<1>1. CASE UNCHANGED <<output_result_senders, listenerVars, subVars, log>>
  BY <1>1 DEF OneLog, Registered, AtEvent, Received, Lacks, listenerVars,
              broadcastVars, subVars
<1>2. CASE ListenerRecv \/ RefuseOutput \/ (ClearForge /\ lpc' = "error")
  <2>1. /\ lpc # "broadcast" /\ lpc' # "broadcast"
        /\ UNCHANGED <<output_result_senders, broadcastVars, subVars, log>>
    BY <1>2 DEF ListenerRecv, RefuseOutput, ClearForge, EndTask, StartBroadcast,
                forgeVars
  <2>2. Registered' /\ AtEvent'
    BY <2>1 DEF OneLog, Registered, AtEvent, broadcastVars, subVars
  <2>3. Received'
    BY <2>1 DEF OneLog, Received, Lacks, subVars
  <2>4. QED BY <2>2, <2>3 DEF OneLog
<1>3. CASE CloseTask \/ (ClearForge /\ lpc' # "error")
  <2>1. /\ lpc = "lock" /\ \E cleared \in BOOLEAN : StartBroadcast(cleared)
        /\ UNCHANGED <<output_result_senders, broadcastVars, subVars>>
    BY <1>3 DEF CloseTask, ClearForge, EndTask
  <2>2. QED BY <2>1, StartBroadcastStep
<1>4. CASE ListenerStep
  BY <1>2, <1>3, <1>4, BroadcastSendStep, PruneSenderStep, ListenStep
  DEF ListenerStep
<1>5. QED BY <1>1, <1>4, LogFrame, RegisterStep, SubscriberStep

\* It is so in the beginning.
LEMMA OneLogInitially == Init => OneLog
<1> SUFFICES ASSUME Init PROVE OneLog
  OBVIOUS
<1>1. /\ output_result_senders = <<>> /\ senders_to_remove = <<>>
      /\ lpc = "recv" /\ next_sub = 1
      /\ \A s \in Subs : sub[s] = "unused" /\ sub_buf[s] = <<>>
  BY DEF Init
<1>2. Registered /\ AtEvent
  BY <1>1 DEF Registered, AtEvent
<1>3. Received
  BY <1>1 DEF Received
<1>4. QED BY <1>2, <1>3 DEF OneLog

\* Every open redirection holds, in order, the events since it was registered,
\* whatever redirections are opened, dropped and pruned around it.
THEOREM SubscribersAgree == Spec => []SubscribersSeeOneLog
<1>1. Init => OneLog
  BY OneLogInitially
<1>2. IInv /\ OneLog /\ [Next]_vars => OneLog'
  BY OneLogStep
<1>3. IInv /\ OneLog => SubscribersSeeOneLog
  <2> SUFFICES ASSUME IInv, OneLog, NEW s \in Subs, sub[s] = "open"
               PROVE  LET seen == cursor[s] + Len(sub_buf[s]) IN
                      /\ sub_buf[s] = SubSeq(log, cursor[s] + 1, seen)
                      /\ \/ seen = Len(log)
                         \/ /\ lpc = "broadcast" /\ seen = Len(log) - 1
                            /\ \E k \in next_sub .. Len(output_result_senders) :
                                 output_result_senders[k] = s
    BY DEF SubscribersSeeOneLog
  <2> DEFINE b == sub_buf[s]
             c == cursor[s]
             part == SubSeq(log, c + 1, c + Len(b))
  <2>1. /\ b \in Seq(Event) /\ Len(b) \in Nat /\ c \in Nat
        /\ log \in Seq(Event) /\ Len(log) \in Nat
    BY DEF IInv, TypeOK, SubTypeOK
  <2>2. /\ c + Len(b) + (IF Lacks(s) THEN 1 ELSE 0) = Len(log)
        /\ \A j \in 1 .. Len(b) : b[j] = log[c + j]
    BY DEF OneLog, Received
  <2> HIDE DEF b, c
  <2>3. c + Len(b) = Len(log) \/ (Lacks(s) /\ c + Len(b) = Len(log) - 1)
    BY <2>1, <2>2
  <2>4. b = part
    <3>1. c + Len(b) <= Len(log)
      BY <2>1, <2>3
    <3>2. /\ part \in Seq(Event) /\ Len(part) = Len(b)
          /\ \A k \in 1 .. Len(b) : part[k] = log[c + k]
      BY <2>1, <3>1, PartProperties
    <3> HIDE DEF part
    <3>3. \A k \in 1 .. Len(b) : part[k] = b[k]
      BY <2>2, <3>2
    <3>4. QED BY <2>1, <3>2, <3>3, SeqEqual
  <2>5. QED BY <2>3, <2>4 DEF b, c, Lacks
<1>4. QED BY <1>1, <1>2, <1>3, Invariance, PTL DEF Spec
=============================================================================
