--------------------------- MODULE TaskForgeProofs ---------------------------
(***************************************************************************)
(* The safety of TaskForge for every number of clients, ids, redirections, *)
(* tasks and every capacity of the channels.                               *)
(***************************************************************************)
EXTENDS TaskForge, SequenceTheorems, FiniteSetTheorems, TLAPS

-----------------------------------------------------------------------------
(* The inductive invariant.                                                *)

\* Who is inside the lock can be told from the stages, and nobody shares it
\* with a writer.
Exclusion ==
  /\ \A c \in Clients : pc[c] = "notify" <=> writer = c
  /\ writer = Listener <=> lpc \in {"broadcast", "error"}
  /\ \A c \in Clients : pc[c] = "inbox" <=> c \in readers
  /\ writer # Nobody => readers = {}

\* What a call knows while it is under way.
Calls == \A c \in Clients :
  /\ pc[c] = "lock" => call[c] \in Call
  /\ pc[c] \in {"notify", "recv", "created", "relock", "inbox"} =>
       call[c].id \in Ids
  /\ pc[c] = "notify" =>
       task_states[call[c].id] = "Running" /\ forge[call[c].id] = NoTask
  /\ pc[c] = "inbox" => forge[call[c].id] # NoTask

\* What the listener knows; the positions to prune exist, each before the next.
Broadcasting ==
  /\ lpc = "lock" => ending \in Output
  /\ lpc = "broadcast" => ending \in Event
  /\ lpc # "broadcast" => senders_to_remove = <<>>
  /\ \A k \in DOMAIN senders_to_remove :
       /\ senders_to_remove[k] < next_sub
       /\ senders_to_remove[k] <= Len(output_result_senders)
  /\ \A j, k \in DOMAIN senders_to_remove :
       j < k => senders_to_remove[j] < senders_to_remove[k]

IInv == /\ TypeOK /\ Exclusion /\ Calls /\ Broadcasting
        /\ SendersMatchStates /\ NoLostWakeup /\ NoMissedCleaning
-----------------------------------------------------------------------------
(* Facts about the operators the actions are built from.                   *)

\* RemoveAt(s, i) is s without its element at i.
LEMMA RemoveAtProperties ==
  ASSUME NEW S, NEW s \in Seq(S), NEW i \in DOMAIN s
  PROVE  /\ RemoveAt(s, i) \in Seq(S)
         /\ Len(RemoveAt(s, i)) = Len(s) - 1
         /\ \A j \in 1 .. Len(s) - 1 :
              RemoveAt(s, i)[j] = IF j < i THEN s[j] ELSE s[j+1]
<1> DEFINE l == SubSeq(s, 1, i-1)
           r == SubSeq(s, i+1, Len(s))
<1>1. /\ i \in 1 .. Len(s) /\ Len(s) \in Nat
      /\ \A j \in 1 .. Len(s) : s[j] \in S
  BY LenProperties
<1>2. /\ l \in Seq(S) /\ Len(l) = i - 1
      /\ \A j \in 1 .. i-1 : l[j] = s[j]
  <2>1. \A j \in 1 .. i-1 : s[j] \in S
    BY <1>1
  <2>2. QED BY <1>1, <2>1, SubSeqProperties
<1>3. /\ r \in Seq(S) /\ Len(r) = Len(s) - i
      /\ \A j \in 1 .. Len(s) - i : r[j] = s[i+j]
  <2>1. \A j \in i+1 .. Len(s) : s[j] \in S
    BY <1>1
  <2>2. /\ r \in Seq(S)
        /\ Len(r) = IF i+1 <= Len(s) THEN Len(s) - (i+1) + 1 ELSE 0
        /\ \A j \in 1 .. Len(s) - (i+1) + 1 : r[j] = s[(i+1) + j - 1]
    BY <1>1, <2>1, SubSeqProperties
  <2>3. QED BY <1>1, <2>2
<1> HIDE DEF l, r
<1>4. /\ l \o r \in Seq(S)
      /\ Len(l \o r) = Len(l) + Len(r)
      /\ \A j \in 1 .. Len(l) + Len(r) :
           (l \o r)[j] = IF j <= Len(l) THEN l[j] ELSE r[j - Len(l)]
  BY <1>2, <1>3, ConcatProperties
<1>5. \A j \in 1 .. Len(s) - 1 : (l \o r)[j] = IF j < i THEN s[j] ELSE s[j+1]
  <2> TAKE j \in 1 .. Len(s) - 1
  <2>1. CASE j < i
    <3>1. j \in 1 .. i-1 /\ j \in 1 .. Len(l) + Len(r) /\ j <= Len(l)
      BY <2>1, <1>1, <1>2, <1>3
    <3>2. (l \o r)[j] = l[j]
      BY <3>1, <1>4
    <3>3. QED BY <2>1, <3>1, <3>2, <1>2
  <2>2. CASE ~(j < i)
    <3>1. j \in 1 .. Len(l) + Len(r) /\ ~(j <= Len(l))
      BY <2>2, <1>1, <1>2, <1>3
    <3>2. (l \o r)[j] = r[j - (i - 1)]
      BY <3>1, <1>2, <1>4
    <3>3. j - (i - 1) \in 1 .. Len(s) - i /\ i + (j - (i - 1)) = j + 1
      BY <2>2, <1>1
    <3>4. QED BY <3>2, <3>3, <2>2, <1>3
  <2>3. QED BY <2>1, <2>2
<1>6. RemoveAt(s, i) = l \o r
  BY DEF RemoveAt, l, r
<1>7. l \o r \in Seq(S) /\ Len(l \o r) = Len(s) - 1
  BY <1>1, <1>2, <1>3, <1>4
<1>8. QED BY <1>5, <1>6, <1>7, Zenon

\* Serving a request leaves a queue of requests and means that nobody writes,
\* nor reads if the request is to write.
LEMMA ServedProperties ==
  ASSUME LockTypeOK, NEW p, NEW mode, Served(p, mode)
  PROVE  /\ queue' \in Seq([proc : Procs, mode : {"read", "write"}])
         /\ writer = Nobody
         /\ mode = "write" => readers = {}
  BY RemoveAtProperties DEF LockTypeOK, Served, Turn

\* The same for a request withdrawn.
LEMMA WithdrawProperties ==
  ASSUME LockTypeOK, NEW p, Withdraw(p)
  PROVE  LockTypeOK'
  BY RemoveAtProperties DEF LockTypeOK, Withdraw

\* A call has the argument its operation takes.
LEMMA CallArguments ==
  ASSUME NEW r \in Call
  PROVE  /\ r.op \in TaskOps => r.id \in Ids
         /\ r.op = "clean" => r.awaited \in Awaited
         /\ r.op \in Ops /\ r # None
  BY ConstantsAssumption DEF Call, TaskOps, AllOps, None

\* A count with room goes up, and one that is not zero goes down, within bounds.
LEMMA CountBounds ==
  ASSUME NEW cap \in Nat, NEW n \in 0 .. cap
  PROVE  (n < cap => n + 1 \in 0 .. cap) /\ (n > 0 => n - 1 \in 0 .. cap)
  OBVIOUS

\* A call that returns, and one that goes on, leave the calls in their types.
LEMMA ReturnType ==
  ASSUME ClientTypeOK, NEW c \in Clients, NEW result \in Results,
         Return(c, result)
  PROVE  /\ pc' \in [Clients -> Stages]
         /\ call' \in [Clients -> Call \cup {None}]
         /\ ret' \in [Clients -> Results]
  BY DEF ClientTypeOK, Return, Stages

LEMMA GotoType ==
  ASSUME ClientTypeOK, NEW c \in Clients, NEW stage \in Stages, Goto(c, stage)
  PROVE  /\ pc' \in [Clients -> Stages]
         /\ call' \in [Clients -> Call \cup {None}]
         /\ ret' \in [Clients -> Results]
  BY DEF ClientTypeOK, Goto

-----------------------------------------------------------------------------
(* Type correctness.                                                       *)

\* A step keeps every variable in its type; positions to prune stay positions
\* of the list of redirections.
LEMMA TypeStep == IInv /\ [Next]_vars => TypeOK'
<1> SUFFICES ASSUME IInv, [Next]_vars PROVE TypeOK'
  OBVIOUS
<1> USE ConstantsAssumption
    DEF IInv, TypeOK, forgeVars, registry, waitVars, outputVars, listenerVars,
        broadcastVars, errorVars, subVars, world, lockVars, callVars, clientVars
<1>1. ASSUME NEW c \in Clients, NEW r \in Call, StartCall(c, r) PROVE TypeOK'
  <2>1. LockTypeOK'
    BY <1>1 DEF StartCall, Request, LockTypeOK, Procs
  <2>2. ClientTypeOK'
    BY <1>1 DEF StartCall, ClientTypeOK, Stages, Results
  <2>3. ForgeTypeOK' /\ (tasks \in Seq(Task))' /\ ListenerTypeOK' /\ SubTypeOK'
    BY <1>1 DEF StartCall, ForgeTypeOK, ListenerTypeOK, SubTypeOK
  <2>4. QED BY <2>1, <2>2, <2>3
<1>2. ASSUME NEW c \in Clients, RejectNewTask(c) \/ SendNoTask(c) \/ IsEmpty(c)
      PROVE  TypeOK'
  <2>1. LockTypeOK'
    BY <1>2, ServedProperties
    DEF RejectNewTask, SendNoTask, IsEmpty, WriteOnce, ReadOnce, LockTypeOK
  <2>2. ClientTypeOK'
    <3>1. \E result \in Results : Return(c, result)
      BY <1>2 DEF RejectNewTask, SendNoTask, IsEmpty, Results
    <3>2. UNCHANGED <<waitVars, cleaner>>
      BY <1>2 DEF RejectNewTask, SendNoTask, IsEmpty
    <3>3. QED BY <3>1, <3>2, ReturnType DEF ClientTypeOK
  <2>3. ForgeTypeOK' /\ (tasks \in Seq(Task))' /\ ListenerTypeOK' /\ SubTypeOK'
    BY <1>2 DEF RejectNewTask, SendNoTask, IsEmpty, ForgeTypeOK, ListenerTypeOK,
                SubTypeOK
  <2>4. QED BY <2>1, <2>2, <2>3
<1>3. ASSUME NEW c \in Clients, MarkRunning(c) PROVE TypeOK'
  <2>1. LockTypeOK'
    BY <1>3, ServedProperties DEF MarkRunning, StartWrite, LockTypeOK, Procs
  <2>2. call[c].id \in Ids
    BY <1>3, CallArguments DEF MarkRunning, AtLock, Calls, TaskOps
  <2>3. ForgeTypeOK'
    BY <1>3, <2>2 DEF MarkRunning, WithoutWaiters, ForgeTypeOK
  <2>4. ClientTypeOK'
    BY <1>3, <2>2 DEF MarkRunning, ClientTypeOK, ForgeTypeOK, Stages, Results
  <2>5. (tasks \in Seq(Task))' /\ ListenerTypeOK' /\ SubTypeOK'
    BY <1>3 DEF MarkRunning, ListenerTypeOK, SubTypeOK
  <2>6. QED BY <2>1, <2>3, <2>4, <2>5
<1>4. ASSUME NEW c \in Clients, NotifyWaiter(c) PROVE TypeOK'
  <2>1. ClientTypeOK'
    BY <1>4 DEF NotifyWaiter, ClientTypeOK, Results
  <2>2. /\ ForgeTypeOK' /\ LockTypeOK' /\ (tasks \in Seq(Task))'
        /\ ListenerTypeOK' /\ SubTypeOK'
    BY <1>4 DEF NotifyWaiter, ForgeTypeOK, LockTypeOK, ListenerTypeOK, SubTypeOK
  <2>3. QED BY <2>1, <2>2
<1>5. ASSUME NEW c \in Clients, BeginTask(c) PROVE TypeOK'
  <2>1. LockTypeOK'
    BY <1>5 DEF BeginTask, EndWrite, LockTypeOK
  <2>2. call[c].id \in Ids
    BY <1>5 DEF BeginTask, Calls
  <2>3. (tasks \in Seq(Task))' /\ Len(tasks') = Len(tasks) + 1
    BY <1>5, <2>2 DEF BeginTask, BegunTask, Task
  <2>4. ForgeTypeOK'
    <3>1. Len(tasks) \in Nat
      OBVIOUS
    <3>2. \A n \in 0 .. Len(tasks) : n \in 0 .. Len(tasks')
      BY <3>1, <2>3
    <3>3. Len(tasks) + 1 \in 0 .. Len(tasks')
      BY <3>1, <2>3
    <3>4. (forge \in [Ids -> 0 .. Len(tasks)])'
      BY <1>5, <3>2, <3>3 DEF BeginTask, ForgeTypeOK
    <3>5. QED BY <1>5, <3>4 DEF BeginTask, ForgeTypeOK
  <2>5. ClientTypeOK'
    BY <1>5 DEF BeginTask, Return, ClientTypeOK, Stages
  <2>6. ListenerTypeOK' /\ SubTypeOK'
    BY <1>5 DEF BeginTask, ListenerTypeOK, SubTypeOK
  <2>7. QED BY <2>1, <2>3, <2>4, <2>5, <2>6
<1>6. ASSUME NEW c \in Clients, WaitForTaskCreation(c) PROVE TypeOK'
  <2>1. LockTypeOK'
    BY <1>6, ServedProperties
    DEF WaitForTaskCreation, LockForWait, WriteOnce, LockTypeOK
  <2>2. ForgeTypeOK'
    <3>1. /\ UNCHANGED <<forge, tasks, task_states, cleaning_notifier,
                          output_result_senders>>
          /\ \/ UNCHANGED task_creation_senders
             \/ NewTaskNotifReceiver(c, call[c].id)
      BY <1>6 DEF WaitForTaskCreation
    <3>2. (task_creation_senders \in [Ids -> SUBSET (Clients \cup {Dead})])'
      <4>1. task_creation_senders \in [Ids -> SUBSET (Clients \cup {Dead})]
        BY DEF ForgeTypeOK
      <4>2. CASE UNCHANGED task_creation_senders
        BY <4>1, <4>2
      <4>3. CASE NewTaskNotifReceiver(c, call[c].id)
        BY <4>1, <4>3 DEF NewTaskNotifReceiver
      <4>4. QED BY <3>1, <4>2, <4>3
    <3>3. QED BY <3>1, <3>2 DEF ForgeTypeOK
  <2>3. ClientTypeOK'
    <3>1. \/ \E result \in Results : Return(c, result)
          \/ \E stage \in Stages : Goto(c, stage)
      BY <1>6 DEF WaitForTaskCreation, Created, Stages, Results
    <3>2. UNCHANGED <<waitVars, cleaner>>
      BY <1>6 DEF WaitForTaskCreation
    <3>3. QED BY <3>1, <3>2, ReturnType, GotoType DEF ClientTypeOK
  <2>4. (tasks \in Seq(Task))' /\ ListenerTypeOK' /\ SubTypeOK'
    BY <1>6 DEF WaitForTaskCreation, ListenerTypeOK, SubTypeOK
  <2>5. QED BY <2>1, <2>2, <2>3, <2>4
<1>7. ASSUME NEW c \in Clients, RecvCreation(c) PROVE TypeOK'
  <2>1. ClientTypeOK'
    <3>1. \/ \E result \in Results : Return(c, result)
          \/ \E stage \in Stages : Goto(c, stage)
      BY <1>7 DEF RecvCreation, Created, Stages, Results
    <3>2. notified' = notified \ {c} /\ UNCHANGED <<notifying, abandoned, cleaner>>
      BY <1>7 DEF RecvCreation
    <3>3. QED BY <3>1, <3>2, ReturnType, GotoType DEF ClientTypeOK
  <2>2. /\ ForgeTypeOK' /\ LockTypeOK' /\ (tasks \in Seq(Task))'
        /\ ListenerTypeOK' /\ SubTypeOK'
    BY <1>7 DEF RecvCreation, ForgeTypeOK, LockTypeOK, ListenerTypeOK, SubTypeOK
  <2>3. QED BY <2>1, <2>2
<1>8. ASSUME NEW c \in Clients, SendAfterWait(c) PROVE TypeOK'
  <2>1. LockTypeOK'
    BY <1>8 DEF SendAfterWait, Request, LockTypeOK, Procs
  <2>2. ClientTypeOK'
    BY <1>8 DEF SendAfterWait, Goto, ClientTypeOK, Stages
  <2>3. ForgeTypeOK' /\ (tasks \in Seq(Task))' /\ ListenerTypeOK' /\ SubTypeOK'
    BY <1>8 DEF SendAfterWait, ForgeTypeOK, ListenerTypeOK, SubTypeOK
  <2>4. QED BY <2>1, <2>2, <2>3
<1>9. ASSUME NEW c \in Clients, Send(c) PROVE TypeOK'
  <2>1. LockTypeOK'
    BY <1>9, ServedProperties DEF Send, StartRead, LockTypeOK
  <2>2. ClientTypeOK'
    BY <1>9 DEF Send, Goto, ClientTypeOK, Stages
  <2>3. ForgeTypeOK' /\ (tasks \in Seq(Task))' /\ ListenerTypeOK' /\ SubTypeOK'
    BY <1>9 DEF Send, ForgeTypeOK, ListenerTypeOK, SubTypeOK
  <2>4. QED BY <2>1, <2>2, <2>3
<1>10. ASSUME NEW c \in Clients, SendToInbox(c) PROVE TypeOK'
  <2>1. LockTypeOK'
    BY <1>10 DEF SendToInbox, EndRead, LockTypeOK
  <2>2. ClientTypeOK'
    <3>1. /\ \E result \in Results : Return(c, result)
          /\ UNCHANGED <<waitVars, cleaner>>
      BY <1>10 DEF SendToInbox, Results
    <3>2. QED BY <3>1, ReturnType DEF ClientTypeOK
  <2>3. (tasks \in Seq(Task))' /\ Len(tasks') = Len(tasks)
    <3> DEFINE i == forge[call[c].id]
    <3>1. i \in DOMAIN tasks
      BY <1>10 DEF SendToInbox, Calls, ForgeTypeOK, NoTask
    <3>2. CASE UNCHANGED tasks
      BY <3>2
    <3>3. CASE /\ InboxRoom(i)
               /\ tasks' = [tasks EXCEPT ![i] = [tasks[i] EXCEPT !.inbox = @ + 1]]
      <4>1. tasks[i] \in Task
        BY <3>1
      <4>2. tasks[i].inbox + 1 \in 0 .. InboxCap
        <5>1. tasks[i].inbox \in 0 .. InboxCap /\ tasks[i].inbox < InboxCap
          BY <3>3, <4>1 DEF InboxRoom, Task
        <5>2. QED BY <5>1, CountBounds, Zenon
      <4>3. [tasks[i] EXCEPT !.inbox = @ + 1] \in Task
        BY <4>1, <4>2 DEF Task
      <4>4. QED BY <3>1, <3>3, <4>3
    <3>4. QED BY <1>10, <3>2, <3>3 DEF SendToInbox
  <2>4. ForgeTypeOK' /\ ListenerTypeOK' /\ SubTypeOK'
    BY <1>10, <2>3 DEF SendToInbox, ForgeTypeOK, ListenerTypeOK, SubTypeOK
  <2>5. QED BY <2>1, <2>2, <2>3, <2>4
<1>11. ASSUME NEW c \in Clients, NewResultRedirection(c) PROVE TypeOK'
  <2>1. LockTypeOK'
    BY <1>11, ServedProperties DEF NewResultRedirection, WriteOnce, LockTypeOK
  <2>2. ClientTypeOK'
    BY <1>11 DEF NewResultRedirection, Return, ClientTypeOK, Stages, Results
  <2>3. ForgeTypeOK'
    BY <1>11 DEF NewResultRedirection, UnusedSubs, ForgeTypeOK
  <2>4. SubTypeOK'
    BY <1>11 DEF NewResultRedirection, UnusedSubs, SubTypeOK
  <2>5. (tasks \in Seq(Task))' /\ ListenerTypeOK'
    BY <1>11 DEF NewResultRedirection, ListenerTypeOK
  <2>6. QED BY <2>1, <2>2, <2>3, <2>4, <2>5
<1>12. ASSUME NEW c \in Clients, Clean(c) PROVE TypeOK'
  <2>1. LockTypeOK'
    BY <1>12, ServedProperties DEF Clean, WriteOnce, LockTypeOK
  <2>2. call[c].awaited \in Awaited
    BY <1>12, CallArguments DEF Clean, AtLock, Calls
  <2>3. ForgeTypeOK'
    BY <1>12, <2>2 DEF Clean, ForgetTasks, Notifier, ForgeTypeOK
  <2>4. ClientTypeOK'
    BY <1>12 DEF Clean, Orphaned, Return, ClientTypeOK, Stages, Results
  <2>5. (tasks \in Seq(Task))' /\ ListenerTypeOK' /\ SubTypeOK'
    BY <1>12 DEF Clean, ListenerTypeOK, SubTypeOK
  <2>6. QED BY <2>1, <2>3, <2>4, <2>5
<1>13. ASSUME NEW c \in Clients, Cancel(c) PROVE TypeOK'
  <2>1. LockTypeOK'
    BY <1>13, WithdrawProperties
    DEF Cancel, CancelQueued, CancelWait, CancelNotify, CancelSend, EndWrite,
        EndRead, LockTypeOK
  <2>2. ForgeTypeOK'
    <3>1. UNCHANGED forgeVars \/ CancelWait(c)
      BY <1>13 DEF Cancel, CancelQueued, CancelNotify, CancelSend
    <3>2. CASE UNCHANGED forgeVars
      BY <1>13, <3>2 DEF Cancel, ForgeTypeOK
    <3>3. CASE CancelWait(c)
      BY <1>13, <3>3 DEF Cancel, CancelWait, Bury, ForgeTypeOK
    <3>4. QED BY <3>1, <3>2, <3>3
  <2>3. ClientTypeOK'
    BY <1>13 DEF Cancel, CancelQueued, CancelWait, CancelNotify, CancelSend, Bury,
                 Return, ClientTypeOK, Stages, Results
  <2>4. (tasks \in Seq(Task))' /\ ListenerTypeOK' /\ SubTypeOK'
    BY <1>13 DEF Cancel, ListenerTypeOK, SubTypeOK
  <2>5. QED BY <2>1, <2>2, <2>3, <2>4
<1>14. ASSUME NEW c \in Clients, DropCleaner(c) PROVE TypeOK'
  BY <1>14 DEF DropCleaner, ForgeTypeOK, LockTypeOK, ClientTypeOK, ListenerTypeOK,
               SubTypeOK
<1>15. ASSUME NEW i \in DOMAIN tasks, TaskStep(i) PROVE TypeOK'
  <2>1. /\ end_channel' \in Seq(Output) /\ Len(end_channel') <= EndCap
        /\ UNCHANGED <<forgeVars, lockVars, clientVars, listenerVars, errorVars,
                       subVars, log>>
    <3>0. tasks[i] \in Task /\ i \in Nat \ {0}
      OBVIOUS
    <3>1. [id |-> tasks[i].id, task |-> i] \in Output
      BY <3>0 DEF Task, Output
    <3>2. CASE TaskOutputSent(i)
      BY <3>1, <3>2 DEF TaskOutputSent, EndRoom, SetTask, ListenerTypeOK
    <3>3. CASE ~TaskOutputSent(i)
      BY <1>15, <3>3 DEF TaskStep, TaskRecv, TaskOutput, TaskCloseInbox, TaskExit,
                         SetTask, ListenerTypeOK
    <3>4. QED BY <3>2, <3>3
  <2>2. \E new \in Task : tasks' = [tasks EXCEPT ![i] = new]
    <3>0. 0 \in 0 .. InboxCap
      OBVIOUS
    <3>1. tasks[i] \in Task
      OBVIOUS
    <3>2. CASE TaskRecv(i)
      <4>1. tasks[i].inbox - 1 \in 0 .. InboxCap
        <5>1. tasks[i].inbox \in 0 .. InboxCap /\ tasks[i].inbox > 0
          BY <3>1, <3>2 DEF TaskRecv, Task
        <5>2. QED BY <5>1, CountBounds, Zenon
      <4>2. [tasks[i] EXCEPT !.inbox = @ - 1] \in Task
        BY <3>1, <4>1 DEF Task
      <4>3. QED BY <3>2, <4>2 DEF TaskRecv, SetTask
    <3>3. CASE TaskOutput(i)
      <4>1. tasks[i].outputs + 1 \in 0 .. MaxOutputs
        <5>1. tasks[i].outputs \in 0 .. MaxOutputs /\ tasks[i].outputs < MaxOutputs
          BY <3>1, <3>3 DEF TaskOutput, Task
        <5>2. QED BY <5>1, CountBounds, Zenon
      <4>2. [tasks[i] EXCEPT !.pc = "output", !.outputs = @ + 1] \in Task
        BY <3>1, <4>1 DEF Task
      <4>3. QED BY <3>3, <4>2 DEF TaskOutput, SetTask
    <3>4. CASE TaskOutputSent(i)
      <4>1. [tasks[i] EXCEPT !.pc = "run"] \in Task
        BY <3>1 DEF Task
      <4>2. QED BY <3>4, <4>1 DEF TaskOutputSent, SetTask
    <3>5. CASE TaskCloseInbox(i)
      <4>1. [tasks[i] EXCEPT !.open = FALSE, !.inbox = 0] \in Task
        BY <3>0, <3>1 DEF Task
      <4>2. QED BY <3>5, <4>1 DEF TaskCloseInbox, SetTask
    <3>6. CASE TaskExit(i)
      <4>1. [tasks[i] EXCEPT !.pc = "done", !.open = FALSE, !.inbox = 0] \in Task
        BY <3>0, <3>1 DEF Task
      <4>2. QED BY <3>6, <4>1 DEF TaskExit, SetTask
    <3>7. QED BY <1>15, <3>2, <3>3, <3>4, <3>5, <3>6 DEF TaskStep
  <2>3. (tasks \in Seq(Task))' /\ Len(tasks') = Len(tasks)
    BY <2>2
  <2>4. QED
    BY <2>1, <2>3 DEF ForgeTypeOK, LockTypeOK, ClientTypeOK, ListenerTypeOK,
                      SubTypeOK
<1>16. ASSUME ListenerRecv PROVE TypeOK'
  <2>1. LockTypeOK'
    BY <1>16 DEF ListenerRecv, Request, LockTypeOK, Procs
  <2>2. ListenerTypeOK'
    BY <1>16 DEF ListenerRecv, ListenerTypeOK
  <2>3. ForgeTypeOK' /\ ClientTypeOK' /\ (tasks \in Seq(Task))' /\ SubTypeOK'
    BY <1>16 DEF ListenerRecv, ForgeTypeOK, ClientTypeOK, SubTypeOK
  <2>4. QED BY <2>1, <2>2, <2>3
<1>17. ASSUME RefuseOutput PROVE TypeOK'
  <2>1. LockTypeOK'
    BY <1>17, ServedProperties DEF RefuseOutput, StartWrite, LockTypeOK, Procs
  <2>2. ListenerTypeOK'
    BY <1>17 DEF RefuseOutput, ListenerTypeOK
  <2>3. ForgeTypeOK' /\ ClientTypeOK' /\ (tasks \in Seq(Task))' /\ SubTypeOK'
    BY <1>17 DEF RefuseOutput, ForgeTypeOK, ClientTypeOK, SubTypeOK
  <2>4. QED BY <2>1, <2>2, <2>3
<1>18. ASSUME EndTask, ending.id \in Ids, ending \in Output
       PROVE  /\ LockTypeOK' /\ forge' \in [Ids -> 0 .. Len(tasks')]
              /\ WithClosed(ending.id) \in [Ids -> {"None", "Running", "Closed"}]
              /\ \A cleared \in BOOLEAN : StartBroadcast(cleared) =>
                   ending' \in Event /\ log' \in Seq(Event)
  <2>1. LockTypeOK'
    BY <1>18, ServedProperties DEF EndTask, StartWrite, LockTypeOK, Procs
  <2>2. forge' \in [Ids -> 0 .. Len(tasks')]
    BY <1>18 DEF EndTask, WithoutTask, NoTask, ForgeTypeOK
  <2>3. WithClosed(ending.id) \in [Ids -> {"None", "Running", "Closed"}]
    BY <1>18 DEF WithClosed, ForgeTypeOK
  <2>4. ASSUME NEW cleared \in BOOLEAN, StartBroadcast(cleared)
        PROVE  ending' \in Event /\ log' \in Seq(Event)
    <3>1. [id |-> ending.id, task |-> ending.task, has_cleared |-> cleared]
            \in Event
      BY <1>18 DEF Output, Event
    <3>2. QED BY <2>4, <3>1 DEF StartBroadcast, SubTypeOK
  <2>5. QED BY <2>1, <2>2, <2>3, <2>4
<1>19. ASSUME EndTask PROVE ending \in Output /\ ending.id \in Ids
  BY <1>19 DEF EndTask, Broadcasting, Output
<1>20. ASSUME CloseTask PROVE TypeOK'
  <2>1. EndTask /\ StartBroadcast(FALSE)
    BY <1>20 DEF CloseTask
  <2>2. LockTypeOK' /\ ForgeTypeOK'
    BY <1>18, <1>19, <1>20, <2>1 DEF CloseTask, EndTask, ForgeTypeOK
  <2>3. ListenerTypeOK' /\ SubTypeOK'
    BY <1>18, <1>19, <2>1 DEF EndTask, StartBroadcast, ListenerTypeOK, SubTypeOK
  <2>4. ClientTypeOK' /\ (tasks \in Seq(Task))'
    BY <1>20 DEF CloseTask, EndTask, ClientTypeOK
  <2>5. QED BY <2>2, <2>3, <2>4
<1>21. ASSUME ClearForge PROVE TypeOK'
  <2>1. EndTask /\ cleaning_notifier \in Notifier
    BY <1>21 DEF ClearForge, ShouldClear, ForgeTypeOK
  <2>2. LockTypeOK' /\ ForgeTypeOK'
    BY <1>18, <1>19, <1>21, <2>1 DEF ClearForge, EndTask, ForgetTasks, ForgeTypeOK
  <2>3. ListenerTypeOK' /\ SubTypeOK'
    BY <1>18, <1>19, <1>21, <2>1 DEF ClearForge, EndTask, StartBroadcast,
                                     ListenerTypeOK, SubTypeOK
  <2>4. ClientTypeOK' /\ (tasks \in Seq(Task))'
    <3>1. /\ UNCHANGED <<callVars, waitVars, tasks>>
          /\ \/ UNCHANGED cleaner
             \/ cleaner' = [cleaner EXCEPT ![cleaning_notifier.owner] = "notified"]
      BY <1>21 DEF ClearForge, EndTask
    <3>2. cleaning_notifier.owner \in Clients
      BY <2>1 DEF Notifier
    <3>3. QED BY <3>1, <3>2 DEF ClientTypeOK
  <2>5. QED BY <2>2, <2>3, <2>4
<1>22. ASSUME BroadcastSend PROVE TypeOK'
  <2>1. output_result_senders[next_sub] \in Subs /\ ending \in Event
    <3>1. next_sub \in DOMAIN output_result_senders /\ lpc = "broadcast"
      BY <1>22 DEF BroadcastSend, ForgeTypeOK, ListenerTypeOK
    <3>2. QED BY <3>1 DEF Broadcasting, ForgeTypeOK
  <2>2. ListenerTypeOK'
    <3>1. next_sub + 1 \in Nat \ {0}
      BY DEF ListenerTypeOK
    <3>2. Append(senders_to_remove, next_sub) \in Seq(Nat \ {0})
      BY DEF ListenerTypeOK
    <3>3. QED BY <1>22, <3>1, <3>2 DEF BroadcastSend, ListenerTypeOK
  <2>3. SubTypeOK'
    <3> DEFINE s == output_result_senders[next_sub]
    <3>1. /\ Append(sub_buf[s], ending) \in Seq(Event)
          /\ Len(Append(sub_buf[s], ending)) = Len(sub_buf[s]) + 1
          /\ Len(sub_buf[s]) \in Nat
      BY <2>1 DEF SubTypeOK
    <3>2. CASE SubRoom(s) /\ sub_buf' = [sub_buf EXCEPT ![s] = Append(@, ending)]
      <4>1. Len(sub_buf[s]) + 1 <= OutCap
        BY <3>1, <3>2 DEF SubRoom
      <4>2. /\ sub_buf' \in [Subs -> Seq(Event)]
            /\ \A t \in Subs : Len(sub_buf'[t]) <= OutCap
        BY <2>1, <3>1, <3>2, <4>1 DEF SubTypeOK
      <4>3. QED BY <1>22, <4>2 DEF BroadcastSend, SubTypeOK
    <3>3. CASE UNCHANGED sub_buf
      BY <1>22, <3>3 DEF BroadcastSend, SubTypeOK
    <3>4. QED BY <1>22, <3>2, <3>3 DEF BroadcastSend
  <2>4. ForgeTypeOK' /\ LockTypeOK' /\ ClientTypeOK' /\ (tasks \in Seq(Task))'
    BY <1>22 DEF BroadcastSend, ForgeTypeOK, LockTypeOK, ClientTypeOK
  <2>5. QED BY <2>2, <2>3, <2>4
<1>23. ASSUME PruneSender PROVE TypeOK'
  <2>1. NextToPrune \in DOMAIN senders_to_remove
    BY <1>23 DEF PruneSender, NextToPrune, ListenerTypeOK
  <2>2. senders_to_remove[NextToPrune] \in DOMAIN output_result_senders
    BY <2>1 DEF Broadcasting, ListenerTypeOK, ForgeTypeOK
  <2>3. ForgeTypeOK'
    BY <1>23, <2>2, RemoveAtProperties DEF PruneSender, ForgeTypeOK
  <2>4. ListenerTypeOK'
    BY <1>23, <2>1, RemoveAtProperties DEF PruneSender, ListenerTypeOK
  <2>5. LockTypeOK' /\ ClientTypeOK' /\ (tasks \in Seq(Task))' /\ SubTypeOK'
    BY <1>23 DEF PruneSender, LockTypeOK, ClientTypeOK, SubTypeOK
  <2>6. QED BY <2>3, <2>4, <2>5
<1>24. ASSUME EndBroadcast \/ ReportError PROVE TypeOK'
  <2>1. ListenerTypeOK'
    BY <1>24 DEF EndBroadcast, ReportError, Listen, ListenerTypeOK
  <2>2. LockTypeOK'
    BY <1>24 DEF EndBroadcast, ReportError, Listen, DropGuard, EndWrite, LockTypeOK
  <2>3. ForgeTypeOK' /\ ClientTypeOK' /\ (tasks \in Seq(Task))' /\ SubTypeOK'
    BY <1>24 DEF EndBroadcast, ReportError, Listen, ForgeTypeOK, ClientTypeOK,
                 SubTypeOK
  <2>4. QED BY <2>1, <2>2, <2>3
<1>25. ASSUME DrainError \/ DropErrorReceiver PROVE TypeOK'
  <2>1. errors' \in 0 .. ErrCap
    <3>1. errors \in 0 .. ErrCap /\ ErrCap \in Nat
      BY DEF ListenerTypeOK
    <3>2. QED BY <1>25, <3>1 DEF DrainError, DropErrorReceiver
  <2>2. ListenerTypeOK'
    BY <1>25, <2>1 DEF DrainError, DropErrorReceiver, ListenerTypeOK
  <2>3. ForgeTypeOK' /\ LockTypeOK' /\ ClientTypeOK' /\ SubTypeOK'
    BY <1>25 DEF DrainError, DropErrorReceiver, ForgeTypeOK, LockTypeOK,
                 ClientTypeOK, SubTypeOK
  <2>4. QED BY <1>25, <2>2, <2>3 DEF DrainError, DropErrorReceiver
<1>26. ASSUME NEW s \in Subs, Receive(s) \/ DropReceiver(s) PROVE TypeOK'
  <2>1. SubTypeOK'
    <3>1. CASE Receive(s)
      <4>1. /\ Tail(sub_buf[s]) \in Seq(Event)
            /\ Len(Tail(sub_buf[s])) <= OutCap
        BY <3>1, HeadTailProperties DEF Receive, SubTypeOK
      <4>2. QED BY <3>1, <4>1 DEF Receive, SubTypeOK
    <3>2. CASE DropReceiver(s)
      BY <3>2 DEF DropReceiver, SubTypeOK
    <3>3. QED BY <1>26, <3>1, <3>2
  <2>2. /\ ForgeTypeOK' /\ LockTypeOK' /\ ClientTypeOK' /\ (tasks \in Seq(Task))'
        /\ ListenerTypeOK'
    BY <1>26 DEF Receive, DropReceiver, ForgeTypeOK, LockTypeOK, ClientTypeOK,
                 ListenerTypeOK
  <2>3. QED BY <2>1, <2>2
<1>27. CASE UNCHANGED vars
  <2>1. ForgeTypeOK' /\ LockTypeOK' /\ ClientTypeOK'
    BY <1>27 DEF vars, ForgeTypeOK, LockTypeOK, ClientTypeOK
  <2>2. (tasks \in Seq(Task))' /\ ListenerTypeOK' /\ SubTypeOK'
    BY <1>27 DEF vars, ListenerTypeOK, SubTypeOK
  <2>3. QED BY <2>1, <2>2
<1>28. QED
  BY <1>1, <1>2, <1>3, <1>4, <1>5, <1>6, <1>7, <1>8, <1>9, <1>10, <1>11, <1>12,
     <1>13, <1>14, <1>15, <1>16, <1>17, <1>20, <1>21, <1>22, <1>23, <1>24, <1>25,
     <1>26, <1>27
  DEF Next, ClientStep, ClientChoice, ListenerStep
-----------------------------------------------------------------------------
(* The lock.                                                               *)

\* A step keeps the lock's users apart: a writer is alone, and each stage of a
\* call or of the listener holds what its code holds.
LEMMA ExclusionStep == IInv /\ [Next]_vars => Exclusion'
<1> SUFFICES ASSUME IInv, [Next]_vars PROVE Exclusion'
  OBVIOUS
<1> USE ConstantsAssumption
    DEF IInv, TypeOK, LockTypeOK, ClientTypeOK, Exclusion, Procs,
        world, outputVars, listenerVars, clientVars, callVars, lockVars
<1>1. ASSUME NEW c \in Clients, NEW r \in Call, StartCall(c, r) PROVE Exclusion'
  BY <1>1 DEF StartCall, Request
<1>2. ASSUME NEW c \in Clients,
             \/ RejectNewTask(c) \/ SendNoTask(c) \/ IsEmpty(c)
             \/ NewResultRedirection(c) \/ Clean(c)
      PROVE  Exclusion'
  BY <1>2 DEF RejectNewTask, SendNoTask, IsEmpty, NewResultRedirection, Clean,
              MaySend, AtLock, WriteOnce, ReadOnce, Return
<1>3. ASSUME NEW c \in Clients, MarkRunning(c) PROVE Exclusion'
  BY <1>3, ServedProperties DEF MarkRunning, AtLock, StartWrite
<1>4. ASSUME NEW c \in Clients, NotifyWaiter(c) PROVE Exclusion'
  BY <1>4 DEF NotifyWaiter
<1>5. ASSUME NEW c \in Clients, BeginTask(c) PROVE Exclusion'
  BY <1>5 DEF BeginTask, EndWrite, Return
<1>6. ASSUME NEW c \in Clients, WaitForTaskCreation(c) PROVE Exclusion'
  BY <1>6 DEF WaitForTaskCreation, AtLock, LockForWait, WriteOnce, Created,
              Return, Goto
<1>7. ASSUME NEW c \in Clients, RecvCreation(c) PROVE Exclusion'
  BY <1>7 DEF RecvCreation, Created, Return, Goto
<1>8. ASSUME NEW c \in Clients, SendAfterWait(c) PROVE Exclusion'
  BY <1>8 DEF SendAfterWait, Goto, Request
<1>9. ASSUME NEW c \in Clients, Send(c) PROVE Exclusion'
  BY <1>9, ServedProperties DEF Send, MaySend, AtLock, StartRead, Goto
<1>10. ASSUME NEW c \in Clients, SendToInbox(c) PROVE Exclusion'
  BY <1>10 DEF SendToInbox, EndRead, Return
<1>11. ASSUME NEW c \in Clients, Cancel(c) PROVE Exclusion'
  BY <1>11 DEF Cancel, CancelQueued, Withdraw, CancelWait, CancelNotify,
               CancelSend, EndWrite, EndRead, Return
<1>12. ASSUME ListenerRecv PROVE Exclusion'
  BY <1>12 DEF ListenerRecv, Request
<1>13. ASSUME RefuseOutput PROVE Exclusion'
  BY <1>13, ServedProperties DEF RefuseOutput, StartWrite
<1>14. ASSUME CloseTask \/ ClearForge PROVE Exclusion'
  <2>1. /\ StartWrite(Listener) /\ UNCHANGED pc
        /\ lpc' \in {"broadcast", "error"}
    BY <1>14 DEF CloseTask, ClearForge, EndTask, StartBroadcast
  <2>2. QED BY <2>1, ServedProperties DEF StartWrite
<1>15. ASSUME EndBroadcast \/ ReportError PROVE Exclusion'
  <2>1. /\ lpc \in {"broadcast", "error"} /\ lpc' = "recv"
        /\ EndWrite /\ UNCHANGED pc
    BY <1>15 DEF EndBroadcast, ReportError, Listen, DropGuard
  <2>2. QED BY <2>1 DEF EndWrite
<1>16. CASE UNCHANGED <<pc, lpc, lockVars>>
  <2> HIDE ConstantsAssumption DEF TypeOK, LockTypeOK, ClientTypeOK, Procs
  <2>1. QED BY <1>16
<1>17. ASSUME \/ \E c \in Clients : DropCleaner(c)
              \/ \E i \in DOMAIN tasks : TaskStep(i)
              \/ BroadcastSend \/ PruneSender \/ DrainError \/ DropErrorReceiver
              \/ \E s \in Subs : Receive(s) \/ DropReceiver(s)
              \/ UNCHANGED vars
       PROVE  UNCHANGED <<pc, lpc, lockVars>>
  BY <1>17 DEF DropCleaner, TaskStep, TaskRecv, TaskOutput, TaskOutputSent,
               TaskCloseInbox, TaskExit, SetTask, BroadcastSend, PruneSender,
               DrainError, DropErrorReceiver, Receive, DropReceiver, vars
<1>18. QED
  BY <1>1, <1>2, <1>3, <1>4, <1>5, <1>6, <1>7, <1>8, <1>9, <1>10, <1>11, <1>12,
     <1>13, <1>14, <1>15, <1>16, <1>17
  DEF Next, ClientStep, ClientChoice, ListenerStep
-----------------------------------------------------------------------------
(* The calls under way: whoever changes the maps is alone in the lock, so  *)
(* what a call has found in them still holds.                              *)

\* A step keeps every call at a stage its operation can be at.
LEMMA CallsStep == IInv /\ [Next]_vars => Calls'
<1> SUFFICES ASSUME IInv, [Next]_vars PROVE Calls'
  OBVIOUS
<1> USE ConstantsAssumption
    DEF IInv, TypeOK, ForgeTypeOK, ClientTypeOK, Exclusion, Calls,
        registry, forgeVars, world, outputVars, clientVars, callVars
<1>1. ASSUME NEW c \in Clients, NEW r \in Call, StartCall(c, r) PROVE Calls'
  BY <1>1 DEF StartCall
<1>2. ASSUME NEW c \in Clients,
             \/ RejectNewTask(c) \/ SendNoTask(c) \/ IsEmpty(c)
             \/ NewResultRedirection(c) \/ SendToInbox(c) \/ Cancel(c)
      PROVE  Calls'
  <2>1. UNCHANGED <<forge, task_states>> /\ \E result : Return(c, result)
    <3> HIDE DEF IInv
    <3>1. QED
      BY <1>2 DEF RejectNewTask, SendNoTask, IsEmpty, NewResultRedirection,
                  SendToInbox, Cancel, CancelQueued, CancelWait, CancelNotify,
                  CancelSend
  <2>2. QED BY <2>1 DEF Return
<1>3. ASSUME NEW c \in Clients, MarkRunning(c) PROVE Calls'
  <2>1. /\ call[c].id \in Ids
        /\ \A d \in Clients : pc[d] \notin {"notify", "inbox"}
    BY <1>3, CallArguments, ServedProperties
    DEF MarkRunning, AtLock, StartWrite, TaskOps
  <2>2. forge[call[c].id] = NoTask
    BY <1>3, <2>1 DEF MarkRunning, AlreadyRunning, SendersMatchStates
  <2>3. QED BY <1>3, <2>1, <2>2 DEF MarkRunning
<1>4. ASSUME NEW c \in Clients, NotifyWaiter(c) PROVE Calls'
  BY <1>4 DEF NotifyWaiter
<1>5. ASSUME NEW c \in Clients, BeginTask(c) PROVE Calls'
  <2>1. \A d \in Clients : pc[d] # "inbox"
    BY <1>5 DEF BeginTask
  <2>2. QED BY <1>5, <2>1 DEF BeginTask, Return
<1>6. ASSUME NEW c \in Clients, WaitForTaskCreation(c) PROVE Calls'
  <2>1. call[c].id \in Ids
    BY <1>6, CallArguments DEF WaitForTaskCreation, AtLock, TaskOps
  <2>2. QED BY <1>6, <2>1 DEF WaitForTaskCreation, Created, Return, Goto
<1>7. ASSUME NEW c \in Clients, RecvCreation(c) \/ SendAfterWait(c) PROVE Calls'
  BY <1>7 DEF RecvCreation, SendAfterWait, Created, Return, Goto
<1>8. ASSUME NEW c \in Clients, Send(c) PROVE Calls'
  <2>1. call[c].id \in Ids
    BY <1>8, CallArguments DEF Send, MaySend, AtLock, TaskOps
  <2>2. QED BY <1>8, <2>1 DEF Send, Goto
<1>9. ASSUME NEW c \in Clients, Clean(c) PROVE Calls'
  <2>1. \A d \in Clients : pc[d] \notin {"notify", "inbox"}
    BY <1>9, ServedProperties DEF Clean, WriteOnce
  <2>2. QED BY <1>9, <2>1 DEF Clean, Return
<1>10. ASSUME CloseTask \/ ClearForge PROVE Calls'
  <2>1. \A d \in Clients : pc[d] \notin {"notify", "inbox"}
    <3>1. StartWrite(Listener)
      BY <1>10 DEF CloseTask, ClearForge, EndTask
    <3>2. QED BY <3>1, ServedProperties DEF StartWrite
  <2>2. QED BY <1>10, <2>1 DEF CloseTask, ClearForge, EndTask
<1> HIDE DEF TypeOK, ForgeTypeOK, ClientTypeOK, Exclusion
<1>11. CASE UNCHANGED <<pc, call, forge, task_states>>
  BY <1>11
<1>12. ASSUME \/ \E c \in Clients : DropCleaner(c)
              \/ \E i \in DOMAIN tasks : TaskStep(i)
              \/ ListenerRecv \/ RefuseOutput \/ BroadcastSend \/ PruneSender
              \/ EndBroadcast \/ ReportError \/ DrainError \/ DropErrorReceiver
              \/ \E s \in Subs : Receive(s) \/ DropReceiver(s)
              \/ UNCHANGED vars
       PROVE  UNCHANGED <<pc, call, forge, task_states>>
  BY <1>12 DEF DropCleaner, TaskStep, TaskRecv, TaskOutput, TaskOutputSent,
               TaskCloseInbox, TaskExit, SetTask, ListenerRecv, RefuseOutput,
               BroadcastSend, PruneSender, EndBroadcast, ReportError, Listen,
               DrainError, DropErrorReceiver, Receive, DropReceiver, vars
<1>13. QED
  BY <1>1, <1>2, <1>3, <1>4, <1>5, <1>6, <1>7, <1>8, <1>9, <1>10, <1>11, <1>12
  DEF Next, ClientStep, ClientChoice, ListenerStep

-----------------------------------------------------------------------------
(* The broadcast loop.                                                     *)

\* A step keeps the positions the broadcast loop collected increasing and
\* within the list.
LEMMA BroadcastingStep == IInv /\ [Next]_vars => Broadcasting'
<1> SUFFICES ASSUME IInv, [Next]_vars PROVE Broadcasting'
  OBVIOUS
<1> USE DEF IInv, TypeOK, ForgeTypeOK, ListenerTypeOK, Exclusion, Broadcasting,
            registry, forgeVars, world, outputVars, listenerVars, broadcastVars
<1>1. ASSUME NEW c \in Clients, NewResultRedirection(c) PROVE Broadcasting'
  <2>1. lpc # "broadcast"
    BY <1>1, ConstantsAssumption, ServedProperties
    DEF NewResultRedirection, WriteOnce
  <2>2. QED BY <1>1, <2>1 DEF NewResultRedirection
<1>2. ASSUME ListenerRecv PROVE Broadcasting'
  BY <1>2 DEF ListenerRecv
<1>3. ASSUME RefuseOutput PROVE Broadcasting'
  BY <1>3 DEF RefuseOutput
<1>4. ASSUME CloseTask \/ ClearForge PROVE Broadcasting'
  <2>1. ending \in Output
    BY <1>4 DEF CloseTask, ClearForge, EndTask
  <2>2. \A cleared \in BOOLEAN :
          [id |-> ending.id, task |-> ending.task, has_cleared |-> cleared]
            \in Event
    BY <2>1 DEF Output, Event
  <2>3. QED
    BY <1>4, <2>2 DEF CloseTask, ClearForge, EndTask, StartBroadcast
<1>5. ASSUME BroadcastSend PROVE Broadcasting'
  <2>1. CASE UNCHANGED senders_to_remove
    BY <1>5, <2>1 DEF BroadcastSend
  <2>2. CASE senders_to_remove' = Append(senders_to_remove, next_sub)
    <3> DEFINE n == Len(senders_to_remove)
    <3>1. /\ n \in Nat /\ DOMAIN senders_to_remove = 1 .. n
          /\ DOMAIN senders_to_remove' = 1 .. n+1
          /\ \A k \in 1 .. n : senders_to_remove'[k] = senders_to_remove[k]
          /\ senders_to_remove'[n+1] = next_sub
      BY <2>2
    <3>2. /\ next_sub \in Nat /\ next_sub' = next_sub + 1
          /\ next_sub <= Len(output_result_senders)
          /\ Len(output_result_senders) \in Nat
          /\ lpc' = lpc /\ lpc = "broadcast" /\ ending' = ending
          /\ UNCHANGED output_result_senders
      BY <1>5 DEF BroadcastSend
    <3>3. \A k \in 1 .. n : /\ senders_to_remove[k] \in Nat
                            /\ senders_to_remove[k] < next_sub
                            /\ senders_to_remove[k] <= Len(output_result_senders)
      <4>1. \A k \in 1 .. n : senders_to_remove[k] \in Nat
        OBVIOUS
      <4>2. QED BY <4>1, <3>1
    <3> HIDE DEF n
    <3>4. \A k \in DOMAIN senders_to_remove' :
            /\ senders_to_remove'[k] < next_sub'
            /\ senders_to_remove'[k] <= Len(output_result_senders')
      <4> SUFFICES ASSUME NEW k \in 1 .. n+1
                   PROVE  /\ senders_to_remove'[k] < next_sub + 1
                          /\ senders_to_remove'[k] <= Len(output_result_senders)
        BY <3>1, <3>2
      <4>1. CASE k = n+1
        BY <4>1, <3>1, <3>2
      <4>2. CASE k \in 1 .. n
        BY <4>2, <3>1, <3>2, <3>3
      <4>3. QED BY <4>1, <4>2, <3>1
    <3>5. \A j, k \in DOMAIN senders_to_remove' :
            j < k => senders_to_remove'[j] < senders_to_remove'[k]
      <4> SUFFICES ASSUME NEW j \in 1 .. n+1, NEW k \in 1 .. n+1, j < k
                   PROVE  senders_to_remove'[j] < senders_to_remove'[k]
        BY <3>1
      <4>1. j \in 1 .. n
        BY <3>1
      <4>2. CASE k = n+1
        BY <4>1, <4>2, <3>1, <3>3
      <4>3. CASE k \in 1 .. n
        BY <4>1, <4>3, <3>1
      <4>4. QED BY <4>2, <4>3, <3>1
    <3>6. QED BY <3>2, <3>4, <3>5
  <2>3. QED BY <1>5, <2>1, <2>2 DEF BroadcastSend
<1>6. ASSUME PruneSender PROVE Broadcasting'
  <2> DEFINE n == Len(senders_to_remove)
             p == senders_to_remove[n]
             m == Len(output_result_senders)
  <2>1. /\ n \in Nat \ {0} /\ DOMAIN senders_to_remove = 1 .. n
        /\ m \in Nat /\ next_sub \in Nat
        /\ \A k \in 1 .. n : senders_to_remove[k] \in Nat \ {0}
    BY <1>6 DEF PruneSender
  <2>2. /\ \A k \in 1 .. n : senders_to_remove[k] < next_sub
        /\ \A k \in 1 .. n : senders_to_remove[k] <= m
        /\ \A j, k \in 1 .. n : j < k => senders_to_remove[j] < senders_to_remove[k]
    BY <2>1
  <2>3. /\ senders_to_remove' = RemoveAt(senders_to_remove, n)
        /\ output_result_senders' = RemoveAt(output_result_senders, p)
        /\ UNCHANGED <<lpc, ending, next_sub>> /\ lpc = "broadcast"
    BY <1>6 DEF PruneSender, NextToPrune
  <2>4. n \in DOMAIN senders_to_remove /\ p \in DOMAIN output_result_senders
    <3>1. n \in 1 .. n
      BY <2>1
    <3>2. p \in 1 .. m
      BY <2>1, <2>2, <3>1
    <3>3. QED BY <2>1, <3>1, <3>2
  <2>5. Len(output_result_senders') = m - 1
    <3>1. output_result_senders \in Seq(Subs)
      OBVIOUS
    <3>2. Len(RemoveAt(output_result_senders, p)) = Len(output_result_senders) - 1
      BY <2>4, <3>1, RemoveAtProperties
    <3>3. QED BY <2>3, <3>2
  <2>6. /\ DOMAIN senders_to_remove' = 1 .. n-1
        /\ \A k \in 1 .. n-1 : senders_to_remove'[k] = senders_to_remove[k]
    <3>1. /\ RemoveAt(senders_to_remove, n) \in Seq(Nat \ {0})
          /\ Len(RemoveAt(senders_to_remove, n)) = n - 1
          /\ \A j \in 1 .. n-1 : RemoveAt(senders_to_remove, n)[j]
                = IF j < n THEN senders_to_remove[j] ELSE senders_to_remove[j+1]
      BY <2>4, RemoveAtProperties
    <3>2. DOMAIN RemoveAt(senders_to_remove, n) = 1 .. n-1
      BY <3>1
    <3>3. QED BY <2>1, <2>3, <3>1, <3>2
  <2> HIDE DEF n, p, m
  <2>7. \A k \in 1 .. n-1 : /\ senders_to_remove[k] < next_sub
                            /\ senders_to_remove[k] <= m - 1
    <3> SUFFICES ASSUME NEW k \in 1 .. n-1
                 PROVE  /\ senders_to_remove[k] < next_sub
                        /\ senders_to_remove[k] <= m - 1
      OBVIOUS
    <3>1. k \in 1 .. n /\ n \in 1 .. n /\ k < n
      BY <2>1
    <3>2. senders_to_remove[k] < senders_to_remove[n] /\ senders_to_remove[n] <= m
      BY <2>2, <3>1
    <3>3. QED BY <2>1, <2>2, <3>1, <3>2
  <2>8. \A j, k \in 1 .. n-1 : j < k => senders_to_remove[j] < senders_to_remove[k]
    BY <2>1, <2>2
  <2> HIDE DEF IInv, TypeOK, ForgeTypeOK, ListenerTypeOK, Exclusion
  <2>9. \A k \in DOMAIN senders_to_remove' :
          /\ senders_to_remove'[k] < next_sub'
          /\ senders_to_remove'[k] <= Len(output_result_senders')
    BY <2>3, <2>5, <2>6, <2>7
  <2>10. \A j, k \in DOMAIN senders_to_remove' :
           j < k => senders_to_remove'[j] < senders_to_remove'[k]
    BY <2>6, <2>8
  <2>11. lpc' = "broadcast" /\ ending' \in Event
    BY <2>3 DEF IInv
  <2>12. QED BY <2>9, <2>10, <2>11
<1>7. ASSUME EndBroadcast \/ ReportError PROVE Broadcasting'
  BY <1>7 DEF EndBroadcast, ReportError, Listen
<1> HIDE DEF TypeOK, ForgeTypeOK, ListenerTypeOK, Exclusion
<1>8. CASE UNCHANGED <<listenerVars, output_result_senders>>
  BY <1>8
<1> HIDE DEF IInv, Broadcasting
<1>9. ASSUME NEW c \in Clients, ClientStep(c) PROVE Broadcasting'
  <2>1. CASE ~NewResultRedirection(c)
    <3>1. UNCHANGED <<listenerVars, output_result_senders>>
      BY <1>9, <2>1
      DEF ClientStep, RejectNewTask, MarkRunning, NotifyWaiter, BeginTask,
          WaitForTaskCreation, RecvCreation, SendAfterWait, SendNoTask, Send,
          SendToInbox, IsEmpty, Clean
    <3>2. QED BY <3>1, <1>8
  <2>2. QED BY <2>1, <1>1
<1>10. ASSUME NEW c \in Clients, ClientChoice(c) PROVE Broadcasting'
  <2>1. UNCHANGED <<listenerVars, output_result_senders>>
    BY <1>10 DEF ClientChoice, StartCall, DropCleaner, Cancel, CancelQueued,
                 CancelWait, CancelNotify, CancelSend
  <2>2. QED BY <2>1, <1>8
<1>11. ASSUME NEW i \in DOMAIN tasks, TaskStep(i) PROVE Broadcasting'
  <2>1. UNCHANGED <<listenerVars, output_result_senders>>
    BY <1>11 DEF TaskStep, TaskRecv, TaskOutput, TaskOutputSent, TaskCloseInbox,
                 TaskExit, SetTask
  <2>2. QED BY <2>1, <1>8
<1>12. ASSUME \/ DrainError \/ DropErrorReceiver
              \/ \E s \in Subs : Receive(s) \/ DropReceiver(s)
              \/ UNCHANGED vars
       PROVE  Broadcasting'
  <2>1. UNCHANGED <<listenerVars, output_result_senders>>
    BY <1>12 DEF DrainError, DropErrorReceiver, Receive, DropReceiver, vars
  <2>2. QED BY <2>1, <1>8
<1>13. CASE ListenerStep
  BY <1>2, <1>3, <1>4, <1>5, <1>6, <1>7, <1>13 DEF ListenerStep
<1>14. QED BY <1>9, <1>10, <1>11, <1>12, <1>13 DEF Next
-----------------------------------------------------------------------------
(* The registry: the two maps, the waiters and the cleaning.               *)

\* A step keeps the two maps in agreement.
LEMMA SendersStep == IInv /\ [Next]_vars => SendersMatchStates'
<1> SUFFICES ASSUME IInv, [Next]_vars PROVE SendersMatchStates'
  OBVIOUS
<1> USE ConstantsAssumption
    DEF IInv, TypeOK, ForgeTypeOK, ClientTypeOK, Exclusion, Calls,
        SendersMatchStates, Lost, registry, forgeVars, callVars, clientVars, world
<1>1. ASSUME NEW c \in Clients, MarkRunning(c) PROVE SendersMatchStates'
  <2>1. call[c].id \in Ids /\ \A d \in Clients : pc[d] # "notify"
    BY <1>1, CallArguments, ServedProperties
    DEF MarkRunning, AtLock, StartWrite, TaskOps
  <2>2. QED BY <1>1, <2>1 DEF MarkRunning
<1>2. ASSUME NEW c \in Clients, BeginTask(c) PROVE SendersMatchStates'
  <2>1. /\ call[c].id \in Ids /\ task_states[call[c].id] = "Running"
        /\ \A d \in Clients : pc[d] = "notify" => d = c
    BY <1>2 DEF BeginTask
  <2>2. Len(tasks) + 1 # NoTask
    BY DEF NoTask
  <2>3. QED BY <1>2, <2>1, <2>2 DEF BeginTask, Return
<1>3. ASSUME NEW c \in Clients, Clean(c) PROVE SendersMatchStates'
  <2>1. \A d \in Clients : pc[d] # "notify"
    BY <1>3, ServedProperties DEF Clean, WriteOnce
  <2>2. QED BY <1>3, <2>1 DEF Clean, Empty, ForgetTasks, Return
<1>4. ASSUME NEW c \in Clients, Cancel(c) PROVE SendersMatchStates'
  BY <1>4 DEF Cancel, CancelQueued, CancelWait, CancelNotify, CancelSend, Return
<1>5. ASSUME CloseTask \/ ClearForge PROVE SendersMatchStates'
  <2>0. StartWrite(Listener)
    BY <1>5 DEF CloseTask, ClearForge, EndTask
  <2>1. \A d \in Clients : pc[d] # "notify"
    BY <2>0, ServedProperties DEF StartWrite
  <2>2. CASE CloseTask
    BY <2>1, <2>2 DEF CloseTask, EndTask, WithoutTask, WithClosed
  <2>3. CASE ClearForge
    BY <2>1, <2>3 DEF ClearForge, EndTask, WithoutTask, ShouldClear, ForgetTasks
  <2>4. QED BY <1>5, <2>2, <2>3
<1>6. ASSUME NEW c \in Clients,
             \/ \E r \in Call : StartCall(c, r)
             \/ /\ ClientStep(c)
                /\ ~MarkRunning(c) /\ ~BeginTask(c) /\ ~Clean(c)
      PROVE  SendersMatchStates'
  <2>0. SendersMatchStates
    OBVIOUS
  <2>1. /\ UNCHANGED <<forge, task_states>>
        /\ \A d \in Clients : pc[d] = "notify" =>
             pc'[d] = "notify" /\ call'[d] = call[d]
    <3> HIDE ConstantsAssumption
    <3>1. CASE \E r \in Call : StartCall(c, r)
      BY <3>1 DEF StartCall
    <3>2. CASE \/ RejectNewTask(c) \/ SendNoTask(c) \/ SendToInbox(c)
               \/ IsEmpty(c) \/ NewResultRedirection(c)
      BY <3>2 DEF RejectNewTask, SendNoTask, SendToInbox, IsEmpty,
                  NewResultRedirection, MaySend, AtLock, Return
    <3>3. CASE NotifyWaiter(c)
      BY <3>3 DEF NotifyWaiter
    <3>4. CASE WaitForTaskCreation(c) \/ RecvCreation(c)
      BY <3>4 DEF WaitForTaskCreation, RecvCreation, AtLock, Created, Return, Goto
    <3>5. CASE SendAfterWait(c) \/ Send(c)
      BY <3>5 DEF SendAfterWait, Send, MaySend, AtLock, Goto
    <3> HIDE DEF IInv, TypeOK, ForgeTypeOK, ClientTypeOK, Exclusion, Calls,
                 SendersMatchStates, Lost
    <3>6. QED BY <1>6, <3>1, <3>2, <3>3, <3>4, <3>5 DEF ClientStep
  <2> HIDE DEF IInv, TypeOK, ForgeTypeOK, ClientTypeOK, Exclusion, Calls
  <2>2. QED BY <2>1, <2>0
<1>7. CASE UNCHANGED <<forge, task_states, pc, call>>
  <2>1. SendersMatchStates
    OBVIOUS
  <2> HIDE ConstantsAssumption
      DEF IInv, TypeOK, ForgeTypeOK, ClientTypeOK, Exclusion, Calls
  <2>2. QED BY <1>7, <2>1
<1>8. ASSUME \/ \E c \in Clients : DropCleaner(c)
             \/ \E i \in DOMAIN tasks : TaskStep(i)
             \/ ListenerRecv \/ RefuseOutput \/ BroadcastSend \/ PruneSender
             \/ EndBroadcast \/ ReportError \/ DrainError \/ DropErrorReceiver
             \/ \E s \in Subs : Receive(s) \/ DropReceiver(s)
             \/ UNCHANGED vars
      PROVE  UNCHANGED <<forge, task_states, pc, call>>
  BY <1>8 DEF DropCleaner, TaskStep, TaskRecv, TaskOutput, TaskOutputSent,
              TaskCloseInbox, TaskExit, SetTask, ListenerRecv, RefuseOutput,
              BroadcastSend, PruneSender, EndBroadcast, ReportError, Listen,
              DrainError, DropErrorReceiver, Receive, DropReceiver, vars
<1> HIDE ConstantsAssumption
    DEF IInv, TypeOK, ForgeTypeOK, ClientTypeOK, Exclusion, Calls,
        SendersMatchStates, Lost, registry, forgeVars, callVars, clientVars, world
<1>9. ASSUME NEW c \in Clients, ClientStep(c) \/ ClientChoice(c)
      PROVE  SendersMatchStates'
  BY <1>1, <1>2, <1>3, <1>4, <1>6, <1>7, <1>8, <1>9 DEF ClientChoice
<1>10. CASE ListenerStep
  BY <1>5, <1>7, <1>8, <1>10 DEF ListenerStep
<1>11. QED BY <1>7, <1>8, <1>9, <1>10 DEF Next

\* What no step but these touches: the waiters, the notifier and the two maps.
LEMMA RegistryFrame ==
  ASSUME [Next]_vars
  PROVE  \/ UNCHANGED registry
         \/ \E c \in Clients : \/ MarkRunning(c) \/ BeginTask(c)
                               \/ WaitForTaskCreation(c) \/ Clean(c)
                               \/ (Cancel(c) /\ CancelWait(c))
         \/ CloseTask \/ ClearForge
<1> USE DEF registry, forgeVars, world, clientVars
<1>1. ASSUME NEW c \in Clients, ClientStep(c)
      PROVE  \/ UNCHANGED registry \/ MarkRunning(c) \/ BeginTask(c)
             \/ WaitForTaskCreation(c) \/ Clean(c)
  BY <1>1 DEF ClientStep, RejectNewTask, NotifyWaiter, RecvCreation,
              SendAfterWait, SendNoTask, Send, SendToInbox, IsEmpty,
              NewResultRedirection
<1>2. ASSUME NEW c \in Clients, ClientChoice(c)
      PROVE  UNCHANGED registry \/ (Cancel(c) /\ CancelWait(c))
  <2>1. CASE DropCleaner(c) \/ \E r \in Call : StartCall(c, r)
    BY <2>1 DEF DropCleaner, StartCall
  <2>2. CASE Cancel(c)
    BY <2>2 DEF Cancel, CancelQueued, CancelNotify, CancelSend
  <2>3. QED BY <1>2, <2>1, <2>2 DEF ClientChoice
<1>3. ASSUME NEW i \in DOMAIN tasks, TaskStep(i) PROVE UNCHANGED registry
  BY <1>3 DEF TaskStep, TaskRecv, TaskOutput, TaskOutputSent, TaskCloseInbox,
              TaskExit, SetTask
<1>4. ASSUME ListenerStep PROVE UNCHANGED registry \/ CloseTask \/ ClearForge
  BY <1>4 DEF ListenerStep, ListenerRecv, RefuseOutput, BroadcastSend,
              PruneSender, EndBroadcast, ReportError, Listen
<1>5. ASSUME \/ DrainError \/ DropErrorReceiver
             \/ \E s \in Subs : Receive(s) \/ DropReceiver(s)
             \/ UNCHANGED vars
      PROVE  UNCHANGED registry
  BY <1>5 DEF DrainError, DropErrorReceiver, Receive, DropReceiver, vars
<1>6. QED BY <1>1, <1>2, <1>3, <1>4, <1>5 DEF Next

\* A step keeps the waiters off the ids that have a state.
LEMMA WakeupStep == IInv /\ [Next]_vars => NoLostWakeup'
<1> SUFFICES ASSUME IInv, [Next]_vars PROVE NoLostWakeup'
  OBVIOUS
<1> USE DEF IInv, TypeOK, ForgeTypeOK, Calls, NoLostWakeup, registry
<1>1. CASE UNCHANGED registry
  BY <1>1
<1>2. ASSUME NEW c \in Clients, MarkRunning(c) PROVE NoLostWakeup'
  BY <1>2 DEF MarkRunning, WithoutWaiters
<1>3. ASSUME NEW c \in Clients, BeginTask(c) PROVE NoLostWakeup'
  BY <1>3 DEF BeginTask
<1>4. ASSUME NEW c \in Clients, WaitForTaskCreation(c) PROVE NoLostWakeup'
  BY <1>4 DEF WaitForTaskCreation, NotCreated, NewTaskNotifReceiver
<1>5. ASSUME NEW c \in Clients, Clean(c) PROVE NoLostWakeup'
  BY <1>5 DEF Clean, ForgetTasks
<1>6. ASSUME NEW c \in Clients, CancelWait(c) PROVE NoLostWakeup'
  BY <1>6 DEF CancelWait, Bury
<1>7. ASSUME CloseTask PROVE NoLostWakeup'
  BY <1>7 DEF CloseTask, EndTask, Accepts, WithClosed
<1>8. ASSUME ClearForge PROVE NoLostWakeup'
  BY <1>8 DEF ClearForge, ForgetTasks
<1>9. QED
  BY RegistryFrame, <1>1, <1>2, <1>3, <1>4, <1>5, <1>6, <1>7, <1>8

\* A step leaves no cleaning pending on an empty forge that satisfies it.
LEMMA CleaningStep == IInv /\ [Next]_vars => NoMissedCleaning'
<1> SUFFICES ASSUME IInv, [Next]_vars PROVE NoMissedCleaning'
  OBVIOUS
<1> USE DEF IInv, TypeOK, ForgeTypeOK, Calls, NoMissedCleaning, Empty, registry
<1>1. CASE UNCHANGED registry
  BY <1>1
<1>2. ASSUME NEW c \in Clients, \/ MarkRunning(c) \/ WaitForTaskCreation(c)
                                \/ CancelWait(c)
      PROVE  NoMissedCleaning'
  <2>1. CASE MarkRunning(c)
    <3>1. call[c].id \in Ids
      BY <2>1, CallArguments DEF MarkRunning, AtLock, TaskOps
    <3>2. /\ task_states'[call[c].id] = "Running"
          /\ UNCHANGED <<forge, cleaning_notifier>>
      BY <2>1, <3>1 DEF MarkRunning
    <3>3. ASSUME Empty', cleaning_notifier' # None
          PROVE  cleaning_notifier'.awaited # NoCount
      BY <3>2, <3>3
    <3>4. QED BY <3>1, <3>2, <3>3
  <2>2. CASE WaitForTaskCreation(c) \/ CancelWait(c)
    BY <2>2 DEF WaitForTaskCreation, CancelWait
  <2>3. QED BY <1>2, <2>1, <2>2
<1>3. ASSUME NEW c \in Clients, BeginTask(c) PROVE NoMissedCleaning'
  <2>1. call[c].id \in Ids /\ forge'[call[c].id] # NoTask
    BY <1>3 DEF BeginTask, NoTask
  <2>2. QED BY <2>1
<1>4. ASSUME NEW c \in Clients, Clean(c) PROVE NoMissedCleaning'
  <2>1. ASSUME Empty
        PROVE  Cardinality({id \in Ids : task_states'[id] # "None"}) = 0
    <3>1. {id \in Ids : task_states'[id] # "None"} = {}
      BY <1>4, <2>1 DEF Clean, ForgetTasks
    <3>2. QED BY <3>1, FS_EmptySet
  <2>2. QED BY <1>4, <2>1 DEF Clean
<1>5. ASSUME CloseTask PROVE NoMissedCleaning'
  BY <1>5 DEF CloseTask, EndTask, ShouldClear
<1>6. ASSUME ClearForge PROVE NoMissedCleaning'
  BY <1>6 DEF ClearForge
<1>7. QED
  BY RegistryFrame, <1>1, <1>2, <1>3, <1>4, <1>5, <1>6

-----------------------------------------------------------------------------
(* The theorems.                                                           *)

\* The invariant holds of a new forge.
LEMMA Initially == Init => IInv
<1> SUFFICES ASSUME Init PROVE IInv
  OBVIOUS
<1> USE ConstantsAssumption DEF Init, LockInit
<1>1. TypeOK
  BY DEF TypeOK, ForgeTypeOK, LockTypeOK, ClientTypeOK, ListenerTypeOK, SubTypeOK,
         Procs, Stages, Results, NoTask
<1>2. Exclusion /\ Calls /\ Broadcasting
  BY DEF Exclusion, Calls, Broadcasting
<1>3. SendersMatchStates /\ NoLostWakeup /\ NoMissedCleaning
  BY DEF SendersMatchStates, Lost, NoLostWakeup, NoMissedCleaning
<1>4. QED BY <1>1, <1>2, <1>3 DEF IInv

\* The invariant holds in every reachable state.
LEMMA Invariance == Spec => []IInv
<1>1. Init => IInv
  BY Initially
<1>2. IInv /\ [Next]_vars => IInv'
  BY TypeStep, ExclusionStep, CallsStep, BroadcastingStep, SendersStep,
     WakeupStep, CleaningStep DEF IInv
<1>3. QED BY <1>1, <1>2, PTL DEF Spec

\* Every variable keeps its type; in particular no channel is ever given more
\* than it holds and the positions to prune are positions of the list.
THEOREM TypeCorrect == Spec => []TypeOK
<1>1. IInv => TypeOK
  BY DEF IInv
<1>2. QED BY <1>1, Invariance, PTL

\* forge and task_states agree whenever the lock is free, but for ids whose
\* new_task was dropped: new_task and handle_ending_task change both under one
\* write lock.
THEOREM RegistryConsistent == Spec => []SendersMatchStates
<1>1. IInv => SendersMatchStates
  BY DEF IInv
<1>2. QED BY <1>1, Invariance, PTL

\* No client is parked on the creation of a task that has been created.
THEOREM WakeupsNotLost == Spec => []NoLostWakeup
<1>1. IInv => NoLostWakeup
  BY DEF IInv
<1>2. QED BY <1>1, Invariance, PTL

\* No cleaning that is satisfied is left pending by the step that empties the
\* forge, counted or not.
THEOREM CleaningNotMissed == Spec => []NoMissedCleaning
<1>1. IInv => NoMissedCleaning
  BY DEF IInv
<1>2. QED BY <1>1, Invariance, PTL

\* While a message waits for room in a task's channel the task stays registered
\* and Running, and the listener neither ends a task nor broadcasts.
THEOREM SendsAreProtected == Spec => []SendsReachRunningTask
<1>1. IInv => SendsReachRunningTask
  <2> SUFFICES ASSUME IInv, NEW c \in Clients, pc[c] = "inbox"
               PROVE  /\ forge[call[c].id] # NoTask
                      /\ task_states[call[c].id] = "Running"
                      /\ lpc \in {"recv", "lock"}
    BY DEF SendsReachRunningTask
  <2>1. call[c].id \in Ids /\ forge[call[c].id] # NoTask
    BY DEF IInv, Calls
  <2>2. writer = Nobody
    BY DEF IInv, Exclusion
  <2>3. lpc \in {"recv", "lock"}
    BY <2>2, ConstantsAssumption DEF IInv, Exclusion, TypeOK, ListenerTypeOK
  <2>4. QED BY <2>1, <2>3 DEF IInv, SendersMatchStates
<1>2. QED BY <1>1, Invariance, PTL
=============================================================================
