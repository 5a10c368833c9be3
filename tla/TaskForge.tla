------------------------------ MODULE TaskForge ------------------------------
(***************************************************************************)
(* The task forge of crate task_forge: a registry of running tasks behind  *)
(* an RwLock, the API calls clients make on it, the listener that consumes *)
(* the tasks' outputs and broadcasts them, the tasks, the subscribers to   *)
(* the results and the reader of the error channel.                        *)
(*                                                                         *)
(* A step runs from one await point to the next.  A client whose future is *)
(* dropped (select!, timeout, abort) leaves its call at an await point.    *)
(***************************************************************************)
EXTENDS Integers, FiniteSets, RwLock

CONSTANTS
  Clients,        \* callers of the API, one call in flight each
  Ids,            \* task identifiers (OpId)
  Subs,           \* bound: receivers new_result_redirection may hand out
  Ops,            \* the API operations the clients of this instance use
  Awaited,        \* arguments given to clean: n is Some(n)
  NoCount,        \* clean(None)
  Interruptible,  \* stages at which a call's future may be dropped
  ErrorHandlers,  \* what may become of the error receiver, see error_rx
  MayDie,         \* may a task stop before its first output is sent?
  MaxTasks,       \* bound: tasks begun in a behaviour
  MaxOutputs,     \* bound: outputs of one task
  InboxCap,       \* capacity of the channel TaskTrait::begin returns
  EndCap,         \* capacity of the end-of-task channel (100 in the code)
  OutCap,         \* capacity of a result redirection (100 in the code)
  ErrCap,         \* capacity of the error channel (100 in the code)
  Listener,       \* the process spawned by listen_for_ending_task
  Dead            \* stands for creation senders without a receiver

Stages == {"idle", "lock", "notify", "recv", "created", "relock", "inbox"}

\* send and is_empty take the lock for reading, every other call for writing.
ReadOps == {"send", "is_empty"}
TaskOps == {"new_task", "send", "wait_for_task_creation", "wait_and_send"}
AllOps  == TaskOps \cup {"clean", "new_result_redirection", "is_empty"}

ASSUME ConstantsAssumption ==
  /\ Ops \subseteq AllOps
  /\ Interruptible \subseteq Stages
  /\ NoCount \notin Nat /\ Awaited \subseteq Nat \cup {NoCount}
  /\ ErrorHandlers \subseteq {"drain", "panic", "held", "dropped"}
  /\ MayDie \in BOOLEAN
  /\ MaxTasks \in Nat /\ MaxOutputs \in Nat
  /\ {InboxCap, EndCap, OutCap, ErrCap} \subseteq Nat \ {0}
  /\ Listener \notin Clients /\ Dead \notin Clients
  /\ Nobody \notin Clients \cup {Listener}

Procs  == Clients \cup {Listener}
NoTask == 0
None   == [op |-> "none"]

VARIABLES
  \* WrappedTaskForge, the data behind the lock
  forge,                  \* id -> the task whose sender is held, or NoTask
  task_states,            \* id -> "Running", "Closed", or "None" if absent
  task_creation_senders,  \* id -> the clients whose senders it holds, or Dead
  cleaning_notifier,      \* [owner, awaited], or None
  output_result_senders,  \* result redirections, in registration order
  \* clients
  pc, call, ret,          \* stage and arguments of a call, last result
  notified,               \* clients with a notice in their creation channel
  notifying,              \* senders new_task has taken out and not yet used
  abandoned,              \* history: id -> calls of new_task dropped at notify
  cleaner,                \* client -> state of the receiver clean gave it
  \* tasks, in the order they were begun; a task is its position
  tasks,
  \* the listener
  lpc, ending,            \* stage, and the output or event at hand
  next_sub, senders_to_remove,
  \* channels, and what the owner of the error receiver does with it
  end_channel, errors, error_rx,
  \* subscribers: receiver, what it holds, and how much of log was received
  sub, sub_buf, cursor,
  log                     \* history: the events broadcast so far

registry     == <<forge, task_states, task_creation_senders, cleaning_notifier>>
forgeVars    == <<registry, output_result_senders>>
callVars     == <<pc, call, ret>>
waitVars     == <<notified, notifying, abandoned>>
clientVars   == <<callVars, waitVars, cleaner>>
broadcastVars == <<next_sub, senders_to_remove>>
listenerVars == <<lpc, ending, broadcastVars>>
errorVars    == <<errors, error_rx>>
subVars      == <<sub, sub_buf, cursor>>
outputVars   == <<listenerVars, end_channel, errorVars, subVars, log>>
world        == <<tasks, outputVars>>
vars         == <<forgeVars, lockVars, clientVars, world>>

-----------------------------------------------------------------------------
(* Types.                                                                  *)

Call     == [op : TaskOps \cap Ops, id : Ids]
              \cup [op : {"clean"} \cap Ops, awaited : Awaited]
              \cup [op : Ops \ (TaskOps \cup {"clean"})]
Results  == {"none", "Ok", "Cancelled", "TaskAlreadyExists", "TaskClosed",
             "TaskCreationSendingError", "FailedToWaitCreation",
             "TaskNotExist", "SendError", "true", "false"}
Notifier == [owner : Clients, awaited : Awaited]
Output   == [id : Ids, task : Nat \ {0}]
Event    == [id : Ids, task : Nat \ {0}, has_cleared : BOOLEAN]
Task     == [id : Ids, pc : {"run", "output", "done"}, open : BOOLEAN,
             inbox : 0 .. InboxCap, outputs : 0 .. MaxOutputs]

ForgeTypeOK ==
  /\ forge \in [Ids -> 0 .. Len(tasks)]
  /\ task_states \in [Ids -> {"None", "Running", "Closed"}]
  /\ task_creation_senders \in [Ids -> SUBSET (Clients \cup {Dead})]
  /\ cleaning_notifier \in Notifier \cup {None}
  /\ output_result_senders \in Seq(Subs)

LockTypeOK ==
  /\ writer \in Procs \cup {Nobody}
  /\ readers \subseteq Clients
  /\ queue \in Seq([proc : Procs, mode : {"read", "write"}])

ClientTypeOK ==
  /\ pc \in [Clients -> Stages]
  /\ call \in [Clients -> Call \cup {None}]
  /\ ret \in [Clients -> Results]
  /\ notified \subseteq Clients
  /\ notifying \subseteq Clients \cup {Dead}
  /\ abandoned \in [Ids -> Nat]
  /\ cleaner \in [Clients -> {"none", "waiting", "notified", "orphaned"}]

ListenerTypeOK ==
  /\ lpc \in {"recv", "lock", "broadcast", "error"}
  /\ ending \in Output \cup Event \cup {None}
  /\ next_sub \in Nat \ {0}
  /\ senders_to_remove \in Seq(Nat \ {0})
  /\ end_channel \in Seq(Output) /\ Len(end_channel) <= EndCap
  /\ errors \in 0 .. ErrCap
  /\ error_rx \in {"drain", "panic", "held", "dropped"}

SubTypeOK ==
  /\ sub \in [Subs -> {"unused", "open", "closed"}]
  /\ sub_buf \in [Subs -> Seq(Event)]
  /\ \A s \in Subs : Len(sub_buf[s]) <= OutCap
  /\ cursor \in [Subs -> Nat]
  /\ log \in Seq(Event)

TypeOK == /\ ForgeTypeOK /\ LockTypeOK /\ ClientTypeOK
          /\ tasks \in Seq(Task) /\ ListenerTypeOK /\ SubTypeOK

-----------------------------------------------------------------------------
(* A call starts by requesting the lock.                                   *)

InFlight(op) == Cardinality({c \in Clients : call[c].op = op})
UnusedSubs   == {s \in Subs : sub[s] = "unused"}

\* Bounds: no call starts that could need a task or a receiver the instance
\* does not have, and a client keeps one cleaning receiver at a time.
WithinBounds(c, op) ==
  /\ op = "new_task" => Len(tasks) + InFlight(op) < MaxTasks
  /\ op = "new_result_redirection" => InFlight(op) < Cardinality(UnusedSubs)
  /\ op = "clean" => cleaner[c] = "none"

StartCall(c, r) ==
  /\ pc[c] = "idle" /\ WithinBounds(c, r.op)
  /\ pc' = [pc EXCEPT ![c] = "lock"]
  /\ call' = [call EXCEPT ![c] = r]
  /\ ret' = [ret EXCEPT ![c] = "none"]
  /\ Request(c, IF r.op \in ReadOps THEN "read" ELSE "write")
  /\ UNCHANGED <<forgeVars, waitVars, cleaner, world>>

AtLock(c, ops) == pc[c] = "lock" /\ call[c].op \in ops

Return(c, result) == /\ pc' = [pc EXCEPT ![c] = "idle"]
                     /\ call' = [call EXCEPT ![c] = None]
                     /\ ret' = [ret EXCEPT ![c] = result]

Goto(c, stage) == pc' = [pc EXCEPT ![c] = stage] /\ UNCHANGED <<call, ret>>

-----------------------------------------------------------------------------
(* new_task: mark the id Running, notify the waiters, begin the task and   *)
(* keep its sender, all under the write lock.                              *)

AlreadyRunning(id) == task_states[id] = "Running"

RejectNewTask(c) ==
  /\ AtLock(c, {"new_task"}) /\ WriteOnce(c)
  /\ AlreadyRunning(call[c].id)
  /\ Return(c, "TaskAlreadyExists")
  /\ UNCHANGED <<forgeVars, waitVars, cleaner, world>>

\* task_creation_senders.remove(&id); the slip: get(&id)
SlipWithoutWaiters(id) == task_creation_senders
WithoutWaiters(id) == [task_creation_senders EXCEPT ![id] = {}]

MarkRunning(c) ==
  LET id == call[c].id IN
  /\ AtLock(c, {"new_task"}) /\ StartWrite(c)
  /\ ~AlreadyRunning(id)
  /\ task_states' = [task_states EXCEPT ![id] = "Running"]
  /\ task_creation_senders' = WithoutWaiters(id)
  /\ notifying' = task_creation_senders[id]
  /\ pc' = [pc EXCEPT ![c] = "notify"]
  /\ ret' = [ret EXCEPT ![c] = "Ok"]
  /\ UNCHANGED <<forge, cleaning_notifier, output_result_senders, call,
                 notified, abandoned, cleaner, world>>

\* A waiter's channel holds at most this notice, so there is room for it.
NotifyWaiter(c) ==
  /\ pc[c] = "notify"
  /\ \E w \in notifying :
       /\ notifying' = notifying \ {w}
       /\ notified' = notified \cup ({w} \ {Dead})
       /\ ret' = IF w = Dead
                 THEN [ret EXCEPT ![c] = "TaskCreationSendingError"] ELSE ret
  /\ UNCHANGED <<forgeVars, lockVars, pc, call, abandoned, cleaner, world>>

BegunTask(id) == [id |-> id, pc |-> "run", open |-> TRUE, inbox |-> 0,
                  outputs |-> 0]

BeginTask(c) ==
  LET id == call[c].id IN
  /\ pc[c] = "notify" /\ notifying = {}
  /\ tasks' = Append(tasks, BegunTask(id))
  /\ forge' = [forge EXCEPT ![id] = Len(tasks) + 1]
  /\ EndWrite
  /\ Return(c, ret[c])
  /\ UNCHANGED <<task_states, task_creation_senders, cleaning_notifier,
                 output_result_senders, waitVars, cleaner, outputVars>>

-----------------------------------------------------------------------------
(* wait_for_task_creation and wait_and_send.                               *)

\* wait_for_task_creation is done: wait_and_send goes on to its send.
Created(c) == IF call[c].op = "wait_and_send" THEN Goto(c, "created")
                                              ELSE Return(c, "Ok")

\* new_task_notif_receiver
NewTaskNotifReceiver(c, id) ==
  task_creation_senders' = [task_creation_senders EXCEPT ![id] = @ \cup {c}]

\* Has no task been created?  The slip: is no sender held?
SlipNotCreated(id) == forge[id] = NoTask
NotCreated(id)     == task_states[id] = "None"

\* The block drops its guard before the recv; the slip: it is kept.
SlipLockForWait(c) == StartWrite(c)
LockForWait(c)     == WriteOnce(c)

WaitForTaskCreation(c) ==
  LET id == call[c].id IN
  /\ AtLock(c, {"wait_for_task_creation", "wait_and_send"}) /\ LockForWait(c)
  /\ \/ /\ NotCreated(id) /\ Goto(c, "recv")
        /\ NewTaskNotifReceiver(c, id)
     \/ /\ \/ task_states[id] = "Running" /\ Created(c)
           \/ task_states[id] = "Closed" /\ Return(c, "TaskClosed")
        /\ UNCHANGED task_creation_senders
  /\ UNCHANGED <<forge, task_states, cleaning_notifier, output_result_senders,
                 waitVars, cleaner, world>>

\* Is there still a sender that could notify c?
Awaiting(c) == \/ c \in notifying
               \/ \E id \in Ids : c \in task_creation_senders[id]

RecvCreation(c) ==
  /\ pc[c] = "recv"
  /\ \/ c \in notified /\ Created(c)
     \/ c \notin notified /\ ~Awaiting(c) /\ Return(c, "FailedToWaitCreation")
  /\ notified' = notified \ {c}
  /\ UNCHANGED <<forgeVars, lockVars, notifying, abandoned, cleaner, world>>

\* wait_and_send asks for the lock a second time (no await lies between).
SendAfterWait(c) ==
  /\ pc[c] = "created"
  /\ Goto(c, "relock")
  /\ Request(c, "read")
  /\ UNCHANGED <<forgeVars, waitVars, cleaner, world>>

-----------------------------------------------------------------------------
(* send: the read lock is held while the message waits for room in the     *)
(* task's channel.                                                         *)

MaySend(c) == AtLock(c, {"send"}) \/ pc[c] = "relock"

SendNoTask(c) ==
  /\ MaySend(c) /\ ReadOnce(c)
  /\ forge[call[c].id] = NoTask
  /\ Return(c, "TaskNotExist")
  /\ UNCHANGED <<forgeVars, waitVars, cleaner, world>>

Send(c) ==
  /\ MaySend(c) /\ StartRead(c)
  /\ forge[call[c].id] # NoTask
  /\ Goto(c, "inbox")
  /\ UNCHANGED <<forgeVars, waitVars, cleaner, world>>

\* The slip: one message more than the capacity is let in.
SlipInboxRoom(i) == tasks[i].inbox <= InboxCap
InboxRoom(i)     == tasks[i].inbox < InboxCap

SendToInbox(c) ==
  LET i == forge[call[c].id] IN
  /\ pc[c] = "inbox"
  /\ \/ /\ ~tasks[i].open
        /\ Return(c, "SendError")
        /\ UNCHANGED tasks
     \/ /\ tasks[i].open /\ InboxRoom(i)
        /\ tasks' = [tasks EXCEPT ![i].inbox = @ + 1]
        /\ Return(c, "Ok")
  /\ EndRead(c)
  /\ UNCHANGED <<forgeVars, waitVars, cleaner, outputVars>>

Empty == \A id \in Ids : forge[id] = NoTask

IsEmpty(c) ==
  /\ AtLock(c, {"is_empty"}) /\ ReadOnce(c)
  /\ Return(c, IF Empty THEN "true" ELSE "false")
  /\ UNCHANGED <<forgeVars, waitVars, cleaner, world>>

NewResultRedirection(c) ==
  /\ AtLock(c, {"new_result_redirection"}) /\ WriteOnce(c)
  /\ \E s \in UnusedSubs :
       /\ output_result_senders' = Append(output_result_senders, s)
       /\ sub' = [sub EXCEPT ![s] = "open"]
       /\ cursor' = [cursor EXCEPT ![s] = Len(log)]
  /\ Return(c, "Ok")
  /\ UNCHANGED <<registry, waitVars, cleaner, tasks, listenerVars, end_channel,
                 errorVars, sub_buf, log>>

-----------------------------------------------------------------------------
(* clean: forget every state at once if no sender is held, else register   *)
(* the notifier.  Replacing a notifier drops the previous sender.          *)

ForgetTasks == /\ task_states' = [id \in Ids |-> "None"]
               /\ task_creation_senders' = [id \in Ids |-> {}]

\* The receiver whose sender is in cleaning_notifier loses it.
Orphaned == [c \in Clients |->
               IF /\ cleaning_notifier # None /\ c = cleaning_notifier.owner
                  /\ cleaner[c] = "waiting"
               THEN "orphaned" ELSE cleaner[c]]

Clean(c) ==
  /\ AtLock(c, {"clean"}) /\ WriteOnce(c)
  /\ \/ Empty /\ ForgetTasks /\ UNCHANGED <<cleaning_notifier, cleaner>>
     \/ /\ ~Empty
        /\ cleaning_notifier' = [owner |-> c, awaited |-> call[c].awaited]
        /\ cleaner' = [Orphaned EXCEPT ![c] = "waiting"]
        /\ UNCHANGED <<task_states, task_creation_senders>>
  /\ Return(c, "Ok")
  /\ UNCHANGED <<forge, output_result_senders, waitVars, world>>

\* The client has received on the receiver clean returned, or drops it.
DropCleaner(c) ==
  /\ pc[c] = "idle" /\ cleaner[c] # "none"
  /\ cleaner' = [cleaner EXCEPT ![c] = "none"]
  /\ UNCHANGED <<forgeVars, lockVars, callVars, waitVars, world>>

-----------------------------------------------------------------------------
(* A call's future is dropped where it awaits.                             *)

CancelQueued(c) == /\ pc[c] \in {"lock", "relock"} /\ Withdraw(c)
                   /\ UNCHANGED <<forgeVars, waitVars>>

\* The waiter's receiver goes away; its sender stays where it is.
Bury(senders, c) ==
  IF c \in senders THEN (senders \ {c}) \cup {Dead} ELSE senders

CancelWait(c) ==
  /\ pc[c] = "recv"
  /\ task_creation_senders' =
       [id \in Ids |-> Bury(task_creation_senders[id], c)]
  /\ notifying' = Bury(notifying, c)
  /\ notified' = notified \ {c}
  /\ UNCHANGED <<forge, task_states, cleaning_notifier, output_result_senders,
                 lockVars, abandoned>>

\* Dropped while notifying: the lock is released with the task marked Running
\* and never begun.
CancelNotify(c) ==
  /\ pc[c] = "notify" /\ notifying # {}
  /\ notifying' = {} /\ EndWrite
  /\ abandoned' = [abandoned EXCEPT ![call[c].id] = @ + 1]
  /\ UNCHANGED <<forgeVars, notified>>

CancelSend(c) == /\ pc[c] = "inbox" /\ EndRead(c)
                 /\ UNCHANGED <<forgeVars, waitVars>>

Cancel(c) ==
  /\ pc[c] \in Interruptible
  /\ CancelQueued(c) \/ CancelWait(c) \/ CancelNotify(c) \/ CancelSend(c)
  /\ Return(c, "Cancelled")
  /\ UNCHANGED <<cleaner, world>>

-----------------------------------------------------------------------------
(* The tasks: what an implementation of TaskTrait may do with the receiver *)
(* it made and with its TaskInterface.                                     *)

SetTask(i, new) ==
  /\ tasks' = [tasks EXCEPT ![i] = new]
  /\ UNCHANGED <<forgeVars, lockVars, clientVars, listenerVars, errorVars,
                 subVars, log>>

TaskRecv(i) ==
  /\ tasks[i].pc = "run" /\ tasks[i].open /\ tasks[i].inbox > 0
  /\ SetTask(i, [tasks[i] EXCEPT !.inbox = @ - 1])
  /\ UNCHANGED end_channel

TaskOutput(i) ==
  /\ tasks[i].pc = "run" /\ tasks[i].outputs < MaxOutputs
  /\ SetTask(i, [tasks[i] EXCEPT !.pc = "output", !.outputs = @ + 1])
  /\ UNCHANGED end_channel

EndRoom == Len(end_channel) < EndCap

TaskOutputSent(i) ==
  /\ tasks[i].pc = "output" /\ EndRoom
  /\ end_channel' = Append(end_channel, [id |-> tasks[i].id, task |-> i])
  /\ SetTask(i, [tasks[i] EXCEPT !.pc = "run"])

TaskCloseInbox(i) ==
  /\ tasks[i].pc = "run" /\ tasks[i].open
  /\ SetTask(i, [tasks[i] EXCEPT !.open = FALSE, !.inbox = 0])
  /\ UNCHANGED end_channel

TaskExit(i) ==
  /\ tasks[i].pc # "done"
  /\ MayDie \/ (tasks[i].pc = "run" /\ tasks[i].outputs > 0)
  /\ SetTask(i, [tasks[i] EXCEPT !.pc = "done", !.open = FALSE, !.inbox = 0])
  /\ UNCHANGED end_channel

-----------------------------------------------------------------------------
(* The listener: one output at a time, the write lock held from            *)
(* handle_ending_task to the end of the broadcast or of the error report.  *)

ListenerRecv ==
  /\ lpc = "recv" /\ end_channel # <<>>
  /\ ending' = Head(end_channel)
  /\ end_channel' = Tail(end_channel)
  /\ lpc' = "lock"
  /\ Request(Listener, "write")
  /\ UNCHANGED <<forgeVars, clientVars, tasks, broadcastVars, errorVars,
                 subVars, log>>

\* The test by which handle_ending_task accepts an output for its id; the
\* slip: any id with a state will do.
SlipAccepts(id) == task_states[id] # "None"
Accepts(id) == task_states[id] = "Running"

RefuseOutput ==
  /\ lpc = "lock" /\ StartWrite(Listener)
  /\ ~Accepts(ending.id)
  /\ lpc' = "error"
  /\ UNCHANGED <<forgeVars, clientVars, tasks, ending, broadcastVars,
                 end_channel, errorVars, subVars, log>>

\* What handle_ending_task makes of forge and task_states (the slip: it keeps
\* the sender) ...
SlipWithoutTask(id) == forge
WithoutTask(id) == [forge EXCEPT ![id] = NoTask]
WithClosed(id)  == [task_states EXCEPT ![id] = "Closed"]

\* ... and should_clear, evaluated on the result.  The slips: it is evaluated
\* on the maps as they were; the count is not compared.
SlipClearEarly(f, st) ==
  /\ cleaning_notifier # None /\ Empty
  /\ \/ cleaning_notifier.awaited = NoCount
     \/ Cardinality({id \in Ids : st[id] # "None"}) = cleaning_notifier.awaited
SlipClearUncounted(f, st) ==
  cleaning_notifier # None /\ \A id \in Ids : f[id] = NoTask

ShouldClear(f, st) ==
  /\ cleaning_notifier # None
  /\ \A id \in Ids : f[id] = NoTask
  /\ \/ cleaning_notifier.awaited = NoCount
     \/ Cardinality({id \in Ids : st[id] # "None"}) = cleaning_notifier.awaited

StartBroadcast(cleared) ==
  LET event == [id |-> ending.id, task |-> ending.task,
                has_cleared |-> cleared] IN
  /\ lpc' = "broadcast" /\ ending' = event
  /\ log' = Append(log, event)

\* handle_ending_task for an accepted output, up to the start of the broadcast.
EndTask ==
  /\ lpc = "lock" /\ StartWrite(Listener)
  /\ Accepts(ending.id)
  /\ forge' = WithoutTask(ending.id)
  /\ UNCHANGED <<output_result_senders, callVars, waitVars, tasks,
                 broadcastVars, end_channel, errorVars, subVars>>

CloseTask ==
  /\ EndTask
  /\ ~ShouldClear(WithoutTask(ending.id), WithClosed(ending.id))
  /\ task_states' = WithClosed(ending.id)
  /\ StartBroadcast(FALSE)
  /\ UNCHANGED <<task_creation_senders, cleaning_notifier, cleaner>>

ClearForge ==
  LET owner == cleaning_notifier.owner IN
  /\ EndTask
  /\ ShouldClear(WithoutTask(ending.id), WithClosed(ending.id))
  /\ ForgetTasks
  /\ cleaning_notifier' = None
  /\ \/ /\ cleaner[owner] = "waiting"
        /\ cleaner' = [cleaner EXCEPT ![owner] = "notified"]
        /\ StartBroadcast(TRUE)
     \/ /\ cleaner[owner] # "waiting"          \* CleaningNotifierError
        /\ lpc' = "error"
        /\ UNCHANGED <<cleaner, ending, log>>

\* When the send to a redirection fails; the slip: it does not wait for room.
SlipSendFails(s) == sub[s] = "closed" \/ Len(sub_buf[s]) = OutCap
SendFails(s)     == sub[s] = "closed"

SubRoom(s)       == Len(sub_buf[s]) < OutCap

\* One send of the broadcast loop: it waits while the redirection is full.
BroadcastSend ==
  LET s == output_result_senders[next_sub] IN
  /\ lpc = "broadcast" /\ next_sub <= Len(output_result_senders)
  /\ \/ /\ SendFails(s)
        /\ senders_to_remove' = Append(senders_to_remove, next_sub)
        /\ UNCHANGED sub_buf
     \/ /\ sub[s] = "open" /\ SubRoom(s)
        /\ sub_buf' = [sub_buf EXCEPT ![s] = Append(@, ending)]
        /\ UNCHANGED senders_to_remove
  /\ next_sub' = next_sub + 1
  /\ UNCHANGED <<forgeVars, lockVars, clientVars, tasks, lpc, ending,
                 end_channel, errorVars, sub, cursor, log>>

\* senders_to_remove.into_iter().rev(): from the last position to the first.
NextToPrune == Len(senders_to_remove)

PruneSender ==
  /\ lpc = "broadcast" /\ next_sub > Len(output_result_senders)
  /\ senders_to_remove # <<>>
  /\ output_result_senders' =
       RemoveAt(output_result_senders, senders_to_remove[NextToPrune])
  /\ senders_to_remove' = RemoveAt(senders_to_remove, NextToPrune)
  /\ UNCHANGED <<registry, lockVars, clientVars, tasks, lpc, ending, next_sub,
                 end_channel, errorVars, subVars, log>>

DropGuard     == EndWrite
Listen == /\ lpc' = "recv" /\ ending' = None /\ next_sub' = 1
          /\ DropGuard
          /\ UNCHANGED <<forgeVars, clientVars, tasks, senders_to_remove,
                         end_channel, error_rx, subVars, log>>

EndBroadcast ==
  /\ lpc = "broadcast" /\ next_sub > Len(output_result_senders)
  /\ senders_to_remove = <<>>
  /\ Listen /\ UNCHANGED errors

\* The error is sent, the lock still held, or logged if nobody can read it.
ReportError ==
  /\ lpc = "error"
  /\ \/ error_rx = "dropped" /\ UNCHANGED errors
     \/ error_rx # "dropped" /\ errors < ErrCap /\ errors' = errors + 1
  /\ Listen

-----------------------------------------------------------------------------
(* The other ends: error handlers and result subscribers.                  *)

\* log_error_handler and ignore_error_handler read for ever.
DrainError ==
  /\ error_rx = "drain" /\ errors > 0
  /\ errors' = errors - 1
  /\ UNCHANGED <<forgeVars, lockVars, clientVars, tasks, listenerVars,
                 end_channel, error_rx, subVars, log>>

\* panic_error_handler dies of the first error; a held receiver may be dropped.
DropErrorReceiver ==
  /\ error_rx = "held" \/ (error_rx = "panic" /\ errors > 0)
  /\ error_rx' = "dropped" /\ errors' = 0
  /\ UNCHANGED <<forgeVars, lockVars, clientVars, tasks, listenerVars,
                 end_channel, subVars, log>>

Receive(s) ==
  /\ sub[s] = "open" /\ sub_buf[s] # <<>>
  /\ sub_buf' = [sub_buf EXCEPT ![s] = Tail(@)]
  /\ cursor' = [cursor EXCEPT ![s] = @ + 1]
  /\ UNCHANGED <<forgeVars, lockVars, clientVars, tasks, listenerVars,
                 end_channel, errorVars, sub, log>>

DropReceiver(s) ==
  /\ sub[s] = "open"
  /\ sub' = [sub EXCEPT ![s] = "closed"]
  /\ sub_buf' = [sub_buf EXCEPT ![s] = <<>>]
  /\ UNCHANGED <<forgeVars, lockVars, clientVars, tasks, listenerVars,
                 end_channel, errorVars, cursor, log>>

-----------------------------------------------------------------------------
Init ==
  /\ forge = [id \in Ids |-> NoTask]
  /\ task_states = [id \in Ids |-> "None"]
  /\ task_creation_senders = [id \in Ids |-> {}]
  /\ cleaning_notifier = None
  /\ output_result_senders = <<>>
  /\ LockInit
  /\ pc = [c \in Clients |-> "idle"]
  /\ call = [c \in Clients |-> None]
  /\ ret = [c \in Clients |-> "none"]
  /\ notified = {} /\ notifying = {} /\ abandoned = [id \in Ids |-> 0]
  /\ cleaner = [c \in Clients |-> "none"]
  /\ tasks = <<>>
  /\ lpc = "recv" /\ ending = None
  /\ next_sub = 1 /\ senders_to_remove = <<>>
  /\ end_channel = <<>> /\ errors = 0 /\ error_rx \in ErrorHandlers
  /\ sub = [s \in Subs |-> "unused"]
  /\ sub_buf = [s \in Subs |-> <<>>]
  /\ cursor = [s \in Subs |-> 0] /\ log = <<>>

\* The steps a call takes by itself once it has been made.
ClientStep(c) ==
  \/ RejectNewTask(c) \/ MarkRunning(c) \/ NotifyWaiter(c) \/ BeginTask(c)
  \/ WaitForTaskCreation(c) \/ RecvCreation(c) \/ SendAfterWait(c)
  \/ SendNoTask(c) \/ Send(c) \/ SendToInbox(c) \/ IsEmpty(c)
  \/ NewResultRedirection(c) \/ Clean(c)

ClientChoice(c) == (\E r \in Call : StartCall(c, r)) \/ Cancel(c) \/ DropCleaner(c)

TaskStep(i) ==
  \/ TaskRecv(i) \/ TaskOutput(i) \/ TaskOutputSent(i) \/ TaskCloseInbox(i)
  \/ TaskExit(i)

ListenerStep ==
  \/ ListenerRecv \/ RefuseOutput \/ CloseTask \/ ClearForge
  \/ BroadcastSend \/ PruneSender \/ EndBroadcast \/ ReportError

Next ==
  \/ \E c \in Clients : ClientStep(c) \/ ClientChoice(c)
  \/ \E i \in DOMAIN tasks : TaskStep(i)
  \/ ListenerStep
  \/ DrainError \/ DropErrorReceiver
  \/ \E s \in Subs : Receive(s) \/ DropReceiver(s)

Spec == Init /\ [][Next]_vars

\* What the runtime and the users owe: a client polls the call it has made
\* (SF: room in an inbox comes and goes, but tokio's permits are first come,
\* first served), the listener runs, a task reads its messages and polls its
\* output, subscribers and error handlers read (an error receiver that is held
\* need not be).
Fairness ==
  /\ \A c \in Clients : SF_vars(ClientStep(c))
  /\ WF_vars(ListenerStep)
  /\ WF_vars(DrainError) /\ WF_vars(error_rx = "panic" /\ DropErrorReceiver)
  /\ \A i \in 1 .. MaxTasks : /\ WF_vars(i \in DOMAIN tasks /\ TaskRecv(i))
                             /\ SF_vars(i \in DOMAIN tasks /\ TaskOutputSent(i))
  /\ \A s \in Subs : WF_vars(Receive(s))

FairSpec == Spec /\ Fairness

\* A diligent task also comes to an output of its own accord.
DiligentSpec ==
  FairSpec /\ \A i \in 1 .. MaxTasks : WF_vars(i \in DOMAIN tasks /\ TaskOutput(i))

-----------------------------------------------------------------------------
(* Safety.                                                                 *)

\* An id that is Running without a task, and no new_task is at work on it.
Lost(id) ==
  /\ task_states[id] = "Running" /\ forge[id] = NoTask
  /\ ~\E c \in Clients : pc[c] = "notify" /\ call[c].id = id

\* The two maps of WrappedTaskForge agree: a sender is held exactly for the
\* ids that are Running.  new_task is the exception between its two inserts,
\* for ever if its future may be dropped there.
SendersMatchStates == \A id \in Ids :
  /\ forge[id] # NoTask => task_states[id] = "Running"
  /\ Lost(id) => "notify" \in Interruptible

\* No lost wakeup: a waiter parked on an id can only be waiting for a task not
\* created since; new_task takes its sender as it marks the id (143-147).
NoLostWakeup == \A id \in Ids :
  task_creation_senders[id] # {} => task_states[id] = "None"

\* A cleaning is pending on an empty forge only if it awaits a number, and one
\* other than that of the ids known unless an id is Running without a task: the
\* listener would have no later step at which to see that it is satisfied
\* (58-69, 80).  (A clean of the empty forge, 221-224, makes the number 0 and
\* answers nobody.)
NoMissedCleaning ==
  cleaning_notifier # None /\ Empty =>
    /\ cleaning_notifier.awaited # NoCount
    /\ cleaning_notifier.awaited # 0 /\ (\A id \in Ids : task_states[id] # "Running") =>
         cleaning_notifier.awaited # Cardinality({id \in Ids : task_states[id] # "None"})

\* Who waits for the lock, and to do what.
AwaitsLock(p) == IF p = Listener THEN lpc = "lock" ELSE pc[p] \in {"lock", "relock"}
WantedMode(p) ==
  IF p # Listener /\ (pc[p] = "relock" \/ call[p].op \in ReadOps)
  THEN "read" ELSE "write"

\* The lock follows the calls, whatever is dropped where.  Everyone who waits for
\* it has one request in its queue, for what its next step does, and nobody else
\* has one; a client holds a guard exactly where it awaits under one, the
\* listener exactly from handle_ending_task to the end of its broadcast or
\* report; and a writer is alone.  A request or a guard left behind by a call
\* that returned or was dropped would stop every call after it.
LockFollowsCalls ==
  /\ \A p \in Procs : AwaitsLock(p) <=> \E i \in DOMAIN queue : queue[i].proc = p
  /\ \A i, j \in DOMAIN queue : queue[i].proc = queue[j].proc => i = j
  /\ \A i \in DOMAIN queue : queue[i].mode = WantedMode(queue[i].proc)
  /\ \A c \in Clients : /\ writer = c <=> pc[c] = "notify"
                        /\ c \in readers <=> pc[c] = "inbox"
  /\ writer = Listener <=> lpc \in {"broadcast", "error"}
  /\ writer # Nobody => readers = {}

\* Every open redirection holds, in order, the events broadcast since it was
\* registered and not yet received; only those the broadcast loop has still to
\* reach lack the last one.  So pruning never removes an open redirection.
SubscribersSeeOneLog == \A s \in Subs : sub[s] = "open" =>
  LET seen == cursor[s] + Len(sub_buf[s]) IN
  /\ sub_buf[s] = SubSeq(log, cursor[s] + 1, seen)
  /\ \/ seen = Len(log)
     \/ /\ lpc = "broadcast" /\ seen = Len(log) - 1
        /\ \E k \in next_sub .. Len(output_result_senders) :
             output_result_senders[k] = s

\* Between the lookup of a task and the delivery of the message nobody closes
\* or replaces the task: the sender holds the lock across its await (186-196).
SendsReachRunningTask == \A c \in Clients : pc[c] = "inbox" =>
  /\ forge[call[c].id] # NoTask /\ task_states[call[c].id] = "Running"
  /\ lpc \in {"recv", "lock"}

\* Every result uses up a creation of its id that no other result uses: the task
\* that output it, a later one, or one that was abandoned.  (Of the tasks of an id
\* from any one on, no more results than there are such tasks.)  A second output
\* of a task, or one after a cleaning, is refused unless its id is Running again:
\* told apart by the id alone (74) it is then taken for the result of the new
\* task, whose own is refused; never the other way round.
ResultsWithinTasks == \A i \in DOMAIN tasks : LET id == tasks[i].id IN
  Cardinality({k \in DOMAIN log : log[k].id = id /\ log[k].task >= i})
    <= Cardinality({j \in DOMAIN tasks : tasks[j].id = id /\ j >= i})
         + abandoned[id]

\* The cleaning receiver is notified only by the step that empties the forge,
\* forgets all states and waiters, and has seen as many different ids end or be
\* lost as clean was asked to await.
CleanedAfterAwaited == [][\A c \in Clients :
  cleaner[c] = "waiting" /\ cleaner'[c] = "notified" =>
    /\ Empty' /\ cleaning_notifier.owner = c
    /\ \A id \in Ids : task_states'[id] = "None" /\ task_creation_senders'[id] = {}
    /\ cleaning_notifier.awaited # NoCount =>
         Cardinality({log'[k].id : k \in DOMAIN log'} \cup {id \in Ids : Lost(id)})
           >= cleaning_notifier.awaited
  ]_vars

\* The forge keeps the promise of module TaskLifecycle: its two maps, the lock,
\* the listener and the notices under way behave as one table of ids on which
\* each call and each end of a task is one step.  A new_task dropped while it
\* notifies is the one exception, a creation that is abandoned.
Lifecycle == INSTANCE TaskLifecycle WITH
  MayAbandon <- "notify" \in Interruptible,
  state <- [id \in Ids |-> IF Lost(id) THEN "Lost" ELSE task_states[id]],
  waiting <- [id \in Ids |-> task_creation_senders[id] \ {Dead}],
  told <- [id \in Ids |->
             {c \in notified \cup (notifying \ {Dead}) : call[c].id = id}],
  cleaning <- cleaning_notifier,
  listening <- {c \in Clients : cleaner[c] = "waiting"},
  results <- [k \in DOMAIN log |-> log[k].id]

ImplementsLifecycle == Lifecycle!Spec

(* Liveness.                                                               *)

\* Every call returns, but for one that awaits the creation of a task: no send
\* into a full inbox, no dying task and no call dropped in the queue or with a
\* guard keeps the others from the lock, as long as the end-of-task channel never
\* fills.
EveryCallReturns == \A c \in Clients :
  pc[c] \notin {"idle", "recv"} ~> pc[c] \in {"idle", "recv"}

\* A waiter that has been notified, or whose sender is gone, leaves its recv,
\* and one that waits for an id that gets created is notified.
WaitersWake == \A c \in Clients, id \in Ids :
  (pc[c] = "recv" /\ call[c].id = id /\ task_states[id] # "None") ~> pc[c] # "recv"

\* The listener has an error to report to a receiver that is kept, unread and full.
ReportBlocked == lpc = "error" /\ error_rx = "held" /\ errors = ErrCap

\* clean(None) is answered once the tasks have ended, unless the listener comes
\* to a report it cannot make (129): with the lock held nothing ends any more.
\* (A cleaning that is replaced, 226, counts as answered; and only finitely many
\* tasks are ever begun here.)
CleanerNotified == \A c \in Clients :
  cleaner[c] = "waiting" ~> (cleaner[c] # "waiting" \/ ReportBlocked)


\* Every redirection comes to have received all that was broadcast since it was
\* registered, or is dropped.
ResultsReceived == \A s \in Subs :
  (sub[s] = "open" /\ cursor[s] < Len(log)) ~> (cursor[s] = Len(log) \/ sub[s] = "closed")
=============================================================================
