---------------------------- MODULE TaskLockProofs ----------------------------
(***************************************************************************)
(* Who waits for the lock of the task forge and who holds it, for every    *)
(* number of clients and whatever calls are dropped.                       *)
(***************************************************************************)
EXTENDS TaskForgeProofs

-----------------------------------------------------------------------------
(* The queue of the lock.                                                  *)

\* Those who wait for the lock, and what everyone would do with it.
Waiting == {p \in Procs : AwaitsLock(p)}
Modes   == [p \in Procs |-> WantedMode(p)]

\* Everyone who waits for the lock has one request in its queue, of the kind
\* its next step serves, and nobody else has one.
Requests ==
  /\ \A p \in Procs : p \in Waiting <=> \E i \in DOMAIN queue : queue[i].proc = p
  /\ \A i, j \in DOMAIN queue : queue[i].proc = queue[j].proc => i = j
  /\ \A i \in DOMAIN queue : queue[i].mode = Modes[queue[i].proc]

\* The step is none of those by which p comes to wait for the lock or gets it.
Aside(p) == /\ p \in Waiting' <=> p \in Waiting
            /\ p \in Waiting => Modes'[p] = Modes[p]

\* The requests by their positions.
LEMMA QueueEntries ==
  ASSUME LockTypeOK
  PROVE  /\ Len(queue) \in Nat /\ DOMAIN queue = 1 .. Len(queue)
         /\ \A i \in 1 .. Len(queue) :
              queue[i] \in [proc : Procs, mode : {"read", "write"}] /\ queue[i].proc \in Procs
<1>1. queue \in Seq([proc : Procs, mode : {"read", "write"}])
  BY DEF LockTypeOK
<1>2. /\ Len(queue) \in Nat /\ DOMAIN queue = 1 .. Len(queue)
      /\ \A i \in 1 .. Len(queue) : queue[i] \in [proc : Procs, mode : {"read", "write"}]
  BY <1>1, LenProperties
<1>3. QED BY <1>2

\* A step that leaves the queue, and everyone in it, where it is.
LEMMA QueueKept ==
  ASSUME LockTypeOK, Requests, UNCHANGED queue, \A p \in Procs : Aside(p)
  PROVE  Requests'
<1>1. \A i \in DOMAIN queue : queue[i].proc \in Procs /\ queue[i].proc \in Waiting
  BY QueueEntries DEF Requests
<1>2. QED BY <1>1 DEF Requests, Aside

\* Someone comes to wait.
LEMMA QueueGrows ==
  ASSUME LockTypeOK, Requests, NEW p \in Procs, NEW mode, Request(p, mode),
         p \notin Waiting, p \in Waiting', Modes'[p] = mode,
         \A q \in Procs \ {p} : Aside(q)
  PROVE  Requests'
<1> DEFINE new == [proc |-> p, mode |-> mode]
<1>1. /\ Len(queue) \in Nat /\ DOMAIN queue = 1 .. Len(queue)
      /\ DOMAIN queue' = 1 .. Len(queue) + 1
      /\ \A i \in 1 .. Len(queue) : queue'[i] = queue[i]
      /\ queue'[Len(queue) + 1] = new
  <2>1. queue \in Seq([proc : Procs, mode : {"read", "write"}])
    BY DEF LockTypeOK
  <2>2. queue' = Append(queue, new)
    BY DEF Request
  <2> HIDE DEF new
  <2>3. QED BY <2>1, <2>2, QueueEntries, AppendProperties
<1>2. \A i \in 1 .. Len(queue) : /\ queue[i].proc \in Procs \ {p}
                                 /\ queue[i].proc \in Waiting
  BY <1>1, QueueEntries DEF Requests
<1>3. \A i \in 1 .. Len(queue) + 1 : i \in 1 .. Len(queue) \/ i = Len(queue) + 1
  BY <1>1
<1>4. Len(queue) + 1 \in 1 .. Len(queue) + 1
      /\ 1 .. Len(queue) \subseteq 1 .. Len(queue) + 1
  BY <1>1
<1>5. ASSUME NEW q \in Procs
      PROVE  q \in Waiting' <=> \E i \in DOMAIN queue' : queue'[i].proc = q
  <2>1. CASE q = p
    BY <1>1, <1>4, <2>1
  <2>2. CASE q # p
    BY <1>1, <1>3, <1>4, <2>2 DEF Requests, Aside
  <2>3. QED BY <2>1, <2>2
<1>6. \A i, j \in DOMAIN queue' : queue'[i].proc = queue'[j].proc => i = j
  BY <1>1, <1>2, <1>3 DEF Requests
<1>7. ASSUME NEW i \in DOMAIN queue'
      PROVE  queue'[i].mode = Modes'[queue'[i].proc]
  <2>1. CASE i = Len(queue) + 1
    BY <1>1, <2>1
  <2>2. CASE i \in 1 .. Len(queue)
    BY <1>1, <1>2, <2>2 DEF Requests, Aside
  <2>3. QED BY <1>1, <1>3, <2>1, <2>2
<1>8. QED BY <1>5, <1>6, <1>7 DEF Requests

\* Someone is served, or stops waiting.
LEMMA QueueShrinks ==
  ASSUME LockTypeOK, Requests, NEW i \in DOMAIN queue, queue' = RemoveAt(queue, i),
         queue[i].proc \notin Waiting', \A q \in Procs \ {queue[i].proc} : Aside(q)
  PROVE  Requests'
<1> DEFINE p == queue[i].proc
           n == Len(queue)
           before(j) == IF j < i THEN j ELSE j + 1
<1>1. /\ n \in Nat /\ DOMAIN queue = 1 .. n /\ i \in 1 .. n
      /\ DOMAIN queue' = 1 .. n - 1
      /\ \A j \in 1 .. n - 1 : queue'[j] = queue[before(j)]
  <2>1. /\ queue \in Seq([proc : Procs, mode : {"read", "write"}])
    BY DEF LockTypeOK
  <2>2. /\ RemoveAt(queue, i) \in Seq([proc : Procs, mode : {"read", "write"}])
        /\ Len(RemoveAt(queue, i)) = Len(queue) - 1
        /\ \A j \in 1 .. Len(queue) - 1 :
             RemoveAt(queue, i)[j] = IF j < i THEN queue[j] ELSE queue[j + 1]
    BY <2>1, RemoveAtProperties
  <2>3. Len(queue) \in Nat /\ DOMAIN queue = 1 .. Len(queue)
    BY QueueEntries
  <2>4. DOMAIN RemoveAt(queue, i) = 1 .. Len(queue) - 1
    BY <2>2, LenProperties
  <2>5. QED BY <2>2, <2>3, <2>4
<1>2. \A j \in 1 .. n - 1 : before(j) \in 1 .. n /\ before(j) # i
  BY <1>1
<1>3. \A j, k \in 1 .. n - 1 : before(j) = before(k) => j = k
  BY <1>1
<1>4. \A k \in 1 .. n : k # i => \E j \in 1 .. n - 1 : before(j) = k
  <2> TAKE k \in 1 .. n
  <2>1. CASE k < i
    <3>1. k \in 1 .. n - 1 /\ before(k) = k
      BY <1>1, <2>1
    <3>2. QED BY <3>1
  <2>2. CASE k > i
    <3>1. k - 1 \in 1 .. n - 1 /\ before(k - 1) = k
      BY <1>1, <2>2
    <3>2. QED BY <3>1
  <2>3. QED BY <1>1, <2>1, <2>2
<1>5. \A j \in 1 .. n : /\ queue[j].proc \in Procs /\ queue[j].proc \in Waiting
                        /\ j # i => queue[j].proc # p
  BY <1>1, QueueEntries DEF Requests
<1> HIDE DEF n, before
<1>6. ASSUME NEW q \in Procs
      PROVE  q \in Waiting' <=> \E j \in DOMAIN queue' : queue'[j].proc = q
  <2>1. CASE q = p
    BY <1>1, <1>2, <1>5, <2>1
  <2>2. CASE q # p
    <3>1. q \in Waiting' <=> \E k \in 1 .. n : queue[k].proc = q
      BY <1>1, <2>2 DEF Requests, Aside
    <3>2. (\E k \in 1 .. n : queue[k].proc = q)
            <=> \E j \in 1 .. n - 1 : queue[before(j)].proc = q
      BY <1>2, <1>4, <2>2
    <3>3. QED BY <1>1, <3>1, <3>2
  <2>3. QED BY <2>1, <2>2
<1>7. \A j, k \in DOMAIN queue' : queue'[j].proc = queue'[k].proc => j = k
  BY <1>1, <1>2, <1>3 DEF Requests
<1>8. ASSUME NEW j \in DOMAIN queue'
      PROVE  queue'[j].mode = Modes'[queue'[j].proc]
  BY <1>1, <1>2, <1>5 DEF Requests, Aside
<1>9. QED BY <1>6, <1>7, <1>8 DEF Requests

\* A call is not one the listener makes, and a step of one leaves the others.
LEMMA OthersAside ==
  ASSUME NEW c \in Clients, UNCHANGED lpc,
         \A d \in Clients \ {c} : pc'[d] = pc[d] /\ call'[d] = call[d]
  PROVE  \A q \in Procs \ {c} : Aside(q)
BY ConstantsAssumption DEF Procs, Aside, Waiting, Modes, AwaitsLock, WantedMode

\* A call that waits neither before nor after a step.
LEMMA NotWaiting ==
  ASSUME NEW c \in Clients
  PROVE  /\ pc[c] \in {"lock", "relock"} <=> c \in Waiting
         /\ pc'[c] \in {"lock", "relock"} <=> c \in Waiting'
BY ConstantsAssumption DEF Procs, Waiting, AwaitsLock

\* A step of the listener leaves the calls, and it waits at one stage.
LEMMA ClientsAside ==
  ASSUME UNCHANGED <<pc, call>>
  PROVE  /\ \A q \in Procs \ {Listener} : Aside(q)
         /\ Listener \in Waiting <=> lpc = "lock"
         /\ Listener \in Waiting' <=> lpc' = "lock"
         /\ Modes'[Listener] = "write"
BY ConstantsAssumption DEF Procs, Aside, Waiting, Modes, AwaitsLock, WantedMode

\* A step keeps the queue that of those who wait.
LEMMA RequestsStep == IInv /\ Requests /\ [Next]_vars => Requests'
<1> SUFFICES ASSUME IInv, Requests, [Next]_vars PROVE Requests'
  OBVIOUS
<1> USE DEF forgeVars, registry, waitVars, callVars, clientVars, world, outputVars,
            listenerVars
<1>0. /\ LockTypeOK /\ pc \in [Clients -> Stages]
      /\ call \in [Clients -> Call \cup {None}]
  BY DEF IInv, TypeOK, ClientTypeOK
\* The ways in which the queue changes.
<1>1. ASSUME NEW c \in Clients, NEW mode, Served(c, mode), UNCHANGED lpc,
             \A d \in Clients \ {c} : pc'[d] = pc[d] /\ call'[d] = call[d],
             pc'[c] \notin {"lock", "relock"}
      PROVE  Requests'
  <2>1. PICK i \in DOMAIN queue : queue[i].proc = c /\ queue' = RemoveAt(queue, i)
    BY <1>1 DEF Served
  <2>2. c \notin Waiting' /\ \A q \in Procs \ {c} : Aside(q)
    BY <1>1, OthersAside, NotWaiting
  <2>3. QED BY <1>0, <2>1, <2>2, QueueShrinks
<1>2. ASSUME NEW mode, Served(Listener, mode), UNCHANGED <<pc, call>>, lpc' # "lock"
      PROVE  Requests'
  <2>1. PICK i \in DOMAIN queue : queue[i].proc = Listener /\ queue' = RemoveAt(queue, i)
    BY <1>2 DEF Served
  <2>2. Listener \notin Waiting' /\ \A q \in Procs \ {Listener} : Aside(q)
    BY <1>2, ClientsAside
  <2>3. QED BY <1>0, <2>1, <2>2, QueueShrinks
<1>3. ASSUME NEW c \in Clients, UNCHANGED <<queue, lpc>>,
             \A d \in Clients \ {c} : pc'[d] = pc[d] /\ call'[d] = call[d],
             pc[c] \notin {"lock", "relock"}, pc'[c] \notin {"lock", "relock"}
      PROVE  Requests'
  <2>1. \A q \in Procs \ {c} : Aside(q)
    BY <1>3, OthersAside
  <2>2. Aside(c)
    BY <1>3, NotWaiting DEF Aside
  <2>3. QED BY <1>0, <1>3, <2>1, <2>2, QueueKept
<1>4. ASSUME UNCHANGED <<queue, pc, call>>, lpc' # "lock", lpc # "lock"
      PROVE  Requests'
  <2>1. \A q \in Procs : Aside(q)
    BY <1>4, ClientsAside DEF Aside
  <2>2. QED BY <1>0, <1>4, <2>1, QueueKept
<1>5. ASSUME UNCHANGED <<queue, pc, call, lpc>> PROVE Requests'
  <2>1. \A q \in Procs : Aside(q)
    BY <1>5 DEF Aside, Waiting, Modes, AwaitsLock, WantedMode
  <2>2. QED BY <1>0, <1>5, <2>1, QueueKept
\* The actions.
<1>6. ASSUME NEW c \in Clients, NEW r \in Call, StartCall(c, r) PROVE Requests'
  <2>1. /\ pc[c] = "idle" /\ UNCHANGED lpc
        /\ pc' = [pc EXCEPT ![c] = "lock"] /\ call' = [call EXCEPT ![c] = r]
        /\ Request(c, IF r.op \in ReadOps THEN "read" ELSE "write")
    BY <1>6 DEF StartCall
  <2>2. c \notin Waiting /\ c \in Waiting' /\ \A q \in Procs \ {c} : Aside(q)
    BY <1>0, <2>1, NotWaiting, OthersAside
  <2>3. Modes'[c] = IF r.op \in ReadOps THEN "read" ELSE "write"
    BY <1>0, <2>1, ConstantsAssumption DEF Modes, WantedMode, Procs
  <2>4. QED BY <1>0, <2>1, <2>2, <2>3, QueueGrows DEF Procs
<1>7. ASSUME NEW c \in Clients, SendAfterWait(c) PROVE Requests'
  <2>1. /\ pc[c] = "created" /\ UNCHANGED <<lpc, call>>
        /\ pc' = [pc EXCEPT ![c] = "relock"] /\ Request(c, "read")
    BY <1>7 DEF SendAfterWait, Goto
  <2>2. c \notin Waiting /\ c \in Waiting' /\ \A q \in Procs \ {c} : Aside(q)
    BY <1>0, <2>1, NotWaiting, OthersAside
  <2>3. Modes'[c] = "read"
    BY <1>0, <2>1, ConstantsAssumption DEF Modes, WantedMode, Procs
  <2>4. QED BY <1>0, <2>1, <2>2, <2>3, QueueGrows DEF Procs
<1>8. ASSUME NEW c \in Clients,
             \/ RejectNewTask(c) \/ MarkRunning(c) \/ WaitForTaskCreation(c)
             \/ SendNoTask(c) \/ Send(c) \/ IsEmpty(c) \/ NewResultRedirection(c)
             \/ Clean(c)
      PROVE  Requests'
  <2>1. /\ \E mode : Served(c, mode)
        /\ UNCHANGED lpc
    BY <1>8 DEF RejectNewTask, MarkRunning, WaitForTaskCreation, LockForWait,
                SendNoTask, Send, IsEmpty, NewResultRedirection, Clean, WriteOnce,
                ReadOnce, StartWrite, StartRead
  <2>2. /\ \A d \in Clients \ {c} : pc'[d] = pc[d] /\ call'[d] = call[d]
        /\ pc'[c] \notin {"lock", "relock"}
    BY <1>0, <1>8
    DEF RejectNewTask, MarkRunning, WaitForTaskCreation, Created, SendNoTask, Send,
        IsEmpty, NewResultRedirection, Clean, Return, Goto
  <2>3. QED BY <1>1, <2>1, <2>2
<1>9. ASSUME NEW c \in Clients,
             \/ NotifyWaiter(c) \/ BeginTask(c) \/ RecvCreation(c) \/ SendToInbox(c)
      PROVE  Requests'
  <2>1. UNCHANGED <<queue, lpc>> /\ pc[c] \notin {"lock", "relock"}
    BY <1>9 DEF NotifyWaiter, BeginTask, RecvCreation, SendToInbox, lockVars,
                EndWrite, EndRead
  <2>2. /\ \A d \in Clients \ {c} : pc'[d] = pc[d] /\ call'[d] = call[d]
        /\ pc'[c] \notin {"lock", "relock"}
    BY <1>0, <1>9 DEF NotifyWaiter, BeginTask, RecvCreation, SendToInbox, Created,
                      Return, Goto
  <2>3. QED BY <1>3, <2>1, <2>2
<1>10. ASSUME NEW c \in Clients, Cancel(c) PROVE Requests'
  <2>1. /\ UNCHANGED lpc /\ pc'[c] \notin {"lock", "relock"}
        /\ \A d \in Clients \ {c} : pc'[d] = pc[d] /\ call'[d] = call[d]
    BY <1>0, <1>10 DEF Cancel, Return
  <2>2. CASE CancelQueued(c)
    <3>1. PICK i \in DOMAIN queue : queue[i].proc = c /\ queue' = RemoveAt(queue, i)
      BY <2>2 DEF CancelQueued, Withdraw
    <3>2. c \notin Waiting' /\ \A q \in Procs \ {c} : Aside(q)
      BY <2>1, OthersAside, NotWaiting
    <3>3. QED BY <1>0, <3>1, <3>2, QueueShrinks
  <2>3. CASE CancelWait(c) \/ CancelNotify(c) \/ CancelSend(c)
    <3>1. UNCHANGED queue /\ pc[c] \notin {"lock", "relock"}
      BY <2>3 DEF CancelWait, CancelNotify, CancelSend, lockVars, EndWrite, EndRead
    <3>2. QED BY <1>3, <2>1, <3>1
  <2>4. QED BY <1>10, <2>2, <2>3 DEF Cancel
<1>11. ASSUME ListenerRecv PROVE Requests'
  <2>1. /\ lpc = "recv" /\ lpc' = "lock" /\ UNCHANGED <<pc, call>>
        /\ Request(Listener, "write")
    BY <1>11 DEF ListenerRecv
  <2>2. QED BY <1>0, <2>1, ClientsAside, QueueGrows DEF Procs
<1>12. ASSUME RefuseOutput \/ CloseTask \/ ClearForge PROVE Requests'
  <2>1. Served(Listener, "write") /\ UNCHANGED <<pc, call>> /\ lpc' # "lock"
    BY <1>12 DEF RefuseOutput, CloseTask, ClearForge, EndTask, StartWrite,
                 StartBroadcast
  <2>2. QED BY <1>2, <2>1
<1>13. ASSUME EndBroadcast \/ ReportError PROVE Requests'
  <2>1. UNCHANGED <<queue, pc, call>> /\ lpc # "lock" /\ lpc' # "lock"
    BY <1>13 DEF EndBroadcast, ReportError, Listen, DropGuard, EndWrite
  <2>2. QED BY <1>4, <2>1
<1>14. ASSUME \/ \E c \in Clients : DropCleaner(c)
              \/ \E i \in DOMAIN tasks : TaskStep(i)
              \/ BroadcastSend \/ PruneSender \/ DrainError \/ DropErrorReceiver
              \/ \E s \in Subs : Receive(s) \/ DropReceiver(s)
              \/ UNCHANGED vars
       PROVE  UNCHANGED <<queue, pc, call, lpc>>
  BY <1>14 DEF DropCleaner, TaskStep, TaskRecv, TaskOutput, TaskOutputSent,
               TaskCloseInbox, TaskExit, SetTask, BroadcastSend, PruneSender,
               DrainError, DropErrorReceiver, Receive, DropReceiver, lockVars, vars
<1>15. QED
  BY <1>5, <1>6, <1>7, <1>8, <1>9, <1>10, <1>11, <1>12, <1>13, <1>14
  DEF Next, ClientStep, ClientChoice, ListenerStep

-----------------------------------------------------------------------------
(* The lock.                                                               *)

\* No call leaves a request in the queue or a guard behind when it returns or is
\* dropped: who waits has one request, and guards are held only at the awaits
\* that lie under one.
THEOREM LockIsFollowed == Spec => []LockFollowsCalls
<1>1. Init => Requests
  <2> SUFFICES ASSUME Init PROVE Requests
    OBVIOUS
  <2>1. queue = <<>> /\ lpc = "recv" /\ \A c \in Clients : pc[c] = "idle"
    BY DEF Init, LockInit
  <2>2. Waiting = {}
    BY <2>1 DEF Waiting, AwaitsLock, Procs
  <2>3. QED BY <2>1, <2>2 DEF Requests
<1>2. IInv /\ Requests /\ [Next]_vars => Requests'
  BY RequestsStep
<1>3. IInv /\ Requests => LockFollowsCalls
  <2> SUFFICES ASSUME IInv, Requests PROVE LockFollowsCalls
    OBVIOUS
  <2>1. \A p \in Procs : AwaitsLock(p) <=> \E i \in DOMAIN queue : queue[i].proc = p
    BY DEF Requests, Waiting
  <2>2. \A i, j \in DOMAIN queue : queue[i].proc = queue[j].proc => i = j
    BY DEF Requests
  <2>3. \A i \in DOMAIN queue : queue[i].mode = WantedMode(queue[i].proc)
    <3>1. \A i \in DOMAIN queue : queue[i].proc \in Procs
      BY QueueEntries DEF IInv, TypeOK
    <3>2. QED BY <3>1 DEF Requests, Modes
  <2>4. /\ \A c \in Clients : /\ writer = c <=> pc[c] = "notify"
                              /\ c \in readers <=> pc[c] = "inbox"
        /\ writer = Listener <=> lpc \in {"broadcast", "error"}
        /\ writer # Nobody => readers = {}
    <3>1. \A c \in Clients : /\ pc[c] = "notify" <=> writer = c
                             /\ pc[c] = "inbox" <=> c \in readers
      BY Zenon DEF IInv, Exclusion
    <3>2. /\ writer = Listener <=> lpc \in {"broadcast", "error"}
          /\ writer # Nobody => readers = {}
      BY Zenon DEF IInv, Exclusion
    <3>3. QED BY <3>1, <3>2
  <2>5. QED BY <2>1, <2>2, <2>3, <2>4 DEF LockFollowsCalls
<1>4. QED BY <1>1, <1>2, <1>3, Invariance, PTL DEF Spec
=============================================================================
