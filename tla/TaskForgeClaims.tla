--------------------------- MODULE TaskForgeClaims ---------------------------
(* What the comments of task_forge say and the code does not do.  Each of  *)
(* these is refuted by a run; README.md tells the behaviour found.         *)
EXTENDS TaskForge

\* errors.rs:23, "Task {0} already exists and is running": when new_task says
\* so, a task was begun under that id.
AlreadyExistsIsTruthful == [][\A c \in Clients :
  pc[c] = "lock" /\ ret'[c] = "TaskAlreadyExists" =>
    \E i \in DOMAIN tasks : tasks[i].id = call[c].id
  ]_vars

\* task_forge.rs:243-244, "the forge broadcasts this result to all interested
\* parties": the output of a task the forge holds is broadcast.
AcceptedIsBroadcast == [][
  lpc = "lock" /\ lpc' # "lock" /\ forge[ending.id] = ending.task =>
    lpc' = "broadcast"
  ]_vars

\* task_forge.rs:324, "the awaited parameter represents the number of process
\* that have to be awaited": once that many have ended and the forge is empty
\* the cleaning is not pending any more.
CountedCleaningEnds ==
  /\ cleaning_notifier # None /\ cleaning_notifier.awaited # NoCount
  /\ Empty
  => Cardinality({id \in Ids : task_states[id] = "Closed"})
       < cleaning_notifier.awaited

\* task_forge.rs:319, send "try to send via the task sender the message to the
\* running task" and may return an error: it returns, if tasks read their inbox
\* whenever they are not handing over an output.
SendReturns == \A c \in Clients : pc[c] = "inbox" ~> pc[c] # "inbox"
=============================================================================
