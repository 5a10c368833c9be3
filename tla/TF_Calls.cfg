\* Messages, full inboxes and redirections, dying tasks, waiters, and calls dropped
\* at every await, under fairness; the end-of-task channel has room for all outputs.
CONSTANTS
  Clients = {c1, c2}
  Ids = {a}
  Subs = {s1}
  Ops = {"new_task", "wait_and_send", "new_result_redirection"}
  Awaited = {}
  Interruptible = {"lock", "relock", "recv", "notify", "inbox"}
  ErrorHandlers = {"drain"}
  MayDie = TRUE
  MaxTasks = 2
  MaxOutputs = 1
  InboxCap = 1
  EndCap = 2
  OutCap = 1
  ErrCap = 1
  NoCount = NoCount
  Listener = Listener
  Nobody = Nobody
  Dead = Dead
CHECK_DEADLOCK FALSE
SPECIFICATION FairSpec
INVARIANTS TypeOK SendsReachRunningTask LockFollowsCalls
PROPERTIES EveryCallReturns WaitersWake ResultsReceived
