\* A failed cleaning notification takes the result with it.
CONSTANTS
  Clients = {c1}
  Ids = {a}
  Subs = {s1}
  Ops = {"new_task", "clean", "new_result_redirection"}
  Awaited = {NoCount}
  Interruptible = {}
  ErrorHandlers = {"drain"}
  MayDie = FALSE
  MaxTasks = 2
  MaxOutputs = 1
  InboxCap = 1
  EndCap = 1
  OutCap = 1
  ErrCap = 1
  NoCount = NoCount
  Listener = Listener
  Nobody = Nobody
  Dead = Dead
CHECK_DEADLOCK FALSE
SPECIFICATION Spec
PROPERTY AcceptedIsBroadcast
