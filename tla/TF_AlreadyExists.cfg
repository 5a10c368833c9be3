\* A new_task dropped while it notifies leaves an id Running without a task.
CONSTANTS
  Clients = {c1, c2}
  Ids = {a}
  Subs = {}
  Ops = {"new_task", "wait_for_task_creation"}
  Awaited = {}
  Interruptible = {"notify"}
  ErrorHandlers = {"drain"}
  MayDie = FALSE
  MaxTasks = 2
  MaxOutputs = 1
  InboxCap = 1
  EndCap = 1
  OutCap = 1
  ErrCap = 1
  NoCount = NoCount
  Listener = Listener
  Nobody = Nobody
  Dead = Dead
CHECK_DEADLOCK FALSE
SPECIFICATION Spec
PROPERTY AlreadyExistsIsTruthful
