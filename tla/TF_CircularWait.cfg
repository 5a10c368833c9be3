\* A send and a full end-of-task channel wait for one another.
CONSTANTS
  Clients = {c1}
  Ids = {a, b}
  Subs = {}
  Ops = {"new_task", "send"}
  Awaited = {}
  Interruptible = {}
  ErrorHandlers = {"drain"}
  MayDie = FALSE
  MaxTasks = 2
  MaxOutputs = 2
  InboxCap = 1
  EndCap = 1
  OutCap = 1
  ErrCap = 1
  NoCount = NoCount
  Listener = Listener
  Nobody = Nobody
  Dead = Dead
CHECK_DEADLOCK FALSE
SPECIFICATION DiligentSpec
PROPERTY SendReturns
