\* More tasks than were counted leave a cleaning pending for ever.
CONSTANTS
  Clients = {c1}
  Ids = {a, b}
  Subs = {}
  Ops = {"new_task", "clean"}
  Awaited = {1}
  Interruptible = {}
  ErrorHandlers = {"drain"}
  MayDie = FALSE
  MaxTasks = 2
  MaxOutputs = 1
  InboxCap = 1
  EndCap = 1
  OutCap = 1
  ErrCap = 1
  NoCount = NoCount
  Listener = Listener
  Nobody = Nobody
  Dead = Dead
CHECK_DEADLOCK FALSE
SPECIFICATION Spec
INVARIANT CountedCleaningEnds
