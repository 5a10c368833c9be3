\* Cleanings without a count under fairness, the tasks diligent, with late outputs
\* refused and error receivers that fill.
CONSTANTS
  Clients = {c1}
  Ids = {a, b}
  Subs = {}
  Ops = {"new_task", "clean"}
  Awaited = {NoCount}
  Interruptible = {}
  ErrorHandlers = {"panic", "held"}
  MayDie = FALSE
  MaxTasks = 2
  MaxOutputs = 2
  InboxCap = 1
  EndCap = 2
  OutCap = 1
  ErrCap = 1
  NoCount = NoCount
  Listener = Listener
  Nobody = Nobody
  Dead = Dead
CHECK_DEADLOCK FALSE
SPECIFICATION DiligentSpec
INVARIANT SendersMatchStates
PROPERTIES CleanerNotified 
