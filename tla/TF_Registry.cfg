\* Creations, waits and cleanings of two ids, waits and queued calls dropped.
CONSTANTS
  Clients = {c1, c2}
  Ids = {a, b}
  Subs = {}
  Ops = {"new_task", "wait_for_task_creation", "clean"}
  Awaited = {NoCount, 2}
  Interruptible = {"lock", "recv", "notify"}
  ErrorHandlers = {"drain"}
  MayDie = FALSE
  MaxTasks = 2
  MaxOutputs = 1
  InboxCap = 1
  EndCap = 1
  OutCap = 1
  ErrCap = 1
  NoCount = NoCount
  Listener = Listener
  Nobody = Nobody
  Dead = Dead
CHECK_DEADLOCK FALSE
SPECIFICATION Spec
VIEW View
SYMMETRY Symmetry
INVARIANTS SendersMatchStates NoLostWakeup NoMissedCleaning
PROPERTIES CleanedAfterAwaited ImplementsLifecycle
