\* Results of tasks that output twice, to redirections opened and dropped at any
\* time.
CONSTANTS
  Clients = {c1}
  Ids = {a}
  Subs = {s1, s2, s3}
  Ops = {"new_task", "new_result_redirection", "is_empty"}
  Awaited = {}
  Interruptible = {}
  ErrorHandlers = {"held", "panic"}
  MayDie = FALSE
  MaxTasks = 2
  MaxOutputs = 2
  InboxCap = 1
  EndCap = 1
  OutCap = 1
  ErrCap = 1
  NoCount = NoCount
  Listener = Listener
  Nobody = Nobody
  Dead = Dead
CHECK_DEADLOCK FALSE
SPECIFICATION Spec
VIEW View
SYMMETRY Symmetry
INVARIANTS SubscribersSeeOneLog ResultsWithinTasks
