\* Waits with and without a duration, under fairness.
CONSTANTS
  a = a
  b = b
  ChannelIds = {a}
  IdLists <- OneChannelTwice
  Durations = {NoDuration, 1}
  NoDuration = NoDuration
  CallerOps = {"drop_hub"}
  MaxIds = 2
  MaxSends = 1
  Size = 1
  NotifierSize = 1
CHECK_DEADLOCK FALSE
SPECIFICATION FairSpec
INVARIANTS WaitOkMeansSent WaitIsBounded
PROPERTIES TimedWaitReturns MessagesArrive EndArrives
