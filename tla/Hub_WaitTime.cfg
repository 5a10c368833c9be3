\* Two tasks that cannot write make a wait twice as long as it should be.
CONSTANTS
  a = a
  b = b
  ChannelIds = {a}
  IdLists <- OneChannelTwice
  Durations = {NoDuration, 1}
  NoDuration = NoDuration
  CallerOps = {}
  MaxIds = 2
  MaxSends = 1
  Size = 1
  NotifierSize = 1
CHECK_DEADLOCK FALSE
SPECIFICATION Spec
INVARIANT WaitsOnlyForTheGivenTime
