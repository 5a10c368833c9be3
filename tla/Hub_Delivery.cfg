\* Subscriptions, messages and notices; nobody waits on a handler.
CONSTANTS
  a = a
  b = b
  ChannelIds = {a, b}
  IdLists <- Lists
  Durations = {}
  NoDuration = NoDuration
  CallerOps = {"get_sender", "drop_hub"}
  MaxIds = 2
  MaxSends = 2
  Size = 1
  NotifierSize = 1
CHECK_DEADLOCK FALSE
SPECIFICATION Spec
VIEW View
INVARIANTS TypeOK DisconnectedIsFinal
PROPERTY DeliversAsPromised
