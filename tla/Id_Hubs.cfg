\* Two hubs that are made, moved and dropped, and channels bound by callers.
CONSTANTS
  a = a
  b = b
  Hubs = {h1, h2}
  Addresses = {x, y}
  ChannelIds = {a, b}
  IdLists <- Lists
  MaxChannels = 3
  NotMade = NotMade
  Gone = Gone
  Caller = Caller
CHECK_DEADLOCK FALSE
SPECIFICATION Spec
VIEW View
SYMMETRY Symmetry
INVARIANTS TypeOK SharedIdMeansMoved
PROPERTIES OwnReceiverOwnSenders LeavesWholeList
