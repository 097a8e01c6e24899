SPECIFICATION FairSpec
CONSTANTS
  Op = {o1, o2}
  MaxActive = 1
  MaxQueued = 1
  RetainedTerminal = 1
  ChannelCapacity = 1
  MaxReports = 0
  MaxTaskEvents = 1
  WorkersMayPanic = FALSE
  Subscriber = {c1}
  Retained = 2
  Capacity = 1
PROPERTIES
  NoSilentGap
  AcceptedSettles
CHECK_DEADLOCK FALSE
