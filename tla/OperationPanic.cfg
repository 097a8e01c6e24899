SPECIFICATION FairSpec
CONSTANTS
  Op = {o1, o2, o3}
  MaxActive = 1
  MaxQueued = 1
  RetainedTerminal = 1
  ChannelCapacity = 2
  MaxReports = 0
  MaxTaskEvents = 0
  WorkersMayPanic = TRUE
  Subscriber = {}
  Retained = 2
  Capacity = 1
PROPERTIES
  PanicIsReflected
CHECK_DEADLOCK FALSE
