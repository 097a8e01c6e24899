SPECIFICATION Spec
CONSTANTS
  Op = {o1, o2, o3, o4}
  MaxActive = 1
  MaxQueued = 2
  RetainedTerminal = 1
  ChannelCapacity = 2
  MaxReports = 2
  MaxTaskEvents = 0
  WorkersMayPanic = TRUE
  Subscriber = {}
  Retained = 3
  Capacity = 1
INVARIANTS
  TypeOK
  AccountsAgree
  RunningIsBacked
  JournalFollowsOperations
PROPERTY ImplementsFifoServer
CHECK_DEADLOCK FALSE
SYMMETRY Symmetry
