SPECIFICATION Spec
CONSTANTS
  Task = {t1}
  MaxActive = 1
  MaxQueued = 1
  MaxRevision = 3
  TerminalSaveMayFail = FALSE
  RequestsMayBeDropped = FALSE
PROPERTY QueuedOutlivesShutdown
