SPECIFICATION Spec
CONSTANTS
  Task = {t1}
  MaxRevision = 6
  MaxReports = 6
  MaxRestarts = 0
  SavesMayFail = FALSE
  RequestsMayBeDropped = FALSE
INVARIANT CancellableWhileLive
CHECK_DEADLOCK FALSE
