SPECIFICATION Spec
CONSTANTS
  Task = {t1}
  MaxRevision = 5
  MaxReports = 5
  MaxRestarts = 0
  SavesMayFail = FALSE
  RequestsMayBeDropped = FALSE
PROPERTY BoughtInsideSlot
CHECK_DEADLOCK FALSE
