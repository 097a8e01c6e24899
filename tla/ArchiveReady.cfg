SPECIFICATION FairSpec
CONSTANTS
  Task = {t1}
  MaxRevision = 5
  MaxReports = 5
  MaxRestarts = 1
  SavesMayFail = FALSE
  RequestsMayBeDropped = FALSE
PROPERTY ReadyMovesOn
CHECK_DEADLOCK FALSE
