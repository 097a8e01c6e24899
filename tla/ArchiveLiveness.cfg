SPECIFICATION FairSpec
CONSTANTS
  Task = {t1, t2}
  MaxRevision = 4
  MaxReports = 4
  MaxRestarts = 0
  SavesMayFail = FALSE
  RequestsMayBeDropped = FALSE
PROPERTY AcceptedSettles
CHECK_DEADLOCK FALSE
