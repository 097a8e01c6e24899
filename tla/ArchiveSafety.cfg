SPECIFICATION Spec
CONSTANTS
  Task = {t1, t2}
  MaxRevision = 4
  MaxReports = 4
  MaxRestarts = 1
  SavesMayFail = TRUE
  RequestsMayBeDropped = TRUE
SYMMETRY Symmetry
INVARIANTS
  TypeOK
  CostIsAccounted
  DownloadHasUrlAndSlot
  LiveTaskIsBacked
  SettlementIsAnnounced
PROPERTIES
  UrlIsKept
  ImplementsDurableTasks
CHECK_DEADLOCK FALSE
