SPECIFICATION Spec
CONSTANTS
  Task = {t1, t2, t3}
  MaxActive = 1
  MaxQueued = 1
  MaxRevision = 3
  TerminalSaveMayFail = TRUE
  RequestsMayBeDropped = TRUE
SYMMETRY Symmetry
INVARIANTS
  TypeOK
  LimitsRespected
  LiveTaskIsBacked
  FilesAreCurrent
PROPERTIES
  SnapshotsMoveForward
  ImplementsDurableTasks
