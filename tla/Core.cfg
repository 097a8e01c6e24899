SPECIFICATION CoreSpec
CONSTANTS
  a1 = a1
  a2 = a2
  Task = {t1}
  Client = {a1, a2}
  MaxExports = 1
  MaxRevision = 3
  MaxReports = 4
  MaxRestarts = 1
  SavesMayFail = TRUE
  RequestsMayBeDropped = TRUE
  FilesMayFail = TRUE
  Exchange = {a1, a2, a3}
  Permits = 2
  Interval = 1
  MaxBody = 2
  Budget = 2
  MaxTime = 1
  MaxGeneration = 2
  Image = {i1, i2}
  Keyed = {i1}
  Viewer = {a1, a2}
  MemoryLimit = 1
  QueueLimit = 1
  MaxFetches = 2
  MaxBoots = 1
  MaxDecays = 1
  Instance = {a1, a2}
  CoreProcess = {c1}
  CommandProcess = {a1, a2}
  Nobody = Nobody
  MaxVersion = 4
  MaxSecret = 3
  MaxLength = 3
  MaxReleases = 2
  MaxTransfers = 3
  MaxPages = 3
  MaxRelays = 1
  Frontend = {a1, a2}
  MailboxLimit = 1
  MaxItems = 4
  PageSize = 2
  PageLimit = 2
SYMMETRY CoreSymmetry
INVARIANTS
  PartsTypeOK
  LibraryIsConsistent
  RequestsAreSpaced
  SessionAccounts
  SharingIsSafe
  
  SavedConfigSurvives
  SavedIsRestored
  ArchiveIsInPlace
  KeyIsOfThePage
  AnswersAreTrue
  WritesAreGuarded
  NothingIsPassedOver
PROPERTIES
  OpeningFinishesDeletions
CHECK_DEADLOCK FALSE
