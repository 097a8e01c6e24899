SPECIFICATION FairParts
CONSTANTS
  Exchange = {r1, r2}
  Permits = 2
  Interval = 1
  MaxBody = 2
  Budget = 2
  MaxTime = 1
  MaxGeneration = 1
  Image = {i1}
  Keyed = {i1}
  Viewer = {v1, v2}
  MemoryLimit = 1
  QueueLimit = 1
  MaxFetches = 2
  MaxBoots = 0
  MaxDecays = 0
  Frontend = {f1, f2}
  MailboxLimit = 1
  Completed = {t1, t2, t3}
  Queued = {q1}
  MessageLimit = 3
  MaxReports = 2
PROPERTIES
  RequestsEndOrJam
  ViewersAreAnswered
  WriterStops
  RequestsAreAnswered
  OpeningEndsOrJams
CHECK_DEADLOCK FALSE
