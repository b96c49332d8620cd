\* A recurring job with its first request, its recurrence and a call of cancel; and two
\* events to notify, one of them with an alert.
SPECIFICATION BackOfficeSpec
CONSTANTS
  j1 = j1
  c1 = c1
  n1 = n1
  n2 = n2
  NoOne = NoOne
  NoId = NoId
  Jobs = {j1}
  Recurring = {j1}
  Cancels = {c1}
  MaxEvents = 2
  MaxPages = 1
  ScrapeLimit = 1
  Notices = {n1, n2}
  Alerts = {n1}
  Unmailed = {}
  NoticeCopies = 1
  NoticeLimit = 1
INVARIANT Accounted
INVARIANT AuditIsTrue
PROPERTY SettledStays
PROPERTY Recurs
CONSTRAINT Apart
CHECK_DEADLOCK FALSE
