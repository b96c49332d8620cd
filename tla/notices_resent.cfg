\* Two events to notify, each published twice.
SPECIFICATION BackOfficeSpec
CONSTANTS
  j1 = j1
  c1 = c1
  n1 = n1
  n2 = n2
  NoOne = NoOne
  NoId = NoId
  Jobs = {}
  Recurring = {}
  Cancels = {}
  MaxEvents = 2
  MaxPages = 1
  ScrapeLimit = 1
  Notices = {n1, n2}
  Alerts = {n1}
  Unmailed = {}
  NoticeCopies = 2
  NoticeLimit = 1
PROPERTY NeverResent
CONSTRAINT Apart
CHECK_DEADLOCK FALSE
