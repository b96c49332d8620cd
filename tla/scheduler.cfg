\* Posts of one content by two accounts, two scans that overlap, a request that cancels or
\* moves one of them, the deletion of the content.
SPECIFICATION FairSpec
CONSTANTS
  p1 = p1
  p2 = p2
  a1 = a1
  a2 = a2
  x1 = x1
  w1 = w1
  w2 = w2
  e1 = e1
  None = None
  Posts = {p1, p2}
  Contents = {x1}
  ContentOf <- OneContent
  Accounts = {a1, a2}
  AccountOf <- TwoAccounts
  DueSoon = {p1}
  Scans = {w1, w2}
  Edits = {e1}
  Limit = 0
INVARIANT DeletionReachesSchedule
INVARIANT FiredOnce
PROPERTY CancelledStaysQuiet
PROPERTY DueIsFired
CHECK_DEADLOCK FALSE
