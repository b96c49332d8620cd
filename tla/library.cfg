\* A generation's drafts, its deletion, a row of a user, and two requests on any of them.
SPECIFICATION Spec
CONSTANTS
  x1 = x1
  g1 = g1
  r1 = r1
  r2 = r2
  None = None
  Contents = {x1}
  Generations = {g1}
  Requests = {r1, r2}
  Busy = 2
  MaxVersion = 4
  Limit = 0
INVARIANT PublishedAsApproved
INVARIANT HistoryComplete
PROPERTY PublishedIsLocked
PROPERTY DraftedOnce
CONSTRAINT Apart
SYMMETRY Alike
CHECK_DEADLOCK FALSE
