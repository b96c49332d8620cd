\* Three token pairs and a code of one user, another with a platform role, and two requests at one time.
SPECIFICATION Spec
CONSTANTS
  u1 = u1
  u2 = u2
  p1 = p1
  p2 = p2
  p3 = p3
  c1 = c1
  r1 = r1
  r2 = r2
  None = None
  Users = {u1, u2}
  Pairs = {p1, p2, p3}
  Codes = {c1}
  Requests = {r1, r2}
  AttemptLimit = 1
INVARIANT ExchangedOnce
INVARIANT SurvivorsOvertaken
INVARIANT GuessesBounded
PROPERTY CodeUsedOnce
CONSTRAINT Apart
SYMMETRY Alike
CHECK_DEADLOCK FALSE
