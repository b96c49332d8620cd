\* Two subscriptions of an account, two or three webhooks about them and a request.
SPECIFICATION SubscriptionsSpec
CONSTANTS
  s1 = s1
  s2 = s2
  w1 = w1
  w2 = w2
  w3 = w3
  r1 = r1
  None = None
  Subs = {s1, s2}
  Plans = {"pro"}
  Webhooks = {w1, w2, w3}
  PlanRequests = {r1}
PROPERTY DowngradeIsJust
CONSTRAINT Fewer
SYMMETRY Alike
CHECK_DEADLOCK FALSE
