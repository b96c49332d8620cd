\* Two tabs, two calls under way, and three token pairs.
SPECIFICATION BrowserSpec
CONSTANTS
  t1 = t1
  t2 = t2
  c1 = c1
  c2 = c2
  Nobody = Nobody
  Tabs = {t1, t2}
  Calls = {c1, c2}
  MaxPairs = 3
CONSTRAINT Explored
INVARIANT CookieIsGood
INVARIANT MutationOnce
PROPERTY CallEnds
CHECK_DEADLOCK FALSE
