\* Two generations with two models each, a quota that the second of them uses up, and two
\* handlers at one time.
SPECIFICATION Spec
CONSTANTS
  g1 = g1
  g2 = g2
  Generations = {g1, g2}
  LastModel = 2
  Estimate = 1
  Tokens = 1
  Quota = 2
  Busy = 2
  Limit = 0
INVARIANT AnsweredOnce
INVARIANT RecordedOnce
INVARIANT ThresholdToldOnce
CONSTRAINT Apart
SYMMETRY Alike
CHECK_DEADLOCK FALSE
