\* One scheduled post, whose event comes twice, each message up to two times; then a user
\* who publishes at once; a connection.
SPECIFICATION FairSpec
CONSTANTS
  p1 = p1
  q1 = q1
  k1 = k1
  None = None
  Posts = {p1}
  Requests = {q1}
  Connections = {k1}
  Limit = 1
INVARIANT ProcessedIsTold
PROPERTY ProcessedStaysQuiet
PROPERTY MessageEnds
CONSTRAINT Apart
CHECK_DEADLOCK FALSE
