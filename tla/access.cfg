\* A team account of three users with two invitations and two requests at one time; the
\* consumer with a signup and a paid invoice; a client with its tokens and calls; and the
\* limiter with two calls at one time.
SPECIFICATION AccessSpec
CONSTANTS
  u1 = u1
  u2 = u2
  u3 = u3
  i1 = i1
  i2 = i2
  r1 = r1
  r2 = r2
  b1 = b1
  h1 = h1
  h2 = h2
  q1 = q1
  q2 = q2
  Platform = Platform
  None = None
  Users = {u1, u2, u3}
  Invites = {i1, i2}
  Requests = {r1, r2}
  Invoices = {b1}
  Copies = {1, 2}
  Limit = 1
  Hits = {h1, h2}
  RequestIds = {q1, q2}
  PerWindow = 2
  Window = 2
  MaxTime = 4
INVARIANT EdgeAgrees
INVARIANT PassedOnIsPermitted
PROPERTY KeepsOwner
PROPERTY JoinsByInvite
PROPERTY WindowBounded
CONSTRAINT Apart
SYMMETRY Alike
CHECK_DEADLOCK FALSE
