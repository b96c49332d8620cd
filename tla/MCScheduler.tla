----------------------------- MODULE MCScheduler ----------------------------
\* Small instances of Scheduler for TLC.
EXTENDS Scheduler, TLC

CONSTANTS
  p1, p2,   \* posts
  a1, a2,   \* the accounts that scheduled them
  x1,       \* their content
  w1, w2,   \* scans
  e1        \* a request that cancels or reschedules

OneContent == [p \in Posts |-> x1]
TwoAccounts == p1 :> a1 @@ p2 :> a2
=============================================================================
