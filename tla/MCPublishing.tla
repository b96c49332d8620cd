---------------------------- MODULE MCPublishing ----------------------------
\* Small instances of Publishing for TLC.
EXTENDS Publishing

CONSTANTS
  p1,     \* a scheduled post
  q1,     \* a request of a user
  k1      \* a connection

\* A request shares nothing with the messages but the connections: it comes after them.
Apart ==
  \A r \in Requests : at[r] # "none" =>
    \A m \in Messages : at[m] \in {"none", "ended", "dropped"} /\ tries[m] = 0
=============================================================================
