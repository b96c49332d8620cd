--------------------------- MODULE MCSubscriptions --------------------------
\* Small instances of Subscriptions for TLC.
EXTENDS Subscriptions, TLC

CONSTANTS
  s1, s2,        \* subscriptions
  w1, w2, w3,    \* webhooks
  r1             \* a request

Alike == Permutations(Webhooks) \cup Permutations(Subs)

\* Once a second subscription is there, only two webhooks come in all.
Fewer ==
  (\A s \in Subs : stripe[s].status # "none") =>
    \E w \in Webhooks : webhook[w] = Untold
=============================================================================
