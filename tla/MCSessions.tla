------------------------------ MODULE MCSessions ----------------------------
\* Small instances of Sessions for TLC.
EXTENDS Sessions, TLC

CONSTANTS
  u1, u2,        \* users
  p1, p2, p3,    \* token pairs
  c1,            \* a one-time code
  r1, r2         \* requests

Alike == Permutations(Requests) \cup Permutations(Pairs)

\* The second user is there for the platform roles only, which are explored before the
\* first pair and the first code; with a SuperAdmin there are two pairs.
Apart ==
  \/ /\ \A p \in Pairs : pair[p] = Unused
     /\ \A r \in Requests : request[r].at # "login" /\ request[r].at # "allowed"
     /\ \A c \in Codes : code[c].state = "unsent"
  \/ /\ superadmins \subseteq {u1}
     /\ \A c \in Codes : code[c].user # u2
     /\ \A r \in Requests : request[r].user # u2
     /\ superadmins # {} => Cardinality({p \in Pairs : Fresh(p)}) > 0
=============================================================================
