------------------------------ MODULE MCLibrary -----------------------------
\* Small instances of Library for TLC.
EXTENDS Library, TLC

CONSTANTS
  x1,       \* a content that a user creates
  g1,       \* a generation
  r1, r2    \* requests


Alike == Permutations(Requests)

\* Rows of users and drafts of generations share nothing: they are explored in turn.
Apart ==
  (\E x \in Contents : Exists(x)) => \A m \in Messages : handler[m].at = "none"
=============================================================================
