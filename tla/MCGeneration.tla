---------------------------- MODULE MCGeneration ----------------------------
\* Small instances of Generation for TLC.
EXTENDS Generation, TLC

CONSTANTS g1, g2    \* generations

Alike == Permutations(Generations)

\* Tasks and handlers share only the messages and the counter: tasks run one after the
\* other, and handlers after them, on what at most two uncharged completions left.
Apart ==
  /\ \A g, h \in Generations :
       g # h => task[g].at \in {"none", "ended"} \/ task[h].at \in {"none", "ended"}
  /\ (\E m \in Messages : handler[m].at \notin {"none", "ready"}) =>
       /\ \A g \in Generations : task[g].at \in {"none", "ended"}
       /\ charged = {} /\ cancelled = {}
       /\ Cardinality({c \in Completions : kept[c] # "none"}) <= 2
=============================================================================
