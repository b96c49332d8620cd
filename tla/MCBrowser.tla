----------------------------- MODULE MCBrowser -----------------------------
\* A small instance of Browser for TLC.
EXTENDS Browser

CONSTANTS t1, t2, c1, c2

(* Of two calls under way one reads or loads a page, the other changes      *)
(* something or the session; the second tab is loaded, by either. The user  *)
(* logs in once more before the last pair. One call or answer is lost at    *)
(* one time, and one session ends by itself.                                *)
Explored ==
  /\ call[c1].kind # "read" \/ call[c1] = NoCall
  /\ call[c2].kind \in {"read", "hydrate"}
  /\ \A c \in Calls : call[c].tab = t2 => call[c].kind = "hydrate"
  /\ \A c \in Calls : call[c].kind = "login" => issued < 2
  /\ Cardinality(lost) + Cardinality({c \in Calls : call[c].again \/ call[c].answer = "failed"}) <= 1
  /\ Cardinality(1..issued \ (sessions \cup {cookie})) <= 1
=============================================================================
