---------------------------- MODULE MCBackOffice ----------------------------
\* A small instance of BackOffice for TLC.
EXTENDS BackOffice

CONSTANTS j1, c1, n1, n2

\* scraper-service and notification-service share nothing: they are explored in turn. The
\* recurrence has one message, and it is not handled together with those of the first run;
\* one message comes again, or one dispatch is lost; and admin-service looks at one event,
\* when nobody is at work.
Apart ==
  /\ \/ \A m \in NoticeMessages : position[m].step = "none"
     \/ \A j \in Jobs : jobs[j] = NoJob
  /\ \A m \in ScrapeMessages : m = <<2, 2>> => stage[m] = "none"
  /\ Cardinality({m \in ScrapeMessages : returns[m] > 0 \/ stage[m] = "dead"})
       + Cardinality({e \in ScrapeEvents : dispatch[e].at = "lost"}) <= 1
  /\ Cardinality({m \in NoticeMessages : redone[m] > 0 \/ position[m].step = "dead"}) <= 1
  /\ \A m, n \in ScrapeMessages : stage[m] \in Working /\ stage[n] \in Working => m[1] = n[1]
  /\ trail # EmptyBag =>
       /\ \A m \in ScrapeMessages : stage[m] \notin Working
       /\ \A m \in NoticeMessages : position[m].step \notin AtWork
       /\ Cardinality(BagToSet(trail)) = 1
=============================================================================
