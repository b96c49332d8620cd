----------------------------- MODULE BackOffice -----------------------------
(***************************************************************************)
(* admin-service keeps the audit trail of the platform: it consumes every  *)
(* event of creditflow.events. Here it listens to scraper-service and      *)
(* notification-service, so the trail can be held against what these two   *)
(* have stored. An event may come to it any number of times, or never if   *)
(* its message is dead-lettered.                                           *)
(***************************************************************************)
EXTENDS Scraping, Notices, Bags

VARIABLE trail  \* audit_log: a bag of events

backOfficeVars == <<scrapingVars, noticeVars, trail>>

BackOfficeInit == ScrapingInit /\ NoticesInit /\ trail = EmptyBag

Happened == outcomes \cup said

(* uq_audit_log_event_id: a second row of an event is refused. *)
Unaudited(event) == ~BagIn(event, trail)

Audit(event) ==
  /\ Unaudited(event)
  /\ trail' = trail (+) SetToBag({event})
  /\ UNCHANGED <<scrapingVars, noticeVars>>

BackOfficeNext ==
  \/ ScrapingNext /\ UNCHANGED <<noticeVars, trail>>
  \/ NoticesNext /\ UNCHANGED <<scrapingVars, trail>>
  \/ \E event \in Happened : Audit(event)

BackOfficeSpec == BackOfficeInit /\ [][BackOfficeNext]_backOfficeVars /\ ScrapingFairness

BackOfficeTypeOK == ScrapingTypeOK /\ NoticesTypeOK /\ BagToSet(trail) \subseteq Happened

-----------------------------------------------------------------------------
(* The trail is true: an event is in it once; a scrape that it shows as    *)
(* completed has its documents stored, at least one, and one that it shows *)
(* as failed names none; a notification that it shows as sent is in the    *)
(* log of the same delivery, and a mail server or Slack has accepted it.   *)
AuditIsTrue ==
  \A x \in BagToSet(trail) :
    /\ trail[x] = 1
    /\ x \in outcomes => /\ x.pages \subseteq documents
                         /\ (x.status = "completed") <=> (x.pages # {})
    /\ x \in said => /\ x \in reached
                     /\ \E r \in log : r.of = x.of /\ r.channel = x.channel /\ r.status = "sent"
=============================================================================
