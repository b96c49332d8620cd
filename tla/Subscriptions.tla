---------------------------- MODULE Subscriptions ---------------------------
(***************************************************************************)
(* billing-service: the subscription of an account, between the endpoints  *)
(* that change it, Stripe, Stripe's webhooks and the dunning poller.       *)
(*                                                                         *)
(* Stripe tells of a subscription in webhooks that are handled in any      *)
(* order. A handler reads the row without a lock and writes the columns    *)
(* that it has changed; a plan change does the same with the row that it   *)
(* read before it called Stripe; the poller locks what it downgrades.      *)
(* Each webhook is applied once (module Payments).                         *)
(***************************************************************************)
EXTENDS Integers, FiniteSets

CONSTANTS
  Subs,        \* subscriptions that checkouts may create in Stripe
  Plans,       \* plans with a price
  Webhooks,    \* Stripe's webhooks about them: bounds what it tells
  PlanRequests,\* requests served at one time
  None

ASSUME SubscriptionsAssumption ==
  /\ "free" \notin Plans
  /\ None \notin Subs
  /\ None \notin Webhooks

VARIABLES
  row,        \* the subscriptions row of the account
  stripe,     \* Stripe's subscriptions and checkout sessions
  webhook,    \* webhooks and their handlers
  request,    \* change_plan and checkout
  poller,     \* downgrade_overdue
  paidUp      \* history: the last word on the payment that was recorded is "paid"

subscriptionVars == <<row, stripe, webhook, request, poller, paidUp>>

\* grace: the failed payment that grace_period_ends_at was counted from.
Rows == [plan : Plans \cup {"free"}, sub : Subs \cup {None}, item : BOOLEAN,
         grace : Webhooks \cup {None},
         status : {"active", "past_due", "canceling", "canceled", "downgraded"}]
NoRow == [plan |-> "free", sub |-> None, item |-> FALSE, grace |-> None, status |-> "none"]
Provisioned == [NoRow EXCEPT !.status = "active"]

StripeStates == [status : {"none", "open", "active", "past_due", "canceled"},
                 plan : Plans \cup {"free"}, ending : BOOLEAN]
Kinds == {"updated", "deleted", "paid", "failed"}
Untold == [at |-> "none", kind |-> "updated", sub |-> None,
           told |-> [status |-> "none", plan |-> "free", ending |-> FALSE], read |-> NoRow]
NoRequest == [at |-> "idle", plan |-> "free", row |-> NoRow, loaded |-> NoRow]

SubscriptionsTypeOK ==
  /\ row \in Rows \cup {NoRow}
  /\ stripe \in [Subs -> StripeStates]
  /\ webhook \in [Webhooks -> {Untold} \cup
       [at : {"ready", "read", "done"}, kind : Kinds, sub : Subs, told : StripeStates,
        read : Rows \cup {NoRow}]]
  /\ request \in [PlanRequests -> {NoRequest} \cup
       [at : {"change", "called", "merged", "checkout"}, plan : Plans \cup {"free"}, row : Rows,
        loaded : Rows \cup {NoRow}]]
  /\ poller \in [at : {"idle", "locked", "called", "dead"}, read : Rows \cup {NoRow}]
  /\ paidUp \in BOOLEAN

SubscriptionsInit ==
  /\ row = NoRow
  /\ stripe = [s \in Subs |-> [status |-> "none", plan |-> "free", ending |-> FALSE]]
  /\ webhook = [w \in Webhooks |-> Untold]
  /\ request = [r \in PlanRequests |-> NoRequest]
  /\ poller = [at |-> "idle", read |-> NoRow]
  /\ paidUp = FALSE

\* create_account_customer: account_id is unique, and Stripe's customer is made once.
Provision ==
  /\ row = NoRow
  /\ row' = Provisioned
  /\ UNCHANGED <<stripe, webhook, request, poller, paidUp>>

Alive(s) == stripe[s].status \in {"active", "past_due"}

NeverLocked == FALSE

\* FOR UPDATE: whoever else writes the row waits.
Locked == poller.at \in {"locked", "called"}

\* Only the columns that differ from what was read are written.
Written(old, new, now) == [c \in DOMAIN now |-> IF new[c] = old[c] THEN now[c] ELSE new[c]]

-----------------------------------------------------------------------------
(* Stripe *)

PayCheckout(s) ==
  /\ stripe[s].status = "open"
  /\ stripe' = [stripe EXCEPT ![s].status = "active"]
  /\ UNCHANGED <<row, webhook, request, poller, paidUp>>

RenewalFails(s) ==
  /\ stripe[s].status = "active"
  /\ stripe' = [stripe EXCEPT ![s].status = "past_due"]
  /\ UNCHANGED <<row, webhook, request, poller, paidUp>>

RenewalPaid(s) ==
  /\ stripe[s].status = "past_due"
  /\ stripe' = [stripe EXCEPT ![s].status = "active"]
  /\ UNCHANGED <<row, webhook, request, poller, paidUp>>

\* The period ends, or the customer cancels in the portal.
Cancelled(s) ==
  /\ Alive(s)
  /\ stripe' = [stripe EXCEPT ![s].status = "canceled"]
  /\ UNCHANGED <<row, webhook, request, poller, paidUp>>

Tells(kind, status) ==
  CASE kind = "updated" -> status \in {"active", "past_due"}
    [] kind = "deleted" -> status = "canceled"
    [] kind = "paid" -> status = "active"
    [] kind = "failed" -> status = "past_due"

\* A webhook carries the state of its moment, and is handled whenever.
Tell(w, kind, s) ==
  /\ webhook[w] = Untold
  /\ Tells(kind, stripe[s].status)
  /\ webhook' = [webhook EXCEPT ![w] =
       [at |-> "ready", kind |-> kind, sub |-> s, told |-> stripe[s], read |-> NoRow]]
  /\ UNCHANGED <<row, stripe, request, poller, paidUp>>

-----------------------------------------------------------------------------
(* checkout and change_plan *)

ReadForCheckout(r, plan) ==
  /\ request[r] = NoRequest
  /\ row # NoRow
  /\ row.sub = None \/ row.status \in {"canceled", "downgraded"}
  /\ request' = [request EXCEPT ![r] =
       [at |-> "checkout", plan |-> plan, row |-> row, loaded |-> NoRow]]
  /\ UNCHANGED <<row, stripe, webhook, poller, paidUp>>

OpenCheckout(r, s) ==
  /\ request[r].at = "checkout"
  /\ stripe[s].status = "none"
  /\ stripe' = [stripe EXCEPT ![s] =
       [status |-> "open", plan |-> request[r].plan, ending |-> FALSE]]
  /\ request' = [request EXCEPT ![r] = NoRequest]
  /\ UNCHANGED <<row, webhook, poller, paidUp>>

ReadForChange(r, plan) ==
  /\ request[r] = NoRequest
  /\ row # NoRow
  /\ plan # "free" => row.sub # None /\ row.item
  /\ request' = [request EXCEPT ![r] =
       [at |-> "change", plan |-> plan, row |-> row, loaded |-> NoRow]]
  /\ UNCHANGED <<row, stripe, webhook, poller, paidUp>>

ChangedRow(q) ==
  IF q.plan = "free" THEN [q.row EXCEPT !.status = "canceling"]
  ELSE [q.row EXCEPT !.plan = q.plan, !.status = "active"]

\* Stripe refuses to change a canceled subscription: the request fails.
CallStripe(r) ==
  LET q == request[r] IN
  /\ q.at = "change"
  /\ q.row.sub # None => Alive(q.row.sub)
  /\ stripe' = [s \in Subs |->
       IF s # q.row.sub THEN stripe[s]
       ELSE IF q.plan = "free" THEN [stripe[s] EXCEPT !.ending = TRUE]
       ELSE [stripe[s] EXCEPT !.plan = q.plan, !.ending = FALSE]]
  /\ request' = [request EXCEPT ![r].at = "called", ![r].row = ChangedRow(q)]
  /\ UNCHANGED <<row, webhook, poller, paidUp>>

\* session.merge loads the row, puts what the request holds over it, and writes the columns
\* that differ from what it has loaded.
MergeChange(r) ==
  /\ request[r].at = "called"
  /\ request' = [request EXCEPT ![r].at = "merged", ![r].loaded = row]
  /\ UNCHANGED <<row, stripe, webhook, poller, paidUp>>

CommitChange(r) ==
  LET q == request[r] IN
  /\ q.at = "merged"
  /\ ~Locked
  /\ row' = Written(q.loaded, q.row, row)
  /\ request' = [request EXCEPT ![r] = NoRequest]
  /\ UNCHANGED <<stripe, webhook, poller, paidUp>>

RequestEnds(r) ==
  /\ request[r] # NoRequest
  /\ request' = [request EXCEPT ![r] = NoRequest]
  /\ UNCHANGED <<row, stripe, webhook, poller, paidUp>>

-----------------------------------------------------------------------------
(* _apply_webhook *)

ReadForWebhook(w) ==
  /\ webhook[w].at = "ready"
  /\ row # NoRow
  /\ webhook' = [webhook EXCEPT ![w].at = "read", ![w].read = row]
  /\ UNCHANGED <<row, stripe, request, poller, paidUp>>

Applied(w, old) ==
  LET k == webhook[w].kind
      s == webhook[w].told
      ours == [old EXCEPT !.sub = webhook[w].sub, !.item = k # "deleted"]
  IN
  CASE k = "paid" -> [old EXCEPT !.status = "active", !.grace = None]
    [] k = "failed" -> [old EXCEPT !.status = "past_due", !.grace = w]
    [] k = "deleted" -> [ours EXCEPT !.plan = "free", !.status = "canceled"]
    [] k = "updated" -> [ours EXCEPT !.plan = s.plan,
                                     !.status = IF s.ending THEN "canceling" ELSE s.status]

\* A payment is recorded by a handler that has read the status that it replaces, and holds
\* until a failed payment or a past due subscription is recorded.
Settled(w) ==
  LET old == webhook[w].read IN
  IF webhook[w].kind = "paid" THEN paidUp \/ old.status = row.status
  ELSE paidUp /\ Applied(w, old).status # "past_due"

CommitWebhook(w) ==
  LET old == webhook[w].read IN
  /\ webhook[w].at = "read"
  /\ ~Locked
  /\ row' = Written(old, Applied(w, old), row)
  /\ webhook' = [webhook EXCEPT ![w].at = "done", ![w].read = NoRow]
  /\ paidUp' = Settled(w)
  /\ UNCHANGED <<stripe, request, poller>>

\* Rolled back; the message comes again.
WebhookRaises(w) ==
  /\ webhook[w].at = "read"
  /\ webhook' = [webhook EXCEPT ![w].at = "ready", ![w].read = NoRow]
  /\ UNCHANGED <<row, stripe, request, poller, paidUp>>

-----------------------------------------------------------------------------
(* downgrade_overdue, each minute *)

\* The grace period is over whenever the model says.
TakeOverdue ==
  /\ poller.at = "idle"
  /\ row.status = "past_due" /\ row.grace # None
  /\ poller' = [at |-> "locked", read |-> row]
  /\ UNCHANGED <<row, stripe, webhook, request, paidUp>>

CancelOverdue ==
  LET s == poller.read.sub IN
  /\ poller.at = "locked"
  /\ s # None => Alive(s)
  /\ stripe' = [t \in Subs |-> IF t = s THEN [stripe[t] EXCEPT !.ending = TRUE] ELSE stripe[t]]
  /\ poller' = [poller EXCEPT !.at = "called"]
  /\ UNCHANGED <<row, webhook, request, paidUp>>

CommitDowngrade ==
  LET old == poller.read
      new == [old EXCEPT !.plan = "free", !.status = "downgraded", !.grace = None]
  IN
  /\ poller.at = "called"
  /\ row' = Written(old, new, row)
  /\ poller' = [at |-> "idle", read |-> NoRow]
  /\ UNCHANGED <<stripe, webhook, request, paidUp>>

\* Any exception rolls back and ends the loop of main.py, until the service restarts: one
\* of the database, and Stripe's for a subscription that it has canceled meanwhile.
PollerRaises ==
  /\ Locked
  /\ poller' = [at |-> "dead", read |-> NoRow]
  /\ UNCHANGED <<row, stripe, webhook, request, paidUp>>

Restart ==
  /\ poller.at # "idle"
  /\ poller' = [at |-> "idle", read |-> NoRow]
  /\ UNCHANGED <<row, stripe, webhook, request, paidUp>>

-----------------------------------------------------------------------------
Serve(r) ==
  \/ \E plan \in Plans : ReadForCheckout(r, plan)
  \/ \E s \in Subs : OpenCheckout(r, s)
  \/ \E plan \in Plans \cup {"free"} : ReadForChange(r, plan)
  \/ CallStripe(r)
  \/ MergeChange(r)
  \/ CommitChange(r)
  \/ RequestEnds(r)

Handle(w) ==
  \/ \E kind \in Kinds, s \in Subs : Tell(w, kind, s)
  \/ ReadForWebhook(w)
  \/ CommitWebhook(w)
  \/ WebhookRaises(w)

Poll ==
  \/ TakeOverdue
  \/ CancelOverdue
  \/ CommitDowngrade
  \/ PollerRaises
  \/ Restart

SubscriptionsNext ==
  \/ Provision
  \/ \E s \in Subs : PayCheckout(s) \/ RenewalFails(s) \/ RenewalPaid(s) \/ Cancelled(s)
  \/ \E r \in PlanRequests : Serve(r)
  \/ \E w \in Webhooks : Handle(w)
  \/ Poll

SubscriptionsSpec == SubscriptionsInit /\ [][SubscriptionsNext]_subscriptionVars

-----------------------------------------------------------------------------
(* Properties *)

\* No account is downgraded once its payment is recorded, whatever webhooks and plan changes
\* were under way since the poller read the row, and the subscription that the poller has told
\* Stripe to end is still the row's. The handlers do not order what Stripe tells: a failed
\* payment handled after the paid one that followed it, and a payment whose handler read a
\* status that another has replaced, leave the account past due, and it may be downgraded.
DowngradeIsJust ==
  [][row'.status = "downgraded" /\ row.status # "downgraded" =>
       ~paidUp /\ row.sub = poller.read.sub]_subscriptionVars
=============================================================================
