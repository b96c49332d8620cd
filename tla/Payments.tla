------------------------------ MODULE Payments ------------------------------
(***************************************************************************)
(* From a payment to the credit ledger: Stripe's webhook at api-gateway,   *)
(* the queue billing-service.events, billing-service's inbox and outbox,   *)
(* the publisher that empties the outbox, the queue of credits-service and *)
(* its handler; and refunds, which start at billing-service.               *)
(*                                                                         *)
(* Messages of a queue are handled concurrently (prefetch 20), so each     *)
(* message carries the progress of its own handler. A handler that raises, *)
(* or whose process or connection dies, returns its message to the queue,  *)
(* which dead-letters it after Limit returns.                              *)
(***************************************************************************)
EXTENDS Integers, FiniteSets

CONSTANTS
  Charges,    \* payments that grant credits: a Stripe event each (invoice.paid, or
              \* checkout.session.completed of a credit pack)
  Invoices,   \* those of them that pay an invoice
  Refunds,    \* refund requests that may be made
  RefundOf,   \* [Refunds -> Invoices]
  Payer,      \* [Charges -> Accounts]
  Accounts,
  Credits,    \* [Charges -> Nat]: credits that the plan or the pack grants
  Requests,   \* webhook requests in flight at the gateway: bounds concurrency
  Limit,      \* x-delivery-limit (5 in the code)
  MaxCopies   \* bounds how often one event is published, and the rows of one webhook

\* What str() makes of an id that is not there yet.
NoId == "None"

ASSUME ConstantsAssumption ==
  /\ Invoices \subseteq Charges
  /\ RefundOf \in [Refunds -> Invoices]
  /\ Payer \in [Charges -> Accounts]
  /\ Credits \in [Charges -> Nat \ {0}]
  /\ Refunds \cap Charges = {}
  /\ Limit \in Nat
  /\ MaxCopies \in Nat \ {0}
  /\ NoId \notin Charges

Copies == 1..MaxCopies

\* Rows of outbox_events: each has its own id, which is the event's id for good. The
\* n-th row for one webhook or refund is told apart as its uuid does.
Events == (Charges \cup Refunds) \X Copies

VARIABLES
  charged,    \* payments made
  acked,      \* Stripe events answered with 200, never sent again
  dedup,      \* Redis keys webhook:stripe:<event id>
  gateway,    \* webhook requests in flight
  hooks,      \* billing-service.events: published webhooks and their handlers
  inbox,      \* subscription_events
  invoices,   \* invoices: those that billing-service has a row of
  strangers,  \* payments of customers that subscriptions has no row of
  outbox,     \* outbox_events
  unnamed,    \* those of them that carry the text "None" for the id of their invoice
  batch,      \* rows the publisher holds FOR UPDATE
  sent,       \* those of them that it has published
  mail,       \* credits-service.billing-events: published events and their handlers
  processed,  \* processed_events of credits-service
  rows,       \* credits_ledger: the event that each row was added for, and a number
  refunds     \* Stripe refunds and their requests

vars == <<charged, acked, dedup, gateway, hooks, inbox, invoices, strangers, outbox, unnamed,
          batch, sent, mail, processed, rows, refunds>>
gatewayVars == <<charged, acked, dedup, gateway>>
invoiceVars == <<invoices, unnamed, strangers>>
billingVars == <<inbox, invoiceVars, outbox, batch, sent, refunds>>
creditsVars == <<mail, processed, rows>>

Idle == [pc |-> "idle"]
GatewayJobs == {Idle} \cup [pc : {"publishing", "published"}, charge : Charges]
HookStates == {"none", "ready", "stored", "locked", "done", "acked", "dead"}
MailStates == {"none", "ready", "adding", "noting", "done", "acked", "dead"}
InboxStates == {"none", "stored", "processed"}
OutboxStates == {"none", "pending", "published"}
RefundStates == {"none", "refunded", "told", "untold"}

TypeOK ==
  /\ charged \subseteq Charges
  /\ acked \subseteq Charges
  /\ dedup \subseteq Charges
  /\ gateway \in [Requests -> GatewayJobs]
  /\ hooks \in [Charges \X Copies -> [at : HookStates, tries : 0..Limit]]
  /\ inbox \in [Charges -> InboxStates]
  /\ invoices \subseteq Invoices
  /\ strangers \subseteq Invoices
  /\ outbox \in [Events -> OutboxStates]
  /\ unnamed \subseteq Events
  /\ sent \subseteq batch
  /\ batch \subseteq {e \in Events : outbox[e] = "pending"}
  /\ mail \in [Events \X Copies -> [at : MailStates, tries : 0..Limit]]
  /\ processed \subseteq Events
  /\ rows \subseteq [event : Events, n : Nat]
  /\ IsFiniteSet(rows)
  /\ refunds \in [Refunds -> RefundStates]

Unsent == [at |-> "none", tries |-> 0]

Init ==
  /\ charged = {}
  /\ acked = {}
  /\ dedup = {}
  /\ gateway = [r \in Requests |-> Idle]
  /\ hooks = [m \in Charges \X Copies |-> Unsent]
  /\ inbox = [c \in Charges |-> "none"]
  /\ invoices = {}
  /\ strangers \in SUBSET Invoices
  /\ outbox = [e \in Events |-> "none"]
  /\ unnamed = {}
  /\ batch = {}
  /\ sent = {}
  /\ mail = [m \in Events \X Copies |-> Unsent]
  /\ processed = {}
  /\ rows = {}
  /\ refunds = [f \in Refunds |-> "none"]

-----------------------------------------------------------------------------
(* Queues. A publication that is cut short after the broker took the message  *)
(* is repeated, so an event may have several messages.                      *)

\* The message that x's next publication makes, if the bound allows another.
NextCopies(queue, x) ==
  {k \in Copies : /\ queue[<<x, k>>].at = "none"
                  /\ \A j \in 1..(k - 1) : queue[<<x, j>>].at # "none"}

Live(queue, m) == queue[m].at \notin {"none", "acked", "dead"}

Dropped(queue, m) == [queue EXCEPT ![m].at = "acked"]

\* message.process(requeue=True): the handler raised, before its first commit or later,
\* or its process or connection died.
Returned(queue, m) ==
  IF queue[m].tries = Limit
  THEN [queue EXCEPT ![m].at = "dead"]
  ELSE [queue EXCEPT ![m] = [at |-> "ready", tries |-> queue[m].tries + 1]]

-----------------------------------------------------------------------------
(* Stripe and the gateway's webhook route *)

Pay(c) ==
  /\ c \notin charged
  /\ charged' = charged \cup {c}
  /\ UNCHANGED <<acked, dedup, gateway, hooks, billingVars, creditsVars>>

\* Stripe sends an event until it is answered with 200, also while an earlier request
\* is still running; `deduplicate` is SET NX, so a second request is answered at once.
ReceiveWebhook(r, c) ==
  /\ gateway[r] = Idle
  /\ c \in charged \ acked
  /\ IF c \in dedup
     THEN acked' = acked \cup {c} /\ UNCHANGED <<dedup, gateway>>
     ELSE /\ dedup' = dedup \cup {c}
          /\ gateway' = [gateway EXCEPT ![r] = [pc |-> "publishing", charge |-> c]]
          /\ UNCHANGED acked
  /\ UNCHANGED <<charged, hooks, billingVars, creditsVars>>

PublishWebhook(r) ==
  /\ gateway[r].pc = "publishing"
  /\ \E k \in NextCopies(hooks, gateway[r].charge) :
       hooks' = [hooks EXCEPT ![<<gateway[r].charge, k>>].at = "ready"]
  /\ gateway' = [gateway EXCEPT ![r].pc = "published"]
  /\ UNCHANGED <<charged, acked, dedup, billingVars, creditsVars>>

\* The 200 reaches Stripe.
AnswerWebhook(r) ==
  /\ gateway[r].pc = "published"
  /\ acked' = acked \cup {gateway[r].charge}
  /\ gateway' = [gateway EXCEPT ![r] = Idle]
  /\ UNCHANGED <<charged, dedup, hooks, billingVars, creditsVars>>

\* publish raises, before or after the broker took the message: the key is deleted.
PublishFails(r) ==
  /\ gateway[r] # Idle
  /\ dedup' = dedup \ {gateway[r].charge}
  /\ gateway' = [gateway EXCEPT ![r] = Idle]
  /\ UNCHANGED <<charged, acked, hooks, billingVars, creditsVars>>

\* The request ends without an answer, and without deleting the key.
GatewayCrash(r) ==
  /\ gateway[r] # Idle
  /\ gateway' = [gateway EXCEPT ![r] = Idle]
  /\ UNCHANGED <<charged, acked, dedup, hooks, billingVars, creditsVars>>

\* 24 hours, which outlast any request.
DedupExpires(c) ==
  /\ c \in dedup
  /\ \A r \in Requests : gateway[r] # Idle => gateway[r].charge # c
  /\ dedup' = dedup \ {c}
  /\ UNCHANGED <<charged, acked, gateway, hooks, billingVars, creditsVars>>

-----------------------------------------------------------------------------
(* handle_gateway_event: the inbox record is committed first; a second      *)
(* transaction takes it FOR UPDATE, applies the webhook and marks it.       *)

StoreHook(m) ==
  /\ hooks[m].at = "ready"
  /\ inbox' = [inbox EXCEPT ![m[1]] = IF @ = "none" THEN "stored" ELSE @]
  /\ hooks' = [hooks EXCEPT ![m].at = "stored"]
  /\ UNCHANGED <<gatewayVars, invoiceVars, outbox, batch, sent, refunds, creditsVars>>

InboxUnlocked(c) == FALSE

InboxLocked(c) == \E k \in Copies : hooks[<<c, k>>].at = "locked"

LockHook(m) ==
  /\ hooks[m].at = "stored"
  /\ ~InboxLocked(m[1])
  /\ hooks' = [hooks EXCEPT ![m].at = IF inbox[m[1]] = "processed" THEN "done" ELSE "locked"]
  /\ UNCHANGED <<gatewayVars, billingVars, creditsVars>>

\* An earlier webhook of the invoice (created, finalized) took the same way through inbox
\* and transaction, and added the invoice.
EarlierHook(c) ==
  /\ c \in Invoices \ (invoices \cup strangers)
  /\ invoices' = invoices \cup {c}
  /\ UNCHANGED <<gatewayVars, hooks, inbox, strangers, outbox, unnamed, batch, sent, refunds,
                 creditsVars>>

\* The row that x's next event is stored in.
NewRows(x) ==
  {n \in Copies : /\ outbox[<<x, n>>] = "none"
                  /\ \A j \in 1..(n - 1) : outbox[<<x, j>>] # "none"}

\* _apply_webhook adds the event to the outbox in the transaction that marks the inbox. If
\* the webhook is the first of its invoice, it adds the invoice too, and takes its id for
\* the event before the row is flushed and has one.
ApplyHook(m) ==
  /\ hooks[m].at = "locked"
  /\ m[1] \notin strangers
  /\ \E n \in NewRows(m[1]) :
       /\ outbox' = [outbox EXCEPT ![<<m[1], n>>] = "pending"]
       /\ unnamed' = unnamed \cup ({m[1]} \cap (Invoices \ invoices)) \X {n}
  /\ invoices' = invoices \cup ({m[1]} \cap Invoices)
  /\ inbox' = [inbox EXCEPT ![m[1]] = "processed"]
  /\ hooks' = [hooks EXCEPT ![m].at = "done"]
  /\ UNCHANGED <<gatewayVars, strangers, batch, sent, refunds, creditsVars>>

\* No subscription is found: the webhook is marked, and nothing comes of it.
IgnoreHook(m) ==
  /\ hooks[m].at = "locked"
  /\ m[1] \in strangers
  /\ inbox' = [inbox EXCEPT ![m[1]] = "processed"]
  /\ hooks' = [hooks EXCEPT ![m].at = "done"]
  /\ UNCHANGED <<gatewayVars, invoiceVars, outbox, batch, sent, refunds, creditsVars>>

AckHook(m) ==
  /\ hooks[m].at = "done"
  /\ hooks' = [hooks EXCEPT ![m].at = "acked"]
  /\ UNCHANGED <<gatewayVars, billingVars, creditsVars>>

ReturnHook(m) ==
  /\ Live(hooks, m)
  /\ hooks' = Returned(hooks, m)
  /\ UNCHANGED <<gatewayVars, billingVars, creditsVars>>

-----------------------------------------------------------------------------
(* refund: Stripe first, then one transaction for the refund and its event. *)

\* The invoice has a row; Stripe refunds what was paid.
CreateRefund(f) ==
  /\ refunds[f] = "none"
  /\ RefundOf[f] \in invoices \cap charged
  /\ refunds' = [refunds EXCEPT ![f] = "refunded"]
  /\ UNCHANGED <<gatewayVars, hooks, inbox, invoiceVars, outbox, batch, sent, creditsVars>>

CommitRefund(f) ==
  /\ refunds[f] = "refunded"
  /\ refunds' = [refunds EXCEPT ![f] = "told"]
  /\ \E n \in NewRows(f) : outbox' = [outbox EXCEPT ![<<f, n>>] = "pending"]
  /\ UNCHANGED <<gatewayVars, hooks, inbox, invoiceVars, batch, sent, creditsVars>>

\* The process stops, or the commit fails, after Stripe has made the refund.
RefundCrash(f) ==
  /\ refunds[f] = "refunded"
  /\ refunds' = [refunds EXCEPT ![f] = "untold"]
  /\ UNCHANGED <<gatewayVars, hooks, inbox, invoiceVars, outbox, batch, sent, creditsVars>>

-----------------------------------------------------------------------------
(* OutboxPublisher.publish_batch: one transaction around the whole batch.   *)

TakeBatch ==
  /\ batch = {}
  /\ batch' = {e \in Events : outbox[e] = "pending"}
  /\ batch' # {}
  /\ UNCHANGED <<gatewayVars, hooks, inbox, invoiceVars, outbox, sent, refunds, creditsVars>>

\* Rows go out in the order of created_at; nobody depends on the order, since the
\* messages of a queue are handled concurrently.
PublishEvent(e) ==
  /\ e \in batch \ sent
  /\ \E k \in NextCopies(mail, e) : mail' = [mail EXCEPT ![<<e, k>>].at = "ready"]
  /\ sent' = sent \cup {e}
  /\ UNCHANGED <<gatewayVars, hooks, inbox, invoiceVars, outbox, batch, refunds, processed, rows>>

CommitBatch ==
  /\ batch # {}
  /\ sent = batch
  /\ outbox' = [e \in Events |-> IF e \in batch THEN "published" ELSE outbox[e]]
  /\ batch' = {}
  /\ sent' = {}
  /\ UNCHANGED <<gatewayVars, hooks, inbox, invoiceVars, refunds, creditsVars>>

FailBatchMarked ==
  /\ batch # {}
  /\ outbox' = [e \in Events |-> IF e \in batch THEN "published" ELSE outbox[e]]
  /\ batch' = {}
  /\ sent' = {}
  /\ UNCHANGED <<gatewayVars, hooks, inbox, invoiceVars, refunds, creditsVars>>

\* A publish or the commit fails, or the process stops: the transaction rolls back,
\* but what was published is out. run() goes on with the next batch.
FailBatch ==
  /\ batch # {}
  /\ \A e \in sent : NextCopies(mail, e) # {}
  /\ batch' = {}
  /\ sent' = {}
  /\ UNCHANGED <<gatewayVars, hooks, inbox, invoiceVars, outbox, refunds, creditsVars>>

-----------------------------------------------------------------------------
(* credits-service: consume *)

Granting(e) == e[1] \in Charges

ChargeOf(x) == IF x \in Charges THEN x ELSE RefundOf[x]

\* reference_id: the invoice or the payment intent that the event names. A refund's event
\* names nothing, since its id is taken before the refund is flushed.
Reference(e) == IF Granting(e) /\ e \notin unnamed THEN e[1] ELSE NoId

\* A row of the ledger as Credits has it.
LedgerRow(e, n) ==
  [type |-> IF Granting(e) THEN "grant" ELSE "clawback",
   account |-> Payer[ChargeOf(e[1])],
   amount |-> IF Granting(e) THEN Credits[e[1]] ELSE -Credits[ChargeOf(e[1])],
   ref |-> Reference(e),
   n |-> n]

Entries == {LedgerRow(r.event, r.n) : r \in rows}

\* A new row, numbered among the rows that have its account, type and reference.
NewEntry(e) ==
  [event |-> e,
   n |-> Cardinality({x \in Entries : /\ x.type = LedgerRow(e, 0).type
                                      /\ x.account = LedgerRow(e, 0).account
                                      /\ x.ref = LedgerRow(e, 0).ref})]

\* The grant that a refund reverses is looked up by the id of the invoice.
GrantFound(f) == \E r \in rows : Granting(r.event) /\ Reference(r.event) = RefundOf[f]

\* A grant always adds a row, a refund only when the grant it reverses is found.
Adds(e) == Granting(e) \/ GrantFound(e[1])

CheckEvent(m) ==
  /\ mail[m].at = "ready"
  /\ mail' = [mail EXCEPT ![m].at = IF m[1] \in processed THEN "done"
                                    ELSE IF Adds(m[1]) THEN "adding" ELSE "noting"]
  /\ UNCHANGED <<gatewayVars, hooks, billingVars, processed, rows>>

UniqueUnchecked(e) == TRUE

\* The insert into processed_events succeeds, unless another message of the event was
\* faster: then the handler raises.
Unique(e) == e \notin processed

CommitEvent(m) ==
  /\ mail[m].at \in {"adding", "noting"}
  /\ Unique(m[1])
  /\ rows' = IF mail[m].at = "adding" THEN rows \cup {NewEntry(m[1])} ELSE rows
  /\ processed' = processed \cup {m[1]}
  /\ mail' = [mail EXCEPT ![m].at = "done"]
  /\ UNCHANGED <<gatewayVars, hooks, billingVars>>

AckEvent(m) ==
  /\ mail[m].at = "done"
  /\ mail' = [mail EXCEPT ![m].at = "acked"]
  /\ UNCHANGED <<gatewayVars, hooks, billingVars, processed, rows>>

ReturnEvent(m) ==
  /\ Live(mail, m)
  /\ mail' = Returned(mail, m)
  /\ UNCHANGED <<gatewayVars, hooks, billingVars, processed, rows>>

-----------------------------------------------------------------------------
Webhook(r) ==
  \/ \E c \in Charges : ReceiveWebhook(r, c)
  \/ PublishWebhook(r)
  \/ AnswerWebhook(r)
  \/ PublishFails(r)
  \/ GatewayCrash(r)

HandleHook(m) ==
  \/ StoreHook(m)
  \/ LockHook(m)
  \/ ApplyHook(m)
  \/ IgnoreHook(m)
  \/ AckHook(m)

PublishBatch ==
  \/ TakeBatch
  \/ \E e \in Events : PublishEvent(e)
  \/ CommitBatch

HandleEvent(m) ==
  \/ CheckEvent(m)
  \/ CommitEvent(m)
  \/ AckEvent(m)

Next ==
  \/ \E c \in Charges : Pay(c) \/ DedupExpires(c) \/ EarlierHook(c)
  \/ \E r \in Requests : Webhook(r)
  \/ \E m \in Charges \X Copies : HandleHook(m) \/ ReturnHook(m)
  \/ \E f \in Refunds : CreateRefund(f) \/ CommitRefund(f) \/ RefundCrash(f)
  \/ PublishBatch
  \/ FailBatch
  \/ \E m \in Events \X Copies : HandleEvent(m) \/ ReturnEvent(m)

Spec == Init /\ [][Next]_vars

\* Consumers take what is in their queue and end each message one way or another; run()
\* loops for ever, also after an exception, and finds RabbitMQ and the database up again
\* and again. Nothing is assumed of Stripe, the gateway or a refund request.
Fairness ==
  /\ \A m \in Charges \X Copies : WF_vars(HandleHook(m) \/ ReturnHook(m))
  /\ \A m \in Events \X Copies : WF_vars(HandleEvent(m) \/ ReturnEvent(m))
  /\ \A f \in Refunds : WF_vars(CommitRefund(f))
  /\ WF_vars(TakeBatch)
  /\ \A e \in Events : SF_vars(PublishEvent(e))
  /\ SF_vars(CommitBatch)

FairSpec == Spec /\ Fairness

-----------------------------------------------------------------------------
(* Properties *)

\* billing-service has committed to telling the others about x.
Owed(x) ==
  IF x \in Charges THEN inbox[x] = "processed" /\ x \notin strangers ELSE refunds[x] = "told"

\* The events made for a payment or a refund.
EventsOf(x) == {x} \X Copies

Published(c) == \E k \in Copies : hooks[<<c, k>>].at # "none"

\* In the queue, with a handler, or in the dead-letter queue.
Held(queue, x) == \E k \in Copies : queue[<<x, k>>].at \notin {"none", "acked"}

Dead(queue, x) ==
  /\ Held(queue, x)
  /\ \A k \in Copies : queue[<<x, k>>].at \in {"none", "acked", "dead"}

\* "A redelivered message after a crash/restart is a no-op instead of
\* double-processing": through two queues, an inbox, an outbox and a ledger that each
\* retry, a payment is granted at most once, and only when it was made and its customer is
\* known; a refund takes credits back at most once.
GrantedAtMostOnce ==
  \A r, s \in rows :
    /\ r.event[1] = s.event[1] => r = s
    /\ ChargeOf(r.event[1]) \in charged \ strangers

\* A published webhook is never lost: until billing-service has applied it, its message
\* is in the queue or dead-lettered; from then on its event is in the outbox, in the
\* queue of credits-service or dead-lettered there, or in the ledger, unless its customer
\* has no subscription. A committed refund's event likewise.
NeverLost ==
  /\ \A c \in Charges : Published(c) /\ inbox[c] # "processed" => Held(hooks, c)
  /\ \A x \in Charges \cup Refunds :
       Owed(x) =>
         \E e \in EventsOf(x) : e \in processed \/ outbox[e] = "pending" \/ Held(mail, e)

\* A published webhook of a known customer ends in the ledger or in a dead-letter queue,
\* whatever fails on the way.
Granted ==
  \A c \in Charges :
    Published(c) ~> \/ c \in strangers
                    \/ \E r \in rows : r.event[1] = c
                    \/ Dead(hooks, c)
                    \/ \E e \in EventsOf(c) : Dead(mail, e)

\* What credits-service receives is what Credits assumes of its events, and its handlers
\* are handlers of Credits: every step is a step of the ledger there, or none. An event of
\* Payments is one of two events of Credits: with the id of its invoice, or without.
LedgerEvent(e, named) ==
  [id |-> <<e, named>>,
   type |-> IF ~Granting(e) THEN "refund.issued"
            ELSE IF e[1] \in Invoices THEN "invoice.paid" ELSE "credits.purchased",
   account |-> Payer[ChargeOf(e[1])],
   credits |-> IF Granting(e) THEN Credits[e[1]] ELSE 0,
   ref |-> IF Granting(e) /\ named THEN e[1] ELSE NoId,
   invoice |-> ChargeOf(e[1])]

LedgerEvents == {LedgerEvent(e, named) : e \in Events, named \in BOOLEAN}

Sent(e) == LedgerEvent(e, e \notin unnamed)

LedgerJob(m) ==
  IF mail[m].at \in {"adding", "noting"}
  THEN [pc |-> "handle",
        event |-> Sent(m[1]),
        amount |-> IF mail[m].at = "adding" THEN LedgerRow(m[1], 0).amount ELSE 0]
  ELSE [pc |-> "idle"]

LedgerJobs == [m \in Events \X Copies |-> LedgerJob(m)]

LedgerNoted == {Sent(e).id : e \in processed}

Nowhere == [x \in {} |-> x]

Ledger == INSTANCE Credits WITH
  Listings <- {}, Offer <- Nowhere, Refs <- {}, Usage <- Nowhere, Opening <- {},
  Invoices <- Charges \cup {NoId}, None <- "none",
  Events <- LedgerEvents,
  Requests <- Events \X Copies,
  ledger <- Entries,
  processed <- LedgerNoted,
  listing <- Nowhere, stale <- {}, expired <- {}, intents <- Nowhere,
  req <- LedgerJobs

\* Ledger!Spec, with the stuttering steps first, which are most of them.
LedgerSpec == Ledger!Init /\ [][UNCHANGED Ledger!vars \/ Ledger!Next]_(Ledger!vars)
=============================================================================
