---------------------------- MODULE BillingProofs ---------------------------
(***************************************************************************)
(* That Payments grants a payment at most once and never loses a published *)
(* webhook, for any payments, refunds, delivery limit and number of        *)
(* copies. The inductive invariant says, for each place a message passes,  *)
(* what the next place must already hold.                                  *)
(*                                                                         *)
(* That Payments implements Credits: what an event means to credits-       *)
(* service is settled when it is put in the outbox, so that only the       *)
(* handlers of its queue take steps of the ledger, each one of Credits.    *)
(*                                                                         *)
(* And that Subscriptions downgrades no account once its payment is        *)
(* recorded, for any plans, subscriptions, webhooks and requests: while    *)
(* the poller holds the lock, the row is what it has read.                 *)
(***************************************************************************)
EXTENDS Payments, Subscriptions, TLAPS, FiniteSetTheorems

Sources == Charges \cup Refunds

\* An acknowledged webhook has been applied; only one handler holds the inbox record,
\* and it finds it unprocessed.
HooksApplied ==
  /\ \A c \in Charges, k \in Copies :
       /\ hooks[<<c, k>>].at \in {"done", "acked"} => inbox[c] = "processed"
       /\ hooks[<<c, k>>].at = "locked" => inbox[c] # "processed"
  /\ \A c \in Charges : \A j, k \in Copies :
       hooks[<<c, j>>].at = "locked" /\ hooks[<<c, k>>].at = "locked" => j = k

\* Nothing is published, applied or refunded for a payment that was not made; and what an
\* unknown customer pays has no invoice here, so no refund.
OnlyCharged ==
  /\ \A r \in Requests : gateway[r] # Idle => gateway[r].charge \in charged
  /\ \A c \in Charges : Published(c) \/ inbox[c] # "none" => c \in charged
  /\ \A f \in Refunds : refunds[f] # "none" => RefundOf[f] \in charged \ strangers
  /\ invoices \cap strangers = {}

\* The outbox has exactly one row, the first, for what billing-service has committed to.
OneRow == \A x \in Sources, n \in Copies : outbox[<<x, n>>] # "none" <=> n = 1 /\ Owed(x)

\* What the publisher has marked, or is about to mark, is in the queue or was processed.
PublishedHeld ==
  \A e \in Events : outbox[e] = "published" \/ e \in sent => e \in processed \/ Held(mail, e)

\* An event is processed only if it is in the outbox, acknowledged only if processed,
\* and has a row only if processed, and only one.
EventsApplied ==
  /\ \A e \in Events :
       /\ \A k \in Copies : /\ mail[<<e, k>>].at # "none" => outbox[e] # "none"
                            /\ mail[<<e, k>>].at \in {"done", "acked"} => e \in processed
       /\ e \in processed => outbox[e] # "none"
  /\ \A r \in rows : r.event \in processed
  /\ \A r, s \in rows : r.event = s.event => r = s

PaymentsInv ==
  /\ TypeOK
  /\ HooksApplied
  /\ OnlyCharged
  /\ OneRow
  /\ PublishedHeld
  /\ EventsApplied

-----------------------------------------------------------------------------
LEMMA CopiesAre == 1 \in Copies /\ \A n \in Copies : n \in Nat /\ n >= 1
  BY ConstantsAssumption DEF Copies

LEMMA PaymentsTypeInit == Init => TypeOK
  BY ConstantsAssumption, FS_EmptySet
     DEF Init, TypeOK, Unsent, GatewayJobs, HookStates, MailStates, InboxStates,
         OutboxStates, RefundStates, Events

LEMMA ReturnedType ==
  ASSUME NEW S, NEW M, NEW queue \in [M -> [at : S, tries : 0..Limit]], NEW m \in M,
         "ready" \in S, "dead" \in S
  PROVE  Returned(queue, m) \in [M -> [at : S, tries : 0..Limit]]
<1>1. queue[m] \in [at : S, tries : 0..Limit]
  OBVIOUS
<1>2. CASE queue[m].tries = Limit
  BY <1>1, <1>2 DEF Returned
<1>3. CASE queue[m].tries # Limit
  <2>1. queue[m].tries + 1 \in 0..Limit
    BY <1>1, <1>3, ConstantsAssumption
  <2> QED
    BY <1>3, <2>1 DEF Returned
<1> QED
  BY <1>2, <1>3

\* A row of the ledger has a number.
LEMMA EntryNumbered ==
  ASSUME TypeOK, NEW e \in Events
  PROVE  NewEntry(e) \in [event : Events, n : Nat]
<1> DEFINE alike == {x \in Entries : /\ x.type = LedgerRow(e, 0).type
                                     /\ x.account = LedgerRow(e, 0).account
                                     /\ x.ref = LedgerRow(e, 0).ref}
           entry == [r \in rows |-> LedgerRow(r.event, r.n)]
<1>1. IsFiniteSet(Entries)
  <2>1. entry \in Surjection(rows, Entries)
    BY DEF Surjection, Entries
  <2>2. IsFiniteSet(rows)
    BY DEF TypeOK
  <2> QED
    BY <2>1, <2>2, FS_Surjection
<1>2. alike \in SUBSET Entries
  OBVIOUS
<1>3. Cardinality(alike) \in Nat
  BY <1>1, <1>2, FS_Subset, FS_CardinalityType
<1> QED
  BY <1>3 DEF NewEntry

LEMMA PaymentsTypeStep == TypeOK /\ [Next]_vars => TypeOK'
<1> SUFFICES ASSUME TypeOK, [Next]_vars PROVE TypeOK'
  OBVIOUS
<1> USE DEF TypeOK
<1>1. ASSUME NEW c \in Charges, Pay(c) PROVE TypeOK'
  BY <1>1 DEF Pay, billingVars, invoiceVars, creditsVars
<1>2. ASSUME NEW c \in Charges, DedupExpires(c) \/ EarlierHook(c) PROVE TypeOK'
  BY <1>2 DEF DedupExpires, EarlierHook, gatewayVars, billingVars, invoiceVars, creditsVars
<1>3. ASSUME NEW r \in Requests, NEW c \in Charges, ReceiveWebhook(r, c) PROVE TypeOK'
  BY <1>3 DEF ReceiveWebhook, GatewayJobs, billingVars, invoiceVars, creditsVars
<1>4. ASSUME NEW r \in Requests, PublishWebhook(r) PROVE TypeOK'
  <2>1. gateway[r] \in [pc : {"publishing", "published"}, charge : Charges]
    BY <1>4 DEF PublishWebhook, GatewayJobs, Idle
  <2>2. gateway' \in [Requests -> GatewayJobs]
    BY <1>4, <2>1 DEF PublishWebhook, GatewayJobs
  <2>3. hooks' \in [Charges \X Copies -> [at : HookStates, tries : 0..Limit]]
    <3>1. PICK k \in Copies : hooks' = [hooks EXCEPT ![<<gateway[r].charge, k>>].at = "ready"]
      BY <1>4 DEF PublishWebhook, NextCopies
    <3>2. <<gateway[r].charge, k>> \in Charges \X Copies
      BY <2>1
    <3> QED
      BY <3>1, <3>2 DEF HookStates
  <2> QED
    BY <1>4, <2>2, <2>3 DEF PublishWebhook, billingVars, invoiceVars, creditsVars
<1>5. ASSUME NEW r \in Requests, AnswerWebhook(r) PROVE TypeOK'
  BY <1>5 DEF AnswerWebhook, GatewayJobs, Idle, billingVars, invoiceVars, creditsVars
<1>6. ASSUME NEW r \in Requests, PublishFails(r) PROVE TypeOK'
  BY <1>6 DEF PublishFails, GatewayJobs, billingVars, invoiceVars, creditsVars
<1>7. ASSUME NEW r \in Requests, GatewayCrash(r) PROVE TypeOK'
  BY <1>7 DEF GatewayCrash, GatewayJobs, billingVars, invoiceVars, creditsVars
<1>8. ASSUME NEW m \in Charges \X Copies, StoreHook(m) PROVE TypeOK'
  BY <1>8 DEF StoreHook, HookStates, InboxStates, gatewayVars, invoiceVars, creditsVars
<1>9. ASSUME NEW m \in Charges \X Copies, LockHook(m) PROVE TypeOK'
  BY <1>9 DEF LockHook, HookStates, gatewayVars, billingVars, invoiceVars, creditsVars
<1>10. ASSUME NEW m \in Charges \X Copies, ApplyHook(m) PROVE TypeOK'
  <2>1. PICK n \in NewRows(m[1]) :
          /\ outbox' = [outbox EXCEPT ![<<m[1], n>>] = "pending"]
          /\ unnamed' = unnamed \cup ({m[1]} \cap (Invoices \ invoices)) \X {n}
    BY <1>10 DEF ApplyHook
  <2>2. <<m[1], n>> \in Events /\ outbox[<<m[1], n>>] = "none"
    BY DEF NewRows, Events
  <2>3. unnamed' \subseteq Events
    <3>1. \A e \in ({m[1]} \cap (Invoices \ invoices)) \X {n} : e = <<m[1], n>>
      OBVIOUS
    <3> QED
      BY <2>1, <2>2, <3>1
  <2>4. outbox' \in [Events -> OutboxStates] /\ UNCHANGED batch
    BY <1>10, <2>1 DEF ApplyHook, OutboxStates
  <2>5. batch' \subseteq {e \in Events : outbox'[e] = "pending"}
    BY <2>1, <2>2, <2>4
  <2>6. invoices' \subseteq Invoices
    BY <1>10 DEF ApplyHook
  <2> QED
    BY <1>10, <2>3, <2>4, <2>5, <2>6 DEF ApplyHook, HookStates, InboxStates, gatewayVars,
         creditsVars
<1>11. ASSUME NEW m \in Charges \X Copies, AckHook(m) \/ IgnoreHook(m) PROVE TypeOK'
  <2>1. CASE AckHook(m)
    BY <2>1 DEF AckHook, HookStates, gatewayVars, billingVars, invoiceVars, creditsVars
  <2>2. CASE IgnoreHook(m)
    BY <2>2 DEF IgnoreHook, HookStates, InboxStates, gatewayVars, invoiceVars, creditsVars
  <2> QED
    BY <1>11, <2>1, <2>2
<1>12. ASSUME NEW m \in Charges \X Copies, ReturnHook(m) PROVE TypeOK'
  <2>1. hooks' \in [Charges \X Copies -> [at : HookStates, tries : 0..Limit]]
    BY <1>12, ReturnedType DEF ReturnHook, HookStates
  <2> QED
    BY <1>12, <2>1 DEF ReturnHook, gatewayVars, billingVars, invoiceVars, creditsVars
<1>13. ASSUME NEW f \in Refunds, CreateRefund(f) PROVE TypeOK'
  BY <1>13 DEF CreateRefund, RefundStates, gatewayVars, invoiceVars, creditsVars
<1>14. ASSUME NEW f \in Refunds, CommitRefund(f) PROVE TypeOK'
  BY <1>14 DEF CommitRefund, RefundStates, NewRows, OutboxStates, Events, gatewayVars, invoiceVars,
               creditsVars
<1>15. ASSUME NEW f \in Refunds, RefundCrash(f) PROVE TypeOK'
  BY <1>15 DEF RefundCrash, RefundStates, gatewayVars, invoiceVars, creditsVars
<1>16. CASE TakeBatch
  BY <1>16 DEF TakeBatch, gatewayVars, invoiceVars, creditsVars
<1>17. ASSUME NEW e \in Events, PublishEvent(e) PROVE TypeOK'
  BY <1>17 DEF PublishEvent, NextCopies, MailStates, gatewayVars, invoiceVars
<1>18. CASE CommitBatch
  BY <1>18 DEF CommitBatch, OutboxStates, gatewayVars, invoiceVars, creditsVars
<1>19. CASE FailBatch
  BY <1>19 DEF FailBatch, gatewayVars, invoiceVars, creditsVars
<1>20. ASSUME NEW m \in Events \X Copies, CheckEvent(m) PROVE TypeOK'
  BY <1>20 DEF CheckEvent, MailStates, gatewayVars, billingVars, invoiceVars
<1>21. ASSUME NEW m \in Events \X Copies, CommitEvent(m) PROVE TypeOK'
  <2>1. rows' = rows \/ rows' = rows \cup {NewEntry(m[1])}
    BY <1>21 DEF CommitEvent
  <2>2. NewEntry(m[1]) \in [event : Events, n : Nat]
    BY EntryNumbered
  <2>3. rows' \subseteq [event : Events, n : Nat]
    BY <2>1, <2>2
  <2>4. IsFiniteSet(rows')
    <3>1. IsFiniteSet(rows) /\ IsFiniteSet(rows \cup {NewEntry(m[1])})
      BY FS_AddElement
    <3> QED
      BY <2>1, <3>1
  <2> QED
    BY <1>21, <2>3, <2>4 DEF CommitEvent, MailStates, gatewayVars, billingVars, invoiceVars
<1>22. ASSUME NEW m \in Events \X Copies, AckEvent(m) PROVE TypeOK'
  BY <1>22 DEF AckEvent, MailStates, gatewayVars, billingVars, invoiceVars
<1>23. ASSUME NEW m \in Events \X Copies, ReturnEvent(m) PROVE TypeOK'
  <2>1. mail' \in [Events \X Copies -> [at : MailStates, tries : 0..Limit]]
    BY <1>23, ReturnedType DEF ReturnEvent, MailStates
  <2> QED
    BY <1>23, <2>1 DEF ReturnEvent, gatewayVars, billingVars, invoiceVars
<1>24. CASE UNCHANGED vars
  BY <1>24 DEF vars
<1> QED
  BY <1>1, <1>2, <1>3, <1>4, <1>5, <1>6, <1>7, <1>8, <1>9, <1>10, <1>11, <1>12, <1>13,
     <1>14, <1>15, <1>16, <1>17, <1>18, <1>19, <1>20, <1>21, <1>22, <1>23, <1>24
  DEF Next, Webhook, HandleHook, PublishBatch, HandleEvent

-----------------------------------------------------------------------------
LEMMA PaymentsInit == Init => PaymentsInv
<1> SUFFICES ASSUME Init PROVE PaymentsInv
  OBVIOUS
<1>1. TypeOK
  BY PaymentsTypeInit
<1>2. HooksApplied /\ OnlyCharged
  BY DEF Init, HooksApplied, OnlyCharged, Published, Unsent
<1>3. OneRow
  BY DEF Init, OneRow, Owed, Events, Sources
<1>4. PublishedHeld /\ EventsApplied
  BY DEF Init, PublishedHeld, EventsApplied, Unsent
<1> QED
  BY <1>1, <1>2, <1>3, <1>4 DEF PaymentsInv

\* Which steps touch which variables.
LEMMA HookWriters ==
  ASSUME [Next]_vars
  PROVE  \/ \E r \in Requests : PublishWebhook(r)
         \/ \E m \in Charges \X Copies : HandleHook(m) \/ ReturnHook(m)
         \/ UNCHANGED <<hooks, inbox>>
  BY DEF Next, Webhook, PublishBatch, HandleEvent, vars, gatewayVars, billingVars, invoiceVars,
         creditsVars, Pay, DedupExpires, EarlierHook, ReceiveWebhook, AnswerWebhook, PublishFails,
         GatewayCrash, CreateRefund, CommitRefund, RefundCrash, TakeBatch, PublishEvent,
         CommitBatch, FailBatch, CheckEvent, CommitEvent, AckEvent, ReturnEvent

LEMMA PublishedMessage ==
  ASSUME TypeOK, NEW r \in Requests, PublishWebhook(r)
  PROVE  \E c \in Charges, k \in Copies :
           /\ gateway[r] # Idle
           /\ gateway[r].charge = c
           /\ hooks' = [hooks EXCEPT ![<<c, k>>].at = "ready"]
<1>1. gateway[r] # Idle /\ gateway[r].charge \in Charges
  BY DEF PublishWebhook, TypeOK, GatewayJobs, Idle
<1>2. PICK k \in Copies : hooks' = [hooks EXCEPT ![<<gateway[r].charge, k>>].at = "ready"]
  BY DEF PublishWebhook, NextCopies
<1> QED
  BY <1>1, <1>2

LEMMA HooksStep ==
  ASSUME PaymentsInv, [Next]_vars
  PROVE  HooksApplied'
<1> USE DEF PaymentsInv, TypeOK, HooksApplied
<1>1. ASSUME NEW r \in Requests, PublishWebhook(r) PROVE HooksApplied'
  <2>1. PICK c \in Charges, k \in Copies : hooks' = [hooks EXCEPT ![<<c, k>>].at = "ready"]
    BY <1>1, PublishedMessage
  <2>2. inbox' = inbox
    BY <1>1 DEF PublishWebhook, billingVars, invoiceVars
  <2> QED
    BY <2>1, <2>2
<1>2. ASSUME NEW m \in Charges \X Copies, HandleHook(m) \/ ReturnHook(m) PROVE HooksApplied'
  <2>1. PICK c \in Charges, k \in Copies : m = <<c, k>>
    OBVIOUS
  <2>2. CASE StoreHook(m)
    BY <2>1, <2>2 DEF StoreHook
  <2>3. CASE LockHook(m)
    <3>1. /\ inbox' = inbox
          /\ \A j \in Copies : hooks[<<c, j>>].at # "locked"
      BY <2>1, <2>3 DEF LockHook, InboxLocked, billingVars, invoiceVars
    <3>2. CASE inbox[c] = "processed"
      <4>1. hooks' = [hooks EXCEPT ![<<c, k>>].at = "done"]
        BY <2>1, <2>3, <3>2 DEF LockHook
      <4> QED
        BY <3>1, <3>2, <4>1
    <3>3. CASE inbox[c] # "processed"
      <4>1. hooks' = [hooks EXCEPT ![<<c, k>>].at = "locked"]
        BY <2>1, <2>3, <3>3 DEF LockHook
      <4> QED
        BY <3>1, <3>3, <4>1
    <3> QED
      BY <3>2, <3>3
  <2>4. CASE ApplyHook(m) \/ IgnoreHook(m)
    <3>1. /\ hooks[<<c, k>>].at = "locked"
          /\ inbox' = [inbox EXCEPT ![c] = "processed"]
          /\ hooks' = [hooks EXCEPT ![<<c, k>>].at = "done"]
      BY <2>1, <2>4 DEF ApplyHook, IgnoreHook
    <3> QED
      BY <3>1
  <2>5. CASE AckHook(m)
    BY <2>1, <2>5 DEF AckHook, billingVars, invoiceVars
  <2>6. CASE ReturnHook(m)
    BY <2>1, <2>6 DEF ReturnHook, Returned, billingVars, invoiceVars
  <2> QED
    BY <1>2, <2>2, <2>3, <2>4, <2>5, <2>6 DEF HandleHook
<1>3. CASE UNCHANGED <<hooks, inbox>>
  BY <1>3
<1> QED
  BY <1>1, <1>2, <1>3, HookWriters

\* What handling a webhook does to its message and to the inbox.
LEMMA HookStep ==
  ASSUME NEW c \in Charges, NEW k \in Copies, TypeOK,
         HandleHook(<<c, k>>) \/ ReturnHook(<<c, k>>)
  PROVE  /\ hooks[<<c, k>>].at # "none"
         /\ \A d \in Charges, j \in Copies :
              hooks'[<<d, j>>].at = "none" <=> hooks[<<d, j>>].at = "none"
         /\ \A d \in Charges \ {c} : inbox'[d] = inbox[d]
         /\ UNCHANGED <<charged, gateway, refunds>>
<1> DEFINE m == <<c, k>>
<1>1. /\ m \in Charges \X Copies
      /\ hooks \in [Charges \X Copies -> [at : HookStates, tries : 0..Limit]]
      /\ inbox \in [Charges -> InboxStates]
  BY DEF TypeOK
<1>2. CASE StoreHook(m)
  <2>1. /\ hooks[m].at = "ready" /\ hooks' = [hooks EXCEPT ![m].at = "stored"]
        /\ UNCHANGED <<charged, gateway, refunds>>
        /\ \A d \in Charges \ {c} : inbox'[d] = inbox[d]
    BY <1>1, <1>2 DEF StoreHook, gatewayVars
  <2> QED
    BY <1>1, <2>1
<1>3. CASE LockHook(m)
  <2>1. PICK s \in {"done", "locked"} : hooks' = [hooks EXCEPT ![m].at = s]
    BY <1>3 DEF LockHook
  <2>2. hooks[m].at = "stored" /\ UNCHANGED <<charged, gateway, inbox, refunds>>
    BY <1>3 DEF LockHook, gatewayVars, billingVars, invoiceVars
  <2> QED
    BY <1>1, <2>1, <2>2
<1>4. CASE ApplyHook(m) \/ IgnoreHook(m)
  <2>1. /\ hooks[m].at = "locked" /\ hooks' = [hooks EXCEPT ![m].at = "done"]
        /\ UNCHANGED <<charged, gateway, refunds>>
        /\ \A d \in Charges \ {c} : inbox'[d] = inbox[d]
    BY <1>1, <1>4 DEF ApplyHook, IgnoreHook, gatewayVars
  <2> QED
    BY <1>1, <2>1
<1>5. CASE AckHook(m)
  <2>1. /\ hooks[m].at = "done" /\ hooks' = [hooks EXCEPT ![m].at = "acked"]
        /\ UNCHANGED <<charged, gateway, inbox, refunds>>
    BY <1>5 DEF AckHook, gatewayVars, billingVars, invoiceVars
  <2> QED
    BY <1>1, <2>1
<1>6. CASE ReturnHook(m)
  <2>1. hooks[m].at # "none" /\ UNCHANGED <<charged, gateway, inbox, refunds>>
    BY <1>6 DEF ReturnHook, Live, gatewayVars, billingVars, invoiceVars
  <2>2. CASE hooks[m].tries = Limit
    <3>1. hooks' = [hooks EXCEPT ![m].at = "dead"]
      BY <1>6, <2>2 DEF ReturnHook, Returned
    <3> QED
      BY <1>1, <2>1, <3>1
  <2>3. CASE hooks[m].tries # Limit
    <3>1. hooks' = [hooks EXCEPT ![m] = [at |-> "ready", tries |-> hooks[m].tries + 1]]
      BY <1>6, <2>3 DEF ReturnHook, Returned
    <3> QED
      BY <1>1, <2>1, <3>1
  <2> QED
    BY <2>2, <2>3
<1> QED
  BY <1>2, <1>3, <1>4, <1>5, <1>6 DEF HandleHook

\* Who is a customer is settled before a payment.
LEMMA StrangersStay == [Next]_vars => strangers' = strangers
  BY DEF Next, Webhook, HandleHook, PublishBatch, HandleEvent, vars, gatewayVars, billingVars,
         invoiceVars, creditsVars, Pay, DedupExpires, EarlierHook, ReceiveWebhook, PublishWebhook,
         AnswerWebhook, PublishFails, GatewayCrash, StoreHook, LockHook, ApplyHook, IgnoreHook,
         AckHook, ReturnHook, CreateRefund, CommitRefund, RefundCrash, TakeBatch, PublishEvent,
         CommitBatch, FailBatch, CheckEvent, CommitEvent, AckEvent, ReturnEvent

\* An invoice is of a known customer.
LEMMA InvoicesStep ==
  ASSUME PaymentsInv, [Next]_vars
  PROVE  (invoices \cap strangers = {})'
<1>1. ASSUME NEW c \in Charges, EarlierHook(c) PROVE invoices' \cap strangers = {}
  BY <1>1 DEF EarlierHook, PaymentsInv, OnlyCharged
<1>2. ASSUME NEW m \in Charges \X Copies, ApplyHook(m) PROVE invoices' \cap strangers = {}
  BY <1>2 DEF ApplyHook, PaymentsInv, OnlyCharged
<1>3. \/ \E c \in Charges : EarlierHook(c)
      \/ \E m \in Charges \X Copies : ApplyHook(m)
      \/ UNCHANGED invoices
  BY DEF Next, Webhook, HandleHook, PublishBatch, HandleEvent, vars, gatewayVars, billingVars,
         invoiceVars, creditsVars, Pay, DedupExpires, ReceiveWebhook, PublishWebhook,
         AnswerWebhook, PublishFails, GatewayCrash, StoreHook, LockHook, IgnoreHook,
         AckHook, ReturnHook, CreateRefund, CommitRefund, RefundCrash, TakeBatch, PublishEvent,
         CommitBatch, FailBatch, CheckEvent, CommitEvent, AckEvent, ReturnEvent
<1> QED
  BY <1>1, <1>2, <1>3, StrangersStay DEF PaymentsInv, OnlyCharged

LEMMA ChargedStep ==
  ASSUME PaymentsInv, [Next]_vars
  PROVE  OnlyCharged'
<1> USE DEF PaymentsInv, OnlyCharged, Published
<1>0. (invoices \cap strangers = {})' /\ strangers' = strangers
  BY InvoicesStep, StrangersStay
<1>1. ASSUME NEW c \in Charges, Pay(c) PROVE OnlyCharged'
  BY <1>0, <1>1 DEF Pay, billingVars, invoiceVars
<1>2. ASSUME NEW r \in Requests, NEW c \in Charges, ReceiveWebhook(r, c) PROVE OnlyCharged'
  <2>1. \A q \in Requests : gateway'[q] = gateway[q] \/ gateway'[q].charge = c
    BY <1>2 DEF ReceiveWebhook, TypeOK
  <2>2. c \in charged /\ UNCHANGED <<charged, hooks, inbox, refunds>>
    BY <1>2 DEF ReceiveWebhook, billingVars, invoiceVars
  <2> QED
    BY <1>0, <2>1, <2>2
<1>3. ASSUME NEW r \in Requests, PublishWebhook(r) PROVE OnlyCharged'
  <2>1. PICK c \in Charges, k \in Copies : /\ gateway[r] # Idle
                                           /\ gateway[r].charge = c
                                           /\ hooks' = [hooks EXCEPT ![<<c, k>>].at = "ready"]
    BY <1>3, PublishedMessage
  <2>2. /\ gateway' = [gateway EXCEPT ![r].pc = "published"]
        /\ UNCHANGED <<charged, inbox, refunds>>
    BY <1>3 DEF PublishWebhook, billingVars, invoiceVars
  <2>3. \A q \in Requests : gateway'[q] # Idle => gateway'[q].charge \in charged'
    BY <2>1, <2>2 DEF TypeOK, GatewayJobs
  <2>4. \A d \in Charges \ {c}, j \in Copies : hooks'[<<d, j>>] = hooks[<<d, j>>]
    BY <2>1 DEF TypeOK
  <2>5. c \in charged
    BY <2>1
  <2> QED
    BY <1>0, <2>2, <2>3, <2>4, <2>5
<1>4. ASSUME NEW r \in Requests, AnswerWebhook(r) \/ PublishFails(r) \/ GatewayCrash(r)
      PROVE  OnlyCharged'
  <2>1. /\ gateway' = [gateway EXCEPT ![r] = Idle]
        /\ UNCHANGED <<charged, hooks, inbox, refunds>>
    BY <1>4 DEF AnswerWebhook, PublishFails, GatewayCrash, billingVars, invoiceVars
  <2> QED
    BY <1>0, <2>1 DEF TypeOK
<1>5. ASSUME NEW m \in Charges \X Copies, HandleHook(m) \/ ReturnHook(m) PROVE OnlyCharged'
  <2>1. PICK c \in Charges, k \in Copies : m = <<c, k>>
    OBVIOUS
  <2>2. HandleHook(<<c, k>>) \/ ReturnHook(<<c, k>>)
    BY <1>5, <2>1
  <2>3. /\ hooks[<<c, k>>].at # "none"
        /\ \A d \in Charges, j \in Copies :
             hooks'[<<d, j>>].at = "none" <=> hooks[<<d, j>>].at = "none"
        /\ \A d \in Charges \ {c} : inbox'[d] = inbox[d]
        /\ UNCHANGED <<charged, gateway, refunds>>
    BY <2>2, HookStep
  <2>4. c \in charged
    BY <2>3
  <2> QED
    BY <1>0, <2>3, <2>4
<1>6. ASSUME NEW f \in Refunds, CreateRefund(f) PROVE OnlyCharged'
  BY <1>0, <1>6, ConstantsAssumption DEF CreateRefund, gatewayVars, TypeOK
<1>7. ASSUME NEW f \in Refunds, CommitRefund(f) \/ RefundCrash(f) PROVE OnlyCharged'
  <2>1. /\ \A g \in Refunds : refunds'[g] # "none" => refunds[g] # "none"
        /\ UNCHANGED <<charged, gateway, hooks, inbox>>
    BY <1>7 DEF CommitRefund, RefundCrash, gatewayVars, TypeOK
  <2> QED
    BY <1>0, <2>1
<1>8. CASE UNCHANGED <<charged, gateway, hooks, inbox, refunds>>
  BY <1>0, <1>8
<1> QED
  BY <1>1, <1>2, <1>3, <1>4, <1>5, <1>6, <1>7, <1>8
  DEF Next, Webhook, PublishBatch, HandleEvent, vars, gatewayVars, billingVars, invoiceVars,
      creditsVars, DedupExpires, EarlierHook, TakeBatch, PublishEvent, CommitBatch, FailBatch,
      CheckEvent, CommitEvent, AckEvent, ReturnEvent

\* A new row of the outbox is the first one of its source.
LEMMA FirstRow ==
  ASSUME OneRow, NEW x \in Sources, ~Owed(x), NEW n \in NewRows(x)
  PROVE  n = 1
<1>1. n \in Copies /\ \A j \in 1..(n - 1) : outbox[<<x, j>>] # "none"
  BY DEF NewRows
<1>2. CASE n # 1
  <2>1. 1 \in 1..(n - 1)
    BY <1>1, <1>2, CopiesAre DEF Copies
  <2> QED
    BY <1>1, <2>1, CopiesAre DEF OneRow
<1> QED
  BY <1>2

LEMMA OneRowStep ==
  ASSUME PaymentsInv, [Next]_vars
  PROVE  OneRow'
<1> USE DEF PaymentsInv
<1>0. strangers' = strangers
  BY StrangersStay
<1>1. ASSUME NEW m \in Charges \X Copies, ApplyHook(m) PROVE OneRow'
  <2>1. PICK c \in Charges, k \in Copies : m = <<c, k>>
    OBVIOUS
  <2>2. ~Owed(c) /\ c \in Sources
    BY <1>1, <2>1, ConstantsAssumption DEF ApplyHook, HooksApplied, Owed, Sources
  <2>3. PICK n \in NewRows(c) : outbox' = [outbox EXCEPT ![<<c, n>>] = "pending"]
    BY <1>1, <2>1 DEF ApplyHook
  <2>4. n = 1
    BY <2>2, <2>3, FirstRow
  <2>5. inbox' = [inbox EXCEPT ![c] = "processed"] /\ refunds' = refunds
    BY <1>1, <2>1 DEF ApplyHook
  <2>6. \A x \in Sources : Owed(x)' <=> Owed(x) \/ x = c
    BY <1>0, <1>1, <2>1, <2>5 DEF Owed, TypeOK, Sources, ApplyHook
  <2> QED
    BY <2>3, <2>4, <2>6, CopiesAre DEF OneRow, TypeOK, Events, Sources
<1>2. ASSUME NEW f \in Refunds, CommitRefund(f) PROVE OneRow'
  <2>1. ~Owed(f) /\ f \in Sources
    BY <1>2, ConstantsAssumption DEF CommitRefund, Owed, Sources
  <2>2. PICK n \in NewRows(f) : outbox' = [outbox EXCEPT ![<<f, n>>] = "pending"]
    BY <1>2 DEF CommitRefund
  <2>3. n = 1
    BY <2>1, <2>2, FirstRow
  <2>4. refunds' = [refunds EXCEPT ![f] = "told"] /\ inbox' = inbox
    BY <1>2 DEF CommitRefund
  <2>5. \A x \in Sources : Owed(x)' <=> Owed(x) \/ x = f
    BY <1>0, <2>4, ConstantsAssumption DEF Owed, TypeOK, Sources
  <2> QED
    BY <2>2, <2>3, <2>5, CopiesAre DEF OneRow, TypeOK, Events, Sources
<1>3. ASSUME \A x \in Sources : Owed(x)' <=> Owed(x),
             \A e \in Events : outbox'[e] # "none" <=> outbox[e] # "none"
      PROVE  OneRow'
  BY <1>3 DEF OneRow, Events, Sources
<1>4. CASE CommitBatch
  <2>1. \A e \in Events : outbox'[e] # "none" <=> outbox[e] # "none"
    BY <1>4 DEF CommitBatch, TypeOK
  <2> QED
    BY <1>0, <1>3, <1>4, <2>1 DEF CommitBatch, Owed
<1>5. ASSUME NEW f \in Refunds, CreateRefund(f) \/ RefundCrash(f) PROVE OneRow'
  <2>1. outbox' = outbox /\ inbox' = inbox
    BY <1>5 DEF CreateRefund, RefundCrash
  <2>2. \A g \in Refunds : refunds'[g] = "told" <=> refunds[g] = "told"
    BY <1>5 DEF CreateRefund, RefundCrash, TypeOK
  <2> QED
    BY <1>0, <1>3, <2>1, <2>2 DEF Owed, Sources
<1>6. ASSUME NEW m \in Charges \X Copies, StoreHook(m) PROVE OneRow'
  <2>1. outbox' = outbox /\ refunds' = refunds
    BY <1>6 DEF StoreHook
  <2>2. \A c \in Charges : inbox'[c] = "processed" <=> inbox[c] = "processed"
    BY <1>6 DEF StoreHook, TypeOK
  <2> QED
    BY <1>0, <1>3, <2>1, <2>2 DEF Owed, Sources
<1>7. ASSUME NEW m \in Charges \X Copies, IgnoreHook(m) PROVE OneRow'
  <2>1. outbox' = outbox /\ refunds' = refunds
    BY <1>7 DEF IgnoreHook
  <2>2. \A c \in Charges : c \notin strangers =>
          (inbox'[c] = "processed" <=> inbox[c] = "processed")
    BY <1>7 DEF IgnoreHook, TypeOK
  <2> QED
    BY <1>0, <1>3, <2>1, <2>2 DEF Owed, Sources
<1>8. CASE UNCHANGED <<outbox, inbox, refunds>>
  BY <1>0, <1>8 DEF OneRow, Owed
<1> QED
  BY <1>1, <1>2, <1>4, <1>5, <1>6, <1>7, <1>8
  DEF Next, Webhook, HandleHook, PublishBatch, HandleEvent, vars, gatewayVars, billingVars, invoiceVars,
      creditsVars, Pay, DedupExpires, EarlierHook, ReceiveWebhook, PublishWebhook, AnswerWebhook,
      PublishFails, GatewayCrash, LockHook, AckHook, ReturnHook, TakeBatch, PublishEvent,
      FailBatch, CheckEvent, CommitEvent, AckEvent, ReturnEvent

\* Which steps touch the events on their way from the outbox to the ledger.
LEMMA EventWriters ==
  ASSUME [Next]_vars
  PROVE  \/ \E m \in Charges \X Copies : ApplyHook(m)
         \/ \E f \in Refunds : CommitRefund(f)
         \/ TakeBatch \/ CommitBatch \/ FailBatch
         \/ \E e \in Events : PublishEvent(e)
         \/ \E m \in Events \X Copies : HandleEvent(m) \/ ReturnEvent(m)
         \/ UNCHANGED <<outbox, sent, mail, processed, rows>>
  BY DEF Next, Webhook, HandleHook, PublishBatch, vars, gatewayVars, billingVars, invoiceVars,
         creditsVars, Pay, DedupExpires, EarlierHook, ReceiveWebhook, PublishWebhook, AnswerWebhook,
         PublishFails, GatewayCrash, StoreHook, LockHook, IgnoreHook, AckHook, ReturnHook,
         CreateRefund, RefundCrash

\* A new event is pending, and nothing else changes on its way.
LEMMA NewEvent ==
  ASSUME TypeOK,
         \/ \E m \in Charges \X Copies : ApplyHook(m)
         \/ \E f \in Refunds : CommitRefund(f)
  PROVE  /\ \E d \in Events : /\ outbox' = [outbox EXCEPT ![d] = "pending"]
                              /\ outbox[d] = "none"
         /\ UNCHANGED <<sent, mail, processed, rows>>
  BY DEF ApplyHook, CommitRefund, NewRows, Events, creditsVars

\* What a consumer of credits-service does to its message and the event's.
LEMMA MailStep ==
  ASSUME PaymentsInv, NEW e \in Events, NEW k \in Copies,
         HandleEvent(<<e, k>>) \/ ReturnEvent(<<e, k>>)
  PROVE  /\ mail[<<e, k>>].at # "none"
         /\ \A d \in Events, j \in Copies : d # e \/ j # k => mail'[<<d, j>>] = mail[<<d, j>>]
         /\ mail'[<<e, k>>].at \notin {"none", "done", "acked"} \/ e \in processed'
         /\ mail'[<<e, k>>].at # "none"
         /\ processed' \subseteq processed \cup {e}
         /\ processed \subseteq processed'
         /\ \/ rows' = rows
            \/ e \notin processed /\ e \in processed' /\ rows' = rows \cup {NewEntry(e)}
         /\ UNCHANGED <<outbox, sent>>
<1> DEFINE m == <<e, k>>
<1>1. m \in Events \X Copies /\ mail \in [Events \X Copies -> [at : MailStates, tries : 0..Limit]]
  BY DEF PaymentsInv, TypeOK
<1>2. mail[m].at \notin {"done", "acked"} \/ e \in processed
  BY DEF PaymentsInv, EventsApplied
<1>3. CASE CheckEvent(m)
  <2>1. PICK s \in {"done", "adding", "noting"} :
          /\ mail' = [mail EXCEPT ![m].at = s]
          /\ s = "done" => e \in processed
    BY <1>3 DEF CheckEvent
  <2>2. mail[m].at = "ready" /\ UNCHANGED <<outbox, sent, processed, rows>>
    BY <1>3 DEF CheckEvent, billingVars, invoiceVars
  <2> QED
    BY <1>1, <2>1, <2>2
<1>4. CASE CommitEvent(m)
  <2>1. /\ mail[m].at \in {"adding", "noting"}
        /\ mail' = [mail EXCEPT ![m].at = "done"]
        /\ processed' = processed \cup {e}
        /\ UNCHANGED <<outbox, sent>>
    BY <1>4 DEF CommitEvent, billingVars, invoiceVars
  <2>2. /\ e \notin processed
        /\ rows' = rows \/ rows' = rows \cup {NewEntry(e)}
    BY <1>4 DEF CommitEvent, Unique
  <2> QED
    BY <1>1, <2>1, <2>2
<1>5. CASE AckEvent(m)
  <2>1. /\ mail[m].at = "done"
        /\ mail' = [mail EXCEPT ![m].at = "acked"]
        /\ UNCHANGED <<outbox, sent, processed, rows>>
    BY <1>5 DEF AckEvent, billingVars, invoiceVars
  <2> QED
    BY <1>1, <1>2, <2>1
<1>6. CASE ReturnEvent(m)
  <2>1. mail[m].at # "none" /\ UNCHANGED <<outbox, sent, processed, rows>>
    BY <1>6 DEF ReturnEvent, Live, billingVars, invoiceVars
  <2>2. CASE mail[m].tries = Limit
    <3>1. mail' = [mail EXCEPT ![m].at = "dead"]
      BY <1>6, <2>2 DEF ReturnEvent, Returned
    <3> QED
      BY <1>1, <2>1, <3>1
  <2>3. CASE mail[m].tries # Limit
    <3>1. mail' = [mail EXCEPT ![m] = [at |-> "ready", tries |-> mail[m].tries + 1]]
      BY <1>6, <2>3 DEF ReturnEvent, Returned
    <3> QED
      BY <1>1, <2>1, <3>1
  <2> QED
    BY <2>2, <2>3
<1> QED
  BY <1>3, <1>4, <1>5, <1>6 DEF HandleEvent

\* What publishing an event does to its messages.
LEMMA MessageOut ==
  ASSUME TypeOK, NEW e \in Events, PublishEvent(e)
  PROVE  /\ \E k \in Copies : mail' = [mail EXCEPT ![<<e, k>>].at = "ready"]
         /\ e \in batch /\ outbox[e] = "pending"
         /\ sent' = sent \cup {e}
         /\ UNCHANGED <<outbox, processed, rows>>
  BY DEF PublishEvent, NextCopies, TypeOK

LEMMA HeldStep ==
  ASSUME PaymentsInv, [Next]_vars
  PROVE  PublishedHeld'
<1> USE DEF PaymentsInv, PublishedHeld, Held
<1>1. CASE (\E m \in Charges \X Copies : ApplyHook(m)) \/ \E f \in Refunds : CommitRefund(f)
  BY <1>1, NewEvent DEF TypeOK
<1>2. CASE TakeBatch \/ FailBatch
  BY <1>2 DEF TakeBatch, FailBatch, creditsVars
<1>3. CASE CommitBatch
  BY <1>3 DEF CommitBatch, creditsVars, TypeOK
<1>4. ASSUME NEW e \in Events, PublishEvent(e) PROVE PublishedHeld'
  <2>1. PICK k \in Copies : mail' = [mail EXCEPT ![<<e, k>>].at = "ready"]
    BY <1>4, MessageOut
  <2>2. sent' = sent \cup {e} /\ UNCHANGED <<outbox, processed>>
    BY <1>4, MessageOut
  <2>3. /\ mail'[<<e, k>>].at = "ready"
        /\ \A d \in Events \ {e}, j \in Copies : mail'[<<d, j>>] = mail[<<d, j>>]
    BY <2>1 DEF TypeOK
  <2> QED
    BY <2>2, <2>3
<1>5. ASSUME NEW m \in Events \X Copies, HandleEvent(m) \/ ReturnEvent(m) PROVE PublishedHeld'
  <2>1. PICK e \in Events, k \in Copies : m = <<e, k>>
    OBVIOUS
  <2>2. HandleEvent(<<e, k>>) \/ ReturnEvent(<<e, k>>)
    BY <1>5, <2>1
  <2>3. /\ \A d \in Events, j \in Copies : d # e \/ j # k => mail'[<<d, j>>] = mail[<<d, j>>]
        /\ mail'[<<e, k>>].at \notin {"none", "done", "acked"} \/ e \in processed'
        /\ processed \subseteq processed'
        /\ UNCHANGED <<outbox, sent>>
    BY <2>2, MailStep
  <2> QED
    BY <2>3
<1>6. CASE UNCHANGED <<outbox, sent, mail, processed, rows>>
  BY <1>6
<1> QED
  BY <1>1, <1>2, <1>3, <1>4, <1>5, <1>6, EventWriters

LEMMA AppliedStep ==
  ASSUME PaymentsInv, [Next]_vars
  PROVE  EventsApplied'
<1> USE DEF PaymentsInv, EventsApplied
<1>1. CASE (\E m \in Charges \X Copies : ApplyHook(m)) \/ \E f \in Refunds : CommitRefund(f)
  BY <1>1, NewEvent DEF TypeOK
<1>2. CASE TakeBatch \/ FailBatch
  BY <1>2 DEF TakeBatch, FailBatch, creditsVars
<1>3. CASE CommitBatch
  BY <1>3 DEF CommitBatch, creditsVars, TypeOK
<1>4. ASSUME NEW e \in Events, PublishEvent(e) PROVE EventsApplied'
  <2>1. PICK k \in Copies : mail' = [mail EXCEPT ![<<e, k>>].at = "ready"]
    BY <1>4, MessageOut
  <2>2. outbox[e] = "pending" /\ UNCHANGED <<outbox, processed, rows>>
    BY <1>4, MessageOut
  <2>3. \A d \in Events, j \in Copies :
          \/ mail'[<<d, j>>].at = mail[<<d, j>>].at
          \/ d = e /\ mail'[<<d, j>>].at = "ready"
    BY <2>1 DEF TypeOK
  <2> QED
    BY <2>2, <2>3
<1>5. ASSUME NEW m \in Events \X Copies, HandleEvent(m) \/ ReturnEvent(m) PROVE EventsApplied'
  <2>1. PICK e \in Events, k \in Copies : m = <<e, k>>
    OBVIOUS
  <2>2. HandleEvent(<<e, k>>) \/ ReturnEvent(<<e, k>>)
    BY <1>5, <2>1
  <2>3. /\ mail[<<e, k>>].at # "none"
        /\ \A d \in Events, j \in Copies : d # e \/ j # k => mail'[<<d, j>>] = mail[<<d, j>>]
        /\ mail'[<<e, k>>].at \notin {"none", "done", "acked"} \/ e \in processed'
        /\ processed' \subseteq processed \cup {e}
        /\ processed \subseteq processed'
        /\ \/ rows' = rows
           \/ e \notin processed /\ e \in processed' /\ rows' = rows \cup {NewEntry(e)}
        /\ mail'[<<e, k>>].at # "none"
        /\ UNCHANGED <<outbox, sent>>
    BY <2>2, MailStep
  <2>4. NewEntry(e).event = e
    BY DEF NewEntry
  <2> QED
    BY <2>3, <2>4
<1>6. CASE UNCHANGED <<outbox, sent, mail, processed, rows>>
  BY <1>6
<1> QED
  BY <1>1, <1>2, <1>3, <1>4, <1>5, <1>6, EventWriters

-----------------------------------------------------------------------------
LEMMA PaymentsInvariant == Spec => []PaymentsInv
<1>1. PaymentsInv /\ [Next]_vars => PaymentsInv'
  <2> SUFFICES ASSUME PaymentsInv, [Next]_vars PROVE PaymentsInv'
    OBVIOUS
  <2>1. TypeOK'
    BY PaymentsTypeStep DEF PaymentsInv
  <2>2. HooksApplied'
    BY HooksStep
  <2>3. OnlyCharged'
    BY ChargedStep
  <2>4. OneRow'
    BY OneRowStep
  <2>5. PublishedHeld'
    BY HeldStep
  <2>6. EventsApplied'
    BY AppliedStep
  <2> QED
    BY <2>1, <2>2, <2>3, <2>4, <2>5, <2>6 DEF PaymentsInv
<1> QED
  BY <1>1, PaymentsInit, PTL DEF Spec

\* Type correctness.
THEOREM PaymentsTypeCorrect == Spec => []TypeOK
<1>1. PaymentsInv => TypeOK
  BY DEF PaymentsInv
<1> QED
  BY <1>1, PaymentsInvariant, PTL

\* However often webhooks and events are sent, published, returned and retried, a payment
\* is granted at most once and only if it was made by a known customer, a refund reversed once.
THEOREM PaymentGrantedAtMostOnce == Spec => []GrantedAtMostOnce
<1>1. PaymentsInv => GrantedAtMostOnce
  <2> SUFFICES ASSUME PaymentsInv, NEW r \in rows, NEW s \in rows
               PROVE  /\ r.event[1] = s.event[1] => r = s
                      /\ ChargeOf(r.event[1]) \in charged \ strangers
    BY DEF GrantedAtMostOnce
  <2>1. PICK x \in Sources, j \in Copies, y \in Sources, k \in Copies :
          r.event = <<x, j>> /\ s.event = <<y, k>>
    BY DEF PaymentsInv, TypeOK, Events, Sources
  <2>2. r.event \in Events /\ s.event \in Events
    BY DEF PaymentsInv, TypeOK
  <2>3. /\ r.event \in processed /\ s.event \in processed
        /\ r.event = s.event => r = s
    BY DEF PaymentsInv, EventsApplied
  <2>4. outbox[r.event] # "none" /\ outbox[s.event] # "none"
    BY <2>2, <2>3 DEF PaymentsInv, EventsApplied
  <2>5. j = 1 /\ k = 1 /\ Owed(x)
    BY <2>1, <2>4 DEF PaymentsInv, OneRow
  <2>6. ChargeOf(x) \in charged \ strangers
    BY <2>5 DEF PaymentsInv, OnlyCharged, Owed, ChargeOf, Sources
  <2> QED
    BY <2>1, <2>3, <2>5, <2>6
<1> QED
  BY <1>1, PaymentsInvariant, PTL

\* A published webhook, and the event of an applied one or of a committed refund, is in a
\* queue, in the outbox, dead-lettered or processed.
THEOREM NothingIsLost == Spec => []NeverLost
<1>1. PaymentsInv => NeverLost
  <2> SUFFICES ASSUME PaymentsInv PROVE NeverLost
    OBVIOUS
  <2>1. \A c \in Charges : Published(c) /\ inbox[c] # "processed" => Held(hooks, c)
    BY DEF PaymentsInv, HooksApplied, Published, Held
  <2>2. ASSUME NEW x \in Charges \cup Refunds, Owed(x)
        PROVE  \E e \in EventsOf(x) : e \in processed \/ outbox[e] = "pending" \/ Held(mail, e)
    <3>1. <<x, 1>> \in EventsOf(x) /\ <<x, 1>> \in Events
      BY CopiesAre DEF EventsOf, Events
    <3>2. outbox[<<x, 1>>] \in {"pending", "published"}
      BY <2>2, <3>1, CopiesAre DEF PaymentsInv, OneRow, Sources, TypeOK, OutboxStates
    <3> QED
      BY <3>1, <3>2 DEF PaymentsInv, PublishedHeld
  <2> QED
    BY <2>1, <2>2 DEF NeverLost
<1> QED
  BY <1>1, PaymentsInvariant, PTL

-----------------------------------------------------------------------------
(* Payments implements Credits. What an event is for credits-service does not change    *)
(* once it is in the outbox; so all but the handlers of credits-service are stutters,   *)
(* and each of their steps is the one of Credits with the same name.                    *)

LEMMA NamesKept ==
  ASSUME PaymentsInv, [Next]_vars, NEW e \in Events, outbox[e] # "none"
  PROVE  e \in unnamed' <=> e \in unnamed
<1>1. ASSUME NEW m \in Charges \X Copies, ApplyHook(m)
      PROVE  e \in unnamed' <=> e \in unnamed
  <2>1. PICK n \in NewRows(m[1]) :
          unnamed' = unnamed \cup ({m[1]} \cap (Invoices \ invoices)) \X {n}
    BY <1>1 DEF ApplyHook
  <2>2. e # <<m[1], n>>
    BY DEF NewRows
  <2>3. e \notin ({m[1]} \cap (Invoices \ invoices)) \X {n}
    BY <2>2
  <2> QED
    BY <2>1, <2>3
<1>2. CASE UNCHANGED unnamed
  BY <1>2
<1> QED
  BY <1>1, <1>2
  DEF Next, Webhook, HandleHook, PublishBatch, HandleEvent, vars, gatewayVars, billingVars, invoiceVars,
      creditsVars, Pay, DedupExpires, EarlierHook, ReceiveWebhook, PublishWebhook, AnswerWebhook,
      PublishFails, GatewayCrash, StoreHook, LockHook, IgnoreHook, AckHook, ReturnHook, CreateRefund,
      CommitRefund, RefundCrash, TakeBatch, PublishEvent, CommitBatch, FailBatch, CheckEvent,
      CommitEvent, AckEvent, ReturnEvent

\* What the ledger holds of the rows there are does not change.
LEMMA EntriesKept ==
  ASSUME PaymentsInv, [Next]_vars
  PROVE  /\ \A e \in processed : Reference(e)' = Reference(e) /\ Sent(e)' = Sent(e)
         /\ \A m \in Events \X Copies : mail[m].at # "none" =>
              Reference(m[1])' = Reference(m[1]) /\ Sent(m[1])' = Sent(m[1])
         /\ {LedgerRow(r.event, r.n)' : r \in rows} = Entries
<1>1. \A e \in Events : outbox[e] # "none" => Reference(e)' = Reference(e) /\ Sent(e)' = Sent(e)
  BY NamesKept DEF Reference, Sent
<1>2. \A e \in processed : Reference(e)' = Reference(e) /\ Sent(e)' = Sent(e)
  BY <1>1 DEF PaymentsInv, EventsApplied, TypeOK
<1>3. \A m \in Events \X Copies : mail[m].at # "none" =>
        Reference(m[1])' = Reference(m[1]) /\ Sent(m[1])' = Sent(m[1])
  <2> SUFFICES ASSUME NEW e \in Events, NEW k \in Copies, mail[<<e, k>>].at # "none"
               PROVE  Reference(e)' = Reference(e) /\ Sent(e)' = Sent(e)
    OBVIOUS
  <2> QED
    BY <1>1 DEF PaymentsInv, EventsApplied
<1>4. \A r \in rows : LedgerRow(r.event, r.n)' = LedgerRow(r.event, r.n)
  BY <1>2 DEF LedgerRow, PaymentsInv, EventsApplied
<1> QED
  BY <1>2, <1>3, <1>4 DEF Entries

\* A message that is not in the hands of a handler before and after is idle in Credits.
LEMMA JobKept ==
  ASSUME PaymentsInv, [Next]_vars, NEW m \in Events \X Copies,
         \/ mail'[m].at = mail[m].at
         \/ {mail[m].at, mail'[m].at} \cap {"adding", "noting"} = {}
  PROVE  LedgerJob(m)' = LedgerJob(m)
<1>1. CASE mail[m].at \in {"adding", "noting"}
  <2>1. Sent(m[1])' = Sent(m[1]) /\ mail'[m].at = mail[m].at
    BY <1>1, EntriesKept
  <2>2. LedgerRow(m[1], 0)'.amount = LedgerRow(m[1], 0).amount
    BY DEF LedgerRow
  <2> QED
    BY <2>1, <2>2 DEF LedgerJob
<1>2. CASE mail[m].at \notin {"adding", "noting"}
  BY <1>2 DEF LedgerJob
<1> QED
  BY <1>1, <1>2

\* Only three actions are seen by the ledger.
LEMMA UnseenByLedger ==
  ASSUME PaymentsInv, [Next]_vars
  PROVE  \/ \E m \in Events \X Copies : CheckEvent(m) \/ CommitEvent(m) \/ ReturnEvent(m)
         \/ UNCHANGED Ledger!vars
<1>1. ASSUME UNCHANGED <<processed, rows>>,
             \A m \in Events \X Copies :
               \/ mail'[m].at = mail[m].at
               \/ {mail[m].at, mail'[m].at} \cap {"adding", "noting"} = {}
      PROVE  UNCHANGED Ledger!vars
  <2>1. \A m \in Events \X Copies : LedgerJob(m)' = LedgerJob(m)
    BY <1>1, JobKept
  <2>2. LedgerJobs' = LedgerJobs
    BY <2>1 DEF LedgerJobs
  <2>3. Entries' = Entries
    BY <1>1, EntriesKept DEF Entries
  <2>4. LedgerNoted' = LedgerNoted
    BY <1>1, EntriesKept DEF LedgerNoted
  <2> QED
    BY <2>2, <2>3, <2>4 DEF Ledger!vars
<1>2. ASSUME NEW e \in Events, PublishEvent(e) PROVE UNCHANGED Ledger!vars
  <2>1. PICK k \in NextCopies(mail, e) : mail' = [mail EXCEPT ![<<e, k>>].at = "ready"]
    BY <1>2 DEF PublishEvent
  <2>2. k \in Copies /\ mail[<<e, k>>].at = "none"
    BY DEF NextCopies
  <2>3. \A m \in Events \X Copies :
          \/ mail'[m].at = mail[m].at
          \/ {mail[m].at, mail'[m].at} \cap {"adding", "noting"} = {}
    BY <2>1, <2>2 DEF PaymentsInv, TypeOK
  <2> QED
    BY <1>1, <1>2, <2>3 DEF PublishEvent
<1>3. ASSUME NEW m \in Events \X Copies, AckEvent(m) PROVE UNCHANGED Ledger!vars
  <2>1. \A n \in Events \X Copies :
          \/ mail'[n].at = mail[n].at
          \/ {mail[n].at, mail'[n].at} \cap {"adding", "noting"} = {}
    BY <1>3 DEF AckEvent, PaymentsInv, TypeOK
  <2> QED
    BY <1>1, <1>3, <2>1 DEF AckEvent
<1>4. CASE UNCHANGED creditsVars
  BY <1>1, <1>4 DEF creditsVars
<1> QED
  BY <1>2, <1>3, <1>4
  DEF Next, Webhook, HandleHook, PublishBatch, HandleEvent, vars, creditsVars, Pay, DedupExpires,
      EarlierHook, ReceiveWebhook, PublishWebhook, AnswerWebhook, PublishFails, GatewayCrash,
      StoreHook, LockHook, ApplyHook, IgnoreHook, AckHook, ReturnHook, CreateRefund, CommitRefund,
      RefundCrash, TakeBatch, CommitBatch, FailBatch

\* One job changes; the others are as they were.
LEMMA OneJob ==
  ASSUME PaymentsInv, [Next]_vars, NEW m \in Events \X Copies,
         \A d \in Events \X Copies : d # m => mail'[d] = mail[d]
  PROVE  LedgerJobs' = [LedgerJobs EXCEPT ![m] = LedgerJob(m)']
<1>1. \A d \in Events \X Copies : d # m => LedgerJob(d)' = LedgerJob(d)
  BY JobKept
<1> QED
  BY <1>1 DEF LedgerJobs

\* The amounts that Credits finds for an event are the one that its row would have, or 0
\* if it would add none.
LEMMA AmountFound ==
  ASSUME PaymentsInv, NEW e \in Events
  PROVE  (IF Adds(e) THEN LedgerRow(e, 0).amount ELSE 0) \in Ledger!Amounts(Sent(e))
<1>1. CASE Granting(e)
  BY <1>1 DEF Ledger!Amounts, Ledger!Grants, Sent, LedgerEvent, LedgerRow, Adds
<1>2. CASE ~Granting(e)
  <2> DEFINE c == RefundOf[e[1]]
             grants == {g \in Entries : /\ g.account = Sent(e).account
                                        /\ g.type = "grant"
                                        /\ g.ref = Sent(e).invoice}
  <2>1. /\ e[1] \in Refunds /\ c \in Charges /\ c # NoId
        /\ Sent(e).account = Payer[c] /\ Sent(e).invoice = c /\ ~Ledger!Grants(Sent(e))
        /\ LedgerRow(e, 0).amount = -Credits[c]
    BY <1>2, ConstantsAssumption
       DEF Events, Granting, ChargeOf, Sent, LedgerEvent, LedgerRow, Ledger!Grants
  <2>2. ASSUME NEW r \in rows, LedgerRow(r.event, r.n) \in grants
        PROVE  GrantFound(e[1]) /\ LedgerRow(r.event, r.n).amount = Credits[c]
    BY <2>1, <2>2 DEF LedgerRow, GrantFound, Reference
  <2>3. ASSUME NEW r \in rows, Granting(r.event), Reference(r.event) = c
        PROVE  LedgerRow(r.event, r.n) \in grants
    BY <2>1, <2>3 DEF LedgerRow, Entries, Reference, Granting, ChargeOf
  <2>4. Ledger!Amounts(Sent(e)) = IF grants = {} THEN {0} ELSE {-g.amount : g \in grants}
    BY <2>1 DEF Ledger!Amounts
  <2>5. \A g \in grants : g.amount = Credits[c]
    BY <2>2 DEF Entries
  <2>6. GrantFound(e[1]) <=> grants # {}
    BY <2>2, <2>3 DEF GrantFound, Entries
  <2>7. Adds(e) <=> grants # {}
    BY <1>2, <2>6 DEF Adds
  <2> QED
    BY <2>1, <2>4, <2>5, <2>7
<1> QED
  BY <1>1, <1>2

LEMMA EventOfCredits ==
  ASSUME NEW e \in Events, NEW named \in BOOLEAN
  PROVE  LedgerEvent(e, named) \in LedgerEvents
  BY SMT DEF LedgerEvents

\* An event is noted by its id, which is no other event's.
LEMMA NotedById ==
  ASSUME NEW e \in Events
  PROVE  Sent(e).id \in LedgerNoted <=> e \in processed
  BY DEF LedgerNoted, Sent, LedgerEvent

LEMMA CheckImplements ==
  ASSUME PaymentsInv, [Next]_vars, NEW m \in Events \X Copies, CheckEvent(m)
  PROVE  UNCHANGED Ledger!vars \/ Ledger!Next
<1> DEFINE e == m[1]
<1>1. /\ mail[m].at = "ready" /\ UNCHANGED <<processed, rows>>
      /\ \A d \in Events \X Copies : d # m => mail'[d] = mail[d]
  BY DEF CheckEvent, PaymentsInv, TypeOK
<1>2. Entries' = Entries /\ LedgerNoted' = LedgerNoted
  BY <1>1, EntriesKept DEF Entries, LedgerNoted
<1>3. LedgerJobs' = [LedgerJobs EXCEPT ![m] = LedgerJob(m)']
  BY <1>1, OneJob
<1>4. LedgerJobs[m] = Ledger!Idle
  BY <1>1 DEF LedgerJobs, LedgerJob, Ledger!Idle
<1>5. CASE e \in processed
  <2>1. mail'[m].at = "done"
    BY <1>5 DEF CheckEvent, PaymentsInv, TypeOK
  <2>2. LedgerJob(m)' = LedgerJob(m)
    BY <1>1, <2>1, JobKept
  <2>3. LedgerJobs' = LedgerJobs
    BY <1>3, <2>2 DEF LedgerJobs
  <2> QED
    BY <1>2, <2>3 DEF Ledger!vars
<1>6. CASE e \notin processed
  <2> DEFINE amount == IF Adds(e) THEN LedgerRow(e, 0).amount ELSE 0
  <2>1. mail'[m].at = IF Adds(e) THEN "adding" ELSE "noting"
    BY <1>6 DEF CheckEvent, PaymentsInv, TypeOK
  <2>2. Sent(e)' = Sent(e) /\ LedgerRow(e, 0)'.amount = LedgerRow(e, 0).amount
    BY <1>1, EntriesKept DEF LedgerRow
  <2>3. LedgerJob(m)' = [pc |-> "handle", event |-> Sent(e), amount |-> amount]
    BY <2>1, <2>2 DEF LedgerJob
  <2>4. e \in Events
    OBVIOUS
  <2>5. amount \in Ledger!Amounts(Sent(e))
    BY <2>4, AmountFound
  <2>6. Sent(e).id \notin LedgerNoted /\ Sent(e) \in LedgerEvents
    <3>1. Sent(e) = LedgerEvent(e, TRUE) \/ Sent(e) = LedgerEvent(e, FALSE)
      BY DEF Sent
    <3>2. Sent(e) \in LedgerEvents
      BY <2>4, <3>1, EventOfCredits
    <3> QED
      BY <1>6, <2>4, <3>2, NotedById
  <2>7. Ledger!Consume(m, Sent(e))
    <3> HIDE DEF amount
    <3> QED
      BY <1>2, <1>3, <1>4, <2>3, <2>5, <2>6 DEF Ledger!Consume
  <2> QED
    BY <2>6, <2>7 DEF Ledger!Next, Ledger!Start
<1> QED
  BY <1>5, <1>6

\* Credits counts as Payments does.
LEMMA SameCardinality ==
  ASSUME NEW S
  PROVE  Ledger!Cardinality(S) = Cardinality(S)
  BY DEF Ledger!Cardinality, Cardinality

LEMMA CommitImplements ==
  ASSUME PaymentsInv, [Next]_vars, NEW m \in Events \X Copies, CommitEvent(m)
  PROVE  Ledger!Next
<1> DEFINE e == m[1]
           amount == IF mail[m].at = "adding" THEN LedgerRow(e, 0).amount ELSE 0
<1>1. /\ mail[m].at \in {"adding", "noting"} /\ e \notin processed /\ e \in Events
      /\ processed' = processed \cup {e} /\ mail'[m].at = "done"
      /\ \A d \in Events \X Copies : d # m => mail'[d] = mail[d]
  BY DEF CommitEvent, Unique, PaymentsInv, TypeOK
<1>2. LedgerJobs' = [LedgerJobs EXCEPT ![m] = Ledger!Idle]
  <2>1. LedgerJob(m)' = Ledger!Idle
    BY <1>1 DEF LedgerJob, Ledger!Idle
  <2> QED
    BY <1>1, <2>1, OneJob
<1>3. LedgerJobs[m] = [pc |-> "handle", event |-> Sent(e), amount |-> amount]
  BY <1>1 DEF LedgerJobs, LedgerJob
<1>4. Sent(e).id \notin LedgerNoted
  BY <1>1, NotedById
<1>5. LedgerNoted' = LedgerNoted \cup {Sent(e).id}
  <2>1. Sent(e)' = Sent(e)
    BY <1>1, EntriesKept
  <2>2. \A d \in processed : Sent(d)' = Sent(d)
    BY EntriesKept
  <2> QED
    BY <1>1, <2>1, <2>2 DEF LedgerNoted
<1>6. Entries' = IF amount = 0 THEN Entries ELSE Entries \cup {Ledger!EventEntry(Sent(e), amount)}
  <2>1. CASE mail[m].at = "noting"
    BY <1>1, <2>1, EntriesKept DEF CommitEvent, Entries
  <2>2. CASE mail[m].at = "adding"
    <3> DEFINE n == NewEntry(e).n
    <3>1. rows' = rows \cup {NewEntry(e)} /\ NewEntry(e).event = e
      BY <2>2 DEF CommitEvent, NewEntry
    <3>2. Entries' = Entries \cup {LedgerRow(e, n)}
      <4>1. PICK q : q = n
        OBVIOUS
      <4>2. LedgerRow(e, q)' = LedgerRow(e, q)
        BY <1>1, EntriesKept DEF LedgerRow
      <4>3. Entries' = {LedgerRow(r.event, r.n)' : r \in rows'}
        BY DEF Entries
      <4>4. NewEntry(e).event = e /\ NewEntry(e).n = q
        BY <3>1, <4>1
      <4> HIDE DEF n
      <4>5. Entries' = {LedgerRow(r.event, r.n)' : r \in rows} \cup {LedgerRow(e, q)'}
        BY <3>1, <4>3, <4>4
      <4> QED
        BY <4>1, <4>2, <4>5, EntriesKept
    <3>3. Ledger!EventEntry(Sent(e), amount) = LedgerRow(e, n)
      <4>1. /\ Sent(e).account = LedgerRow(e, 0).account
            /\ Sent(e).ref = LedgerRow(e, 0).ref
            /\ (IF Ledger!Grants(Sent(e)) THEN "grant" ELSE "clawback") = LedgerRow(e, 0).type
        BY DEF Sent, LedgerEvent, LedgerRow, Reference, Ledger!Grants
      <4>2. LedgerRow(e, n) = [type |-> LedgerRow(e, 0).type, account |-> LedgerRow(e, 0).account,
                               amount |-> amount, ref |-> LedgerRow(e, 0).ref, n |-> n]
        BY <2>2 DEF LedgerRow
      <4>3. Ledger!EventEntry(Sent(e), amount) =
              Ledger!Entry(LedgerRow(e, 0).type, LedgerRow(e, 0).account, amount,
                           LedgerRow(e, 0).ref)
        BY <4>1 DEF Ledger!EventEntry
      <4>4. n = Cardinality({x \in Entries : /\ x.type = LedgerRow(e, 0).type
                                             /\ x.account = LedgerRow(e, 0).account
                                             /\ x.ref = LedgerRow(e, 0).ref})
        BY DEF NewEntry
      <4> HIDE DEF n, amount
      <4>5. Ledger!Entry(LedgerRow(e, 0).type, LedgerRow(e, 0).account, amount,
                         LedgerRow(e, 0).ref) =
              [type |-> LedgerRow(e, 0).type, account |-> LedgerRow(e, 0).account,
               amount |-> amount, ref |-> LedgerRow(e, 0).ref, n |-> n]
        BY <4>4, SameCardinality DEF Ledger!Entry
      <4> QED
        BY <4>2, <4>3, <4>5
    <3>4. amount # 0
      <4>1. ChargeOf(e[1]) \in Charges /\ (Granting(e) => e[1] \in Charges)
        BY <1>1, ConstantsAssumption DEF ChargeOf, Events, Granting
      <4> QED
        BY <2>2, <4>1, ConstantsAssumption DEF LedgerRow
    <3> QED
      BY <3>2, <3>3, <3>4
  <2> QED
    BY <1>1, <2>1, <2>2
<1>7. Ledger!CommitEvent(m)
  <2> HIDE DEF amount
  <2> QED
    BY <1>2, <1>3, <1>4, <1>5, <1>6 DEF Ledger!CommitEvent, Ledger!Duplicate, Ledger!Finish
<1> QED
  BY <1>7 DEF Ledger!Next, Ledger!Continue

LEMMA ReturnImplements ==
  ASSUME PaymentsInv, [Next]_vars, NEW m \in Events \X Copies, ReturnEvent(m)
  PROVE  UNCHANGED Ledger!vars \/ Ledger!Next
<1>1. /\ UNCHANGED <<processed, rows>> /\ mail'[m].at \in {"ready", "dead"}
      /\ \A d \in Events \X Copies : d # m => mail'[d] = mail[d]
  <2>1. UNCHANGED <<processed, rows>> /\ mail' = Returned(mail, m)
    BY DEF ReturnEvent
  <2>2. mail \in [Events \X Copies -> [at : MailStates, tries : 0..Limit]]
    BY DEF PaymentsInv, TypeOK
  <2>3. CASE mail[m].tries = Limit
    BY <2>1, <2>2, <2>3 DEF Returned
  <2>4. CASE mail[m].tries # Limit
    BY <2>1, <2>2, <2>4 DEF Returned
  <2> QED
    BY <2>3, <2>4
<1>2. Entries' = Entries /\ LedgerNoted' = LedgerNoted
  BY <1>1, EntriesKept DEF Entries, LedgerNoted
<1>3. LedgerJobs' = [LedgerJobs EXCEPT ![m] = Ledger!Idle]
  <2>1. LedgerJob(m)' = Ledger!Idle
    BY <1>1 DEF LedgerJob, Ledger!Idle
  <2> QED
    BY <1>1, <2>1, OneJob
<1>4. CASE LedgerJobs[m] = Ledger!Idle
  <2>1. LedgerJobs' = LedgerJobs
    BY <1>3, <1>4 DEF LedgerJobs
  <2> QED
    BY <1>2, <2>1 DEF Ledger!vars
<1>5. CASE LedgerJobs[m] # Ledger!Idle
  <2>1. Ledger!Crash(m)
    BY <1>2, <1>3, <1>5 DEF Ledger!Crash, Ledger!Finish
  <2> QED
    BY <2>1 DEF Ledger!Next
<1> QED
  BY <1>4, <1>5

\* What billing-service sends is what Credits assumes of its events.
THEOREM EventsAsAssumed ==
  /\ \A e \in LedgerEvents : /\ e.type \in Ledger!EventTypes
                             /\ e.account \in Accounts
                             /\ e.credits \in Nat
                             /\ {e.ref, e.invoice} \subseteq Charges \cup {NoId}
  /\ \A e, f \in LedgerEvents : e.id = f.id => e = f
<1>1. \A e \in Events : ChargeOf(e[1]) \in Charges
  BY ConstantsAssumption DEF Events, ChargeOf
<1> QED
  BY <1>1, ConstantsAssumption DEF LedgerEvents, LedgerEvent, Ledger!EventTypes, Granting

\* Every behaviour of Payments is, seen from credits-service, a behaviour of Credits: the
\* handlers of its queue take only steps that Credits has, on the events that billing-service
\* sends, whatever is repeated, returned or lost before them.
THEOREM LedgerIsImplemented == Spec => LedgerSpec
<1>1. Init => Ledger!Init
  <2> SUFFICES ASSUME Init PROVE Ledger!Init
    OBVIOUS
  <2>1. Entries = {} /\ LedgerNoted = {}
    BY DEF Init, Entries, LedgerNoted
  <2>2. LedgerJobs = [m \in Events \X Copies |-> Ledger!Idle]
    BY DEF Init, LedgerJobs, LedgerJob, Unsent, Ledger!Idle
  <2>3. Nowhere = [l \in {} |-> Ledger!NoRow]
    BY DEF Nowhere
  <2>4. Nowhere = [p \in Ledger!Intents |-> "none"]
    BY DEF Nowhere, Ledger!Intents
  <2> QED
    BY <2>1, <2>2, <2>3, <2>4 DEF Ledger!Init
<1>2. PaymentsInv /\ [Next]_vars => [UNCHANGED Ledger!vars \/ Ledger!Next]_(Ledger!vars)
  BY UnseenByLedger, CheckImplements, CommitImplements, ReturnImplements
<1> QED
  BY <1>1, <1>2, PaymentsInvariant, PTL DEF Spec, LedgerSpec

-----------------------------------------------------------------------------
(* Subscriptions. *)

\* A webhook was told in a state in which Stripe sends its kind.
ToldFit == \A w \in Webhooks : webhook[w] # Untold => Tells(webhook[w].kind, webhook[w].told.status)

\* Who has read a row has read one that exists, and a row does not cease to exist.
RowsFit ==
  /\ \A w \in Webhooks : webhook[w].at = "read" => row # NoRow
  /\ \A r \in PlanRequests :
       /\ request[r] # NoRequest => row # NoRow
       /\ request[r].at \in {"called", "merged"} =>
            request[r].row.status \in {"active", "canceling"}

\* The lock keeps the row as the poller has read it.
PollerFits ==
  Locked => /\ row.status = "past_due" /\ row.grace # None
            /\ poller.read = row

\* A payment that is recorded stands in the row.
PaidFits == paidUp => row.status # "past_due"

DowngradeInv == SubscriptionsTypeOK /\ ToldFit /\ RowsFit /\ PollerFits /\ PaidFits

\* What a webhook makes of the row it has read has a status that is no downgrade.
LEMMA AppliedFits ==
  ASSUME NEW w \in Webhooks, NEW old \in Rows \cup {NoRow},
         SubscriptionsTypeOK, ToldFit, webhook[w].at = "read"
  PROVE  Applied(w, old) \in [plan : Plans \cup {"free"}, sub : Subs \cup {None}, item : BOOLEAN,
                              grace : Webhooks \cup {None},
                              status : {"active", "past_due", "canceling", "canceled"}]
<1>1. /\ webhook[w] # Untold
      /\ webhook[w].kind \in Kinds /\ webhook[w].sub \in Subs
      /\ webhook[w].told \in StripeStates
  BY DEF SubscriptionsTypeOK, Untold
<1>2. Tells(webhook[w].kind, webhook[w].told.status)
  BY <1>1 DEF ToldFit
<1>3. old \in [plan : Plans \cup {"free"}, sub : Subs \cup {None}, item : BOOLEAN,
              grace : Webhooks \cup {None}, status : {"active", "past_due", "canceling", "canceled",
                                            "downgraded", "none"}]
  <2>1. CASE old \in Rows
    BY <2>1 DEF Rows
  <2>2. CASE old = NoRow
    <3>1. /\ "free" \in Plans \cup {"free"} /\ None \in Subs \cup {None} /\ FALSE \in BOOLEAN
          /\ None \in Webhooks \cup {None}
      OBVIOUS
    <3>. QED  BY <2>2, <3>1 DEF NoRow
  <2>. QED  BY <2>1, <2>2
<1>4. CASE webhook[w].kind = "paid"
  BY <1>3, <1>4 DEF Applied
<1>5. CASE webhook[w].kind = "failed"
  BY <1>3, <1>5 DEF Applied
<1>6. CASE webhook[w].kind = "deleted"
  BY <1>1, <1>3, <1>6 DEF Applied
<1>7. CASE webhook[w].kind = "updated"
  BY <1>1, <1>2, <1>3, <1>7 DEF Applied, Tells, StripeStates
<1>. QED  BY <1>1, <1>4, <1>5, <1>6, <1>7 DEF Kinds

\* What it writes into a row that exists leaves a row, downgraded only if it was.
LEMMA WrittenFits ==
  ASSUME NEW old \in Rows \cup {NoRow}, NEW now \in Rows, NEW new \in Rows
  PROVE  /\ Written(old, new, now) \in Rows
         /\ \A c \in DOMAIN now : Written(old, new, now)[c] \in {new[c], now[c]}
         /\ old.status = now.status => Written(old, new, now).status = new.status
<1>1. DOMAIN now = {"plan", "sub", "item", "grace", "status"}
  BY DEF Rows
<1>2. \A c \in DOMAIN now : Written(old, new, now)[c] \in {new[c], now[c]}
  BY DEF Written
<1>3. Written(old, new, now) =
        [plan |-> Written(old, new, now).plan, sub |-> Written(old, new, now).sub,
         item |-> Written(old, new, now).item, grace |-> Written(old, new, now).grace,
         status |-> Written(old, new, now).status]
  BY <1>1 DEF Written
<1>4. old.status = now.status => Written(old, new, now).status = new.status
  BY <1>1 DEF Written
<1>. QED  BY <1>1, <1>2, <1>3, <1>4 DEF Rows

LEMMA SubscriptionsStart == SubscriptionsInit => DowngradeInv
<1>. SUFFICES ASSUME SubscriptionsInit PROVE DowngradeInv
  OBVIOUS
<1>1. stripe \in [Subs -> StripeStates]
  BY DEF SubscriptionsInit, StripeStates
<1>2. paidUp \in BOOLEAN /\ PaidFits
  BY DEF SubscriptionsInit, PaidFits
<1>3. ToldFit /\ RowsFit /\ PollerFits
  BY DEF SubscriptionsInit, ToldFit, RowsFit, PollerFits, NoRequest, Untold, Locked
<1>4. NoRow \in Rows \cup {NoRow}
  OBVIOUS
<1>. QED  BY <1>1, <1>2, <1>3, <1>4 DEF SubscriptionsInit, DowngradeInv, SubscriptionsTypeOK

\* Only five steps write the row, and none of them while the poller has it locked but its
\* own; none but its own makes a downgraded row of one that is not.
LEMMA RowStep ==
  ASSUME DowngradeInv, [SubscriptionsNext]_subscriptionVars
  PROVE  /\ row' \in Rows \cup {NoRow}
         /\ row # NoRow => row' # NoRow
         /\ Locked /\ Locked' => row' = row
         /\ paidUp' \in BOOLEAN /\ PaidFits'
         /\ row'.status = "downgraded" /\ row.status # "downgraded" =>
              ~paidUp /\ row.sub = poller.read.sub
<1>. USE DEF DowngradeInv
<1>1. CASE Provision
  BY <1>1 DEF Provision, Provisioned, Rows, NoRow, PollerFits, PaidFits, SubscriptionsTypeOK
<1>2. ASSUME NEW r \in PlanRequests, CommitChange(r)
      PROVE  /\ row' \in Rows /\ ~Locked
             /\ row'.status \in {"active", "canceling", row.status}
             /\ paidUp' \in BOOLEAN /\ PaidFits'
  <2>1. /\ request[r] # NoRequest
        /\ request[r].row \in Rows /\ request[r].loaded \in Rows \cup {NoRow}
        /\ request[r].row.status \in {"active", "canceling"}
    BY <1>2 DEF CommitChange, SubscriptionsTypeOK, RowsFit, NoRequest
  <2>2. row \in Rows
    BY <2>1 DEF SubscriptionsTypeOK, RowsFit
  <2>3. row' = Written(request[r].loaded, request[r].row, row) /\ ~Locked /\ paidUp' = paidUp
    BY <1>2 DEF CommitChange
  <2>4. row' \in Rows /\ row'.status \in {request[r].row.status, row.status}
    BY <2>1, <2>2, <2>3, WrittenFits DEF Rows
  <2>. QED  BY <2>1, <2>3, <2>4 DEF PaidFits, SubscriptionsTypeOK
<1>3. ASSUME NEW w \in Webhooks, CommitWebhook(w)
      PROVE  /\ row' \in Rows /\ ~Locked
             /\ row'.status = "downgraded" => row.status = "downgraded"
             /\ paidUp' \in BOOLEAN /\ PaidFits'
  <2>1. row \in Rows /\ webhook[w].read \in Rows \cup {NoRow} /\ webhook[w].at = "read"
    BY <1>3 DEF CommitWebhook, SubscriptionsTypeOK, RowsFit, Untold
  <2>2. /\ Applied(w, webhook[w].read) \in Rows
        /\ Applied(w, webhook[w].read).status # "downgraded"
    BY <2>1, AppliedFits DEF Rows
  <2>3. /\ row' \in Rows
        /\ row'.status \in {Applied(w, webhook[w].read).status, row.status}
        /\ webhook[w].read.status = row.status =>
             row'.status = Applied(w, webhook[w].read).status
    BY <1>3, <2>1, <2>2, WrittenFits DEF CommitWebhook, Rows
  <2>4. paidUp' = Settled(w) /\ paidUp \in BOOLEAN
    BY <1>3 DEF CommitWebhook, SubscriptionsTypeOK
  <2>5. paidUp' \in BOOLEAN
    BY <2>4 DEF Settled
  <2>6. webhook[w].kind = "paid" => PaidFits'
    <3>. SUFFICES ASSUME webhook[w].kind = "paid", paidUp' PROVE row'.status # "past_due"
      BY <2>5 DEF PaidFits
    <3>1. Applied(w, webhook[w].read).status = "active"
      <4>1. \A old \in Rows \cup {NoRow} :
              [old EXCEPT !.status = "active", !.grace = None].status = "active"
        BY DEF Rows, NoRow
      <4>. QED  BY <2>1, <4>1 DEF Applied
    <3>2. row'.status = "active" \/ (row'.status = row.status /\ webhook[w].read.status # row.status)
      BY <2>3, <3>1
    <3>3. paidUp' => paidUp \/ webhook[w].read.status = row.status
      BY <2>4 DEF Settled
    <3>4. paidUp => row.status # "past_due"
      BY Zenon DEF PaidFits
    <3>. QED  BY <3>2, <3>3, <3>4
  <2>7. webhook[w].kind # "paid" => PaidFits'
    <3>. SUFFICES ASSUME webhook[w].kind # "paid", paidUp' PROVE row'.status # "past_due"
      BY <2>5 DEF PaidFits
    <3>1. paidUp' => paidUp /\ Applied(w, webhook[w].read).status # "past_due"
      BY <2>4 DEF Settled
    <3>2. paidUp => row.status # "past_due"
      BY Zenon DEF PaidFits
    <3>. QED  BY <2>3, <3>1, <3>2
  <2>. QED  BY <1>3, <2>2, <2>3, <2>5, <2>6, <2>7 DEF CommitWebhook
<1>4. ASSUME CommitDowngrade
      PROVE  /\ row' \in Rows /\ ~Locked'
             /\ ~paidUp /\ row.sub = poller.read.sub
             /\ paidUp' \in BOOLEAN /\ PaidFits'
  <2>1. Locked /\ poller.read = row /\ row \in Rows
    BY <1>4 DEF CommitDowngrade, Locked, PollerFits, SubscriptionsTypeOK, NoRow
  <2>2. [poller.read EXCEPT !.plan = "free", !.status = "downgraded", !.grace = None] \in Rows
    <3>1. None \in Webhooks \cup {None}
      OBVIOUS
    <3>. QED  BY <2>1, <3>1 DEF Rows
  <2>3. row' \in Rows
    BY <1>4, <2>1, <2>2, WrittenFits DEF CommitDowngrade
  <2>4. ~paidUp /\ paidUp' = paidUp
    BY <1>4, <2>1 DEF CommitDowngrade, PollerFits, PaidFits
  <2>. QED  BY <1>4, <2>1, <2>3, <2>4
            DEF CommitDowngrade, Locked, PaidFits, SubscriptionsTypeOK
<1>5. CASE UNCHANGED <<row, paidUp>>
  BY <1>5 DEF SubscriptionsTypeOK, PaidFits
<1>6. \/ Provision \/ CommitDowngrade \/ UNCHANGED <<row, paidUp>>
      \/ \E r \in PlanRequests : CommitChange(r)
      \/ \E w \in Webhooks : CommitWebhook(w)
  BY DEF SubscriptionsNext, Serve, Handle, Poll, subscriptionVars, PayCheckout, RenewalFails,
         RenewalPaid, Cancelled, Tell, ReadForCheckout, OpenCheckout, ReadForChange, CallStripe,
         MergeChange, RequestEnds, ReadForWebhook, WebhookRaises, TakeOverdue, CancelOverdue, PollerRaises,
         Restart
<1>7. NoRow \notin Rows
  BY DEF NoRow, Rows
<1>. QED  BY <1>1, <1>2, <1>3, <1>4, <1>5, <1>6, <1>7

LEMMA StripeStep ==
  ASSUME DowngradeInv, [SubscriptionsNext]_subscriptionVars
  PROVE  stripe' \in [Subs -> StripeStates]
<1>. USE DEF DowngradeInv, SubscriptionsTypeOK, StripeStates
<1>0. /\ \A t \in StripeStates : [t EXCEPT !.ending = TRUE] \in StripeStates
      /\ \A t \in StripeStates, plan \in Plans \cup {"free"} :
           [t EXCEPT !.plan = plan, !.ending = FALSE] \in StripeStates
  <2>1. TRUE \in BOOLEAN /\ FALSE \in BOOLEAN
    OBVIOUS
  <2>. QED  BY <2>1
<1>1. ASSUME NEW s \in Subs, PayCheckout(s) \/ RenewalFails(s) \/ RenewalPaid(s) \/ Cancelled(s)
      PROVE  stripe' \in [Subs -> StripeStates]
  BY <1>1 DEF PayCheckout, RenewalFails, RenewalPaid, Cancelled
<1>2. ASSUME NEW r \in PlanRequests, NEW s \in Subs, OpenCheckout(r, s)
      PROVE  stripe' \in [Subs -> StripeStates]
  BY <1>2 DEF OpenCheckout, NoRequest
<1>3. ASSUME NEW r \in PlanRequests, CallStripe(r)
      PROVE  stripe' \in [Subs -> StripeStates]
  <2>1. request[r].plan \in Plans \cup {"free"}
    <3>1. request[r].at = "change"
      BY <1>3 DEF CallStripe
    <3>2. request[r] # NoRequest
      BY <3>1 DEF NoRequest
    <3>. QED  BY <3>2
  <2>2. \A t \in Subs : /\ [stripe[t] EXCEPT !.ending = TRUE] \in StripeStates
                       /\ [stripe[t] EXCEPT !.plan = request[r].plan, !.ending = FALSE]
                            \in StripeStates
    <3>. HIDE DEF StripeStates
    <3>. QED  BY <1>0, <2>1
  <2>. QED  BY <1>3, <2>2 DEF CallStripe
<1>4. CASE CancelOverdue
  <2>1. \A t \in Subs : [stripe[t] EXCEPT !.ending = TRUE] \in StripeStates
    BY <1>0
  <2>. QED  BY <1>4, <2>1 DEF CancelOverdue
<1>5. CASE UNCHANGED stripe
  BY <1>5
<1>6. \/ UNCHANGED stripe \/ CancelOverdue
      \/ \E s \in Subs : PayCheckout(s) \/ RenewalFails(s) \/ RenewalPaid(s) \/ Cancelled(s)
      \/ \E r \in PlanRequests : CallStripe(r) \/ \E s \in Subs : OpenCheckout(r, s)
  BY DEF SubscriptionsNext, Serve, Handle, Poll, subscriptionVars, Provision, Tell,
         ReadForCheckout, ReadForChange, MergeChange, CommitChange, RequestEnds, ReadForWebhook,
         CommitWebhook, WebhookRaises, TakeOverdue, CommitDowngrade, PollerRaises, Restart
<1>. QED  BY <1>1, <1>2, <1>3, <1>4, <1>5, <1>6

\* The parts of DowngradeInv that speak of webhooks.
WebhooksFit ==
  /\ webhook \in [Webhooks -> {Untold} \cup
       [at : {"ready", "read", "done"}, kind : Kinds, sub : Subs, told : StripeStates,
        read : Rows \cup {NoRow}]]
  /\ ToldFit
  /\ \A w \in Webhooks : webhook[w].at = "read" => row # NoRow

LEMMA WebhookStep ==
  ASSUME DowngradeInv, [SubscriptionsNext]_subscriptionVars
  PROVE  WebhooksFit'
<1>. DEFINE Tolds == [at : {"ready", "read", "done"}, kind : Kinds, sub : Subs,
                      told : StripeStates, read : Rows \cup {NoRow}]
<1>1. WebhooksFit
  BY DEF DowngradeInv, SubscriptionsTypeOK, RowsFit, WebhooksFit
<1>2. row # NoRow => row' # NoRow
  BY RowStep
<1>3. ASSUME NEW w \in Webhooks, NEW kind \in Kinds, NEW s \in Subs, Tell(w, kind, s)
      PROVE  WebhooksFit'
  <2>1. stripe[s] \in StripeStates
    BY DEF DowngradeInv, SubscriptionsTypeOK
  <2>2. NoRow \in Rows \cup {NoRow}
    OBVIOUS
  <2>3. PICK new \in Tolds : /\ webhook' = [webhook EXCEPT ![w] = new]
                             /\ new.at = "ready" /\ Tells(new.kind, new.told.status)
    <3>. DEFINE new == [at |-> "ready", kind |-> kind, sub |-> s, told |-> stripe[s],
                        read |-> NoRow]
    <3>1. new \in Tolds
      BY <2>1, <2>2
    <3>2. /\ webhook' = [webhook EXCEPT ![w] = new]
          /\ new.at = "ready" /\ Tells(new.kind, new.told.status)
      BY <1>3 DEF Tell
    <3>. QED  BY <3>1, <3>2
  <2>. QED  BY <1>1, <1>2, <2>3 DEF WebhooksFit, ToldFit
<1>4. ASSUME NEW w \in Webhooks, ReadForWebhook(w)
      PROVE  WebhooksFit'
  <2>1. /\ webhook[w] \in Tolds /\ webhook[w] # Untold /\ row \in Rows /\ row # NoRow
    BY <1>1, <1>4 DEF ReadForWebhook, WebhooksFit, Untold, DowngradeInv, SubscriptionsTypeOK
  <2>2. PICK new \in Tolds : /\ webhook' = [webhook EXCEPT ![w] = new]
                             /\ new.kind = webhook[w].kind /\ new.told = webhook[w].told
    <3>. DEFINE new == [webhook[w] EXCEPT !.at = "read", !.read = row]
    <3>1. webhook' = [webhook EXCEPT ![w] = new]
      BY <1>1, <1>4 DEF ReadForWebhook, WebhooksFit
    <3>2. new \in Tolds /\ new.kind = webhook[w].kind /\ new.told = webhook[w].told
      BY <2>1
    <3>. QED  BY <3>1, <3>2
  <2>. QED  BY <1>1, <1>2, <2>1, <2>2 DEF WebhooksFit, ToldFit
<1>5. ASSUME NEW w \in Webhooks, CommitWebhook(w) \/ WebhookRaises(w)
      PROVE  WebhooksFit'
  <2>1. webhook[w] \in Tolds /\ webhook[w] # Untold
    BY <1>1, <1>5 DEF CommitWebhook, WebhookRaises, WebhooksFit, Untold
  <2>2. PICK new \in Tolds : /\ webhook' = [webhook EXCEPT ![w] = new] /\ new.at # "read"
                             /\ new.kind = webhook[w].kind /\ new.told = webhook[w].told
    <3>1. NoRow \in Rows \cup {NoRow}
      OBVIOUS
    <3>. QED  BY <1>1, <1>5, <2>1, <3>1 DEF CommitWebhook, WebhookRaises, WebhooksFit
  <2>. QED  BY <1>1, <1>2, <2>1, <2>2 DEF WebhooksFit, ToldFit
<1>6. CASE UNCHANGED webhook
  BY <1>1, <1>2, <1>6 DEF WebhooksFit, ToldFit
<1>7. \/ UNCHANGED webhook
      \/ \E w \in Webhooks : \/ \E kind \in Kinds, s \in Subs : Tell(w, kind, s)
                             \/ ReadForWebhook(w) \/ CommitWebhook(w) \/ WebhookRaises(w)
  BY DEF SubscriptionsNext, Serve, Handle, Poll, subscriptionVars, Provision, PayCheckout,
         RenewalFails, RenewalPaid, Cancelled, ReadForCheckout, OpenCheckout, ReadForChange,
         CallStripe, MergeChange, CommitChange, RequestEnds, TakeOverdue, CancelOverdue, CommitDowngrade,
         PollerRaises, Restart
<1>. QED  BY <1>3, <1>4, <1>5, <1>6, <1>7

\* And those that speak of plan changes and checkouts.
Changes == [at : {"change", "called", "merged", "checkout"}, plan : Plans \cup {"free"},
            row : Rows, loaded : Rows \cup {NoRow}]

ChangesFit ==
  /\ request \in [PlanRequests -> {NoRequest} \cup Changes]
  /\ \A r \in PlanRequests :
       /\ request[r] # NoRequest => row # NoRow
       /\ request[r].at \in {"called", "merged"} =>
            request[r].row.status \in {"active", "canceling"}

LEMMA ChangeStep ==
  ASSUME DowngradeInv, [SubscriptionsNext]_subscriptionVars
  PROVE  ChangesFit'
<1>1. ChangesFit /\ row \in Rows \cup {NoRow} /\ NoRow \in Rows \cup {NoRow}
  BY DEF DowngradeInv, SubscriptionsTypeOK, RowsFit, ChangesFit, Changes
<1>2. row # NoRow => row' # NoRow
  BY RowStep
<1>3. ASSUME NEW r \in PlanRequests, NEW new \in Changes \cup {NoRequest},
             request' = [request EXCEPT ![r] = new],
             new # NoRequest => row # NoRow,
             new.at \in {"called", "merged"} => new.row.status \in {"active", "canceling"}
      PROVE  ChangesFit'
  BY <1>1, <1>2, <1>3 DEF ChangesFit
<1>4. ASSUME NEW r \in PlanRequests, NEW plan \in Plans \cup {"free"},
             ReadForCheckout(r, plan) \/ ReadForChange(r, plan)
      PROVE  ChangesFit'
  <2>1. row \in Rows /\ row # NoRow
    BY <1>1, <1>4 DEF ReadForCheckout, ReadForChange
  <2>2. PICK at \in {"change", "checkout"} : request' = [request EXCEPT ![r] =
          [at |-> at, plan |-> plan, row |-> row, loaded |-> NoRow]]
    BY <1>4 DEF ReadForCheckout, ReadForChange
  <2>3. /\ [at |-> at, plan |-> plan, row |-> row, loaded |-> NoRow] \in Changes
        /\ [at |-> at, plan |-> plan, row |-> row, loaded |-> NoRow].at
             \notin {"called", "merged"}
    BY <1>1, <2>1 DEF Changes
  <2>. QED  BY <1>3, <2>1, <2>2, <2>3
<1>5. ASSUME NEW r \in PlanRequests, request[r] # NoRequest
      PROVE  request[r] \in Changes /\ row # NoRow
  BY <1>1, <1>5 DEF ChangesFit
<1>6. ASSUME NEW r \in PlanRequests, CallStripe(r)
      PROVE  ChangesFit'
  <2>1. request[r] \in Changes /\ row # NoRow
    <3>1. request[r].at = "change"
      BY <1>6 DEF CallStripe
    <3>. QED  BY <1>5, <3>1 DEF NoRequest
  <2>2. /\ ChangedRow(request[r]) \in Rows
        /\ ChangedRow(request[r]).status \in {"active", "canceling"}
    BY <2>1 DEF Changes, ChangedRow, Rows
  <2>3. PICK new \in Changes : /\ request' = [request EXCEPT ![r] = new]
                               /\ new.row.status \in {"active", "canceling"}
    <3>. DEFINE new == [request[r] EXCEPT !.at = "called", !.row = ChangedRow(request[r])]
    <3>1. request' = [request EXCEPT ![r] = new]
      BY <1>1, <1>6 DEF CallStripe, ChangesFit
    <3>2. new \in Changes /\ new.row = ChangedRow(request[r])
      BY <2>1, <2>2 DEF Changes
    <3>. HIDE DEF new
    <3>. QED  BY <2>2, <3>1, <3>2
  <2>. QED  BY <1>3, <2>1, <2>3
<1>7. ASSUME NEW r \in PlanRequests, MergeChange(r)
      PROVE  ChangesFit'
  <2>1. request[r] \in Changes /\ row # NoRow /\ request[r].at = "called"
    BY <1>5, <1>7 DEF MergeChange, NoRequest
  <2>2. request[r].row.status \in {"active", "canceling"}
    BY <1>1, <2>1 DEF ChangesFit
  <2>3. PICK new \in Changes : /\ request' = [request EXCEPT ![r] = new]
                               /\ new.row.status \in {"active", "canceling"}
    <3>. DEFINE new == [request[r] EXCEPT !.at = "merged", !.loaded = row]
    <3>1. request' = [request EXCEPT ![r] = new]
      BY <1>1, <1>7 DEF MergeChange, ChangesFit
    <3>2. new \in Changes /\ new.row = request[r].row
      BY <1>1, <2>1 DEF Changes
    <3>. HIDE DEF new
    <3>. QED  BY <2>2, <3>1, <3>2
  <2>. QED  BY <1>3, <2>1, <2>3
<1>8. ASSUME NEW r \in PlanRequests, request' = [request EXCEPT ![r] = NoRequest]
      PROVE  ChangesFit'
  <2>1. NoRequest.at \notin {"called", "merged"}
    BY DEF NoRequest
  <2>. QED  BY <1>3, <1>8, <2>1
<1>9. CASE UNCHANGED request
  BY <1>1, <1>2, <1>9 DEF ChangesFit
<1>10. \/ UNCHANGED request
       \/ \E r \in PlanRequests :
            \/ \E plan \in Plans \cup {"free"} : ReadForCheckout(r, plan) \/ ReadForChange(r, plan)
            \/ CallStripe(r)
            \/ MergeChange(r)
            \/ request' = [request EXCEPT ![r] = NoRequest]
  BY DEF SubscriptionsNext, Serve, Handle, Poll, subscriptionVars, Provision, PayCheckout,
         RenewalFails, RenewalPaid, Cancelled, Tell, OpenCheckout, CommitChange, RequestEnds,
         ReadForWebhook, CommitWebhook, WebhookRaises, TakeOverdue, CancelOverdue,
         CommitDowngrade, PollerRaises, Restart
<1>. QED  BY <1>4, <1>6, <1>7, <1>8, <1>9, <1>10

LEMMA PollerStep ==
  ASSUME DowngradeInv, [SubscriptionsNext]_subscriptionVars
  PROVE  /\ poller' \in [at : {"idle", "locked", "called", "dead"}, read : Rows \cup {NoRow}]
         /\ PollerFits'
<1>. USE DEF DowngradeInv, SubscriptionsTypeOK
<1>1. CASE TakeOverdue
  BY <1>1 DEF TakeOverdue, PollerFits
<1>2. CASE CancelOverdue
  BY <1>2 DEF CancelOverdue, PollerFits, Locked
<1>3. CASE poller' = [at |-> "idle", read |-> NoRow] \/ poller' = [at |-> "dead", read |-> NoRow]
  <2>1. NoRow \in Rows \cup {NoRow}
    OBVIOUS
  <2>. QED  BY <1>3, <2>1 DEF PollerFits, Locked
<1>4. CASE UNCHANGED poller
  <2>1. Locked' = Locked
    BY <1>4 DEF Locked
  <2>. QED  BY <1>4, <2>1, RowStep DEF PollerFits
<1>5. \/ TakeOverdue \/ CancelOverdue \/ UNCHANGED poller
      \/ poller' = [at |-> "idle", read |-> NoRow] \/ poller' = [at |-> "dead", read |-> NoRow]
  BY DEF SubscriptionsNext, Serve, Handle, Poll, subscriptionVars, Provision, PayCheckout,
         RenewalFails, RenewalPaid, Cancelled, Tell, ReadForCheckout, OpenCheckout,
         ReadForChange, CallStripe, MergeChange, CommitChange, RequestEnds, ReadForWebhook,
         CommitWebhook,
         WebhookRaises, CommitDowngrade, PollerRaises, Restart
<1>. QED  BY <1>1, <1>2, <1>3, <1>4, <1>5

LEMMA DowngradeStep == DowngradeInv /\ [SubscriptionsNext]_subscriptionVars => DowngradeInv'
<1>. SUFFICES ASSUME DowngradeInv, [SubscriptionsNext]_subscriptionVars  PROVE DowngradeInv'
  OBVIOUS
<1>1. row' \in Rows \cup {NoRow} /\ paidUp' \in BOOLEAN /\ PaidFits'
  BY RowStep
<1>. QED  BY <1>1, StripeStep, WebhookStep, ChangeStep, PollerStep
          DEF DowngradeInv, SubscriptionsTypeOK, RowsFit, WebhooksFit, ChangesFit, Changes

\* billing.py:359-388 (downgrade_overdue): the row of a subscription becomes downgraded only
\* while no payment is recorded that the last failed one precedes, and it names the
\* subscription that Stripe was told to end, whatever plan changes and webhooks write it.
THEOREM DowngradesAreJust == SubscriptionsSpec => DowngradeIsJust
<1>1. DowngradeInv /\ [SubscriptionsNext]_subscriptionVars
        => [row'.status = "downgraded" /\ row.status # "downgraded" =>
              ~paidUp /\ row.sub = poller.read.sub]_subscriptionVars
  BY RowStep
<1>. QED  BY <1>1, SubscriptionsStart, DowngradeStep, PTL DEF SubscriptionsSpec, DowngradeIsJust

\* models.py:34-52 and what Stripe, the webhooks and the requests hold of them.
THEOREM SubscriptionsTypeCorrect == SubscriptionsSpec => []SubscriptionsTypeOK
<1>1. DowngradeInv => SubscriptionsTypeOK
  BY DEF DowngradeInv
<1>. QED  BY <1>1, SubscriptionsStart, DowngradeStep, PTL DEF SubscriptionsSpec
=============================================================================
