------------------------------ MODULE Credits -------------------------------
(***************************************************************************)
(* credits-service: the append-only credit ledger, consumption of credits, *)
(* billing events, and the marketplace (listing, reservation, escrow       *)
(* purchase, transfer), with the HTTP requests and message handlers that   *)
(* run concurrently against one PostgreSQL database.                       *)
(*                                                                         *)
(* Sessions run at READ COMMITTED (no isolation level is configured), so a *)
(* transaction that reads, decides and writes is two steps here: others    *)
(* may commit in between. A row taken FOR UPDATE stays locked from the     *)
(* first step to the second; a transaction that only reads and writes one  *)
(* locked row is a single step. An operation that the code refuses changes *)
(* nothing and is no step, unless a request already in flight ends by it.  *)
(***************************************************************************)
EXTENDS Integers, FiniteSets, FiniteSetsExt

CONSTANTS
  Accounts,   \* tenant accounts
  Listings,   \* identifiers of the listings that may be created
  Offer,      \* [Listings -> [seller, credits]]: the columns no operation changes
  Refs,       \* reference ids that clients send to /consume
  Invoices,   \* ids of invoices, payment intents and refunds that events carry
  Usage,      \* [Refs -> [account, amount]]: what is consumed under each of them
  Events,     \* billing events: [id, type, account, credits, ref, invoice]
  Opening,    \* ledger rows of accounts that already hold credits
  Requests,   \* slots for the requests and handlers in flight: bounds concurrency
  None

Positive == Nat \ {0}

EventTypes == {"invoice.paid", "credits.purchased", "refund.issued"}

\* Stripe returns one PaymentIntent per (listing, buyer): the idempotency key.
Intents == Listings \X Accounts

EntryTypes == {"grant", "usage", "purchase", "sale", "clawback"}

\* `n` tells rows with the same reference apart, as their uuid does.
Entries == [type : EntryTypes, account : Accounts, amount : Int,
            ref : UNION {Refs, Intents, Invoices}, n : Nat]

Grants(e) == e.type # "refund.issued"

ASSUME OfferAssumption ==
  Offer \in [Listings -> [seller : Accounts, credits : Positive]]

ASSUME UsageAssumption ==
  Usage \in [Refs -> [account : Accounts, amount : Positive]]

\* `credits` is what the plan or the pack grants (0 for the free plan), `ref` the id of
\* the invoice, payment intent or refund that the event's ledger row will carry, and
\* `invoice` what a refund refunds. Event ids and client references are distinct uuids;
\* `ref` is not: billing-service may send the same text for several events.
ASSUME EventsAssumption ==
  /\ \A e \in Events : /\ e.type \in EventTypes
                       /\ e.account \in Accounts
                       /\ e.credits \in Nat
                       /\ e.id \notin Refs
                       /\ {e.ref, e.invoice} \subseteq Invoices
  /\ \A e, f \in Events : e.id = f.id => e = f

ASSUME OpeningAssumption ==
  /\ Opening \subseteq Entries
  /\ IsFiniteSet(Opening)
  /\ \A e \in Opening : e.type = "grant" /\ \A f \in Events : f.ref # e.ref

ASSUME NoneAssumption == None \notin Accounts /\ None \notin Intents

VARIABLES
  ledger,     \* credits_ledger
  processed,  \* processed_events.event_id
  listing,    \* marketplace_listings: status, buyer_account_id, payment_intent_id
  stale,      \* listings whose updated_at is more than 15 minutes old
  expired,    \* listings whose expires_at has passed
  intents,    \* Stripe's PaymentIntents
  req         \* the requests and handlers in flight

vars == <<ledger, processed, listing, stale, expired, intents, req>>

Statuses == {"none", "open", "reserved", "sold", "canceled"}
IntentStates == {"none", "created", "offered", "authorized", "captured"}
Rows == [status : Statuses, buyer : Accounts \cup {None}, intent : Intents \cup {None}]

Idle == [pc |-> "idle"]
Purchasing == [pc : {"escrow", "attach", "undo"}, listing : Listings, buyer : Accounts]
Confirming == [pc : {"captured", "transfer"}, listing : Listings, buyer : Accounts,
               intent : Intents]
Offering == [pc : {"offer", "insert"}, listing : Listings, seen : SUBSET Entries]
Debiting == [pc : {"debit"}, ref : Refs]
Handling == [pc : {"handle"}, event : Events, amount : Int]
Jobs == {Idle} \cup Purchasing \cup Confirming \cup Offering \cup Debiting \cup Handling

TypeOK ==
  /\ ledger \subseteq Entries
  /\ IsFiniteSet(ledger)
  /\ processed \subseteq Refs \cup {e.id : e \in Events}
  /\ listing \in [Listings -> Rows]
  /\ stale \subseteq Listings
  /\ expired \subseteq Listings
  /\ intents \in [Intents -> IntentStates]
  /\ req \in [Requests -> Jobs]

NoRow == [status |-> "none", buyer |-> None, intent |-> None]

Init ==
  /\ ledger = Opening
  /\ processed = {}
  /\ listing = [l \in Listings |-> NoRow]
  /\ stale = {}
  /\ expired = {}
  /\ intents = [p \in Intents |-> "none"]
  /\ req = [r \in Requests |-> Idle]

-----------------------------------------------------------------------------
(* Ledger *)

Sum(rows) == MapThenSumSet(LAMBDA e : e.amount, rows)

RowsOf(a) == {e \in ledger : e.account = a}

Balance(a) == Sum(RowsOf(a))

\* A new row, numbered among the rows that have its account, type and reference.
Entry(type, a, amount, ref) ==
  [type |-> type, account |-> a, amount |-> amount, ref |-> ref,
   n |-> Cardinality({e \in ledger : e.type = type /\ e.account = a /\ e.ref = ref})]

Finish(r) == req' = [req EXCEPT ![r] = Idle]

\* Mutant: nobody waits for the row.
LockedNever(l) == FALSE

\* complete_purchase holds the row of the listing FOR UPDATE.
Locked(l) == \E r \in Requests : req[r].pc = "transfer" /\ req[r].listing = l

DuplicateUnchecked(id) == FALSE

\* The insert into processed_events fails on its unique constraint.
Duplicate(id) == id \in processed

-----------------------------------------------------------------------------
(* consume_credits *)

ConsumeCredits(r, u) ==
  /\ req[r] = Idle
  /\ u \notin processed
  /\ Balance(Usage[u].account) >= Usage[u].amount
  /\ req' = [req EXCEPT ![r] = [pc |-> "debit", ref |-> u]]
  /\ UNCHANGED <<ledger, processed, listing, stale, expired, intents>>

CommitDebit(r) ==
  /\ req[r].pc = "debit"
  /\ LET u == req[r].ref IN
       IF Duplicate(u)
       THEN UNCHANGED <<ledger, processed>>
       ELSE /\ ledger' = ledger \cup
                 {Entry("usage", Usage[u].account, -Usage[u].amount, u)}
            /\ processed' = processed \cup {u}
  /\ Finish(r)
  /\ UNCHANGED <<listing, stale, expired, intents>>

-----------------------------------------------------------------------------
(* consume: a message of the queue credits-service.billing-events. RabbitMQ *)
(* delivers at least once, up to 20 messages at a time, in any order.       *)

AmountsOfAnyGrant(e) ==
  IF Grants(e) THEN {e.credits}
  ELSE LET grants == {g \in ledger : g.type = "grant"}
       IN IF grants = {} THEN {0} ELSE {-g.amount : g \in grants}

\* The amount of the row the handler adds; 0 when it adds none: the free plan, or a
\* refund whose invoice has granted nothing (yet).
Amounts(e) ==
  IF Grants(e) THEN {e.credits}
  ELSE LET grants == {g \in ledger : /\ g.account = e.account
                                     /\ g.type = "grant"
                                     /\ g.ref = e.invoice}
       IN IF grants = {} THEN {0} ELSE {-g.amount : g \in grants}

EventEntry(e, amount) ==
  Entry(IF Grants(e) THEN "grant" ELSE "clawback", e.account, amount, e.ref)

Consume(r, e) ==
  /\ req[r] = Idle
  /\ e.id \notin processed
  /\ \E amount \in Amounts(e) :
       req' = [req EXCEPT ![r] = [pc |-> "handle", event |-> e, amount |-> amount]]
  /\ UNCHANGED <<ledger, processed, listing, stale, expired, intents>>

CommitEvent(r) ==
  /\ req[r].pc = "handle"
  /\ LET e == req[r].event IN
       IF Duplicate(e.id)
       THEN UNCHANGED <<ledger, processed>>
       ELSE /\ ledger' = IF req[r].amount = 0 THEN ledger
                         ELSE ledger \cup {EventEntry(e, req[r].amount)}
            /\ processed' = processed \cup {e.id}
  /\ Finish(r)
  /\ UNCHANGED <<listing, stale, expired, intents>>

-----------------------------------------------------------------------------
(* create_listing: two reads and an insert. cancel_listing. *)

ReadBalance(r, l) ==
  /\ req[r] = Idle
  /\ listing[l].status = "none"
  /\ \A s \in Requests : req[s].pc \in {"offer", "insert"} => req[s].listing # l
  /\ req' = [req EXCEPT ![r] = [pc |-> "offer", listing |-> l, seen |-> RowsOf(Offer[l].seller)]]
  /\ UNCHANGED <<ledger, processed, listing, stale, expired, intents>>

\* What the seller has on offer, open or reserved, in listings not yet expired.
OnOffer(a) ==
  MapThenSumSet(LAMBDA l : Offer[l].credits,
                {l \in Listings \ expired : /\ Offer[l].seller = a
                                            /\ listing[l].status \in {"open", "reserved"}})

ReadOffers(r) ==
  /\ req[r].pc = "offer"
  /\ LET l == req[r].listing IN
       IF Sum(req[r].seen) - OnOffer(Offer[l].seller) < Offer[l].credits
       THEN Finish(r)
       ELSE req' = [req EXCEPT ![r].pc = "insert"]
  /\ UNCHANGED <<ledger, processed, listing, stale, expired, intents>>

CreateListing(r) ==
  /\ req[r].pc = "insert"
  /\ listing' = [listing EXCEPT ![req[r].listing].status = "open"]
  /\ Finish(r)
  /\ UNCHANGED <<ledger, processed, stale, expired, intents>>

\* The seller, or a superadmin.
CancelListing(l) ==
  /\ listing[l].status = "open"
  /\ listing' = [listing EXCEPT ![l].status = "canceled"]
  /\ UNCHANGED <<ledger, processed, stale, expired, intents, req>>

-----------------------------------------------------------------------------
(* Purchase: reserve, create the escrow at billing-service, attach its      *)
(* intent; on any exception release the reservation, whoever holds it.      *)

ReservePurchase(r, l, b) ==
  /\ req[r] = Idle
  /\ listing[l].status = "open"
  /\ l \notin expired
  /\ Offer[l].seller # b
  /\ listing' = [listing EXCEPT ![l].status = "reserved", ![l].buyer = b]
  /\ req' = [req EXCEPT ![r] = [pc |-> "escrow", listing |-> l, buyer |-> b]]
  /\ UNCHANGED <<ledger, processed, stale, expired, intents>>

\* Stripe creates the intent, or returns the one it made for the same key. The
\* answer may be lost to the 10 s timeout after that.
CreateEscrow(r) ==
  /\ req[r].pc = "escrow"
  /\ LET p == <<req[r].listing, req[r].buyer>> IN
       intents' = [intents EXCEPT ![p] = IF @ = "none" THEN "created" ELSE @]
  /\ \E pc \in {"attach", "undo"} : req' = [req EXCEPT ![r].pc = pc]
  /\ UNCHANGED <<ledger, processed, listing, stale, expired>>

EscrowUnavailable(r) ==
  /\ req[r].pc = "escrow"
  /\ req' = [req EXCEPT ![r].pc = "undo"]
  /\ UNCHANGED <<ledger, processed, listing, stale, expired, intents>>

\* set_payment_intent looks at the status only, not at who holds the reservation.
\* The answer hands the intent to the buyer, who can pay from then on.
SetPaymentIntent(r) ==
  /\ req[r].pc = "attach"
  /\ LET l == req[r].listing
         p == <<l, req[r].buyer>>
     IN /\ ~Locked(l)
        /\ IF listing[l].status = "reserved"
           THEN /\ listing' = [listing EXCEPT ![l].intent = p]
                /\ stale' = IF listing[l].intent = p THEN stale ELSE stale \ {l}
                /\ intents' = [intents EXCEPT ![p] = IF @ = "created" THEN "offered" ELSE @]
                /\ Finish(r)
           ELSE /\ req' = [req EXCEPT ![r].pc = "undo"]
                /\ UNCHANGED <<listing, stale, intents>>
  /\ UNCHANGED <<ledger, processed, expired>>

Reopened == [status |-> "open", buyer |-> None, intent |-> None]

\* release_reservation: any holder's when no buyer is given (None).
Released(l, b) ==
  IF listing[l].status = "reserved" /\ b \in {None, listing[l].buyer}
  THEN /\ listing' = [listing EXCEPT ![l] = Reopened]
       /\ stale' = stale \ {l}
  ELSE UNCHANGED <<listing, stale>>

UndoPurchase(r) ==
  /\ req[r].pc = "undo"
  /\ ~Locked(req[r].listing)
  /\ Released(req[r].listing, None)
  /\ Finish(r)
  /\ UNCHANGED <<ledger, processed, expired, intents>>

CancelPurchase(l, b) ==
  /\ listing[l].status = "reserved"
  /\ listing[l].buyer = b
  /\ ~Locked(l)
  /\ Released(l, b)
  /\ UNCHANGED <<ledger, processed, expired, intents, req>>

-----------------------------------------------------------------------------
(* Confirm: capture at Stripe first, then transfer the credits.             *)

\* A buyer confirms listing l with an intent of theirs. Only an authorized intent
\* can be captured, once. The transfer follows if the answer arrives and says
\* "succeeded"; if it is lost, or says otherwise, the request ends here.
CaptureEscrow(r, l, p) ==
  /\ req[r] = Idle
  /\ intents[p] = "authorized"
  /\ intents' = [intents EXCEPT ![p] = "captured"]
  /\ \/ req' = [req EXCEPT ![r] = [pc |-> "captured", listing |-> l,
                                   buyer |-> p[2], intent |-> p]]
     \/ UNCHANGED req
  /\ UNCHANGED <<ledger, processed, listing, stale, expired>>

MatchesStatusOnly(l, b, p) == listing[l].status = "reserved"

Matches(l, b, p) ==
  /\ listing[l].status = "reserved"
  /\ listing[l].buyer = b
  /\ listing[l].intent = p

\* complete_purchase locks the row, checks the reservation and the seller's balance.
CheckPurchase(r) ==
  /\ req[r].pc = "captured"
  /\ LET l == req[r].listing IN
       /\ ~Locked(l)
       /\ IF /\ Matches(l, req[r].buyer, req[r].intent)
             /\ Balance(Offer[l].seller) >= Offer[l].credits
          THEN req' = [req EXCEPT ![r].pc = "transfer"]
          ELSE Finish(r)
  /\ UNCHANGED <<ledger, processed, listing, stale, expired, intents>>

CompletePurchase(r) ==
  /\ req[r].pc = "transfer"
  /\ LET l == req[r].listing
         p == req[r].intent
     IN /\ ledger' = ledger \cup
             {Entry("purchase", req[r].buyer, Offer[l].credits, p),
              Entry("sale", Offer[l].seller, -Offer[l].credits, p)}
        /\ listing' = [listing EXCEPT ![l].status = "sold"]
        /\ stale' = stale \ {l}
  /\ Finish(r)
  /\ UNCHANGED <<processed, expired, intents>>

-----------------------------------------------------------------------------
(* The sweep that every view of the marketplace starts with, the passing of *)
(* time, the customer, and crashes.                                         *)

SweepableUnpaid(l) == listing[l].status = "reserved" /\ l \in stale /\ listing[l].intent = None

Sweepable(l) == listing[l].status = "reserved" /\ l \in stale

\* One UPDATE statement: it waits for the rows it selects to be unlocked.
SweepListings ==
  LET L == {l \in Listings : Sweepable(l)} IN
  /\ L # {}
  /\ \A l \in L : ~Locked(l)
  /\ listing' = [l \in Listings |-> IF l \in L THEN Reopened ELSE listing[l]]
  /\ stale' = stale \ L
  /\ UNCHANGED <<ledger, processed, expired, intents, req>>

\* Nothing bounds how long a request takes: 15 minutes may pass at any point of it.
ReservationAges(l) ==
  /\ listing[l].status = "reserved"
  /\ l \notin stale
  /\ stale' = stale \cup {l}
  /\ UNCHANGED <<ledger, processed, listing, expired, intents, req>>

ListingExpires(l) ==
  /\ listing[l].status \in {"open", "reserved"}
  /\ l \notin expired
  /\ expired' = expired \cup {l}
  /\ UNCHANGED <<ledger, processed, listing, stale, intents, req>>

\* The buyer authorizes the payment in the browser, with the secret they were given.
CustomerAuthorizes(p) ==
  /\ intents[p] = "offered"
  /\ intents' = [intents EXCEPT ![p] = "authorized"]
  /\ UNCHANGED <<ledger, processed, listing, stale, expired, req>>

\* The process stops, or the request is cancelled: an open transaction rolls back.
Crash(r) ==
  /\ req[r] # Idle
  /\ Finish(r)
  /\ UNCHANGED <<ledger, processed, listing, stale, expired, intents>>

-----------------------------------------------------------------------------
Start(r) ==
  \/ \E u \in Refs : ConsumeCredits(r, u)
  \/ \E e \in Events : Consume(r, e)
  \/ \E l \in Listings : ReadBalance(r, l)
  \/ \E l \in Listings, b \in Accounts : ReservePurchase(r, l, b)
  \/ \E l \in Listings, p \in Intents : CaptureEscrow(r, l, p)

Continue(r) ==
  \/ CommitDebit(r)
  \/ CommitEvent(r)
  \/ ReadOffers(r)
  \/ CreateListing(r)
  \/ CreateEscrow(r)
  \/ EscrowUnavailable(r)
  \/ SetPaymentIntent(r)
  \/ UndoPurchase(r)
  \/ CheckPurchase(r)
  \/ CompletePurchase(r)

Next ==
  \/ \E r \in Requests : Start(r) \/ Continue(r) \/ Crash(r)
  \/ \E l \in Listings : CancelListing(l) \/ ReservationAges(l) \/ ListingExpires(l)
  \/ \E l \in Listings, b \in Accounts : CancelPurchase(l, b)
  \/ \E p \in Intents : CustomerAuthorizes(p)
  \/ SweepListings

Spec == Init /\ [][Next]_vars

\* A request in flight goes on, time passes, and someone looks at the marketplace
\* again: listings() runs on every visit of the credits page.
Fairness ==
  /\ \A r \in Requests : WF_vars(Continue(r))
  /\ \A l \in Listings : WF_vars(ReservationAges(l))
  /\ WF_vars(SweepListings)

FairSpec == Spec /\ Fairness

-----------------------------------------------------------------------------
(* Properties *)

\* Credits change hands only for money: a sold listing went to an account other than
\* its seller's, whose own escrow for this very listing Stripe has captured (the check
\* of PURCHASE_MISMATCH), however reservations were swept, cancelled or taken over.
SoldOnlyWhenCharged ==
  \A l \in Listings : listing[l].status = "sold" =>
    /\ listing[l].buyer \in Accounts \ {Offer[l].seller}
    /\ listing[l].intent = <<l, listing[l].buyer>>
    /\ intents[listing[l].intent] = "captured"

Transfers(l) ==
  {e \in ledger : e.type \in {"purchase", "sale"} /\ e.ref \in {l} \X Accounts}

PurchaseRow(l, b, p) ==
  [type |-> "purchase", account |-> b, amount |-> Offer[l].credits, ref |-> p, n |-> 0]
SaleRow(l, p) ==
  [type |-> "sale", account |-> Offer[l].seller, amount |-> -Offer[l].credits, ref |-> p,
   n |-> 0]

\* The ledger and the listing agree: a sold listing has one purchase row of its buyer
\* and one sale row of its seller, of opposite amounts and the same intent; any other
\* listing has none. Two confirmations, a sweep in between or a crash never make a
\* second transfer or half of one.
TransferredExactlyOnce ==
  \A l \in Listings :
    Transfers(l) =
      IF listing[l].status = "sold"
      THEN {PurchaseRow(l, listing[l].buyer, listing[l].intent), SaleRow(l, listing[l].intent)}
      ELSE {}

\* Whoever passed complete_purchase's checks keeps the reservation until the transfer
\* commits or rolls back: no sweep, cancellation, failed purchase or second
\* confirmation touches the row in between.
CheckedReservationHolds ==
  \A r \in Requests : req[r].pc = "transfer" =>
    /\ Matches(req[r].listing, req[r].buyer, req[r].intent)
    /\ \A s \in Requests \ {r} :
         req[s].pc = "transfer" => req[s].listing # req[r].listing

GrantOf(g, e) == g.account = e.account /\ g.amount = e.credits /\ g.ref = e.ref

\* A consumption is debited once per reference id and an event applied once per event
\* id, however often it is retried or redelivered and however the handlers interleave:
\* usage rows are those of the processed references, and there are as many grant rows
\* of an account, reference and amount as processed events that grant them.
AppliedExactlyOnce ==
  /\ \A u \in Refs :
       {e \in ledger : e.type = "usage" /\ e.ref = u} =
         IF u \in processed
         THEN {[type |-> "usage", account |-> Usage[u].account,
                amount |-> -Usage[u].amount, ref |-> u, n |-> 0]}
         ELSE {}
  /\ \A g \in ledger \ Opening : g.type = "grant" =>
       \E e \in Events : Grants(e) /\ GrantOf(g, e)
  /\ \A e \in Events : Grants(e) /\ e.credits > 0 =>
       Cardinality({g \in ledger : g.type = "grant" /\ GrantOf(g, e)}) =
         Cardinality({f \in Events : /\ Grants(f) /\ f.id \in processed
                                     /\ <<f.account, f.credits, f.ref>> =
                                          <<e.account, e.credits, e.ref>>})

\* A refund takes back a grant in full and nothing else: every clawback row belongs to a
\* processed refund.issued event and is the opposite of a grant that the same account
\* holds for the refunded invoice; no refund adds two.
ClawbackMatchesGrant ==
  /\ \A x \in ledger : x.type = "clawback" =>
       \E e \in Events, g \in ledger :
         /\ ~Grants(e) /\ e.id \in processed
         /\ x.ref = e.ref /\ g.ref = e.invoice
         /\ x.account = e.account /\ g.account = e.account
         /\ g.type = "grant" /\ g.amount = -x.amount
  /\ \A a \in Accounts :
       Cardinality({x \in RowsOf(a) : x.type = "clawback"}) <=
         Cardinality({e \in Events : ~Grants(e) /\ e.account = a /\ e.id \in processed})

\* A sale and a cancellation are final: no release, sweep or late purchase request
\* reopens the listing or rewrites its buyer or payment.
FinalStatusKept ==
  [][\A l \in Listings :
       listing[l].status \in {"sold", "canceled"} => listing'[l] = listing[l]]_vars

\* An abandoned purchase does not hold a listing for ever: it is sold, or open again
\* once the reservation is 15 minutes old.
ReservationEnds ==
  \A l \in Listings : listing[l].status = "reserved" ~> listing[l].status # "reserved"

\* Every step is a step, or no step, of the sale that EscrowSale promises.
Sale == INSTANCE EscrowSale WITH
  stage <- [l \in Listings |-> listing[l].status],
  holder <- [l \in Listings |-> listing[l].buyer],
  charged <- {p \in Intents : intents[p] = "captured"},
  delivered <- {<<e.ref[1], e.account>> : e \in {x \in ledger : x.type = "purchase"}}

SaleSpec == Sale!Spec
=============================================================================
