--------------------------- MODULE CreditsProofs ----------------------------
(***************************************************************************)
(* Proofs about Credits, for every set of accounts, listings, references,  *)
(* events and requests that satisfies the module's assumptions.            *)
(*                                                                         *)
(* The marketplace: that a sold listing was paid for depends on what the   *)
(* confirmation in flight has captured, and on the reservation staying as  *)
(* it was checked. From the same invariant, every step of Credits is one   *)
(* of the sale in EscrowSale, or none.                                     *)
(*                                                                         *)
(* The ledger: handlers in flight carry an amount that is their event's,   *)
(* or the opposite of a grant; the grants of one account, reference and    *)
(* amount are numbered without a gap, and there are as many as processed   *)
(* events that grant them.                                                 *)
(***************************************************************************)
EXTENDS Credits, TLAPS, FiniteSetTheorems

-----------------------------------------------------------------------------
(* Types *)

\* What a request carries is determined by where it is.
LEMMA JobOf ==
  ASSUME TypeOK, NEW r \in Requests
  PROVE  /\ req[r].pc \in {"escrow", "attach", "undo"} => req[r] \in Purchasing
         /\ req[r].pc \in {"captured", "transfer"} => req[r] \in Confirming
         /\ req[r].pc \in {"offer", "insert"} => req[r] \in Offering
         /\ req[r].pc = "debit" => req[r] \in Debiting
         /\ req[r].pc = "handle" => req[r] \in Handling
         /\ req[r] # Idle => req[r].pc # "idle"
<1>1. req[r] \in Jobs
  BY DEF TypeOK
<1> QED
  BY <1>1 DEF Jobs, Idle, Purchasing, Confirming, Offering, Debiting, Handling

\* A new ledger row is well-formed.
LEMMA EntryType ==
  ASSUME TypeOK, NEW type \in EntryTypes, NEW a \in Accounts, NEW amount \in Int,
         NEW ref \in UNION {Refs, Intents, Invoices}
  PROVE  Entry(type, a, amount, ref) \in Entries
<1> DEFINE same == {e \in ledger : e.type = type /\ e.account = a /\ e.ref = ref}
<1>1. IsFiniteSet(same)
  BY FS_Subset DEF TypeOK
<1>2. Cardinality(same) \in Nat
  BY <1>1, FS_CardinalityType
<1> QED
  BY <1>2 DEF Entry, Entries

\* Adding rows keeps the ledger a finite set of rows.
LEMMA Appended ==
  ASSUME TypeOK, NEW x \in Entries, NEW y \in Entries
  PROVE  /\ ledger \cup {x} \subseteq Entries
         /\ IsFiniteSet(ledger \cup {x})
         /\ ledger \cup {x, y} \subseteq Entries
         /\ IsFiniteSet(ledger \cup {x, y})
<1>1. ledger \cup {x, y} = (ledger \cup {x}) \cup {y}
  OBVIOUS
<1>2. IsFiniteSet(ledger \cup {x})
  BY FS_AddElement DEF TypeOK
<1>3. IsFiniteSet((ledger \cup {x}) \cup {y})
  BY <1>2, FS_AddElement
<1> QED
  BY <1>1, <1>2, <1>3 DEF TypeOK

LEMMA TypeInit == Init => TypeOK
<1> SUFFICES ASSUME Init PROVE TypeOK
  OBVIOUS
<1>1. ledger \subseteq Entries /\ IsFiniteSet(ledger)
  BY OpeningAssumption DEF Init
<1>2. NoRow \in Rows /\ Idle \in Jobs
  BY DEF NoRow, Rows, Statuses, Jobs
<1> QED
  BY <1>1, <1>2 DEF Init, TypeOK, IntentStates

LEMMA TypeStep == TypeOK /\ [Next]_vars => TypeOK'
<1> SUFFICES ASSUME TypeOK, [Next]_vars PROVE TypeOK'
  OBVIOUS
<1> USE DEF Jobs
<1>1. ASSUME NEW r \in Requests, NEW u \in Refs, ConsumeCredits(r, u)
      PROVE  TypeOK'
  BY <1>1 DEF ConsumeCredits, TypeOK, Debiting
<1>2. ASSUME NEW r \in Requests, NEW e \in Events, Consume(r, e)
      PROVE  TypeOK'
  <2>1. Amounts(e) \subseteq Int
    BY EventsAssumption DEF Amounts, TypeOK, Entries
  <2> QED
    BY <1>2, <2>1 DEF Consume, TypeOK, Handling
<1>3. ASSUME NEW r \in Requests, NEW l \in Listings, ReadBalance(r, l)
      PROVE  TypeOK'
  BY <1>3 DEF ReadBalance, RowsOf, TypeOK, Offering
<1>4. ASSUME NEW r \in Requests, NEW l \in Listings, NEW b \in Accounts,
             ReservePurchase(r, l, b)
      PROVE  TypeOK'
  BY <1>4 DEF ReservePurchase, TypeOK, Purchasing, Rows, Statuses
<1>5. ASSUME NEW r \in Requests, NEW l \in Listings, NEW p \in Intents,
             CaptureEscrow(r, l, p)
      PROVE  TypeOK'
  BY <1>5 DEF CaptureEscrow, TypeOK, Confirming, Intents, IntentStates
<1>6. ASSUME NEW r \in Requests, CommitDebit(r)
      PROVE  TypeOK'
  <2>1. req[r].ref \in Refs
    BY <1>6, JobOf DEF CommitDebit, Debiting
  <2>2. Usage[req[r].ref].account \in Accounts /\ -Usage[req[r].ref].amount \in Int
    BY <2>1, UsageAssumption DEF Positive
  <2>3. Entry("usage", Usage[req[r].ref].account, -Usage[req[r].ref].amount, req[r].ref)
          \in Entries
    BY <2>1, <2>2, EntryType DEF EntryTypes
  <2> QED
    BY <1>6, <2>1, <2>3, Appended DEF CommitDebit, Finish, TypeOK
<1>7. ASSUME NEW r \in Requests, CommitEvent(r)
      PROVE  TypeOK'
  <2>1. req[r].event \in Events /\ req[r].amount \in Int
    BY <1>7, JobOf DEF CommitEvent, Handling
  <2>2. EventEntry(req[r].event, req[r].amount) \in Entries
    BY <2>1, EntryType, EventsAssumption DEF EventEntry, EntryTypes
  <2> QED
    BY <1>7, <2>1, <2>2, Appended DEF CommitEvent, Finish, TypeOK
<1>8. ASSUME NEW r \in Requests, ReadOffers(r)
      PROVE  TypeOK'
  <2>1. req[r] \in Offering
    BY <1>8, JobOf DEF ReadOffers
  <2>2. [req[r] EXCEPT !.pc = "insert"] \in Offering
    BY <2>1 DEF Offering
  <2> QED
    BY <1>8, <2>2 DEF ReadOffers, Finish, TypeOK
<1>9. ASSUME NEW r \in Requests, CreateListing(r)
      PROVE  TypeOK'
  BY <1>9 DEF CreateListing, Finish, TypeOK, Rows, Statuses
<1>10. ASSUME NEW r \in Requests, CreateEscrow(r)
       PROVE  TypeOK'
  <2>1. req[r] \in Purchasing
    BY <1>10, JobOf DEF CreateEscrow
  <2>2. \A pc \in {"attach", "undo"} : [req[r] EXCEPT !.pc = pc] \in Purchasing
    BY <2>1 DEF Purchasing
  <2> QED
    BY <1>10, <2>1, <2>2 DEF CreateEscrow, TypeOK, Purchasing, Intents, IntentStates
<1>11. ASSUME NEW r \in Requests, EscrowUnavailable(r)
       PROVE  TypeOK'
  <2>1. req[r] \in Purchasing
    BY <1>11, JobOf DEF EscrowUnavailable
  <2>2. [req[r] EXCEPT !.pc = "undo"] \in Purchasing
    BY <2>1 DEF Purchasing
  <2> QED
    BY <1>11, <2>2 DEF EscrowUnavailable, TypeOK
<1>12. ASSUME NEW r \in Requests, SetPaymentIntent(r)
       PROVE  TypeOK'
  <2>1. req[r] \in Purchasing
    BY <1>12, JobOf DEF SetPaymentIntent
  <2>2. [req[r] EXCEPT !.pc = "undo"] \in Purchasing
    BY <2>1 DEF Purchasing
  <2>3. <<req[r].listing, req[r].buyer>> \in Intents
    BY <2>1 DEF Purchasing, Intents
  <2>4. CASE listing[req[r].listing].status = "reserved"
    <3> DEFINE l == req[r].listing
               p == <<l, req[r].buyer>>
    <3>1. /\ listing' = [listing EXCEPT ![l].intent = p]
          /\ stale' \subseteq stale
          /\ intents' = [intents EXCEPT ![p] = IF @ = "created" THEN "offered" ELSE @]
          /\ req' = [req EXCEPT ![r] = Idle]
          /\ UNCHANGED <<ledger, processed, expired>>
      BY <1>12, <2>4 DEF SetPaymentIntent, Finish
    <3>2. intents' \in [Intents -> IntentStates]
      BY <2>3, <3>1 DEF TypeOK, IntentStates
    <3>3. listing' \in [Listings -> Rows]
      BY <2>1, <2>3, <3>1 DEF TypeOK, Rows
    <3> QED
      BY <3>1, <3>2, <3>3 DEF TypeOK
  <2>5. CASE listing[req[r].listing].status # "reserved"
    BY <1>12, <2>2, <2>5 DEF SetPaymentIntent, TypeOK
  <2> QED
    BY <2>4, <2>5
<1>13. ASSUME NEW r \in Requests, UndoPurchase(r)
       PROVE  TypeOK'
  <2>1. Reopened \in Rows
    BY DEF Reopened, Rows, Statuses
  <2> QED
    BY <1>13, <2>1 DEF UndoPurchase, Released, Finish, TypeOK
<1>14. ASSUME NEW r \in Requests, CheckPurchase(r)
       PROVE  TypeOK'
  <2>1. req[r] \in Confirming
    BY <1>14, JobOf DEF CheckPurchase
  <2>2. [req[r] EXCEPT !.pc = "transfer"] \in Confirming
    BY <2>1 DEF Confirming
  <2> QED
    BY <1>14, <2>2 DEF CheckPurchase, Finish, TypeOK
<1>15. ASSUME NEW r \in Requests, CompletePurchase(r)
       PROVE  TypeOK'
  <2> DEFINE l == req[r].listing
             p == req[r].intent
             x == Entry("purchase", req[r].buyer, Offer[l].credits, p)
             y == Entry("sale", Offer[l].seller, -Offer[l].credits, p)
  <2>1. req[r] \in Confirming
    BY <1>15, JobOf DEF CompletePurchase
  <2>2. l \in Listings /\ p \in Intents /\ req[r].buyer \in Accounts
    BY <2>1 DEF Confirming
  <2>3. Offer[l].seller \in Accounts /\ Offer[l].credits \in Int /\ -Offer[l].credits \in Int
    BY <2>2, OfferAssumption DEF Positive
  <2>4. x \in Entries /\ y \in Entries
    BY <2>2, <2>3, EntryType DEF EntryTypes
  <2>5. ledger' = ledger \cup {x, y}
    BY <1>15 DEF CompletePurchase
  <2>6. ledger' \subseteq Entries /\ IsFiniteSet(ledger')
    BY <2>4, <2>5, Appended
  <2> QED
    BY <1>15, <2>2, <2>6 DEF CompletePurchase, Finish, TypeOK, Rows, Statuses
<1>16. ASSUME NEW r \in Requests, Crash(r)
       PROVE  TypeOK'
  BY <1>16 DEF Crash, Finish, TypeOK
<1>17. ASSUME NEW l \in Listings, CancelListing(l) \/ ReservationAges(l) \/ ListingExpires(l)
       PROVE  TypeOK'
  BY <1>17 DEF CancelListing, ReservationAges, ListingExpires, TypeOK, Rows, Statuses
<1>18. ASSUME NEW l \in Listings, NEW b \in Accounts, CancelPurchase(l, b)
       PROVE  TypeOK'
  <2>1. Reopened \in Rows
    BY DEF Reopened, Rows, Statuses
  <2> QED
    BY <1>18, <2>1 DEF CancelPurchase, Released, TypeOK
<1>19. ASSUME NEW p \in Intents, CustomerAuthorizes(p)
       PROVE  TypeOK'
  BY <1>19 DEF CustomerAuthorizes, TypeOK, IntentStates
<1>20. CASE SweepListings
  <2>1. Reopened \in Rows
    BY DEF Reopened, Rows, Statuses
  <2> QED
    BY <1>20, <2>1 DEF SweepListings, TypeOK
<1>21. CASE UNCHANGED vars
  BY <1>21 DEF vars, TypeOK
<1> QED
  BY <1>1, <1>2, <1>3, <1>4, <1>5, <1>6, <1>7, <1>8, <1>9, <1>10, <1>11, <1>12, <1>13,
     <1>14, <1>15, <1>16, <1>17, <1>18, <1>19, <1>20, <1>21 DEF Next, Start, Continue

\* Every variable, and whatever each request carries, keeps its type.
THEOREM TypeCorrect == Spec => []TypeOK
  BY TypeInit, TypeStep, PTL DEF Spec

-----------------------------------------------------------------------------
(* The marketplace                                                          *)
(*                                                                          *)
(* SoldOnlyWhenCharged and TransferredExactlyOnce are not inductive: the    *)
(* transfer step checks nothing itself. What it relies on was established   *)
(* by earlier steps and kept by the row lock, and MarketInv says what.      *)

\* The identifier of a listing being created is new, and one request's only.
OffersFresh ==
  \A r \in Requests : req[r].pc \in {"offer", "insert"} =>
    /\ listing[req[r].listing].status = "none"
    /\ \A s \in Requests \ {r} :
         req[s].pc \in {"offer", "insert"} => req[s].listing # req[r].listing

\* Only intents created for a listing are ever attached to it, and it is reserved for
\* an account that is not its seller.
IntentOfListing ==
  \A l \in Listings :
    /\ listing[l].intent # None => listing[l].intent[1] = l
    /\ listing[l].status = "reserved" => listing[l].buyer \in Accounts \ {Offer[l].seller}

\* A confirmation past the capture holds its caller's own, captured intent.
ChargedJobs ==
  \A r \in Requests : req[r].pc \in {"captured", "transfer"} =>
    /\ intents[req[r].intent] = "captured"
    /\ req[r].intent[2] = req[r].buyer

MarketInv ==
  /\ TypeOK
  /\ OffersFresh
  /\ IntentOfListing
  /\ ChargedJobs
  /\ CheckedReservationHolds
  /\ SoldOnlyWhenCharged
  /\ TransferredExactlyOnce

\* A step on a listing's row leaves it alone, or is no transfer, finds it neither
\* locked nor sold nor canceled and attaches no foreign intent, or is the transfer.
ListingStep(l) ==
  \/ listing'[l] = listing[l]
  \/ /\ ~Locked(l)
     /\ listing[l].status \notin {"sold", "canceled"}
     /\ listing'[l].status # "sold"
     /\ listing[l].status = "none" => \E r \in Requests : CreateListing(r) /\ req[r].listing = l
     /\ listing'[l].status = "reserved" =>
          \/ listing[l].status = "reserved" /\ listing'[l].buyer = listing[l].buyer
          \/ listing'[l].buyer \in Accounts \ {Offer[l].seller}
     /\ \/ listing'[l].intent \in {None, listing[l].intent}
        \/ listing'[l].intent[1] = l
  \/ \E r \in Requests : CompletePurchase(r) /\ req[r].listing = l

LEMMA ListingSteps ==
  ASSUME MarketInv, [Next]_vars
  PROVE  \A l \in Listings : ListingStep(l)
<1> USE DEF MarketInv
<1>1. \A l \in Listings : Locked(l) => listing[l].status = "reserved"
  BY JobOf DEF Locked, CheckedReservationHolds, Matches
<1>2. ASSUME NEW r \in Requests, CreateListing(r), NEW l \in Listings
      PROVE  ListingStep(l)
  <2>1. req[r].listing \in Listings /\ listing[req[r].listing].status = "none"
    BY <1>2, JobOf DEF CreateListing, OffersFresh, Offering
  <2> QED
    BY <1>1, <1>2, <2>1 DEF CreateListing, ListingStep, TypeOK, Rows
<1>3. ASSUME NEW r \in Requests, NEW k \in Listings, NEW b \in Accounts,
             ReservePurchase(r, k, b), NEW l \in Listings
      PROVE  ListingStep(l)
  BY <1>1, <1>3 DEF ReservePurchase, ListingStep, TypeOK, Rows
<1>4. ASSUME NEW r \in Requests, SetPaymentIntent(r), NEW l \in Listings
      PROVE  ListingStep(l)
  <2>1. req[r].listing \in Listings
    BY <1>4, JobOf DEF SetPaymentIntent, Purchasing
  <2> QED
    BY <1>1, <1>4, <2>1 DEF SetPaymentIntent, ListingStep, TypeOK, Rows
<1>5. ASSUME NEW r \in Requests, UndoPurchase(r), NEW l \in Listings
      PROVE  ListingStep(l)
  <2>1. req[r].listing \in Listings
    BY <1>5, JobOf DEF UndoPurchase, Purchasing
  <2> QED
    BY <1>1, <1>5, <2>1 DEF UndoPurchase, Released, Reopened, ListingStep, TypeOK, Rows
<1>6. ASSUME NEW r \in Requests, CompletePurchase(r), NEW l \in Listings
      PROVE  ListingStep(l)
  <2>1. req[r].listing \in Listings
    BY <1>6, JobOf DEF CompletePurchase, Confirming
  <2> QED
    BY <1>6, <2>1 DEF CompletePurchase, ListingStep, TypeOK
<1>7. ASSUME NEW k \in Listings, CancelListing(k), NEW l \in Listings
      PROVE  ListingStep(l)
  BY <1>1, <1>7 DEF CancelListing, ListingStep, TypeOK, Rows
<1>8. ASSUME NEW k \in Listings, NEW b \in Accounts, CancelPurchase(k, b), NEW l \in Listings
      PROVE  ListingStep(l)
  BY <1>1, <1>8 DEF CancelPurchase, Released, Reopened, ListingStep, TypeOK, Rows
<1>9. ASSUME SweepListings, NEW l \in Listings
      PROVE  ListingStep(l)
  BY <1>1, <1>9 DEF SweepListings, Sweepable, Reopened, ListingStep, TypeOK, Rows
<1>10. ASSUME listing' = listing, NEW l \in Listings
       PROVE  ListingStep(l)
  BY <1>10 DEF ListingStep
<1> QED
  BY <1>2, <1>3, <1>4, <1>5, <1>6, <1>7, <1>8, <1>9, <1>10
     DEF Next, Start, Continue, vars, ConsumeCredits, Consume, ReadBalance, CaptureEscrow,
         CommitDebit, CommitEvent, ReadOffers, CreateEscrow, EscrowUnavailable,
         CheckPurchase, Crash, ReservationAges, ListingExpires, CustomerAuthorizes

\* What a step makes of a request: nothing that matters here, unless it stays as it
\* is, or moves from one check to the next.
RequestStep(r) ==
  \/ req'[r].pc \notin {"offer", "insert", "captured", "transfer"}
  \/ req'[r] = req[r]
  \/ ReadOffers(r) /\ req'[r].pc = "insert" /\ req'[r].listing = req[r].listing
  \/ CheckPurchase(r) /\ req'[r].pc = "transfer"
  \/ \E l \in Listings : ReadBalance(r, l)
  \/ \E l \in Listings, p \in Intents : CaptureEscrow(r, l, p)

\* A step changes at most one request.
OneRequest ==
  \A r, s \in Requests : r # s => req'[r] = req[r] \/ req'[s] = req[s]

LEMMA RequestSteps ==
  ASSUME TypeOK, [Next]_vars
  PROVE  OneRequest /\ \A r \in Requests : RequestStep(r)
<1>1. ASSUME NEW r \in Requests, Start(r)
      PROVE  OneRequest /\ \A s \in Requests : RequestStep(s)
  <2>1. \A s \in Requests \ {r} : req'[s] = req[s]
    BY <1>1 DEF Start, ConsumeCredits, Consume, ReadBalance, ReservePurchase,
                CaptureEscrow, TypeOK
  <2>2. RequestStep(r)
    <3>1. ASSUME NEW u \in Refs, ConsumeCredits(r, u) PROVE RequestStep(r)
      BY <3>1 DEF ConsumeCredits, RequestStep, TypeOK
    <3>2. ASSUME NEW e \in Events, Consume(r, e) PROVE RequestStep(r)
      BY <3>2 DEF Consume, RequestStep, TypeOK
    <3>3. ASSUME NEW l \in Listings, NEW b \in Accounts, ReservePurchase(r, l, b)
          PROVE  RequestStep(r)
      BY <3>3 DEF ReservePurchase, RequestStep, TypeOK
    <3> QED
      BY <1>1, <3>1, <3>2, <3>3 DEF Start, RequestStep
  <2> QED
    BY <2>1, <2>2 DEF OneRequest, RequestStep
<1>2. ASSUME NEW r \in Requests, Continue(r) \/ Crash(r)
      PROVE  OneRequest /\ \A s \in Requests : RequestStep(s)
  <2>1. \A s \in Requests \ {r} : req'[s] = req[s]
    BY <1>2 DEF Continue, CommitDebit, CommitEvent, ReadOffers, CreateListing, CreateEscrow,
                EscrowUnavailable, SetPaymentIntent, UndoPurchase, CheckPurchase,
                CompletePurchase, Crash, Finish, TypeOK
  <2>2. ASSUME req' = [req EXCEPT ![r] = Idle] PROVE RequestStep(r)
    BY <2>2 DEF RequestStep, TypeOK, Idle
  <2>3. ASSUME ReadOffers(r) PROVE RequestStep(r)
    <3>1. req[r] \in Offering
      BY <2>3, JobOf DEF ReadOffers
    <3> QED
      BY <2>2, <2>3, <3>1 DEF ReadOffers, RequestStep, Finish, TypeOK, Offering
  <2>4. ASSUME CheckPurchase(r) PROVE RequestStep(r)
    <3>1. req[r] \in Confirming
      BY <2>4, JobOf DEF CheckPurchase
    <3> QED
      BY <2>2, <2>4, <3>1 DEF CheckPurchase, RequestStep, Finish, TypeOK, Confirming
  <2>5. ASSUME CreateEscrow(r) \/ EscrowUnavailable(r) \/ SetPaymentIntent(r)
        PROVE  RequestStep(r)
    <3>1. req[r] \in Purchasing
      BY <2>5, JobOf DEF CreateEscrow, EscrowUnavailable, SetPaymentIntent
    <3> QED
      BY <2>2, <2>5, <3>1 DEF CreateEscrow, EscrowUnavailable, SetPaymentIntent, RequestStep,
                              Finish, TypeOK, Purchasing
  <2>6. RequestStep(r)
    BY <1>2, <2>2, <2>3, <2>4, <2>5 DEF Continue, CommitDebit, CommitEvent, CreateListing,
       UndoPurchase, CompletePurchase, Crash, Finish
  <2> QED
    BY <2>1, <2>6 DEF OneRequest, RequestStep
<1>3. ASSUME req' = req
      PROVE  OneRequest /\ \A s \in Requests : RequestStep(s)
  BY <1>3 DEF OneRequest, RequestStep
<1> QED
  BY <1>1, <1>2, <1>3 DEF Next, vars, CancelListing, ReservationAges, ListingExpires,
     CancelPurchase, CustomerAuthorizes, SweepListings

\* Stripe never takes a capture back: no step of the service refunds an escrow.
LEMMA CapturedKept ==
  ASSUME TypeOK, [Next]_vars
  PROVE  \A p \in Intents : intents[p] = "captured" => intents'[p] = "captured"
<1>1. ASSUME NEW r \in Requests, NEW l \in Listings, NEW p \in Intents,
             CaptureEscrow(r, l, p), NEW q \in Intents
      PROVE  intents[q] = "captured" => intents'[q] = "captured"
  BY <1>1 DEF CaptureEscrow, TypeOK
<1>2. ASSUME NEW r \in Requests, CreateEscrow(r) \/ SetPaymentIntent(r), NEW q \in Intents
      PROVE  intents[q] = "captured" => intents'[q] = "captured"
  BY <1>2 DEF CreateEscrow, SetPaymentIntent, TypeOK
<1>3. ASSUME NEW p \in Intents, CustomerAuthorizes(p), NEW q \in Intents
      PROVE  intents[q] = "captured" => intents'[q] = "captured"
  BY <1>3 DEF CustomerAuthorizes, TypeOK
<1>4. ASSUME intents' = intents
      PROVE  \A q \in Intents : intents[q] = "captured" => intents'[q] = "captured"
  BY <1>4
<1> QED
  BY <1>1, <1>2, <1>3, <1>4
     DEF Next, Start, Continue, vars, ConsumeCredits, Consume, ReadBalance, ReservePurchase,
         CommitDebit, CommitEvent, ReadOffers, CreateListing, EscrowUnavailable, UndoPurchase,
         CheckPurchase, CompletePurchase, Crash, CancelListing, ReservationAges,
         ListingExpires, CancelPurchase, SweepListings

\* Only the transfer writes rows that name an intent.
LEMMA LedgerSteps ==
  ASSUME [Next]_vars
  PROVE  \/ \E r \in Requests : CompletePurchase(r)
         \/ \A l \in Listings : Transfers(l)' = Transfers(l)
<1>1. ASSUME NEW x, x.type \notin {"purchase", "sale"}, ledger' = ledger \cup {x}
      PROVE  \A l \in Listings : Transfers(l)' = Transfers(l)
  BY <1>1 DEF Transfers
<1>2. ASSUME ledger' = ledger
      PROVE  \A l \in Listings : Transfers(l)' = Transfers(l)
  BY <1>2 DEF Transfers
<1>3. ASSUME NEW r \in Requests, CommitDebit(r)
      PROVE  \A l \in Listings : Transfers(l)' = Transfers(l)
  <2> DEFINE x == Entry("usage", Usage[req[r].ref].account, -Usage[req[r].ref].amount,
                        req[r].ref)
  <2>1. x.type \notin {"purchase", "sale"}
    BY DEF Entry
  <2>2. ledger' = ledger \/ ledger' = ledger \cup {x}
    BY <1>3 DEF CommitDebit
  <2> HIDE DEF x
  <2> QED
    BY <1>1, <1>2, <2>1, <2>2
<1>4. ASSUME NEW r \in Requests, CommitEvent(r)
      PROVE  \A l \in Listings : Transfers(l)' = Transfers(l)
  <2> DEFINE x == EventEntry(req[r].event, req[r].amount)
  <2>1. x.type \notin {"purchase", "sale"}
    BY DEF EventEntry, Entry
  <2>2. ledger' = ledger \/ ledger' = ledger \cup {x}
    BY <1>4 DEF CommitEvent
  <2> HIDE DEF x
  <2> QED
    BY <1>1, <1>2, <2>1, <2>2
<1> QED
  BY <1>2, <1>3, <1>4
     DEF Next, Start, Continue, vars, ConsumeCredits, Consume, ReadBalance, ReservePurchase,
         CaptureEscrow, ReadOffers, CreateListing, CreateEscrow, EscrowUnavailable,
         SetPaymentIntent, UndoPurchase, CheckPurchase, Crash, CancelListing,
         ReservationAges, ListingExpires, CancelPurchase, CustomerAuthorizes, SweepListings

LEMMA AddedTransfers ==
  ASSUME NEW l, NEW x, NEW y, ledger' = ledger \cup {x, y},
         x.type \in {"purchase", "sale"}, x.ref \in {l} \X Accounts,
         y.type \in {"purchase", "sale"}, y.ref \in {l} \X Accounts
  PROVE  Transfers(l)' = Transfers(l) \cup {x, y}
  BY DEF Transfers

\* What the transfer does, given that its reservation held.
LEMMA TransferStep ==
  ASSUME MarketInv, NEW r \in Requests, CompletePurchase(r)
  PROVE  /\ req[r].listing \in Listings
         /\ req[r].buyer \in Accounts
         /\ req[r].intent = <<req[r].listing, req[r].buyer>>
         /\ req[r].intent \in Intents
         /\ intents[req[r].intent] = "captured"
         /\ listing[req[r].listing] =
              [status |-> "reserved", buyer |-> req[r].buyer, intent |-> req[r].intent]
         /\ listing' = [listing EXCEPT ![req[r].listing].status = "sold"]
         /\ ledger' = ledger \cup {PurchaseRow(req[r].listing, req[r].buyer, req[r].intent),
                                   SaleRow(req[r].listing, req[r].intent)}
<1> DEFINE l == req[r].listing
           b == req[r].buyer
           p == req[r].intent
<1>1. req[r] \in Confirming /\ req[r].pc = "transfer"
  BY JobOf DEF CompletePurchase, MarketInv
<1>2. l \in Listings /\ b \in Accounts /\ p \in Intents
  BY <1>1 DEF Confirming
<1>3. Matches(l, b, p)
  BY <1>1 DEF MarketInv, CheckedReservationHolds
<1>4. listing[l] = [status |-> "reserved", buyer |-> b, intent |-> p]
  BY <1>2, <1>3 DEF Matches, MarketInv, TypeOK, Rows
<1>5. p = <<l, b>>
  BY <1>1, <1>2, <1>4, NoneAssumption
     DEF MarketInv, IntentOfListing, ChargedJobs, Intents
<1>6. intents[p] = "captured"
  BY <1>1 DEF MarketInv, ChargedJobs
<1>7. Transfers(l) = {}
  BY <1>2, <1>4 DEF MarketInv, TransferredExactlyOnce
<1>8. ASSUME NEW type \in {"purchase", "sale"}, NEW a, NEW amount
      PROVE  Entry(type, a, amount, p) =
               [type |-> type, account |-> a, amount |-> amount, ref |-> p, n |-> 0]
  <2>1. {e \in ledger : e.type = type /\ e.account = a /\ e.ref = p} = {}
    BY <1>2, <1>5, <1>7 DEF Transfers
  <2> QED
    BY <2>1, FS_EmptySet DEF Entry
<1> QED
  BY <1>2, <1>4, <1>5, <1>6, <1>8 DEF CompletePurchase, PurchaseRow, SaleRow

LEMMA MarketInit == Init => MarketInv
<1> SUFFICES ASSUME Init PROVE MarketInv
  OBVIOUS
<1>1. TypeOK
  BY TypeInit
<1>2. /\ OffersFresh
      /\ ChargedJobs
      /\ CheckedReservationHolds
  BY DEF Init, Idle, OffersFresh, ChargedJobs, CheckedReservationHolds
<1>3. /\ IntentOfListing
      /\ SoldOnlyWhenCharged
  BY DEF Init, NoRow, IntentOfListing, SoldOnlyWhenCharged
<1>4. TransferredExactlyOnce
  BY OpeningAssumption DEF Init, NoRow, TransferredExactlyOnce, Transfers
<1> QED
  BY <1>1, <1>2, <1>3, <1>4 DEF MarketInv

LEMMA MarketStep == MarketInv /\ [Next]_vars => MarketInv'
<1> SUFFICES ASSUME MarketInv, [Next]_vars PROVE MarketInv'
  OBVIOUS
<1> USE DEF MarketInv
<1>1. TypeOK'
  BY TypeStep
<1>2. /\ OneRequest
      /\ \A r \in Requests : RequestStep(r)
      /\ \A l \in Listings : ListingStep(l)
  BY RequestSteps, ListingSteps
<1>3. \A r \in Requests :
        /\ req'[r].pc \in {"captured", "transfer"} => req'[r] \in Confirming
        /\ req[r].pc \in {"captured", "transfer"} => req[r] \in Confirming
  BY <1>1 DEF TypeOK, Jobs, Idle, Purchasing, Confirming, Offering, Debiting, Handling
<1>4. \A r \in Requests : CreateListing(r) =>
        req[r].pc = "insert" /\ req'[r].pc = "idle"
  BY DEF CreateListing, Finish, TypeOK, Idle
<1>5. ASSUME NEW r \in Requests, CompletePurchase(r)
      PROVE  /\ req[r].pc = "transfer"
             /\ req'[r].pc = "idle"
             /\ listing[req[r].listing].status = "reserved"
  <2>1. listing[req[r].listing] =
          [status |-> "reserved", buyer |-> req[r].buyer, intent |-> req[r].intent]
    BY <1>5, TransferStep
  <2> QED
    BY <1>5, <2>1 DEF CompletePurchase, Finish, TypeOK, Idle
<1>6. OffersFresh'
  <2> SUFFICES ASSUME NEW r \in Requests, req'[r].pc \in {"offer", "insert"}
               PROVE  /\ listing'[req'[r].listing].status = "none"
                      /\ \A s \in Requests \ {r} :
                           req'[s].pc \in {"offer", "insert"}
                             => req'[s].listing # req'[r].listing
    BY DEF OffersFresh
  <2> DEFINE k == req'[r].listing
  <2>1. CASE req[r].pc \in {"offer", "insert"} /\ req[r].listing = k
    <3>1. listing[k].status = "none"
      BY <2>1 DEF OffersFresh
    <3>2. k \in Listings
      BY <2>1, JobOf DEF Offering
    <3>3. ~\E s \in Requests : CreateListing(s) /\ req[s].listing = k
      BY <1>2, <1>4, <2>1 DEF OneRequest, OffersFresh
    <3>4. listing'[k] = listing[k]
      BY <1>2, <1>5, <3>1, <3>2, <3>3 DEF ListingStep
    <3>5. ASSUME NEW s \in Requests \ {r}, req'[s].pc \in {"offer", "insert"},
                 req'[s].listing = k
          PROVE  FALSE
      <4>1. req[s].pc \notin {"offer", "insert"} \/ req[s].listing # k
        BY <2>1 DEF OffersFresh
      <4>2. ~\E l \in Listings : ReadBalance(s, l)
        BY <2>1, <3>5 DEF ReadBalance, TypeOK
      <4> QED
        BY <1>2, <3>5, <4>1, <4>2 DEF RequestStep, ReadOffers, CaptureEscrow, TypeOK
    <3> QED
      BY <3>1, <3>4, <3>5
  <2>2. CASE \E l \in Listings : ReadBalance(r, l)
    <3>1. PICK l \in Listings : ReadBalance(r, l)
      BY <2>2
    <3>2. k = l /\ listing' = listing /\ listing[l].status = "none"
      BY <3>1 DEF ReadBalance, TypeOK
    <3>3. \A s \in Requests \ {r} : req'[s] = req[s]
      BY <3>1 DEF ReadBalance, TypeOK
    <3> QED
      BY <3>1, <3>2, <3>3 DEF ReadBalance
  <2> QED
    BY <1>2, <2>1, <2>2 DEF RequestStep, ReadOffers, CaptureEscrow, TypeOK
<1>7. IntentOfListing'
  <2> SUFFICES ASSUME NEW l \in Listings
               PROVE  /\ listing'[l].intent # None => listing'[l].intent[1] = l
                      /\ listing'[l].status = "reserved" =>
                           listing'[l].buyer \in Accounts \ {Offer[l].seller}
    BY DEF IntentOfListing
  <2>1. CASE \E r \in Requests : CompletePurchase(r) /\ req[r].listing = l
    <3>1. PICK r \in Requests : CompletePurchase(r) /\ req[r].listing = l
      BY <2>1
    <3>2. /\ listing[l] = [status |-> "reserved", buyer |-> req[r].buyer,
                           intent |-> req[r].intent]
          /\ listing' = [listing EXCEPT ![l].status = "sold"]
      BY <3>1, TransferStep
    <3>3. listing'[l] = [status |-> "sold", buyer |-> listing[l].buyer,
                         intent |-> listing[l].intent]
      BY <3>2 DEF TypeOK
    <3> QED
      BY <3>3 DEF IntentOfListing
  <2> QED
    BY <1>2, <2>1 DEF IntentOfListing, ListingStep
<1>8. ChargedJobs'
  <2> SUFFICES ASSUME NEW r \in Requests, req'[r].pc \in {"captured", "transfer"}
               PROVE  /\ intents'[req'[r].intent] = "captured"
                      /\ req'[r].intent[2] = req'[r].buyer
    BY DEF ChargedJobs
  <2>1. CASE /\ req[r].pc \in {"captured", "transfer"}
             /\ req'[r].intent = req[r].intent
             /\ req'[r].buyer = req[r].buyer
    BY <1>3, <2>1, CapturedKept DEF ChargedJobs, Confirming
  <2>2. CASE CheckPurchase(r) /\ req'[r].pc = "transfer"
    BY <1>3, <2>1, <2>2 DEF CheckPurchase, Finish, TypeOK, Idle, Confirming
  <2>3. CASE \E l \in Listings, p \in Intents : CaptureEscrow(r, l, p)
    BY <2>3 DEF CaptureEscrow, TypeOK, Idle
  <2> QED
    BY <1>2, <2>1, <2>2, <2>3 DEF RequestStep, ReadOffers, ReadBalance, TypeOK
<1>9. CheckedReservationHolds'
  <2> SUFFICES ASSUME NEW r \in Requests, req'[r].pc = "transfer"
               PROVE  /\ listing'[req'[r].listing].status = "reserved"
                      /\ listing'[req'[r].listing].buyer = req'[r].buyer
                      /\ listing'[req'[r].listing].intent = req'[r].intent
                      /\ \A s \in Requests \ {r} :
                           req'[s].pc = "transfer" => req'[s].listing # req'[r].listing
    BY DEF CheckedReservationHolds, Matches
  <2> DEFINE k == req'[r].listing
  <2>1. CASE req'[r] = req[r]
    <3>1. k \in Listings /\ Locked(k) /\ Matches(k, req[r].buyer, req[r].intent)
      BY <1>3, <2>1 DEF Confirming, Locked, CheckedReservationHolds
    <3>2. ~\E s \in Requests : CompletePurchase(s) /\ req[s].listing = k
      BY <1>5, <2>1 DEF CheckedReservationHolds
    <3>3. listing'[k] = listing[k]
      BY <1>2, <3>1, <3>2 DEF ListingStep
    <3>4. ASSUME NEW s \in Requests \ {r}, req'[s].pc = "transfer", req'[s].listing = k
          PROVE  FALSE
      <4>1. req'[s] # req[s]
        BY <2>1, <3>4 DEF CheckedReservationHolds
      <4>2. CheckPurchase(s)
        BY <1>2, <3>4, <4>1 DEF RequestStep, ReadOffers, ReadBalance, CaptureEscrow, TypeOK
      <4>3. req[s].listing = k
        BY <1>3, <3>4, <4>2 DEF CheckPurchase, Finish, TypeOK, Idle, Confirming
      <4> QED
        BY <3>1, <4>2, <4>3 DEF CheckPurchase
    <3> QED
      BY <2>1, <3>1, <3>3, <3>4 DEF Matches
  <2>2. CASE CheckPurchase(r)
    <3>1. /\ req[r] \in Confirming
          /\ req'[r] = [req[r] EXCEPT !.pc = "transfer"]
          /\ listing' = listing
          /\ Matches(req[r].listing, req[r].buyer, req[r].intent)
          /\ ~Locked(req[r].listing)
          /\ \A s \in Requests \ {r} : req'[s] = req[s]
      BY <1>3, <2>2 DEF CheckPurchase, Finish, TypeOK, Idle
    <3> QED
      BY <3>1 DEF Matches, Locked, Confirming
  <2> QED
    BY <1>2, <2>1, <2>2 DEF RequestStep, ReadOffers, ReadBalance, CaptureEscrow, TypeOK
<1>10. SoldOnlyWhenCharged'
  <2> SUFFICES ASSUME NEW l \in Listings, listing'[l].status = "sold"
               PROVE  /\ listing'[l].buyer \in Accounts \ {Offer[l].seller}
                      /\ listing'[l].intent = <<l, listing'[l].buyer>>
                      /\ intents'[listing'[l].intent] = "captured"
    BY DEF SoldOnlyWhenCharged
  <2>1. CASE listing'[l] = listing[l]
    BY <2>1, CapturedKept DEF SoldOnlyWhenCharged, Intents
  <2>2. CASE \E r \in Requests : CompletePurchase(r) /\ req[r].listing = l
    <3>1. PICK r \in Requests : CompletePurchase(r) /\ req[r].listing = l
      BY <2>2
    <3> DEFINE p == req[r].intent
    <3>2. /\ p \in Intents /\ intents[p] = "captured" /\ p = <<l, req[r].buyer>>
          /\ listing[l] = [status |-> "reserved", buyer |-> req[r].buyer, intent |-> p]
          /\ listing' = [listing EXCEPT ![l].status = "sold"]
      BY <3>1, TransferStep
    <3>3. listing'[l] = [status |-> "sold", buyer |-> req[r].buyer, intent |-> p]
      BY <3>2 DEF TypeOK
    <3>4. req[r].buyer \in Accounts \ {Offer[l].seller}
      BY <3>2 DEF IntentOfListing
    <3> QED
      BY <3>2, <3>3, <3>4, CapturedKept
  <2> QED
    BY <1>2, <2>1, <2>2 DEF ListingStep
<1>11. TransferredExactlyOnce'
  <2>1. CASE \E r \in Requests : CompletePurchase(r)
    <3>1. PICK r \in Requests : CompletePurchase(r)
      BY <2>1
    <3>2. PICK k \in Listings, b \in Accounts, p \in Intents :
            /\ p = <<k, b>>
            /\ listing[k] = [status |-> "reserved", buyer |-> b, intent |-> p]
            /\ listing' = [listing EXCEPT ![k].status = "sold"]
            /\ ledger' = ledger \cup {PurchaseRow(k, b, p), SaleRow(k, p)}
      <4>1. /\ req[r].listing \in Listings
            /\ req[r].buyer \in Accounts
            /\ req[r].intent = <<req[r].listing, req[r].buyer>>
            /\ req[r].intent \in Intents
            /\ listing[req[r].listing] =
                 [status |-> "reserved", buyer |-> req[r].buyer, intent |-> req[r].intent]
            /\ listing' = [listing EXCEPT ![req[r].listing].status = "sold"]
            /\ ledger' = ledger \cup
                 {PurchaseRow(req[r].listing, req[r].buyer, req[r].intent),
                  SaleRow(req[r].listing, req[r].intent)}
        BY <3>1, TransferStep
      <4> QED
        BY Zenon, <4>1
    <3> DEFINE x == PurchaseRow(k, b, p)
               y == SaleRow(k, p)
    <3>3. Transfers(k) = {}
      BY <3>2 DEF TransferredExactlyOnce
    <3>4. Transfers(k)' = {x, y}
      <4>1. /\ x.type \in {"purchase", "sale"} /\ x.ref \in {k} \X Accounts
            /\ y.type \in {"purchase", "sale"} /\ y.ref \in {k} \X Accounts
        BY <3>2 DEF PurchaseRow, SaleRow
      <4>2. ledger' = ledger \cup {x, y}
        BY <3>2
      <4> HIDE DEF x, y
      <4>3. Transfers(k)' = Transfers(k) \cup {x, y}
        BY <4>1, <4>2, AddedTransfers
      <4> QED
        BY <3>3, <4>3
    <3>5. \A l \in Listings \ {k} : Transfers(l)' = Transfers(l) /\ listing'[l] = listing[l]
      BY <3>2 DEF Transfers, PurchaseRow, SaleRow, TypeOK
    <3>6. listing'[k] = [status |-> "sold", buyer |-> b, intent |-> p]
      BY <3>2 DEF TypeOK
    <3>7. \A l \in Listings \ {k} :
            Transfers(l)' = IF listing'[l].status = "sold"
                            THEN {PurchaseRow(l, listing'[l].buyer, listing'[l].intent),
                                  SaleRow(l, listing'[l].intent)}
                            ELSE {}
      BY <3>5 DEF TransferredExactlyOnce
    <3>8. /\ listing'[k].status = "sold" /\ listing'[k].buyer = b
          /\ listing'[k].intent = p
      BY <3>6
    <3>9. Transfers(k)' = {PurchaseRow(k, listing'[k].buyer, listing'[k].intent),
                           SaleRow(k, listing'[k].intent)}
      BY <3>4, <3>8
    <3> SUFFICES ASSUME NEW l \in Listings
                 PROVE  Transfers(l)' =
                          IF listing'[l].status = "sold"
                          THEN {PurchaseRow(l, listing'[l].buyer, listing'[l].intent),
                                SaleRow(l, listing'[l].intent)}
                          ELSE {}
      BY DEF TransferredExactlyOnce, PurchaseRow, SaleRow
    <3>10. CASE l = k
      BY <3>8, <3>9, <3>10
    <3>11. CASE l # k
      BY <3>7, <3>11
    <3> QED
      BY <3>10, <3>11
  <2>2. CASE ~\E r \in Requests : CompletePurchase(r)
    <3>1. \A l \in Listings : Transfers(l)' = Transfers(l)
      BY <2>2, LedgerSteps
    <3>2. \A l \in Listings : \/ listing'[l] = listing[l]
                              \/ listing[l].status # "sold" /\ listing'[l].status # "sold"
      BY <1>2, <2>2 DEF ListingStep
    <3> QED
      BY <3>1, <3>2 DEF TransferredExactlyOnce, PurchaseRow, SaleRow
  <2> QED
    BY <2>1, <2>2
<1> QED
  BY <1>1, <1>6, <1>7, <1>8, <1>9, <1>10, <1>11

LEMMA MarketInvariant == Spec => []MarketInv
  BY MarketInit, MarketStep, PTL DEF Spec

\* A listing is sold only to another account than its seller's, whose own escrow for
\* that listing has been captured.
THEOREM SoldIsCharged == Spec => []SoldOnlyWhenCharged
<1>1. MarketInv => SoldOnlyWhenCharged
  BY DEF MarketInv
<1> QED
  BY <1>1, MarketInvariant, PTL

\* A sold listing has exactly one purchase row and one sale row; any other has none.
THEOREM TransferIsExactlyOnce == Spec => []TransferredExactlyOnce
<1>1. MarketInv => TransferredExactlyOnce
  BY DEF MarketInv
<1> QED
  BY <1>1, MarketInvariant, PTL

\* Between complete_purchase's checks and its commit the reservation does not move.
THEOREM ReservationHolds == Spec => []CheckedReservationHolds
<1>1. MarketInv => CheckedReservationHolds
  BY DEF MarketInv
<1> QED
  BY <1>1, MarketInvariant, PTL

\* No step touches a listing that is sold or canceled.
THEOREM FinalIsFinal == Spec => FinalStatusKept
<1>1. MarketInv /\ [Next]_vars =>
        [\A l \in Listings :
           listing[l].status \in {"sold", "canceled"} => listing'[l] = listing[l]]_vars
  <2> SUFFICES ASSUME MarketInv, [Next]_vars, NEW l \in Listings,
                      listing[l].status \in {"sold", "canceled"}
               PROVE  listing'[l] = listing[l]
    OBVIOUS
  <2>1. ASSUME NEW r \in Requests, CompletePurchase(r), req[r].listing = l
        PROVE  FALSE
    <3>1. listing[l] = [status |-> "reserved", buyer |-> req[r].buyer,
                        intent |-> req[r].intent]
      BY <2>1, TransferStep
    <3> QED
      BY <3>1
  <2> QED
    BY <2>1, ListingSteps DEF ListingStep
<1> QED
  BY <1>1, MarketInvariant, PTL DEF Spec, FinalStatusKept
-----------------------------------------------------------------------------
(* The sale as its parties see it *)

\* What EscrowSale sees of the state.
Stage == [l \in Listings |-> listing[l].status]
Holder == [l \in Listings |-> listing[l].buyer]
Charged == {p \in Intents : intents[p] = "captured"}
Delivered == {<<e.ref[1], e.account>> : e \in {x \in ledger : x.type = "purchase"}}

\* Rows of other types than purchases deliver nothing.
LEMMA NothingDelivered ==
  ASSUME \/ ledger' = ledger
         \/ \E x : x.type # "purchase" /\ ledger' = ledger \cup {x}
  PROVE  Delivered' = Delivered
BY DEF Delivered

\* A step that writes no listing and no charge is none of the sale.
LEMMA NoSaleStep ==
  ASSUME Stage' = Stage, Holder' = Holder, Charged' = Charged, Delivered' = Delivered
  PROVE  UNCHANGED Sale!vars
BY DEF Sale!vars, Stage, Holder, Charged, Delivered

LEMMA SaleInit == Init => Sale!Init
<1> SUFFICES ASSUME Init PROVE Sale!Init
  OBVIOUS
<1>1. Stage = [l \in Listings |-> "none"] /\ Holder = [l \in Listings |-> None]
  BY DEF Init, NoRow, Stage, Holder
<1>2. Charged = {}
  BY DEF Init, Charged
<1>3. Delivered = {}
  BY OpeningAssumption DEF Init, Delivered
<1> QED BY <1>1, <1>2, <1>3 DEF Sale!Init, Stage, Holder, Charged, Delivered

\* The steps that neither write a listing's row nor charge anybody.
LEMMA QuietSteps ==
  ASSUME MarketInv, NEW r \in Requests,
         \/ \E u \in Refs : ConsumeCredits(r, u)
         \/ \E e \in Events : Consume(r, e)
         \/ \E l \in Listings : ReadBalance(r, l)
         \/ CommitDebit(r) \/ CommitEvent(r) \/ ReadOffers(r) \/ CreateEscrow(r)
         \/ EscrowUnavailable(r) \/ SetPaymentIntent(r) \/ CheckPurchase(r) \/ Crash(r)
  PROVE  UNCHANGED Sale!vars
<1>1. Stage' = Stage /\ Holder' = Holder
  <2>1. CASE listing' = listing
    BY <2>1 DEF Stage, Holder
  <2>2. CASE SetPaymentIntent(r)
    <3>1. \A l \in Listings :
            listing'[l].status = listing[l].status /\ listing'[l].buyer = listing[l].buyer
      BY <2>2 DEF SetPaymentIntent, MarketInv, TypeOK, Rows
    <3> QED BY <3>1 DEF Stage, Holder
  <2> QED
    BY <2>1, <2>2 DEF ConsumeCredits, Consume, ReadBalance, CommitDebit, CommitEvent,
       ReadOffers, CreateEscrow, EscrowUnavailable, CheckPurchase, Crash
<1>2. Charged' = Charged
  <2>1. CASE intents' = intents
    BY <2>1 DEF Charged
  <2>2. CASE CreateEscrow(r) \/ SetPaymentIntent(r)
    BY <2>2 DEF CreateEscrow, SetPaymentIntent, Charged, MarketInv, TypeOK
  <2> QED
    BY <2>1, <2>2 DEF ConsumeCredits, Consume, ReadBalance, CommitDebit, CommitEvent,
       ReadOffers, EscrowUnavailable, CheckPurchase, Crash
<1>3. Delivered' = Delivered
  <2>1. CASE CommitDebit(r)
    <3> DEFINE x == Entry("usage", Usage[req[r].ref].account, -Usage[req[r].ref].amount,
                          req[r].ref)
    <3>1. x.type # "purchase"
      BY DEF Entry
    <3>2. ledger' = ledger \/ ledger' = ledger \cup {x}
      BY <2>1 DEF CommitDebit
    <3> HIDE DEF x
    <3> QED BY <3>1, <3>2, NothingDelivered
  <2>2. CASE CommitEvent(r)
    <3> DEFINE x == EventEntry(req[r].event, req[r].amount)
    <3>1. x.type # "purchase"
      BY DEF EventEntry, Entry
    <3>2. ledger' = ledger \/ ledger' = ledger \cup {x}
      BY <2>2 DEF CommitEvent
    <3> HIDE DEF x
    <3> QED BY <3>1, <3>2, NothingDelivered
  <2>3. CASE ledger' = ledger
    BY <2>3, NothingDelivered
  <2> QED
    BY <2>1, <2>2, <2>3 DEF ConsumeCredits, Consume, ReadBalance, ReadOffers, CreateEscrow,
       EscrowUnavailable, SetPaymentIntent, CheckPurchase, Crash
<1> QED BY <1>1, <1>2, <1>3, NoSaleStep

\* A listing is offered, withdrawn or held.
LEMMA OfferSteps ==
  ASSUME MarketInv
  PROVE  /\ \A r \in Requests : CreateListing(r) => Sale!Next
         /\ \A l \in Listings : CancelListing(l) => Sale!Next
         /\ \A r \in Requests, l \in Listings, b \in Accounts :
              ReservePurchase(r, l, b) => Sale!Next
<1>1. ASSUME intents' = intents, ledger' = ledger
      PROVE  Charged' = Charged /\ Delivered' = Delivered
  BY <1>1 DEF Charged, Delivered
<1>2. ASSUME NEW r \in Requests, CreateListing(r) PROVE Sale!Next
  <2>1. req[r].listing \in Listings /\ listing[req[r].listing].status = "none"
    BY <1>2, JobOf DEF CreateListing, OffersFresh, Offering, MarketInv
  <2>2. PICK l \in Listings : l = req[r].listing
    BY <2>1
  <2>3. Stage' = [Stage EXCEPT ![l] = "open"] /\ Holder' = Holder /\ Stage[l] = "none"
    BY <1>2, <2>1, <2>2 DEF CreateListing, Stage, Holder, MarketInv, TypeOK, Rows
  <2>4. Charged' = Charged /\ Delivered' = Delivered
    BY <1>1, <1>2 DEF CreateListing
  <2>5. Sale!Open(l)
    BY <2>3, <2>4 DEF Sale!Open, Stage, Holder, Charged, Delivered
  <2> QED BY <2>5 DEF Sale!Next
<1>3. ASSUME NEW l \in Listings, CancelListing(l) PROVE Sale!Next
  <2>1. Stage' = [Stage EXCEPT ![l] = "canceled"] /\ Holder' = Holder
    BY <1>3 DEF CancelListing, Stage, Holder, MarketInv, TypeOK, Rows
  <2>2. Sale!Withdraw(l)
    BY <1>1, <1>3, <2>1 DEF CancelListing, Sale!Withdraw, Stage, Holder, Charged, Delivered
  <2> QED BY <2>2 DEF Sale!Next
<1>4. ASSUME NEW r \in Requests, NEW l \in Listings, NEW b \in Accounts,
             ReservePurchase(r, l, b)
      PROVE  Sale!Next
  <2>1. /\ Stage' = [Stage EXCEPT ![l] = "reserved"]
        /\ Holder' = [Holder EXCEPT ![l] = b]
    BY <1>4 DEF ReservePurchase, Stage, Holder, MarketInv, TypeOK, Rows
  <2>2. Sale!Hold(l, b)
    BY <1>1, <1>4, <2>1 DEF ReservePurchase, Sale!Hold, Stage, Holder, Charged, Delivered
  <2> QED BY <2>2 DEF Sale!Next
<1> QED BY <1>2, <1>3, <1>4

\* Reservations that end are released: one by its request or its buyer, or all the stale ones.
LEMMA ReleaseSteps ==
  ASSUME MarketInv, NEW L \in SUBSET Listings,
         \A l \in L : listing[l].status = "reserved",
         listing' = [l \in Listings |-> IF l \in L THEN Reopened ELSE listing[l]],
         UNCHANGED <<intents, ledger>>
  PROVE  Sale!Next
<1>1. /\ Stage' = [l \in Listings |-> IF l \in L THEN "open" ELSE Stage[l]]
      /\ Holder' = [l \in Listings |-> IF l \in L THEN None ELSE Holder[l]]
  BY DEF Stage, Holder, Reopened
<1>2. Charged' = Charged /\ Delivered' = Delivered
  BY DEF Charged, Delivered
<1>3. Sale!Release(L)
  BY <1>1, <1>2 DEF Sale!Release, Stage, Holder, Charged, Delivered
<1> QED BY <1>3 DEF Sale!Next

LEMMA ReleaseOne ==
  ASSUME MarketInv, NEW l \in Listings, listing[l].status = "reserved",
         listing' = [listing EXCEPT ![l] = Reopened], UNCHANGED <<intents, ledger>>
  PROVE  Sale!Next
<1>1. listing' = [k \in Listings |-> IF k \in {l} THEN Reopened ELSE listing[k]]
  BY DEF MarketInv, TypeOK
<1> QED BY <1>1, ReleaseSteps

\* Capturing an escrow is charging its buyer.
LEMMA ChargeStep ==
  ASSUME MarketInv, NEW r \in Requests, NEW l \in Listings, NEW p \in Intents,
         CaptureEscrow(r, l, p)
  PROVE  Sale!Next
<1>1. Charged' = Charged \cup {p}
  BY DEF CaptureEscrow, Charged, MarketInv, TypeOK
<1>2. Stage' = Stage /\ Holder' = Holder /\ Delivered' = Delivered
  BY DEF CaptureEscrow, Stage, Holder, Delivered
<1>3. Sale!Charge(p)
  BY <1>1, <1>2 DEF Sale!Charge, Stage, Holder, Charged, Delivered
<1> QED BY <1>3 DEF Sale!Next, Intents

\* The transfer delivers, and only to the holder, whose card was charged for this listing.
LEMMA DeliverSaleStep ==
  ASSUME MarketInv, NEW r \in Requests, CompletePurchase(r)
  PROVE  Sale!Next
<1>1. PICK l \in Listings, b \in Accounts : l = req[r].listing /\ b = req[r].buyer
  BY TransferStep
<1> DEFINE p == <<l, b>>
           x == PurchaseRow(l, b, p)
           y == SaleRow(l, p)
<1>2. /\ p \in Intents /\ intents[p] = "captured"
      /\ listing[l] = [status |-> "reserved", buyer |-> b, intent |-> p]
      /\ listing' = [listing EXCEPT ![l].status = "sold"]
      /\ ledger' = ledger \cup {x, y}
  BY <1>1, TransferStep
<1>3. x.type = "purchase" /\ x.ref[1] = l /\ x.account = b /\ y.type = "sale"
  BY DEF PurchaseRow, SaleRow
<1> HIDE DEF x, y
<1>4. Delivered' = Delivered \cup {<<l, b>>}
  BY <1>2, <1>3 DEF Delivered
<1>5. /\ Stage' = [Stage EXCEPT ![l] = "sold"] /\ Stage[l] = "reserved"
      /\ Holder' = Holder /\ Holder[l] = b
  <2>1. /\ listing \in [Listings -> Rows]
        /\ listing' = [listing EXCEPT ![l].status = "sold"]
        /\ listing[l].status = "reserved" /\ listing[l].buyer = b
    BY <1>2 DEF MarketInv, TypeOK
  <2>2. /\ listing'[l].status = "sold" /\ listing'[l].buyer = b
        /\ \A k \in Listings \ {l} : listing'[k] = listing[k]
    BY <2>1 DEF Rows
  <2>3. Stage' = [Stage EXCEPT ![l] = "sold"]
    BY <2>2 DEF Stage
  <2>4. Holder' = Holder
    BY <2>1, <2>2 DEF Holder
  <2> QED BY <2>1, <2>3, <2>4 DEF Stage, Holder
<1>6. Charged' = Charged /\ <<l, b>> \in Charged
  BY <1>2 DEF CompletePurchase, Charged
<1>7. Sale!Deliver(l)
  BY <1>4, <1>5, <1>6 DEF Sale!Deliver, Stage, Holder, Charged, Delivered
<1> QED BY <1>7 DEF Sale!Next

LEMMA SaleStep == MarketInv /\ [Next]_vars => [Sale!Next]_Sale!vars
<1> SUFFICES ASSUME MarketInv, [Next]_vars PROVE [Sale!Next]_Sale!vars
  OBVIOUS
<1>1. ASSUME NEW r \in Requests, Start(r) \/ Continue(r) \/ Crash(r)
      PROVE  [Sale!Next]_Sale!vars
  <2>1. CASE UndoPurchase(r)
    <3>1. req[r].listing \in Listings
      BY <2>1, JobOf DEF UndoPurchase, Purchasing, MarketInv
    <3>2. CASE listing[req[r].listing].status = "reserved"
      <4>1. listing' = [listing EXCEPT ![req[r].listing] = Reopened]
        BY <2>1, <3>2 DEF UndoPurchase, Released
      <4> QED BY <2>1, <3>1, <3>2, <4>1, ReleaseOne DEF UndoPurchase
    <3>3. CASE listing[req[r].listing].status # "reserved"
      <4>1. UNCHANGED <<listing, intents, ledger>>
        BY <2>1, <3>3 DEF UndoPurchase, Released
      <4> QED BY <4>1, NoSaleStep DEF Stage, Holder, Charged, Delivered
    <3> QED BY <3>2, <3>3
  <2> QED
    BY <1>1, <2>1, QuietSteps, OfferSteps, ChargeStep, DeliverSaleStep DEF Start, Continue
<1>2. ASSUME NEW l \in Listings, ReservationAges(l) \/ ListingExpires(l)
      PROVE  UNCHANGED Sale!vars
  BY <1>2, NoSaleStep DEF ReservationAges, ListingExpires, Stage, Holder, Charged, Delivered
<1>3. ASSUME NEW l \in Listings, NEW b \in Accounts, CancelPurchase(l, b)
      PROVE  Sale!Next
  <2>1. listing' = [listing EXCEPT ![l] = Reopened]
    BY <1>3 DEF CancelPurchase, Released
  <2> QED BY <1>3, <2>1, ReleaseOne DEF CancelPurchase
<1>4. ASSUME NEW p \in Intents, CustomerAuthorizes(p)
      PROVE  UNCHANGED Sale!vars
  <2>1. Charged' = Charged
    BY <1>4 DEF CustomerAuthorizes, Charged, MarketInv, TypeOK
  <2> QED BY <1>4, <2>1, NoSaleStep DEF CustomerAuthorizes, Stage, Holder, Delivered
<1>5. CASE SweepListings
  <2> DEFINE L == {l \in Listings : Sweepable(l)}
  <2>1. /\ \A l \in L : listing[l].status = "reserved"
        /\ listing' = [l \in Listings |-> IF l \in L THEN Reopened ELSE listing[l]]
        /\ UNCHANGED <<intents, ledger>>
    BY <1>5 DEF SweepListings, Sweepable
  <2>2. L \in SUBSET Listings
    OBVIOUS
  <2> HIDE DEF L
  <2> QED BY <2>1, <2>2, ReleaseSteps
<1>6. CASE UNCHANGED vars
  BY <1>6, NoSaleStep DEF vars, Stage, Holder, Charged, Delivered
<1> QED BY <1>1, <1>2, <1>3, <1>4, <1>5, <1>6, OfferSteps DEF Next

\* The marketplace implements the sale that EscrowSale promises: every step of every request
\* is a step of the sale, or none, for any number of listings, buyers and requests.
THEOREM SaleIsImplemented == Spec => SaleSpec
BY SaleInit, SaleStep, MarketInvariant, PTL DEF Spec, SaleSpec, Sale!Spec

-----------------------------------------------------------------------------
(* The ledger                                                               *)
(*                                                                          *)
(* AppliedExactlyOnce counts rows and events. That a commit adds a row to   *)
(* the count of its event, and not one that is there already, needs the     *)
(* numbers of the rows to stay below how many there are (NumberedGrants).   *)

\* What a handler is about to add: what its event grants, or a grant that it takes back.
AmountFits(e, amount) ==
  IF Grants(e) THEN amount = e.credits
  ELSE amount # 0 => \E g \in ledger : /\ g.type = "grant" /\ g.account = e.account
                                      /\ g.ref = e.invoice /\ amount = -g.amount

HandlesFit ==
  \A r \in Requests : req[r].pc = "handle" => AmountFits(req[r].event, req[r].amount)

Alike(type, a, ref) == {e \in ledger : e.type = type /\ e.account = a /\ e.ref = ref}

\* Rows of events are numbered from 0.
NumberedGrants ==
  \A g \in ledger : g.type = "grant" /\ (\E e \in Events : g.ref = e.ref) =>
    g.n < Cardinality(Alike("grant", g.account, g.ref))

ProcessedEvents == {e \in Events : e.id \in processed}

LedgerInv ==
  /\ TypeOK
  /\ HandlesFit
  /\ NumberedGrants
  /\ IsFiniteSet(ProcessedEvents)
  /\ AppliedExactlyOnce
  /\ ClawbackMatchesGrant

\* The three ways in which the ledger grows.
UsageStep(u) ==
  /\ u \notin processed
  /\ processed' = processed \cup {u}
  /\ ledger' = ledger \cup {Entry("usage", Usage[u].account, -Usage[u].amount, u)}

EventStep(e, amount) ==
  /\ e.id \notin processed
  /\ processed' = processed \cup {e.id}
  /\ ledger' = IF amount = 0 THEN ledger ELSE ledger \cup {EventEntry(e, amount)}

SaleRowsStep ==
  /\ processed' = processed
  /\ \E x, y : /\ {x.type, y.type} \subseteq {"purchase", "sale"}
               /\ ledger' = ledger \cup {x, y}

\* A handler at work with its event and amount.
EventCommits(r, e, amount) ==
  /\ req[r].pc = "handle" /\ req[r].event = e /\ req[r].amount = amount
  /\ EventStep(e, amount)

LEMMA LedgerGrowth ==
  ASSUME TypeOK, [Next]_vars
  PROVE  \/ UNCHANGED <<ledger, processed>>
         \/ \E u \in Refs : UsageStep(u)
         \/ \E r \in Requests, e \in Events, amount \in Int : EventCommits(r, e, amount)
         \/ SaleRowsStep
<1>1. ASSUME NEW r \in Requests, CommitDebit(r)
      PROVE  UNCHANGED <<ledger, processed>> \/ \E u \in Refs : UsageStep(u)
  <2>1. PICK u \in Refs : u = req[r].ref
    BY <1>1, JobOf DEF CommitDebit, Debiting
  <2> QED BY <1>1, <2>1 DEF CommitDebit, Duplicate, UsageStep
<1>2. ASSUME NEW r \in Requests, CommitEvent(r)
      PROVE  \/ UNCHANGED <<ledger, processed>>
             \/ \E e \in Events, amount \in Int : EventCommits(r, e, amount)
  <2>1. PICK e \in Events, amount \in Int : e = req[r].event /\ amount = req[r].amount
    BY <1>2, JobOf DEF CommitEvent, Handling
  <2> QED BY <1>2, <2>1 DEF CommitEvent, Duplicate, EventStep, EventCommits
<1>3. ASSUME NEW r \in Requests, CompletePurchase(r) PROVE SaleRowsStep
  <2> DEFINE x == Entry("purchase", req[r].buyer, Offer[req[r].listing].credits, req[r].intent)
             y == Entry("sale", Offer[req[r].listing].seller, -Offer[req[r].listing].credits,
                        req[r].intent)
  <2>1. x.type = "purchase" /\ y.type = "sale"
    BY DEF Entry
  <2>2. ledger' = ledger \cup {x, y} /\ processed' = processed
    BY <1>3 DEF CompletePurchase
  <2> HIDE DEF x, y
  <2> QED BY <2>1, <2>2 DEF SaleRowsStep
<1> QED
  BY <1>1, <1>2, <1>3
     DEF Next, Start, Continue, vars, ConsumeCredits, Consume, ReadBalance, ReservePurchase,
         CaptureEscrow, ReadOffers, CreateListing, CreateEscrow, EscrowUnavailable,
         SetPaymentIntent, UndoPurchase, CheckPurchase, Crash, CancelListing,
         ReservationAges, ListingExpires, CancelPurchase, CustomerAuthorizes, SweepListings

\* Nothing leaves the ledger or the processed ids.
LEMMA Grown ==
  ASSUME TypeOK, [Next]_vars
  PROVE  ledger \subseteq ledger' /\ processed \subseteq processed'
BY LedgerGrowth DEF UsageStep, EventCommits, EventStep, SaleRowsStep

\* A handler begins by looking for what it is to add.
LEMMA HandlerBegins ==
  ASSUME TypeOK, [Next]_vars, NEW r \in Requests, req'[r].pc = "handle"
  PROVE  req'[r] = req[r] \/ \E e \in Events : Consume(r, e)
<1>2. ASSUME Start(r) PROVE \E e \in Events : Consume(r, e)
  <2>1. \A u \in Refs : ~ConsumeCredits(r, u)
    BY DEF ConsumeCredits, TypeOK
  <2>2. \A l \in Listings : ~ReadBalance(r, l)
    BY DEF ReadBalance, TypeOK
  <2>3. \A l \in Listings, b \in Accounts : ~ReservePurchase(r, l, b)
    BY DEF ReservePurchase, TypeOK
  <2>4. \A l \in Listings, p \in Intents : ~CaptureEscrow(r, l, p)
    BY DEF CaptureEscrow, TypeOK, Idle
  <2> QED BY <1>2, <2>1, <2>2, <2>3, <2>4 DEF Start
<1>3. ASSUME Continue(r) \/ Crash(r) PROVE FALSE
  <2>1. req'[r] # Idle
    BY DEF Idle
  <2>2. CASE ReadOffers(r) \/ CreateEscrow(r) \/ EscrowUnavailable(r) \/ SetPaymentIntent(r) \/ CheckPurchase(r)
    <3>1. req[r] \in Offering \cup Purchasing \cup Confirming
      BY <2>2, JobOf DEF ReadOffers, CreateEscrow, EscrowUnavailable, SetPaymentIntent, CheckPurchase
    <3> QED
      BY <2>1, <2>2, <3>1 DEF ReadOffers, CreateEscrow, EscrowUnavailable, SetPaymentIntent,
         CheckPurchase, Finish, TypeOK, Offering, Purchasing, Confirming
  <2> QED
    BY <1>3, <2>1, <2>2 DEF Continue, CommitDebit, CommitEvent, CreateListing, UndoPurchase,
       CompletePurchase, Crash, Finish, TypeOK
<1>4. CASE \E s \in Requests : Start(s) \/ Continue(s) \/ Crash(s)
  <2>1. PICK s \in Requests : Start(s) \/ Continue(s) \/ Crash(s)
    BY <1>4
  <2>2. CASE s = r
    BY <1>2, <1>3, <2>1, <2>2
  <2>3. CASE s # r
    BY <2>1, <2>3 DEF Start, Continue, ConsumeCredits, Consume, ReadBalance, ReservePurchase,
       CaptureEscrow, CommitDebit, CommitEvent, ReadOffers, CreateListing, CreateEscrow,
       EscrowUnavailable, SetPaymentIntent, UndoPurchase, CheckPurchase, CompletePurchase,
       Crash, Finish, TypeOK
  <2> QED BY <2>2, <2>3
<1> QED
  BY <1>4 DEF Next, vars, CancelListing, ReservationAges, ListingExpires, CancelPurchase,
     CustomerAuthorizes, SweepListings

LEMMA HandlesFitStep ==
  ASSUME LedgerInv, [Next]_vars
  PROVE  HandlesFit'
<1> SUFFICES ASSUME NEW r \in Requests, req'[r].pc = "handle"
             PROVE  AmountFits(req[r].event, req[r].amount)'
  BY DEF HandlesFit
<1>1. TypeOK /\ ledger \subseteq ledger'
  BY Grown DEF LedgerInv
<1>2. CASE req'[r] = req[r]
  BY <1>1, <1>2 DEF LedgerInv, HandlesFit, AmountFits
<1>3. CASE \E e \in Events : Consume(r, e)
  <2>1. PICK e \in Events : Consume(r, e)
    BY <1>3
  <2>2. PICK amount \in Amounts(e) : req' = [req EXCEPT ![r] = [pc |-> "handle", event |-> e, amount |-> amount]]
    BY <2>1 DEF Consume
  <2>3. req'[r].event = e /\ req'[r].amount = amount /\ ledger' = ledger
    BY <1>1, <2>1, <2>2 DEF Consume, TypeOK
  <2> QED BY <2>3 DEF AmountFits, Amounts
<1> QED BY <1>1, <1>2, <1>3, HandlerBegins

\* A grant's row is a new one.
LEMMA FreshGrant ==
  ASSUME TypeOK, NumberedGrants, NEW e \in Events, Grants(e), NEW amount \in Int
  PROVE  LET x == EventEntry(e, amount)
             same == Alike("grant", e.account, e.ref)
         IN /\ x.type = "grant" /\ x.account = e.account /\ x.ref = e.ref /\ x.amount = amount
            /\ x \notin ledger
            /\ IsFiniteSet(same)
            /\ x.n = Cardinality(same)
<1> DEFINE x == EventEntry(e, amount)
           same == Alike("grant", e.account, e.ref)
<1>1. x = [type |-> "grant", account |-> e.account, amount |-> amount, ref |-> e.ref,
           n |-> Cardinality(same)]
  BY DEF EventEntry, Entry, Alike
<1>2. same \in SUBSET ledger
  BY DEF Alike
<1>3. IsFiniteSet(same)
  BY <1>2, FS_Subset DEF TypeOK
<1>4. Cardinality(same) \in Nat
  BY <1>3, FS_CardinalityType
<1>5. x \notin ledger
  BY <1>1, <1>4 DEF NumberedGrants
<1> QED BY <1>1, <1>3, <1>5

\* The parts of AppliedExactlyOnce.
UsageOf(u) == {e \in ledger : e.type = "usage" /\ e.ref = u}
GrantsOf(e) == {g \in ledger : g.type = "grant" /\ GrantOf(g, e)}
ProcessedAs(e) ==
  {f \in Events : /\ Grants(f) /\ f.id \in processed
                  /\ <<f.account, f.credits, f.ref>> = <<e.account, e.credits, e.ref>>}

UsageOnce ==
  \A u \in Refs :
    UsageOf(u) = IF u \in processed
                 THEN {[type |-> "usage", account |-> Usage[u].account,
                        amount |-> -Usage[u].amount, ref |-> u, n |-> 0]}
                 ELSE {}
GrantsFollow ==
  \A g \in ledger \ Opening : g.type = "grant" => \E e \in Events : Grants(e) /\ GrantOf(g, e)
GrantsCounted ==
  \A e \in Events : Grants(e) /\ e.credits > 0 =>
    Cardinality(GrantsOf(e)) = Cardinality(ProcessedAs(e))

LEMMA AppliedParts == AppliedExactlyOnce <=> UsageOnce /\ GrantsFollow /\ GrantsCounted
BY DEF AppliedExactlyOnce, UsageOnce, GrantsFollow, GrantsCounted, UsageOf, GrantsOf, ProcessedAs

\* The parts of ClawbackMatchesGrant.
ClawbackOf(x, e, g) ==
  /\ ~Grants(e) /\ e.id \in processed
  /\ x.ref = e.ref /\ g.ref = e.invoice
  /\ x.account = e.account /\ g.account = e.account
  /\ g.type = "grant" /\ g.amount = -x.amount
ClawbacksOf(a) == {x \in RowsOf(a) : x.type = "clawback"}
RefundsOf(a) == {e \in Events : ~Grants(e) /\ e.account = a /\ e.id \in processed}

ClawbackParts ==
  /\ \A x \in ledger : x.type = "clawback" => \E e \in Events, g \in ledger : ClawbackOf(x, e, g)
  /\ \A a \in Accounts : Cardinality(ClawbacksOf(a)) <= Cardinality(RefundsOf(a))

LEMMA ClawbackInParts == ClawbackMatchesGrant <=> ClawbackParts
BY DEF ClawbackMatchesGrant, ClawbackParts, ClawbackOf, ClawbacksOf, RefundsOf

\* A step that is none of an event's: it adds no grant or clawback and processes no event.
EventsRest ==
  /\ ledger \subseteq ledger'
  /\ \A x \in ledger' \ ledger : x.type \notin {"grant", "clawback"}
  /\ \A e \in Events : e.id \in processed' <=> e.id \in processed

LEMMA LedgerSplit ==
  ASSUME TypeOK, [Next]_vars
  PROVE  \/ EventsRest
         \/ \E r \in Requests, e \in Events, amount \in Int : EventCommits(r, e, amount)
<1>1. ASSUME NEW u \in Refs, UsageStep(u) PROVE EventsRest
  <2>1. \A e \in Events : e.id # u
    BY EventsAssumption
  <2> QED BY <1>1, <2>1 DEF UsageStep, Entry, EventsRest
<1>2. ASSUME SaleRowsStep PROVE EventsRest
  BY <1>2 DEF SaleRowsStep, EventsRest
<1> QED BY <1>1, <1>2, LedgerGrowth DEF EventsRest

\* Finite sets of rows and events, whose cardinalities are numbers.
LEMMA Counts ==
  ASSUME TypeOK, IsFiniteSet(ProcessedEvents), NEW e, NEW a
  PROVE  /\ IsFiniteSet(GrantsOf(e)) /\ Cardinality(GrantsOf(e)) \in Nat
         /\ IsFiniteSet(ProcessedAs(e)) /\ Cardinality(ProcessedAs(e)) \in Nat
         /\ IsFiniteSet(ClawbacksOf(a)) /\ Cardinality(ClawbacksOf(a)) \in Nat
         /\ IsFiniteSet(RefundsOf(a)) /\ Cardinality(RefundsOf(a)) \in Nat
<1>1. GrantsOf(e) \in SUBSET ledger /\ ClawbacksOf(a) \in SUBSET ledger /\ IsFiniteSet(ledger)
  BY DEF GrantsOf, ClawbacksOf, RowsOf, TypeOK
<1>2. ProcessedAs(e) \in SUBSET ProcessedEvents /\ RefundsOf(a) \in SUBSET ProcessedEvents
  BY DEF ProcessedAs, RefundsOf, ProcessedEvents
<1>3. /\ IsFiniteSet(GrantsOf(e)) /\ IsFiniteSet(ClawbacksOf(a))
      /\ IsFiniteSet(ProcessedAs(e)) /\ IsFiniteSet(RefundsOf(a))
  BY <1>1, <1>2, FS_Subset
<1> QED BY <1>3, FS_CardinalityType

\* What an event adds to the processed ones, by its id.
LEMMA EventNoted ==
  ASSUME NEW e \in Events, NEW amount \in Int, EventStep(e, amount)
  PROVE  /\ ProcessedEvents' = ProcessedEvents \cup {e} /\ e \notin ProcessedEvents
         /\ \A f \in Events : ProcessedAs(f)' =
              IF Grants(e) /\ <<f.account, f.credits, f.ref>> = <<e.account, e.credits, e.ref>>
              THEN ProcessedAs(f) \cup {e} ELSE ProcessedAs(f)
         /\ \A a \in Accounts : RefundsOf(a)' =
              IF ~Grants(e) /\ e.account = a THEN RefundsOf(a) \cup {e} ELSE RefundsOf(a)
         /\ \A f \in Events : e \notin ProcessedAs(f)
         /\ \A a \in Accounts : e \notin RefundsOf(a)
<1>1. \A f \in Events : f.id \in processed' <=> f.id \in processed \/ f = e
  BY EventsAssumption DEF EventStep
<1>2. e.id \notin processed
  BY DEF EventStep
<1> QED BY <1>1, <1>2 DEF ProcessedEvents, ProcessedAs, RefundsOf, Grants

LEMMA EventsFinite ==
  ASSUME LedgerInv, [Next]_vars
  PROVE  IsFiniteSet(ProcessedEvents)'
<1>1. CASE EventsRest
  <2>1. ProcessedEvents' = ProcessedEvents
    BY <1>1 DEF EventsRest, ProcessedEvents
  <2> QED BY <2>1 DEF LedgerInv
<1>2. ASSUME NEW r \in Requests, NEW e \in Events, NEW amount \in Int, EventCommits(r, e, amount)
      PROVE  IsFiniteSet(ProcessedEvents)'
  <2>1. ProcessedEvents' = ProcessedEvents \cup {e}
    BY <1>2, EventNoted DEF EventCommits
  <2> QED BY <2>1, FS_AddElement DEF LedgerInv
<1> QED BY <1>1, <1>2, LedgerSplit DEF LedgerInv

LEMMA UsageStepOnce ==
  ASSUME LedgerInv, [Next]_vars
  PROVE  UsageOnce'
<1> DEFINE RowOf(u) == [type |-> "usage", account |-> Usage[u].account,
                        amount |-> -Usage[u].amount, ref |-> u, n |-> 0]
<1>1. TypeOK /\ UsageOnce
  BY AppliedParts DEF LedgerInv
<1>2. ASSUME NEW u \in Refs, UsageStep(u) PROVE UsageOnce'
  <2> DEFINE x == Entry("usage", Usage[u].account, -Usage[u].amount, u)
  <2>1. UsageOf(u) = {}
    BY <1>1, <1>2 DEF UsageOnce, UsageStep
  <2>2. {e \in ledger : e.type = "usage" /\ e.account = Usage[u].account /\ e.ref = u} = {}
    BY <2>1 DEF UsageOf
  <2>3. x = RowOf(u)
    BY <2>2, FS_EmptySet DEF Entry
  <2>4. x.type = "usage" /\ x.ref = u
    BY DEF Entry
  <2> HIDE DEF x, RowOf
  <2>5. /\ UsageOf(u)' = {x}
        /\ \A v \in Refs \ {u} : UsageOf(v)' = UsageOf(v) /\ (v \in processed' <=> v \in processed)
        /\ u \in processed'
    <3>1. ledger' = ledger \cup {x} /\ processed' = processed \cup {u}
      BY <1>2 DEF UsageStep, x
    <3>2. UsageOf(u)' = UsageOf(u) \cup {x}
      BY <2>4, <3>1 DEF UsageOf
    <3>3. \A v \in Refs \ {u} : UsageOf(v)' = UsageOf(v)
      BY <2>4, <3>1 DEF UsageOf
    <3> QED BY <2>1, <3>1, <3>2, <3>3
  <2>6. \A v \in Refs : UsageOf(v) = IF v \in processed THEN {RowOf(v)} ELSE {}
    BY <1>1 DEF UsageOnce, RowOf
  <2>7. \A v \in Refs : UsageOf(v)' = IF v \in processed' THEN {RowOf(v)} ELSE {}
    BY <2>3, <2>5, <2>6
  <2> QED BY <2>7 DEF UsageOnce, RowOf
<1>3. ASSUME \A u \in Refs : UsageOf(u)' = UsageOf(u) /\ (u \in processed' <=> u \in processed)
      PROVE  UsageOnce'
  BY <1>1, <1>3 DEF UsageOnce
<1>4. ASSUME NEW e \in Events, NEW amount \in Int, EventStep(e, amount) PROVE UsageOnce'
  <2>1. e.id \notin Refs
    BY EventsAssumption
  <2> DEFINE x == EventEntry(e, amount)
  <2>2. x.type # "usage"
    BY DEF EventEntry, Entry
  <2>3. ledger' = ledger \/ ledger' = ledger \cup {x}
    BY <1>4 DEF EventStep
  <2> HIDE DEF x
  <2> QED BY <1>3, <1>4, <2>1, <2>2, <2>3 DEF EventStep, UsageOf
<1>5. ASSUME SaleRowsStep PROVE UsageOnce'
  BY <1>3, <1>5 DEF SaleRowsStep, UsageOf
<1>6. ASSUME UNCHANGED <<ledger, processed>> PROVE UsageOnce'
  BY <1>3, <1>6 DEF UsageOf
<1> QED BY <1>1, <1>2, <1>4, <1>5, <1>6, LedgerGrowth DEF EventCommits

\* What holds of the grants, from one commit to the next.
GrantsInv == NumberedGrants /\ GrantsFollow /\ GrantsCounted

\* Without a new grant, and without a processed event that grants anything, nothing changes.
LEMMA GrantsRest ==
  ASSUME GrantsInv, ledger \subseteq ledger', \A x \in ledger' \ ledger : x.type # "grant",
         \A f \in Events : Grants(f) /\ f.credits > 0 => ProcessedAs(f)' = ProcessedAs(f)
  PROVE  GrantsInv'
<1>1. /\ \A a, ref : Alike("grant", a, ref)' = Alike("grant", a, ref)
      /\ \A f : GrantsOf(f)' = GrantsOf(f)
  BY DEF Alike, GrantsOf
<1>2. NumberedGrants'
  <2> SUFFICES ASSUME NEW g \in ledger', g.type = "grant", \E e \in Events : g.ref = e.ref
               PROVE  g.n < Cardinality(Alike("grant", g.account, g.ref)')
    BY DEF NumberedGrants
  <2>1. g \in ledger
    OBVIOUS
  <2>2. g.n < Cardinality(Alike("grant", g.account, g.ref))
    BY <2>1 DEF GrantsInv, NumberedGrants
  <2> QED BY <1>1, <2>2
<1>3. GrantsFollow'
  BY DEF GrantsInv, GrantsFollow
<1>4. GrantsCounted'
  BY <1>1 DEF GrantsInv, GrantsCounted
<1> QED BY <1>2, <1>3, <1>4 DEF GrantsInv

\* An event that grants adds one row and is one more event, in the counts of its like only.
LEMMA GrantCommits ==
  ASSUME TypeOK, GrantsInv, IsFiniteSet(ProcessedEvents), NEW e \in Events, Grants(e),
         e.credits > 0, EventStep(e, e.credits)
  PROVE  GrantsInv'
<1> DEFINE x == EventEntry(e, e.credits)
           same == Alike("grant", e.account, e.ref)
<1>1. e.credits \in Int /\ e.credits # 0 /\ e.account \in Accounts
  BY EventsAssumption
<1>2. /\ x.type = "grant" /\ x.account = e.account /\ x.ref = e.ref /\ x.amount = e.credits
      /\ x \notin ledger /\ IsFiniteSet(same) /\ x.n = Cardinality(same)
  BY <1>1, FreshGrant DEF GrantsInv
<1>3. ledger' = ledger \cup {x}
  BY <1>1 DEF EventStep
<1> HIDE DEF x
<1>4. Cardinality(same) \in Nat
  BY <1>2, FS_CardinalityType
<1>5. NumberedGrants'
  <2> SUFFICES ASSUME NEW g \in ledger', g.type = "grant", \E f \in Events : g.ref = f.ref
               PROVE  g.n < Cardinality(Alike("grant", g.account, g.ref)')
    BY DEF NumberedGrants
  <2>1. CASE g.account = e.account /\ g.ref = e.ref
    <3>1. same' = same \cup {x} /\ x \notin same
      BY <1>2, <1>3 DEF Alike
    <3>2. Cardinality(same') = Cardinality(same) + 1
      <4>1. Cardinality(same \cup {x}) = Cardinality(same) + 1
        BY <1>2, <3>1, FS_AddElement
      <4> QED BY <3>1, <4>1
    <3>3. g = x \/ g \in ledger
      BY <1>3
    <3>4. g \in ledger => g.n < Cardinality(same) /\ g.n \in Nat
      BY <2>1 DEF GrantsInv, NumberedGrants, TypeOK, Entries
    <3>5. g.n < Cardinality(same')
      <4> DEFINE c == Cardinality(same)
      <4>1. c \in Nat /\ x.n = c /\ Cardinality(same') = c + 1
        BY <1>2, <1>4, <3>2
      <4>2. g \in ledger => g.n < c /\ g.n \in Nat
        BY <3>4
      <4> HIDE DEF c, same
      <4> QED BY <3>3, <4>1, <4>2
    <3> QED BY <2>1, <3>5
  <2>2. CASE g.account # e.account \/ g.ref # e.ref
    <3>1. g \in ledger /\ Alike("grant", g.account, g.ref)' = Alike("grant", g.account, g.ref)
      BY <1>2, <1>3, <2>2 DEF Alike
    <3>2. g.n < Cardinality(Alike("grant", g.account, g.ref))
      BY <3>1 DEF GrantsInv, NumberedGrants
    <3> QED BY <3>1, <3>2
  <2> QED BY <2>1, <2>2
<1>6. GrantsFollow'
  <2>1. GrantOf(x, e)
    BY <1>2 DEF GrantOf
  <2> QED BY <1>3, <2>1 DEF GrantsInv, GrantsFollow
<1>7. GrantsCounted'
  <2> SUFFICES ASSUME NEW f \in Events, Grants(f), f.credits > 0
               PROVE  Cardinality(GrantsOf(f)') = Cardinality(ProcessedAs(f)')
    BY DEF GrantsCounted
  <2>1. Cardinality(GrantsOf(f)) = Cardinality(ProcessedAs(f))
    BY DEF GrantsInv, GrantsCounted
  <2>2. CASE <<f.account, f.credits, f.ref>> = <<e.account, e.credits, e.ref>>
    <3>1. GrantsOf(f)' = GrantsOf(f) \cup {x} /\ x \notin GrantsOf(f)
      BY <1>2, <1>3, <2>2 DEF GrantsOf, GrantOf
    <3>2. ProcessedAs(f)' = ProcessedAs(f) \cup {e} /\ e \notin ProcessedAs(f)
      BY <1>1, <2>2, EventNoted
    <3>3. Cardinality(GrantsOf(f) \cup {x}) = Cardinality(GrantsOf(f)) + 1
      BY <3>1, Counts, FS_AddElement
    <3>4. Cardinality(ProcessedAs(f) \cup {e}) = Cardinality(ProcessedAs(f)) + 1
      BY <3>2, Counts, FS_AddElement
    <3> QED BY <2>1, <3>1, <3>2, <3>3, <3>4
  <2>3. CASE <<f.account, f.credits, f.ref>> # <<e.account, e.credits, e.ref>>
    <3>1. GrantsOf(f)' = GrantsOf(f)
      BY <1>2, <1>3, <2>3 DEF GrantsOf, GrantOf
    <3>2. ProcessedAs(f)' = ProcessedAs(f)
      BY <1>1, <2>3, EventNoted
    <3> QED BY <2>1, <3>1, <3>2
  <2> QED BY <2>2, <2>3
<1> QED BY <1>5, <1>6, <1>7 DEF GrantsInv

LEMMA GrantsStep ==
  ASSUME LedgerInv, [Next]_vars
  PROVE  GrantsInv'
<1>1. TypeOK /\ GrantsInv /\ HandlesFit /\ IsFiniteSet(ProcessedEvents)
  BY AppliedParts DEF LedgerInv, GrantsInv
<1>2. CASE EventsRest
  <2>1. \A f \in Events : ProcessedAs(f)' = ProcessedAs(f)
    BY <1>2 DEF EventsRest, ProcessedAs
  <2> QED BY <1>1, <1>2, <2>1, GrantsRest DEF EventsRest
<1>3. ASSUME NEW r \in Requests, NEW e \in Events, NEW amount \in Int, EventCommits(r, e, amount)
      PROVE  GrantsInv'
  <2>1. EventStep(e, amount) /\ AmountFits(e, amount)
    BY <1>1, <1>3 DEF EventCommits, HandlesFit
  <2>2. CASE Grants(e) /\ e.credits > 0
    BY <1>1, <2>1, <2>2, GrantCommits DEF AmountFits
  <2>3. CASE ~(Grants(e) /\ e.credits > 0)
    <3>1. Grants(e) => amount = 0
      BY <2>1, <2>3, EventsAssumption DEF AmountFits
    <3>2. \A f \in Events : Grants(f) /\ f.credits > 0 => ProcessedAs(f)' = ProcessedAs(f)
      BY <2>1, <2>3, EventNoted
    <3> DEFINE x == EventEntry(e, amount)
    <3>3. ~Grants(e) => x.type # "grant"
      BY DEF EventEntry, Entry
    <3>4. ledger' = ledger \/ (~Grants(e) /\ ledger' = ledger \cup {x})
      BY <2>1, <3>1 DEF EventStep
    <3> HIDE DEF x
    <3>5. ledger \subseteq ledger' /\ \A y \in ledger' \ ledger : y.type # "grant"
      BY <3>3, <3>4
    <3> QED BY <1>1, <3>2, <3>5, GrantsRest
  <2> QED BY <2>2, <2>3
<1> QED BY <1>1, <1>2, <1>3, LedgerSplit

\* A clawback's grant stays in the ledger, and its event stays processed.
LEMMA ClawbacksStay ==
  ASSUME ClawbackParts, ledger \subseteq ledger', processed \subseteq processed'
  PROVE  \A x \in ledger : x.type = "clawback" =>
           \E e \in Events, g \in ledger' : ClawbackOf(x, e, g)'
<1> SUFFICES ASSUME NEW x \in ledger, x.type = "clawback"
             PROVE  \E e \in Events, g \in ledger' : ClawbackOf(x, e, g)'
  OBVIOUS
<1>1. PICK e \in Events, g \in ledger : ClawbackOf(x, e, g)
  BY DEF ClawbackParts
<1> QED BY <1>1 DEF ClawbackOf

\* Without a new clawback, refunds only become more.
LEMMA ClawbacksRest ==
  ASSUME ClawbackParts, TypeOK', IsFiniteSet(ProcessedEvents)',
         ledger \subseteq ledger', processed \subseteq processed',
         \A x \in ledger' \ ledger : x.type # "clawback"
  PROVE  ClawbackParts'
<1>1. \A x \in ledger' : x.type = "clawback" => \E e \in Events, g \in ledger' : ClawbackOf(x, e, g)'
  BY ClawbacksStay
<1>2. ASSUME NEW a \in Accounts
      PROVE  Cardinality(ClawbacksOf(a)') <= Cardinality(RefundsOf(a)')
  <2>1. ClawbacksOf(a)' = ClawbacksOf(a)
    BY DEF ClawbacksOf, RowsOf
  <2>2. RefundsOf(a) \in SUBSET RefundsOf(a)' /\ RefundsOf(a)' \in SUBSET ProcessedEvents'
    BY DEF RefundsOf, ProcessedEvents
  <2>3. IsFiniteSet(RefundsOf(a)')
    BY <2>2, FS_Subset
  <2>4. /\ Cardinality(RefundsOf(a)) <= Cardinality(RefundsOf(a)')
        /\ Cardinality(RefundsOf(a)) \in Nat /\ Cardinality(RefundsOf(a)') \in Nat
    <3>1. IsFiniteSet(RefundsOf(a))
      BY <2>2, <2>3, FS_Subset
    <3> QED BY <2>2, <2>3, <3>1, FS_Subset, FS_CardinalityType
  <2>5. Cardinality(ClawbacksOf(a)') \in Nat
    <3>1. ClawbacksOf(a)' \in SUBSET ledger' /\ IsFiniteSet(ledger')
      BY DEF ClawbacksOf, RowsOf, TypeOK
    <3> QED BY <3>1, FS_Subset, FS_CardinalityType
  <2>6. Cardinality(ClawbacksOf(a)) <= Cardinality(RefundsOf(a))
    BY DEF ClawbackParts
  <2> QED BY <2>1, <2>4, <2>5, <2>6
<1> QED BY <1>1, <1>2 DEF ClawbackParts

\* A refund that finds its grant adds one clawback at most, and is one more refund.
LEMMA ClawbackCommits ==
  ASSUME ClawbackParts, TypeOK, IsFiniteSet(ProcessedEvents), NEW e \in Events, ~Grants(e),
         NEW amount \in Int, amount # 0, AmountFits(e, amount), EventStep(e, amount)
  PROVE  ClawbackParts'
<1> PICK x : x = EventEntry(e, amount)
  OBVIOUS
<1>1. x.type = "clawback" /\ x.account = e.account /\ x.ref = e.ref /\ x.amount = amount
  BY DEF EventEntry, Entry
<1>2. ledger' = ledger \cup {x} /\ processed' = processed \cup {e.id}
  BY DEF EventStep
<1>3. ASSUME NEW y \in ledger', y.type = "clawback"
      PROVE  \E f \in Events, g \in ledger' : ClawbackOf(y, f, g)'
  <2>1. CASE y \in ledger
    BY <1>2, <1>3, <2>1, ClawbacksStay
  <2>2. CASE y = x
    <3>1. PICK g \in ledger : /\ g.type = "grant" /\ g.account = e.account
                              /\ g.ref = e.invoice /\ amount = -g.amount
      BY DEF AmountFits
    <3>2. g.amount \in Int
      BY DEF TypeOK, Entries
    <3>3. g.amount = -x.amount
      BY <1>1, <3>1, <3>2
    <3>4. ClawbackOf(x, e, g)'
      BY <1>1, <1>2, <3>1, <3>3 DEF ClawbackOf
    <3> QED BY <1>2, <2>2, <3>4
  <2> QED BY <1>2, <2>1, <2>2
<1>4. ASSUME NEW a \in Accounts
      PROVE  Cardinality(ClawbacksOf(a)') <= Cardinality(RefundsOf(a)')
  <2> DEFINE c == Cardinality(ClawbacksOf(a))
             n == Cardinality(RefundsOf(a))
  <2>1. c \in Nat /\ n \in Nat /\ c <= n
    BY Counts DEF ClawbackParts
  <2>2. CASE a = e.account
    <3>1. ClawbacksOf(a)' = ClawbacksOf(a) \cup {x}
      BY <1>1, <1>2, <2>2 DEF ClawbacksOf, RowsOf
    <3>2. RefundsOf(a)' = RefundsOf(a) \cup {e} /\ e \notin RefundsOf(a)
      BY <2>2, EventNoted
    <3>3. Cardinality(ClawbacksOf(a) \cup {x}) \in {c, c + 1}
      BY Counts, FS_AddElement
    <3>4. Cardinality(RefundsOf(a) \cup {e}) = n + 1
      BY <3>2, Counts, FS_AddElement
    <3>5. Cardinality(ClawbacksOf(a)') \in {c, c + 1} /\ Cardinality(RefundsOf(a)') = n + 1
      BY <3>1, <3>2, <3>3, <3>4
    <3> HIDE DEF c, n
    <3> QED BY <2>1, <3>5
  <2>3. CASE a # e.account
    <3>1. ClawbacksOf(a)' = ClawbacksOf(a)
      BY <1>1, <1>2, <2>3 DEF ClawbacksOf, RowsOf
    <3>2. RefundsOf(a)' = RefundsOf(a)
      BY <2>3, EventNoted
    <3> QED BY <2>1, <3>1, <3>2
  <2> QED BY <2>2, <2>3
<1> QED BY <1>3, <1>4 DEF ClawbackParts

LEMMA ClawbackStep ==
  ASSUME LedgerInv, [Next]_vars
  PROVE  ClawbackParts'
<1>1. TypeOK /\ ClawbackParts /\ HandlesFit /\ IsFiniteSet(ProcessedEvents)
  BY ClawbackInParts DEF LedgerInv
<1>2. TypeOK' /\ IsFiniteSet(ProcessedEvents)' /\ ledger \subseteq ledger' /\ processed \subseteq processed'
  BY <1>1, TypeStep, EventsFinite, Grown
<1>3. CASE EventsRest
  BY <1>1, <1>2, <1>3, ClawbacksRest DEF EventsRest
<1>4. ASSUME NEW r \in Requests, NEW e \in Events, NEW amount \in Int, EventCommits(r, e, amount)
      PROVE  ClawbackParts'
  <2>1. EventStep(e, amount) /\ AmountFits(e, amount)
    BY <1>1, <1>4 DEF EventCommits, HandlesFit
  <2>2. CASE ~Grants(e) /\ amount # 0
    BY <1>1, <2>1, <2>2, ClawbackCommits
  <2>3. CASE Grants(e) \/ amount = 0
    <3> DEFINE x == EventEntry(e, amount)
    <3>1. Grants(e) => x.type # "clawback"
      BY DEF EventEntry, Entry
    <3>2. ledger' = ledger \/ (Grants(e) /\ ledger' = ledger \cup {x})
      BY <2>1, <2>3 DEF EventStep
    <3> HIDE DEF x
    <3>3. \A y \in ledger' \ ledger : y.type # "clawback"
      BY <3>1, <3>2
    <3> QED BY <1>1, <1>2, <3>3, ClawbacksRest
  <2> QED BY <2>2, <2>3
<1> QED BY <1>1, <1>3, <1>4, LedgerSplit

LEMMA LedgerInit == Init => LedgerInv
<1> SUFFICES ASSUME Init PROVE LedgerInv
  OBVIOUS
<1>1. /\ ledger = Opening /\ processed = {}
      /\ \A e \in Opening : e.type = "grant" /\ \A f \in Events : f.ref # e.ref
  BY OpeningAssumption DEF Init
<1>2. TypeOK
  BY TypeInit
<1>3. HandlesFit /\ NumberedGrants
  BY <1>1 DEF Init, Idle, HandlesFit, NumberedGrants
<1>4. ProcessedEvents = {}
  BY <1>1 DEF ProcessedEvents
<1>5. IsFiniteSet(ProcessedEvents)
  BY <1>4, FS_EmptySet
<1>6. UsageOnce /\ GrantsFollow
  BY <1>1 DEF UsageOnce, UsageOf, GrantsFollow
<1>7. \A e \in Events : GrantsOf(e) = {} /\ ProcessedAs(e) = {}
  BY <1>1 DEF GrantsOf, GrantOf, ProcessedAs
<1>8. GrantsCounted
  BY <1>7 DEF GrantsCounted
<1>9. \A a \in Accounts : ClawbacksOf(a) = {} /\ RefundsOf(a) = {}
  BY <1>1 DEF ClawbacksOf, RowsOf, RefundsOf
<1>10. ClawbackParts
  <2>1. \A a \in Accounts : Cardinality(ClawbacksOf(a)) = 0 /\ Cardinality(RefundsOf(a)) = 0
    BY <1>9, FS_EmptySet
  <2> QED BY <1>1, <2>1 DEF ClawbackParts
<1> QED BY <1>2, <1>3, <1>5, <1>6, <1>8, <1>10, AppliedParts, ClawbackInParts DEF LedgerInv

LEMMA LedgerStep == LedgerInv /\ [Next]_vars => LedgerInv'
<1> SUFFICES ASSUME LedgerInv, [Next]_vars PROVE LedgerInv'
  OBVIOUS
<1>1. TypeOK'
  BY TypeStep DEF LedgerInv
<1>2. (UsageOnce /\ GrantsFollow /\ GrantsCounted)' => AppliedExactlyOnce'
  BY DEF AppliedExactlyOnce, UsageOnce, GrantsFollow, GrantsCounted, UsageOf, GrantsOf, ProcessedAs
<1>3. ClawbackParts' => ClawbackMatchesGrant'
  BY DEF ClawbackMatchesGrant, ClawbackParts, ClawbackOf, ClawbacksOf, RefundsOf
<1> QED
  BY <1>1, <1>2, <1>3, HandlesFitStep, EventsFinite, UsageStepOnce, GrantsStep, ClawbackStep
     DEF LedgerInv, GrantsInv

LEMMA LedgerInvariant == Spec => []LedgerInv
  BY LedgerInit, LedgerStep, PTL DEF Spec

\* Every reference is debited once and every event granted once, whatever is retried,
\* redelivered or handled at the same time, for any accounts, references and events.
THEOREM EachIsAppliedOnce == Spec => []AppliedExactlyOnce
<1>1. LedgerInv => AppliedExactlyOnce
  BY DEF LedgerInv
<1> QED BY <1>1, LedgerInvariant, PTL

\* Every clawback is the opposite of a grant of the refunded invoice, and no refund adds two.
THEOREM ClawbackIsMatched == Spec => []ClawbackMatchesGrant
<1>1. LedgerInv => ClawbackMatchesGrant
  BY DEF LedgerInv
<1> QED BY <1>1, LedgerInvariant, PTL
=============================================================================
