----------------------------- MODULE MCCredits ------------------------------
\* A small instance of Credits for TLC.
EXTENDS Credits, TLC

CONSTANTS
  s, b1, b2,          \* accounts: a seller and two buyers
  l1,                 \* a listing
  u1,                 \* a reference of credit consumptions
  paid1, paid2, paid3, refund1,   \* billing events
  inv0, inv1,         \* invoices
  noId,               \* the text of an id that is not assigned yet
  r1, r2, r3          \* request slots

\* Usage, grants and refunds on the one side and two competing purchases on the other share
\* only balances: while the first are at work, one buyer confirms a purchase at most.
Apart ==
  (processed # {} \/ \E r \in Requests : req[r].pc \in {"debit", "handle"}) =>
    /\ \A r \in Requests : req[r].pc \in {"idle", "debit", "handle", "captured", "transfer"}
    /\ \A l \in Listings : listing[l].buyer # b2 /\ listing[l].status # "canceled"
    /\ \A l \in Listings : listing[l].status = "reserved" =>
                             intents[<<l, b1>>] \in {"authorized", "captured"}
    /\ stale = {} /\ expired = {}
    /\ \A l \in Listings : intents[<<l, b2>>] = "none"

OneOffer == l1 :> [seller |-> s, credits |-> 2]

\* The seller's credits were granted before the behaviour begins.
SellerHas3 ==
  {[type |-> "grant", account |-> s, amount |-> 3, ref |-> inv0, n |-> 0]}

OneUse == u1 :> [account |-> s, amount |-> 1]

Event(id, type, credits, ref) ==
  [id |-> id, type |-> type, account |-> b1, credits |-> credits, ref |-> ref,
   invoice |-> inv1]

\* An invoice and its refund, and two more invoices sent without their ids.
RefundedInvoice ==
  {Event(paid1, "invoice.paid", 2, inv1), Event(paid2, "invoice.paid", 1, noId),
   Event(paid3, "invoice.paid", 1, noId), Event(refund1, "refund.issued", 0, noId)}
=============================================================================
