\* One listing, its seller and two buyers; usage, grants and a refund; three requests at a time.
SPECIFICATION FairSpec
CONSTANTS
  s = s
  b1 = b1
  b2 = b2
  l1 = l1
  u1 = u1
  paid1 = paid1
  paid2 = paid2
  paid3 = paid3
  refund1 = refund1
  inv0 = inv0
  inv1 = inv1
  noId = noId
  r1 = r1
  r2 = r2
  r3 = r3
  None = None
  Invoices = {inv0, inv1, noId}
  Accounts = {s, b1, b2}
  Listings = {l1}
  Offer <- OneOffer
  Refs = {u1}
  Usage <- OneUse
  Events <- RefundedInvoice
  Opening <- SellerHas3
  Requests = {r1, r2, r3}
INVARIANT AppliedExactlyOnce
INVARIANT ClawbackMatchesGrant
INVARIANT SoldOnlyWhenCharged
PROPERTY ReservationEnds
PROPERTY SaleSpec
CONSTRAINT Apart
CHECK_DEADLOCK FALSE
