\* One payment of an invoice: every failure on its way, two publications of each event; or
\* its refund. The customer may be one that is not known.
SPECIFICATION FairSpec
CONSTANTS
  c1 = c1
  f1 = f1
  a1 = a1
  g1 = g1
  g2 = g2
  Charges = {c1}
  Invoices = {c1}
  Refunds = {f1}
  RefundOf <- OneRefund
  Payer <- OnePayment
  Accounts = {a1}
  Credits <- OneGrant
  Requests = {g1}
  Limit = 1
  MaxCopies = 2
INVARIANT GrantedAtMostOnce
INVARIANT NeverLost
PROPERTY Granted
PROPERTY LedgerSpec
CONSTRAINT Apart
CHECK_DEADLOCK FALSE
