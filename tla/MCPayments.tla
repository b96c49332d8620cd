----------------------------- MODULE MCPayments -----------------------------
\* A small instance of Payments for TLC.
EXTENDS Payments, TLC

CONSTANTS
  c1,       \* a payment
  f1,       \* a refund of it
  a1,       \* the account that pays
  g1, g2    \* gateway requests

OnePayment == c1 :> a1
OneGrant == c1 :> 2
OneRefund == f1 :> c1

SecondCopy(queue) == \E m \in DOMAIN queue : m[2] = 2 /\ queue[m].at # "none"
Retried(queue) == \E m \in DOMAIN queue : queue[m].tries > 0

\* Second copies are explored for the payment alone: not with its refund, nor with an
\* earlier webhook of the invoice. Nor are they with a webhook that was returned before.
Apart ==
  /\ (\E f \in Refunds : refunds[f] # "none") \/ (\E c \in invoices : inbox[c] # "processed")
     => /\ ~SecondCopy(hooks) /\ ~SecondCopy(mail) /\ ~Retried(hooks)
        /\ \A e \in Events : e[2] = 2 => outbox[e] = "none"
  /\ ~(Retried(hooks) /\ SecondCopy(mail))
=============================================================================
