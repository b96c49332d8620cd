----------------------------- MODULE EscrowSale -----------------------------
(***************************************************************************)
(* What the marketplace of credits-service promises, without requests,     *)
(* transactions, row locks or ledger: a listing is offered, held by one    *)
(* buyer at a time, and delivered at most once, to its holder, and only    *)
(* after that holder's escrow for that listing has been charged.           *)
(***************************************************************************)
CONSTANTS Accounts, Listings, None

VARIABLES
  stage,      \* [Listings -> stage of the sale]
  holder,     \* [Listings -> the buyer it is held by or was sold to, or None]
  charged,    \* the <<listing, buyer>> pairs whose card has been charged
  delivered   \* the <<listing, buyer>> pairs whose credits were delivered

vars == <<stage, holder, charged, delivered>>

Stages == {"none", "open", "reserved", "sold", "canceled"}

Init ==
  /\ stage = [l \in Listings |-> "none"]
  /\ holder = [l \in Listings |-> None]
  /\ charged = {}
  /\ delivered = {}

Open(l) ==
  /\ stage[l] = "none"
  /\ stage' = [stage EXCEPT ![l] = "open"]
  /\ UNCHANGED <<holder, charged, delivered>>

Withdraw(l) ==
  /\ stage[l] = "open"
  /\ stage' = [stage EXCEPT ![l] = "canceled"]
  /\ UNCHANGED <<holder, charged, delivered>>

Hold(l, b) ==
  /\ stage[l] = "open"
  /\ stage' = [stage EXCEPT ![l] = "reserved"]
  /\ holder' = [holder EXCEPT ![l] = b]
  /\ UNCHANGED <<charged, delivered>>

\* Holds end one at a time or, when the stale ones are swept, several at once.
Release(L) ==
  /\ \A l \in L : stage[l] = "reserved"
  /\ stage' = [l \in Listings |-> IF l \in L THEN "open" ELSE stage[l]]
  /\ holder' = [l \in Listings |-> IF l \in L THEN None ELSE holder[l]]
  /\ UNCHANGED <<charged, delivered>>

Charge(p) ==
  /\ charged' = charged \cup {p}
  /\ UNCHANGED <<stage, holder, delivered>>

Deliver(l) ==
  /\ stage[l] = "reserved"
  /\ <<l, holder[l]>> \in charged
  /\ stage' = [stage EXCEPT ![l] = "sold"]
  /\ delivered' = delivered \cup {<<l, holder[l]>>}
  /\ UNCHANGED <<holder, charged>>

Next ==
  \/ \E l \in Listings : Open(l) \/ Withdraw(l) \/ Deliver(l)
  \/ \E l \in Listings, b \in Accounts : Hold(l, b)
  \/ \E L \in SUBSET Listings : Release(L)
  \/ \E p \in Listings \X Accounts : Charge(p)

Spec == Init /\ [][Next]_vars
=============================================================================
