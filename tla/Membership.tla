----------------------------- MODULE Membership -----------------------------
(***************************************************************************)
(* tenant-service: the members of a team account, invitations, and the     *)
(* consumer that makes each registered user's own account and keeps the    *)
(* plan that was paid; with the signup of auth-service that it hears of.   *)
(*                                                                         *)
(* A request reads members in a transaction and writes one of them later   *)
(* in the same one. Only an invitation is locked while it is accepted.     *)
(***************************************************************************)
EXTENDS Integers, FiniteSets

CONSTANTS
  Users,
  Invites,
  Requests,     \* requests served at one time
  Invoices,     \* paid invoices of the account, a plan each
  Copies,       \* bound: the times that the outbox may publish one invoice.paid
  Limit,        \* x-delivery-limit (5 in the code)
  Platform,     \* an actor whose token says SuperAdmin
  None

ASSUME ConstantsAssumption ==
  /\ Limit \in Nat
  /\ 1 \in Copies
  /\ Users \cap Invoices = {}
  /\ None \notin Users \cup Invites \cup Invoices \cup {"founder"}
  /\ Platform \notin Users \cup {None}
  /\ IsFiniteSet(Users)

Events == Users \cup Invoices      \* user.registered and invoice.paid

\* Several of one invoice may be handled at one time.
Deliveries == (Users \X {1}) \cup (Invoices \X Copies)

VARIABLES
  signup,      \* users of auth-service and their verification tokens
  account,     \* users whose own account exists
  team,        \* whether the team account exists
  member,      \* account_members of the team account
  invite,      \* its invites
  plan,        \* its plan_tier, named by the invoice
  request,     \* requests that have read a member or locked an invitation
  event,       \* messages and their handlers
  processed    \* processed_events

vars == <<signup, account, team, member, invite, plan, request, event, processed>>
teamVars == <<team, member, invite>>
eventVars == <<signup, account, plan, event, processed>>

Roles == {"owner", "admin", "member"}
Founder == "founder"
Absent == [role |-> "none", by |-> None]

\* A member's row is named by the invitation that it comes from.
MemberStates == {Absent} \cup [role : Roles, by : Invites \cup {Founder}]
Idle == [at |-> "idle", authority |-> None, user |-> None, role |-> "none", was |-> Absent,
         owners |-> {}, invite |-> None]

EventStates == {"none", "ready", "missing", "applying", "publish", "noting", "done"}

TypeOK ==
  /\ signup \in [Users -> {"none", "inserted", "issued", "told", "verified"}]
  /\ account \subseteq Users
  /\ team \in BOOLEAN
  /\ member \in [Users -> MemberStates]
  /\ invite \in [Invites -> [state : {"none", "sent", "accepted"}, role : Roles \cup {"none"}]]
  /\ plan \in Invoices \cup {None}
  /\ request \in [Requests -> {Idle} \cup
       [at : {"role", "remove", "invite", "accept"}, authority : {Platform, None},
        user : Users \cup {None}, role : Roles \cup {"none"}, was : MemberStates,
        owners : SUBSET Users, invite : Invites \cup {None}]]
  /\ event \in [Deliveries -> [at : EventStates, tries : 0..Limit]]
  /\ processed \subseteq Events

Init ==
  /\ signup = [u \in Users |-> "none"]
  /\ account = {}
  /\ team = FALSE
  /\ member = [u \in Users |-> Absent]
  /\ invite = [i \in Invites |-> [state |-> "none", role |-> "none"]]
  /\ plan = None
  /\ request = [r \in Requests |-> Idle]
  /\ event = [m \in Deliveries |-> [at |-> "none", tries |-> 0]]
  /\ processed = {}

-----------------------------------------------------------------------------
(* The team account and its members *)

Owners == {u \in Users : member[u].role = "owner"}
Role(actor) == IF actor = Platform THEN "platform" ELSE member[actor].role

Create(u) ==
  /\ ~team
  /\ team' = TRUE
  /\ member' = [member EXCEPT ![u] = [role |-> "owner", by |-> Founder]]
  /\ UNCHANGED <<invite, request, eventVars>>

IsManager(actor) == Role(actor) \in {"platform", "owner", "admin"}

WithoutLastOwner(was, owners) == FALSE

\* Taking the Owner role from the only Owner.
LosesLastOwner(was, owners) == was = "owner" /\ Cardinality(owners) <= 1

MayChange(actor, was, new) ==
  \/ Role(actor) = "platform"
  \/ /\ Role(actor) = "admin" => was = "member"
     /\ new = "owner" => Role(actor) = "owner"
     /\ new # "owner" => ~LosesLastOwner(was, Owners)

ReadMember(r, actor, at, u, role) ==
  /\ request[r] = Idle
  /\ IsManager(actor)
  /\ member[u] # Absent
  /\ MayChange(actor, member[u].role, role)
  /\ request' = [request EXCEPT ![r] =
       [at |-> at, authority |-> IF actor = Platform THEN Platform ELSE None, user |-> u,
        role |-> role, was |-> member[u], owners |-> Owners, invite |-> None]]
  /\ UNCHANGED <<teamVars, eventVars>>

BeginUpdateRole(r, actor, u, role) == ReadMember(r, actor, "role", u, role)
BeginRemove(r, actor, u) == ReadMember(r, actor, "remove", u, "none")

SameRow(q) == member[q.user].by = q.was.by

\* Only a role that differs from the one read is written. If its row is gone, the update
\* raises and the removal does nothing.
CommitMember(r) ==
  LET q == request[r] IN
  /\ q.at \in {"role", "remove"}
  /\ request' = [request EXCEPT ![r] = Idle]
  /\ member' =
       IF ~SameRow(q) \/ q.role = q.was.role THEN member
       ELSE [member EXCEPT ![q.user] = IF q.at = "remove" THEN Absent
                                         ELSE [@ EXCEPT !.role = q.role]]
  /\ UNCHANGED <<team, invite, eventVars>>

-----------------------------------------------------------------------------
(* Invitations *)

BeginInvite(r, actor, role) ==
  /\ request[r] = Idle
  /\ team
  /\ IsManager(actor)
  /\ Role(actor) = "admin" => role = "member"
  /\ request' = [request EXCEPT ![r] = [Idle EXCEPT !.at = "invite", !.role = role]]
  /\ UNCHANGED <<teamVars, eventVars>>

CommitInvite(r, i) ==
  /\ request[r].at = "invite"
  /\ invite[i].state = "none"
  /\ invite' = [invite EXCEPT ![i] = [state |-> "sent", role |-> request[r].role]]
  /\ request' = [request EXCEPT ![r] = Idle]
  /\ UNCHANGED <<team, member, eventVars>>

Unlocked(i) == invite[i].state = "sent"

\* SELECT ... FOR UPDATE until the transaction ends.
Acceptable(i) ==
  /\ invite[i].state = "sent"
  /\ \A r \in Requests : request[r].invite # i

\* Any user with the token: the email is not compared.
BeginAccept(r, u, i) ==
  /\ request[r] = Idle
  /\ Acceptable(i)
  /\ member[u] = Absent
  /\ request' = [request EXCEPT ![r] = [Idle EXCEPT !.at = "accept", !.user = u, !.invite = i]]
  /\ UNCHANGED <<teamVars, eventVars>>

\* A second row of a user is refused, and the invitation stays open.
CommitAccept(r) ==
  LET q == request[r] IN
  /\ q.at = "accept"
  /\ request' = [request EXCEPT ![r] = Idle]
  /\ IF member[q.user] = Absent
     THEN /\ member' = [member EXCEPT ![q.user] = [role |-> invite[q.invite].role, by |-> q.invite]]
          /\ invite' = [invite EXCEPT ![q.invite].state = "accepted"]
     ELSE UNCHANGED <<member, invite>>
  /\ UNCHANGED <<team, eventVars>>

RequestRaises(r) ==
  /\ request[r] # Idle
  /\ request' = [request EXCEPT ![r] = Idle]
  /\ UNCHANGED <<teamVars, eventVars>>

-----------------------------------------------------------------------------
(* Signing up: the user, then the verification token, then user.registered. A signup *)
(* that ends in between is not taken up again. *)

Ready(m) == event' = [event EXCEPT ![m].at = "ready"]

SignUp(u) ==
  /\ signup[u] = "none"
  /\ signup' = [signup EXCEPT ![u] = "inserted"]
  /\ UNCHANGED <<teamVars, request, account, plan, event, processed>>

IssueToken(u) ==
  /\ signup[u] = "inserted"
  /\ signup' = [signup EXCEPT ![u] = "issued"]
  /\ UNCHANGED <<teamVars, request, account, plan, event, processed>>

PublishRegistered(u) ==
  /\ signup[u] = "issued"
  /\ signup' = [signup EXCEPT ![u] = "told"]
  /\ Ready(<<u, 1>>)
  /\ UNCHANGED <<teamVars, request, account, plan, processed>>

VerifyEmail(u) ==
  /\ signup[u] = "told"
  /\ signup' = [signup EXCEPT ![u] = "verified"]
  /\ UNCHANGED <<teamVars, request, account, plan, event, processed>>

PublishPaid(m) ==
  /\ event[m].at = "none"
  /\ Ready(m)
  /\ UNCHANGED <<teamVars, request, signup, account, plan, processed>>

-----------------------------------------------------------------------------
(* The consumer *)

Move(m, at) == event' = [event EXCEPT ![m].at = at]

Seen(e) == e \in processed

IgnoreEvent(m) ==
  /\ event[m].at = "ready"
  /\ Seen(m[1])
  /\ Move(m, "done")
  /\ UNCHANGED <<teamVars, request, signup, account, plan, processed>>

LookForAccount(u) ==
  /\ event[<<u, 1>>].at = "ready"
  /\ ~Seen(u)
  /\ Move(<<u, 1>>, IF u \in account THEN "noting" ELSE "missing")
  /\ UNCHANGED <<teamVars, request, signup, account, plan, processed>>

InsertAccount(u) ==
  /\ event[<<u, 1>>].at = "missing"
  /\ account' = account \cup {u}
  /\ Move(<<u, 1>>, "publish")
  /\ UNCHANGED <<teamVars, request, signup, plan, processed>>

\* handle_event looks for the row of the event in a session of its own.
TakePaid(m) ==
  /\ event[m].at = "ready"
  /\ ~Seen(m[1])
  /\ Move(m, "applying")
  /\ UNCHANGED <<teamVars, request, signup, account, plan, processed>>

\* Under the lock of the account's row. Without an account it raises.
ApplyPlan(m) ==
  /\ event[m].at = "applying"
  /\ team
  /\ plan' = m[1]
  /\ Move(m, "publish")
  /\ UNCHANGED <<teamVars, request, signup, account, processed>>

\* account.created or account.updated, which no service waits for.
PublishAccount(m) ==
  /\ event[m].at = "publish"
  /\ Move(m, "noting")
  /\ UNCHANGED <<teamVars, request, signup, account, plan, processed>>

\* Another handler of the event may have been faster: its row is as good.
Note(m) ==
  /\ event[m].at = "noting"
  /\ processed' = processed \cup {m[1]}
  /\ Move(m, "done")
  /\ UNCHANGED <<teamVars, request, signup, account, plan>>

\* Any exception, the end of the process, or of its channel before the acknowledgement.
ReturnEvent(m) ==
  /\ event[m].at # "none"
  /\ event' = [event EXCEPT ![m] =
       IF @.tries < Limit THEN [at |-> "ready", tries |-> @.tries + 1]
       ELSE [at |-> "done", tries |-> @.tries]]
  /\ UNCHANGED <<teamVars, request, signup, account, plan, processed>>

-----------------------------------------------------------------------------
Serve(r) ==
  \/ \E a \in Users \cup {Platform}, u \in Users, role \in Roles : BeginUpdateRole(r, a, u, role)
  \/ \E a \in Users \cup {Platform}, u \in Users : BeginRemove(r, a, u)
  \/ CommitMember(r)
  \/ \E a \in Users \cup {Platform}, role \in Roles : BeginInvite(r, a, role)
  \/ \E i \in Invites : CommitInvite(r, i)
  \/ \E u \in Users, i \in Invites : BeginAccept(r, u, i)
  \/ CommitAccept(r)
  \/ RequestRaises(r)

Register(u) ==
  \/ SignUp(u)
  \/ IssueToken(u)
  \/ PublishRegistered(u)
  \/ VerifyEmail(u)
  \/ LookForAccount(u)
  \/ InsertAccount(u)

Next ==
  \/ \E u \in Users : Create(u) \/ Register(u)
  \/ \E r \in Requests : Serve(r)
  \/ \E m \in Invoices \X Copies : PublishPaid(m) \/ TakePaid(m) \/ ApplyPlan(m)
  \/ \E m \in Deliveries : IgnoreEvent(m) \/ PublishAccount(m) \/ Note(m) \/ ReturnEvent(m)

Spec == Init /\ [][Next]_vars

-----------------------------------------------------------------------------
(* Properties *)

\* An account loses its last Owner only to the platform, or to a request that has counted
\* an Owner who is none any more.
KeepsOwner ==
  [][Owners # {} /\ Owners' = {} =>
       \E r \in Requests : /\ request[r] # Idle /\ request'[r] = Idle
                           /\ \/ request[r].authority = Platform
                              \/ ~(request[r].owners \subseteq Owners)
                              \/ request[r].was.role # "owner"]_vars

\* Nobody joins but by an invitation, with the role it gives, and none serves twice, not
\* even to come back after a removal.
JoinsByInvite ==
  [][\A u \in Users : team /\ member[u] = Absent /\ member'[u] # Absent =>
       \E i \in Invites :
         /\ invite[i].state = "sent" /\ invite'[i].state = "accepted"
         /\ member'[u] = [role |-> invite[i].role, by |-> i]]_vars

\* Once an invoice is recorded and no handler of it is past its check, its plan does not come
\* back over a later one, however often its message is still published or delivered. (A
\* handler that has overlapped the one that recorded it may still write the old plan.)
PastCheck(i) == \E k \in Copies : event[<<i, k>>].at = "applying"

PlanSettles ==
  [][\A i \in processed \cap Invoices :
       ~PastCheck(i) => ~PastCheck(i)' /\ (plan' = i => plan = i)]_vars
=============================================================================
