---------------------------- MODULE AccessProofs ----------------------------
(***************************************************************************)
(* Proofs about Access and the modules that it composes, for any number of *)
(* users, invitations, requests and limits.                                *)
(*                                                                         *)
(* Members: an invitation serves once because its row is locked; nothing   *)
(* is locked for the last Owner, and what holds is that a request has      *)
(* counted other Owners when it read the member. The limiter: whatever was *)
(* let through in the window of the present is still in the sorted set,    *)
(* since the expiry was set anew by each. Calls: the gateway's table of    *)
(* roles is compared with those of the services route by route, and a call *)
(* under way carries a token that its route was permitted to.              *)
(***************************************************************************)
EXTENDS Access, TLAPS, FiniteSetTheorems, SequenceTheorems

MemberRows == [role : Roles, by : Invites \cup {Founder}]
EventRows == [at : EventStates, tries : 0..Limit]
Ops == {"role", "remove", "invite", "accept"}
RequestRows == [at : Ops, authority : {Platform, None}, user : Users \cup {None},
                role : Roles \cup {"none"}, was : MemberStates, owners : SUBSET Users,
                invite : Invites \cup {None}]

\* What a request has read fits what it asked for.
Asked(q) ==
  /\ q.at \in {"role", "remove"} => q.user \in Users /\ q.was \in MemberRows
  /\ q.at = "remove" => q.role = "none"
  /\ q.at \in {"role", "invite"} => q.role \in Roles
  /\ q.at = "accept" => q.user \in Users /\ q.invite \in Invites
  /\ q.at # "accept" => q.invite = None

\* An Owner's row is taken by an Owner that has seen another one, or by the platform.
Counted(q) ==
  q.at \in {"role", "remove"} /\ q.authority # Platform /\ q.was.role = "owner" /\ q.role # "owner" =>
    Cardinality(q.owners) > 1

RequestsFit == \A r \in Requests : Asked(request[r]) /\ Counted(request[r])

\* An invitation that is being accepted is open, and only one request accepts it.
InvitesLocked ==
  /\ \A i \in Invites : invite[i].state # "none" => invite[i].role \in Roles
  /\ \A r \in Requests : request[r].at = "accept" => invite[request[r].invite].state = "sent"
  /\ \A r, s \in Requests :
       request[r].at = "accept" /\ request[s].at = "accept"
         /\ request[r].invite = request[s].invite => r = s

Inv == TypeOK /\ RequestsFit /\ InvitesLocked
-----------------------------------------------------------------------------
LEMMA InitInv == Init => Inv
<1> SUFFICES ASSUME Init PROVE Inv
  OBVIOUS
<1>1. TypeOK
  <2>1. team \in BOOLEAN
    BY Zenon DEF Init
  <2>2. event \in [Deliveries -> EventRows]
    BY ConstantsAssumption DEF Init, EventRows, EventStates
  <2>3. invite \in [Invites -> [state : {"none", "sent", "accepted"}, role : Roles \cup {"none"}]]
    BY DEF Init
  <2>4. member \in [Users -> MemberStates]
    BY DEF Init, MemberStates
  <2> QED BY <2>1, <2>2, <2>3, <2>4 DEF Init, TypeOK, EventRows
<1>2. RequestsFit
  BY DEF Init, RequestsFit, Asked, Counted, Idle
<1>3. InvitesLocked
  BY DEF Init, InvitesLocked, Idle
<1> QED BY <1>1, <1>2, <1>3 DEF Inv

\* A busy request.
LEMMA Busy ==
  ASSUME TypeOK, NEW r \in Requests, request[r].at # "idle"
  PROVE  request[r] \in RequestRows
BY DEF TypeOK, Idle, RequestRows, Ops

\* Steps that touch neither requests nor invitations.
LEMMA Elsewhere ==
  ASSUME Inv, UNCHANGED <<request, invite>>, TypeOK'
  PROVE  Inv'
BY DEF Inv, RequestsFit, InvitesLocked, Asked, Counted

\* A request that ends, whatever it has done to members.
LEMMA Ends ==
  ASSUME Inv, NEW r \in Requests, request' = [request EXCEPT ![r] = Idle],
         UNCHANGED invite, member' \in [Users -> MemberStates],
         UNCHANGED <<team, signup, account, plan, event, processed>>
  PROVE  Inv'
<1>1. /\ request'[r] = Idle
      /\ \A s \in Requests \ {r} : request'[s] = request[s]
  BY DEF Inv, TypeOK
<1>2. TypeOK'
  BY DEF Inv, TypeOK
<1>3. RequestsFit'
  BY <1>1 DEF Inv, RequestsFit, Asked, Counted, Idle
<1>4. InvitesLocked'
  BY <1>1 DEF Inv, InvitesLocked, Idle
<1> QED BY <1>2, <1>3, <1>4 DEF Inv

\* A request that begins, but for an acceptance.
LEMMA Begins ==
  ASSUME Inv, NEW r \in Requests, NEW q \in RequestRows, Asked(q), Counted(q), q.at # "accept",
         request' = [request EXCEPT ![r] = q],
         UNCHANGED <<teamVars, eventVars>>
  PROVE  Inv'
<1>1. /\ request'[r] = q
      /\ \A s \in Requests \ {r} : request'[s] = request[s]
  BY DEF Inv, TypeOK
<1>2. TypeOK'
  BY DEF Inv, TypeOK, RequestRows, Ops, teamVars, eventVars
<1>3. RequestsFit'
  BY <1>1 DEF Inv, RequestsFit, Asked, Counted
<1>4. InvitesLocked'
  BY <1>1 DEF Inv, InvitesLocked, teamVars
<1> QED BY <1>2, <1>3, <1>4 DEF Inv
-----------------------------------------------------------------------------
LEMMA ReadMemberStep ==
  ASSUME Inv, NEW r \in Requests, NEW actor \in Users \cup {Platform}, NEW u \in Users,
         NEW at \in {"role", "remove"}, NEW role \in Roles \cup {"none"},
         at = "role" => role \in Roles, at = "remove" => role = "none",
         ReadMember(r, actor, at, u, role)
  PROVE  Inv'
<1> DEFINE p == IF actor = Platform THEN Platform ELSE None
           q == [at |-> at, authority |-> p, user |-> u, role |-> role, was |-> member[u],
                 owners |-> Owners, invite |-> None]
<1>1. member[u] \in MemberRows
  BY DEF Inv, TypeOK, MemberStates, MemberRows, ReadMember
<1>2. q \in RequestRows
  BY <1>1 DEF RequestRows, Ops, MemberStates, MemberRows, Owners
<1>3. Asked(q)
  BY <1>1, ConstantsAssumption DEF Asked, Roles
<1>4. Counted(q)
  <2> SUFFICES ASSUME actor # Platform, member[u].role = "owner", role # "owner"
               PROVE  Cardinality(Owners) > 1
    BY DEF Counted
  <2>1. ~LosesLastOwner("owner", Owners)
    <3>1. Role(actor) # "platform"
      BY DEF Role, Inv, TypeOK, MemberStates, Absent, Roles
    <3> QED BY <3>1 DEF ReadMember, MayChange
  <2>2. IsFiniteSet(Owners)
    BY ConstantsAssumption, FS_Subset DEF Owners
  <2> QED BY <2>1, <2>2, FS_CardinalityType DEF LosesLastOwner
<1>5. request' = [request EXCEPT ![r] = q] /\ UNCHANGED <<teamVars, eventVars>>
  BY DEF ReadMember
<1>6. q.at # "accept"
  OBVIOUS
<1> HIDE DEF q
<1> QED BY <1>2, <1>3, <1>4, <1>5, <1>6, Begins

LEMMA CommitMemberStep ==
  ASSUME Inv, NEW r \in Requests, CommitMember(r)
  PROVE  Inv'
<1> DEFINE q == request[r]
<1>1. q.at \in {"role", "remove"}
  BY DEF CommitMember
<1>2. q \in RequestRows /\ Asked(q)
  BY <1>1, Busy DEF Inv, RequestsFit
<1>3. member' \in [Users -> MemberStates]
  <2>1. member[q.user] \in MemberStates /\ q.user \in Users
    BY <1>1, <1>2 DEF Asked, Inv, TypeOK
  <2>2. CASE ~SameRow(q) \/ q.role = q.was.role
    BY <2>2 DEF CommitMember, Inv, TypeOK
  <2>3. CASE SameRow(q) /\ q.role # q.was.role /\ q.at = "remove"
    BY <2>3, <2>1 DEF CommitMember, Inv, TypeOK, MemberStates
  <2>4. CASE SameRow(q) /\ q.role # q.was.role /\ q.at = "role"
    <3>1. member[q.user] \in MemberRows /\ q.role \in Roles
      BY <1>2, <2>1, <2>4, ConstantsAssumption DEF Asked, SameRow, MemberStates, MemberRows,
        Absent, Founder
    <3>2. member' = [member EXCEPT ![q.user] = [@ EXCEPT !.role = q.role]]
      BY <2>4 DEF CommitMember
    <3> QED BY <2>1, <3>1, <3>2 DEF Inv, TypeOK, MemberStates, MemberRows
  <2> QED BY <1>1, <2>2, <2>3, <2>4
<1> QED BY <1>3, Ends DEF CommitMember, eventVars

LEMMA InviteSteps ==
  ASSUME Inv, NEW r \in Requests
  PROVE  /\ \A a \in Users \cup {Platform}, role \in Roles : BeginInvite(r, a, role) => Inv'
         /\ \A i \in Invites : CommitInvite(r, i) => Inv'
<1>1. ASSUME NEW a \in Users \cup {Platform}, NEW role \in Roles, BeginInvite(r, a, role)
      PROVE  Inv'
  <2> DEFINE q == [Idle EXCEPT !.at = "invite", !.role = role]
  <2>1. /\ q \in RequestRows
        /\ q.at = "invite" /\ q.role = role /\ q.invite = None
    BY DEF Idle, RequestRows, Ops, MemberStates
  <2>2. Asked(q) /\ Counted(q)
    BY <2>1 DEF Asked, Counted
  <2>3. request' = [request EXCEPT ![r] = q] /\ UNCHANGED <<teamVars, eventVars>>
    BY <1>1 DEF BeginInvite
  <2> HIDE DEF q
  <2> QED BY <2>1, <2>2, <2>3, Begins
<1>2. ASSUME NEW i \in Invites, CommitInvite(r, i) PROVE Inv'
  <2>1. /\ request[r].at = "invite" /\ invite[i].state = "none"
        /\ request' = [request EXCEPT ![r] = Idle]
        /\ invite' = [invite EXCEPT ![i] = [state |-> "sent", role |-> request[r].role]]
        /\ UNCHANGED <<team, member, eventVars>>
    BY <1>2 DEF CommitInvite
  <2>2. request[r].role \in Roles
    BY <2>1 DEF Inv, RequestsFit, Asked
  <2>3. TypeOK'
    BY <2>1, <2>2 DEF Inv, TypeOK, eventVars
  <2>4. /\ request'[r] = Idle
        /\ \A s \in Requests \ {r} : request'[s] = request[s]
    BY <2>1 DEF Inv, TypeOK
  <2>5. RequestsFit'
    BY <2>4 DEF Inv, RequestsFit, Asked, Counted, Idle
  <2>6. \A s \in Requests : request[s].at = "accept" => request[s].invite \in Invites \ {i}
    BY <2>1 DEF Inv, RequestsFit, Asked, InvitesLocked
  <2>7. InvitesLocked'
    BY <2>1, <2>2, <2>4, <2>6 DEF Inv, TypeOK, InvitesLocked, Idle
  <2> QED BY <2>3, <2>5, <2>7 DEF Inv
<1> QED BY <1>1, <1>2

LEMMA BeginAcceptStep ==
  ASSUME Inv, NEW r \in Requests, NEW u \in Users, NEW i \in Invites, BeginAccept(r, u, i)
  PROVE  Inv'
<1> DEFINE q == [Idle EXCEPT !.at = "accept", !.user = u, !.invite = i]
<1>1. /\ q \in RequestRows
      /\ q.at = "accept" /\ q.user = u /\ q.invite = i
  BY DEF Idle, RequestRows, Ops, MemberStates
<1>2. Asked(q) /\ Counted(q)
  BY <1>1 DEF Asked, Counted
<1>3. request' = [request EXCEPT ![r] = q] /\ UNCHANGED <<teamVars, eventVars>>
  BY DEF BeginAccept
<1> HIDE DEF q
<1>4. /\ request'[r] = q
      /\ \A s \in Requests \ {r} : request'[s] = request[s]
  BY <1>3 DEF Inv, TypeOK
<1>5. TypeOK'
  BY <1>1, <1>3 DEF Inv, TypeOK, RequestRows, Ops, teamVars, eventVars
<1>6. RequestsFit'
  BY <1>2, <1>4 DEF Inv, RequestsFit, Asked, Counted
<1>7. invite[i].state = "sent" /\ \A s \in Requests : request[s].invite # i
  BY DEF BeginAccept, Acceptable
<1>8. InvitesLocked'
  BY <1>1, <1>3, <1>4, <1>7 DEF Inv, InvitesLocked, teamVars
<1> QED BY <1>5, <1>6, <1>8 DEF Inv

\* The user joins with the invitation's role, or nothing happens.
LEMMA AcceptedOnce ==
  ASSUME Inv, NEW r \in Requests, CommitAccept(r)
  PROVE  LET q == request[r] IN
         /\ q.user \in Users /\ q.invite \in Invites /\ invite[q.invite].state = "sent"
         /\ invite[q.invite].role \in Roles
         /\ \A s \in Requests \ {r} : request[s].at = "accept" => request[s].invite # q.invite
BY DEF CommitAccept, Inv, RequestsFit, Asked, InvitesLocked

LEMMA CommitAcceptStep ==
  ASSUME Inv, NEW r \in Requests, CommitAccept(r)
  PROVE  Inv'
<1> DEFINE q == request[r]
<1>1. CASE member[q.user] # Absent
  BY <1>1, Ends DEF CommitAccept, Inv, TypeOK, eventVars
<1>2. CASE member[q.user] = Absent
  <2>1. /\ request' = [request EXCEPT ![r] = Idle]
        /\ member' = [member EXCEPT ![q.user] = [role |-> invite[q.invite].role, by |-> q.invite]]
        /\ invite' = [invite EXCEPT ![q.invite].state = "accepted"]
        /\ UNCHANGED <<team, eventVars>>
    BY <1>2 DEF CommitAccept
  <2>2. /\ request'[r] = Idle
        /\ \A s \in Requests \ {r} : request'[s] = request[s]
    BY <2>1 DEF Inv, TypeOK
  <2>3. /\ q.invite \in Invites /\ invite[q.invite].role \in Roles
        /\ \A s \in Requests \ {r} : request[s].at = "accept" => request[s].invite # q.invite
    BY AcceptedOnce
  <2> HIDE DEF q
  <2>4. TypeOK'
    <3>1. member' \in [Users -> MemberStates]
      BY <2>1, <2>3 DEF Inv, TypeOK, MemberStates
    <3>2. invite' \in [Invites -> [state : {"none", "sent", "accepted"}, role : Roles \cup {"none"}]]
      BY <2>1, <2>3 DEF Inv, TypeOK
    <3> QED BY <2>1, <3>1, <3>2 DEF Inv, TypeOK, eventVars
  <2>5. RequestsFit'
    BY <2>2 DEF Inv, RequestsFit, Asked, Counted, Idle
  <2>6. \A i \in Invites :
          /\ invite'[i].role = invite[i].role
          /\ i # q.invite => invite'[i] = invite[i]
          /\ i = q.invite => invite'[i].state = "accepted"
    BY <2>1, <2>3 DEF Inv, TypeOK
  <2>7. \A s \in Requests : request[s].at = "accept" => request[s].invite \in Invites
    BY DEF Inv, RequestsFit, Asked
  <2>8. InvitesLocked'
    <3>1. \A i \in Invites : invite'[i].state # "none" => invite'[i].role \in Roles
      BY <2>3, <2>6 DEF Inv, InvitesLocked
    <3>2. ASSUME NEW s \in Requests, request'[s].at = "accept"
          PROVE  s # r /\ request'[s] = request[s]
      BY <2>2, <3>2 DEF Idle
    <3>3. \A s \in Requests : request'[s].at = "accept" => invite'[request'[s].invite].state = "sent"
      BY <2>3, <2>6, <2>7, <3>2 DEF Inv, InvitesLocked
    <3> QED BY <3>1, <3>2, <3>3 DEF Inv, InvitesLocked
  <2> QED BY <2>4, <2>5, <2>8 DEF Inv
<1> QED BY <1>1, <1>2
-----------------------------------------------------------------------------
LEMMA ServeStep ==
  ASSUME Inv, NEW r \in Requests, Serve(r)
  PROVE  Inv'
<1>1. CASE \E a \in Users \cup {Platform}, u \in Users, role \in Roles : BeginUpdateRole(r, a, u, role)
  BY <1>1, ReadMemberStep DEF BeginUpdateRole
<1>2. CASE \E a \in Users \cup {Platform}, u \in Users : BeginRemove(r, a, u)
  BY <1>2, ReadMemberStep DEF BeginRemove
<1>3. CASE RequestRaises(r)
  BY <1>3, Ends DEF RequestRaises, teamVars, eventVars, Inv, TypeOK
<1> QED BY <1>1, <1>2, <1>3, CommitMemberStep, InviteSteps, BeginAcceptStep, CommitAcceptStep
     DEF Serve

\* A handler that moves on, and does nothing else to messages.
LEMMA Moved ==
  ASSUME TypeOK, NEW m \in Deliveries, NEW at \in EventStates, Move(m, at)
  PROVE  event' \in [Deliveries -> EventRows]
BY DEF TypeOK, Move, EventRows

LEMMA RegisterTypes ==
  ASSUME TypeOK, NEW u \in Users, Create(u) \/ Register(u)
  PROVE  TypeOK' /\ UNCHANGED <<request, invite>>
<1> DEFINE m == <<u, 1>>
<1>0. /\ m \in Deliveries
      /\ {"ready", "noting", "missing", "publish"} \subseteq EventStates
  BY DEF Deliveries, EventStates
<1> HIDE DEF m
<1> USE DEF TypeOK, teamVars, eventVars, EventRows
<1>1. CASE Create(u)
  BY <1>1, Zenon DEF Create, MemberStates, Roles
<1>2. CASE SignUp(u) \/ IssueToken(u) \/ VerifyEmail(u)
  BY <1>2 DEF SignUp, IssueToken, VerifyEmail
<1>3. CASE PublishRegistered(u)
  <2>1. Move(m, "ready")
    BY <1>3 DEF PublishRegistered, Ready, Move, m
  <2>2. /\ signup' \in [Users -> {"none", "inserted", "issued", "told", "verified"}]
        /\ UNCHANGED <<teamVars, request, account, plan, processed>>
    BY <1>3 DEF PublishRegistered
  <2> QED BY <1>0, <2>1, <2>2, Moved
<1>4. CASE LookForAccount(u)
  <2>1. /\ Move(m, "noting") \/ Move(m, "missing")
        /\ UNCHANGED <<teamVars, request, signup, account, plan, processed>>
    BY <1>4 DEF LookForAccount, m
  <2> QED BY <1>0, <2>1, Moved
<1>5. CASE InsertAccount(u)
  <2>1. /\ Move(m, "publish")
        /\ account' \subseteq Users
        /\ UNCHANGED <<teamVars, request, signup, plan, processed>>
    BY <1>5 DEF InsertAccount, m
  <2> QED BY <1>0, <2>1, Moved
<1> QED BY <1>1, <1>2, <1>3, <1>4, <1>5 DEF Register

\* The steps of the consumer that are the same for both kinds of event, and those of an
\* invoice's messages.
Consumes(m) == IgnoreEvent(m) \/ PublishAccount(m) \/ Note(m) \/ ReturnEvent(m)
Pays(m) == m \in Invoices \X Copies /\ (PublishPaid(m) \/ TakePaid(m) \/ ApplyPlan(m))

LEMMA EventTypes ==
  ASSUME TypeOK, NEW m \in Deliveries, Consumes(m) \/ Pays(m)
  PROVE  TypeOK' /\ UNCHANGED <<request, invite>>
<1>0. /\ {"ready", "applying", "publish", "noting", "done"} \subseteq EventStates
      /\ m[1] \in Events
      /\ m \in Invoices \X Copies => m[1] \in Invoices
  BY DEF Deliveries, Events, EventStates
<1> USE DEF TypeOK, teamVars
<1>1. CASE IgnoreEvent(m) \/ PublishAccount(m) \/ Note(m)
  <2>1. /\ Move(m, "done") \/ Move(m, "noting")
        /\ UNCHANGED <<teamVars, request, signup, account, plan>>
        /\ processed' \subseteq processed \cup {m[1]}
    BY <1>1 DEF IgnoreEvent, PublishAccount, Note
  <2>2. event' \in [Deliveries -> EventRows]
    BY <1>0, <2>1, Moved
  <2> QED BY <1>0, <2>1, <2>2 DEF EventRows
<1>2. CASE ReturnEvent(m)
  <2>1. event[m].tries < Limit => event[m].tries + 1 \in 0..Limit
    BY ConstantsAssumption
  <2>2. event' \in [Deliveries -> EventRows]
    BY <1>0, <1>2, <2>1 DEF ReturnEvent, EventRows
  <2> QED BY <1>2, <2>2 DEF ReturnEvent, EventRows
<1>3. CASE Pays(m)
  <2>1. /\ Move(m, "ready") \/ Move(m, "applying") \/ Move(m, "publish")
        /\ UNCHANGED <<teamVars, request, signup, account, processed>>
        /\ plan' \in {plan, m[1]}
    BY <1>3 DEF Pays, PublishPaid, TakePaid, ApplyPlan, Ready, Move
  <2>2. event' \in [Deliveries -> EventRows]
    BY <1>0, <2>1, Moved
  <2> QED BY <1>0, <1>3, <2>1, <2>2 DEF EventRows, Pays
<1> QED BY <1>1, <1>2, <1>3 DEF Consumes

LEMMA NextInv == Inv /\ [Next]_vars => Inv'
<1> SUFFICES ASSUME Inv, [Next]_vars PROVE Inv'
  OBVIOUS
<1>1. ASSUME NEW u \in Users, Create(u) \/ Register(u) PROVE Inv'
  BY <1>1, RegisterTypes, Elsewhere DEF Inv
<1>2. ASSUME NEW m \in Deliveries, Consumes(m) \/ Pays(m) PROVE Inv'
  BY <1>2, EventTypes, Elsewhere DEF Inv
<1>3. CASE UNCHANGED vars
  <2>1. TypeOK'
    BY <1>3 DEF Inv, TypeOK, vars
  <2> QED BY <1>3, <2>1, Elsewhere DEF vars
<1>4. Invoices \X Copies \subseteq Deliveries
  BY DEF Deliveries
<1> QED BY <1>1, <1>2, <1>3, <1>4, ServeStep DEF Next, Consumes, Pays

\* Every variable stays of its type, and what requests have read fits what they will write.
THEOREM TypeCorrect == Spec => []Inv
BY InitInv, NextInv, PTL DEF Spec
-----------------------------------------------------------------------------
(* The properties *)

LEMMA JoinStep == Inv /\ [Next]_vars =>
  \A u \in Users : team /\ member[u] = Absent /\ member'[u] # Absent =>
    \E i \in Invites :
      /\ invite[i].state = "sent" /\ invite'[i].state = "accepted"
      /\ member'[u] = [role |-> invite[i].role, by |-> i]
<1> SUFFICES ASSUME Inv, [Next]_vars, NEW u \in Users,
                    team, member[u] = Absent, member'[u] # Absent
             PROVE  \E i \in Invites :
                      /\ invite[i].state = "sent" /\ invite'[i].state = "accepted"
                      /\ member'[u] = [role |-> invite[i].role, by |-> i]
  OBVIOUS
<1>1. PICK r \in Requests : CommitMember(r) \/ CommitAccept(r)
  BY DEF Next, vars, Create, Register, SignUp, IssueToken, PublishRegistered, VerifyEmail,
    LookForAccount, InsertAccount, Serve, BeginUpdateRole, BeginRemove, ReadMember, BeginInvite,
    CommitInvite, BeginAccept, RequestRaises, PublishPaid, TakePaid, ApplyPlan, IgnoreEvent,
    PublishAccount, Note, ReturnEvent, teamVars
<1>2. ~CommitMember(r)
  <2> SUFFICES ASSUME CommitMember(r) PROVE FALSE
    OBVIOUS
  <2> DEFINE q == request[r]
  <2>1. q.user \in Users /\ q.was \in MemberRows
    BY DEF CommitMember, Inv, RequestsFit, Asked
  <2>2. SameRow(q) /\ u = q.user
    BY <2>1 DEF CommitMember, Inv, TypeOK
  <2> QED BY <2>1, <2>2, ConstantsAssumption DEF SameRow, MemberRows, Absent, Founder
<1>3. CommitAccept(r) /\ member[request[r].user] = Absent
  BY <1>1, <1>2 DEF CommitAccept
<1>4. /\ member' = [member EXCEPT ![request[r].user] =
           [role |-> invite[request[r].invite].role, by |-> request[r].invite]]
      /\ invite' = [invite EXCEPT ![request[r].invite].state = "accepted"]
  BY <1>3 DEF CommitAccept
<1> QED BY <1>3, <1>4, AcceptedOnce DEF Inv, TypeOK

\* Nobody joins but by an open invitation and with its role, and no invitation serves
\* twice, for any number of users, invitations and requests.
THEOREM JoinedByInvite == Spec => JoinsByInvite
<1>1. Inv /\ [Next]_vars => [\A u \in Users : team /\ member[u] = Absent /\ member'[u] # Absent =>
       \E i \in Invites :
         /\ invite[i].state = "sent" /\ invite'[i].state = "accepted"
         /\ member'[u] = [role |-> invite[i].role, by |-> i]]_vars
  BY JoinStep
<1> QED BY <1>1, InitInv, NextInv, PTL DEF Spec, JoinsByInvite

LEMMA PlanStep == Inv /\ [Next]_vars =>
  \A i \in processed \cap Invoices :
    ~PastCheck(i) => ~PastCheck(i)' /\ (plan' = i => plan = i)
<1> SUFFICES ASSUME Inv, [Next]_vars, NEW i \in processed \cap Invoices, ~PastCheck(i)
             PROVE  ~PastCheck(i)' /\ (plan' = i => plan = i)
  OBVIOUS
<1>1. \A k \in Copies : <<i, k>> \in Deliveries /\ event[<<i, k>>].at # "applying"
  BY DEF PastCheck, Deliveries
<1>2. \A m \in Deliveries : m[1] = i => m \in Invoices \X Copies
  BY ConstantsAssumption DEF Deliveries
<1>3. CASE \E m \in Deliveries : TakePaid(m)
  <2>1. PICK m \in Deliveries : TakePaid(m)
    BY <1>3
  <2>2. m[1] # i
    BY <2>1 DEF TakePaid, Seen
  <2> QED BY <1>1, <2>1, <2>2 DEF TakePaid, Move, PastCheck, Inv, TypeOK
<1>4. CASE \E m \in Invoices \X Copies : ApplyPlan(m)
  <2>1. PICK m \in Invoices \X Copies : ApplyPlan(m)
    BY <1>4
  <2>2. m = <<m[1], m[2]>> /\ m[2] \in Copies
    OBVIOUS
  <2>3. m[1] # i
    BY <1>1, <2>1, <2>2 DEF ApplyPlan
  <2> QED BY <1>1, <2>1, <2>3 DEF ApplyPlan, Move, PastCheck, Inv, TypeOK
<1>5. CASE UNCHANGED plan /\ \A m \in Deliveries : event'[m].at = "applying" => event[m].at = "applying"
  BY <1>1, <1>5 DEF PastCheck
<1>6. \/ \E m \in Invoices \X Copies : TakePaid(m) \/ ApplyPlan(m)
      \/ UNCHANGED plan /\ \A m \in Deliveries : event'[m].at = "applying" => event[m].at = "applying"
  <2>1. ASSUME NEW m \in Deliveries, Consumes(m)
        PROVE  UNCHANGED plan /\ \A n \in Deliveries : event'[n].at = "applying" => event[n].at = "applying"
    BY <2>1 DEF Consumes, IgnoreEvent, PublishAccount, Note, ReturnEvent, Move, Inv, TypeOK
  <2>2. ASSUME NEW u \in Users, Create(u) \/ Register(u)
        PROVE  UNCHANGED plan /\ \A n \in Deliveries : event'[n].at = "applying" => event[n].at = "applying"
    <3>1. <<u, 1>> \in Deliveries
      BY DEF Deliveries
    <3>2. UNCHANGED plan /\ (UNCHANGED event \/ \E at \in EventStates \ {"applying"} : Move(<<u, 1>>, at))
      BY <2>2 DEF Create, Register, SignUp, IssueToken, PublishRegistered, VerifyEmail, Ready, Move,
         LookForAccount, InsertAccount, eventVars, EventStates
    <3>3. event \in [Deliveries -> EventRows]
      BY DEF Inv, TypeOK, EventRows
    <3>4. ASSUME NEW at \in EventStates \ {"applying"}, Move(<<u, 1>>, at)
          PROVE  \A n \in Deliveries : event'[n].at = "applying" => event[n].at = "applying"
      BY <3>1, <3>3, <3>4 DEF Move, EventRows
    <3> QED BY <3>2, <3>4
  <2>3. ASSUME NEW r \in Requests, Serve(r) PROVE UNCHANGED <<plan, event>>
    BY <2>3 DEF Serve, BeginUpdateRole, BeginRemove, ReadMember, CommitMember, BeginInvite,
       CommitInvite, BeginAccept, CommitAccept, RequestRaises, eventVars
  <2>4. ASSUME NEW m \in Invoices \X Copies, PublishPaid(m)
        PROVE  UNCHANGED plan /\ \A n \in Deliveries : event'[n].at = "applying" => event[n].at = "applying"
    <3>1. m \in Deliveries
      BY DEF Deliveries
    <3> QED BY <2>4, <3>1 DEF PublishPaid, Ready, Inv, TypeOK
  <2> QED BY <2>1, <2>2, <2>3, <2>4 DEF Next, Consumes, vars
<1>7. Invoices \X Copies \subseteq Deliveries
  BY DEF Deliveries
<1> QED BY <1>3, <1>4, <1>5, <1>6, <1>7

\* A plan that was recorded and then replaced does not come back once no handler of its
\* invoice is past its check, for any number of invoices, messages and redeliveries.
THEOREM PlanStaysSettled == Spec => PlanSettles
<1>1. Inv /\ [Next]_vars => [\A i \in processed \cap Invoices :
       ~PastCheck(i) => ~PastCheck(i)' /\ (plan' = i => plan = i)]_vars
  BY PlanStep
<1> QED BY <1>1, InitInv, NextInv, PTL DEF Spec, PlanSettles

LEMMA OwnerStep == Inv /\ [Next]_vars =>
  (Owners # {} /\ Owners' = {} =>
     \E r \in Requests : /\ request[r] # Idle /\ request'[r] = Idle
                         /\ \/ request[r].authority = Platform
                            \/ ~(request[r].owners \subseteq Owners)
                            \/ request[r].was.role # "owner")
<1> SUFFICES ASSUME Inv, [Next]_vars, Owners # {}, Owners' = {}
             PROVE  \E r \in Requests : /\ request[r] # Idle /\ request'[r] = Idle
                         /\ \/ request[r].authority = Platform
                            \/ ~(request[r].owners \subseteq Owners)
                            \/ request[r].was.role # "owner"
  OBVIOUS
<1>1. PICK u \in Users : member[u].role = "owner" /\ member'[u].role # "owner"
  BY DEF Owners
<1>2. PICK r \in Requests : CommitMember(r)
  <2>1. \A v \in Users : ~Create(v)
    <3> SUFFICES ASSUME NEW v \in Users, Create(v) PROVE FALSE
      OBVIOUS
    <3>1. member'[v].role = "owner"
      BY DEF Create, Inv, TypeOK
    <3> QED BY <3>1 DEF Owners
  <2>2. \A r \in Requests : ~CommitAccept(r)
    <3> SUFFICES ASSUME NEW r \in Requests, CommitAccept(r) PROVE FALSE
      OBVIOUS
    <3>1. member' # member
      BY <1>1
    <3>2. /\ member[request[r].user].role = "none"
          /\ \A v \in Users : v # request[r].user => member'[v] = member[v]
      BY <3>1 DEF CommitAccept, Inv, TypeOK, Absent
    <3> QED BY <1>1, <3>2
  <2> QED BY <1>1, <2>1, <2>2 DEF Next, vars, Register, SignUp, IssueToken, PublishRegistered,
    VerifyEmail, LookForAccount, InsertAccount, Serve, BeginUpdateRole, BeginRemove, ReadMember,
    BeginInvite, CommitInvite, BeginAccept, RequestRaises, PublishPaid, TakePaid, ApplyPlan,
    IgnoreEvent,
    PublishAccount, Note, ReturnEvent, teamVars
<1> DEFINE q == request[r]
<1>3. /\ q.at \in {"role", "remove"}
      /\ q \in RequestRows /\ Asked(q) /\ Counted(q)
  BY <1>2, Busy DEF CommitMember, Inv, RequestsFit
<1>4. u = q.user /\ q.role # q.was.role /\ SameRow(q)
      /\ \A v \in Users \ {u} : member'[v] = member[v]
  BY <1>1, <1>2, <1>3 DEF CommitMember, Inv, TypeOK, Asked
<1>5. Owners = {u}
  BY <1>1, <1>4 DEF Owners
<1>6. q # Idle /\ request'[r] = Idle
  BY <1>2, <1>3 DEF CommitMember, Inv, TypeOK, Idle
<1>7. q.authority = Platform \/ q.was.role # "owner" \/ Cardinality(q.owners) > 1
  <2>1. q.was.role = "owner" => q.role # "owner"
    BY <1>4
  <2> QED BY <1>3, <2>1 DEF Counted
<1>8. Cardinality(q.owners) > 1 => ~(q.owners \subseteq {u})
  <2> SUFFICES ASSUME q.owners \subseteq {u}, Cardinality(q.owners) > 1 PROVE FALSE
    OBVIOUS
  <2> DEFINE S == q.owners
  <2> HIDE DEF q
  <2>1. IsFiniteSet({u}) /\ Cardinality({u}) = 1
    BY FS_Singleton, Zenon
  <2>2. IsFiniteSet(S) /\ Cardinality(S) <= Cardinality({u})
    BY <2>1, FS_Subset
  <2>3. Cardinality(S) \in Nat
    BY <2>2, FS_CardinalityType
  <2> QED BY <2>1, <2>2, <2>3
<1> QED BY <1>5, <1>6, <1>7, <1>8

\* The last Owner goes only by the platform, or by a request that has counted an Owner who
\* is none any more: with nobody else at work, an account keeps an Owner.
THEOREM OwnerKept == Spec => KeepsOwner
<1>1. Inv /\ [Next]_vars => [Owners # {} /\ Owners' = {} =>
       \E r \in Requests : /\ request[r] # Idle /\ request'[r] = Idle
                           /\ \/ request[r].authority = Platform
                              \/ ~(request[r].owners \subseteq Owners)
                              \/ request[r].was.role # "owner"]_vars
  BY OwnerStep
<1> QED BY <1>1, InitInv, NextInv, PTL DEF Spec, KeepsOwner
-----------------------------------------------------------------------------
(* The gateway's limiter *)

\* What has passed in the window that ends now is in Redis: its key has not expired, and a
\* script that reads the clock late drops what is older than the window of all later ones.
StillKept == \A m \in passed : m.at > clock - Window => m \in window

LimiterInv ==
  /\ LimiterTypeOK
  /\ renewed <= clock
  /\ \A h \in Hits : hit[h] <= clock
  /\ IsFiniteSet(passed)
  /\ \A m \in passed : m.at <= renewed
  /\ StillKept

LEMMA LimiterInitInv == LimiterInit => LimiterInv
BY RateAssumption, FS_EmptySet DEF LimiterInit, LimiterInv, LimiterTypeOK, Times, StillKept

LEMMA KeptIsFinite ==
  ASSUME LimiterInv, NEW time
  PROVE  /\ IsFiniteSet(After(window, time))
         /\ Cardinality(After(window, time)) \in Nat
<1>1. After(window, time) \in SUBSET passed /\ IsFiniteSet(passed)
  BY DEF LimiterInv, LimiterTypeOK, After
<1>2. IsFiniteSet(After(window, time))
  BY <1>1, FS_Subset
<1> QED BY <1>2, FS_CardinalityType

LEMMA LetThrough ==
  ASSUME LimiterInv, NEW h \in Hits, NEW id \in RequestIds, RunScript(h, id),
         Cardinality(After(window, hit[h] - Window)) < PerWindow
  PROVE  LimiterInv'
<1> DEFINE now == hit[h]
           m == Member(now, id)
<1>1. /\ now \in Times /\ now <= clock /\ clock \in Times
      /\ Window \in Nat \ {0}
  BY RateAssumption DEF RunScript, LimiterInv, LimiterTypeOK, Times
<1>2. m \in Members /\ m.at = now
  BY <1>1 DEF Member, Members
<1>3. /\ hit' = [hit EXCEPT ![h] = 0]
      /\ window' = After(window, now - Window) \cup {m}
      /\ renewed' = clock
      /\ passed' = passed \cup {m}
      /\ clock' = clock
  <2>1. ~(Cardinality(After(window, now - Window)) >= PerWindow)
    <3> DEFINE c == Cardinality(After(window, now - Window))
    <3>1. c \in Nat /\ c < PerWindow
      BY KeptIsFinite
    <3> HIDE DEF c
    <3>2. ~(c >= PerWindow)
      BY <3>1, RateAssumption
    <3> QED BY <3>2 DEF c
  <2> QED BY <2>1 DEF RunScript, Renewed
<1> HIDE DEF m
<1>4. LimiterTypeOK'
  <2>1. hit' \in [Hits -> 0..MaxTime]
    BY <1>3, RateAssumption DEF LimiterInv, LimiterTypeOK
  <2>2. window' \subseteq passed' /\ passed' \subseteq Members
    BY <1>2, <1>3 DEF LimiterInv, LimiterTypeOK, After
  <2> QED BY <1>1, <1>3, <2>1, <2>2 DEF LimiterTypeOK, Times
<1>5. \A g \in Hits : hit'[g] <= clock'
  BY <1>1, <1>3 DEF LimiterInv, LimiterTypeOK, Times
<1>6. IsFiniteSet(passed')
  BY <1>3, FS_AddElement DEF LimiterInv
<1>7. \A n \in passed' : n.at <= renewed'
  BY <1>1, <1>2, <1>3 DEF LimiterInv, LimiterTypeOK, Members, Times
<1>8. StillKept'
  <2> SUFFICES ASSUME NEW n \in passed', n.at > clock - Window PROVE n \in window'
    BY <1>3 DEF StillKept
  <2>1. CASE n = m
    BY <1>3, <2>1
  <2>2. CASE n \in passed
    <3>1. n \in window /\ n.at \in Nat
      BY <2>2 DEF LimiterInv, LimiterTypeOK, Members, Times, StillKept
    <3>2. n.at > now - Window
      BY <1>1, <3>1 DEF Times
    <3> QED BY <1>3, <3>1, <3>2 DEF After
  <2> QED BY <1>3, <2>1, <2>2
<1> QED BY <1>1, <1>3, <1>4, <1>5, <1>6, <1>7, <1>8 DEF LimiterInv, LimiterTypeOK, Times

LEMMA LimiterNextInv == LimiterInv /\ [LimiterNext]_limiterVars => LimiterInv'
<1> SUFFICES ASSUME LimiterInv, [LimiterNext]_limiterVars PROVE LimiterInv'
  OBVIOUS
<1>1. CASE Tick
  <2>1. /\ clock \in Nat /\ clock < MaxTime /\ clock' = clock + 1
        /\ UNCHANGED <<hit, window, renewed, passed>>
    BY <1>1 DEF Tick, LimiterInv, LimiterTypeOK, Times
  <2>2. LimiterTypeOK' /\ renewed' <= clock' /\ \A h \in Hits : hit'[h] <= clock'
    BY <2>1, RateAssumption DEF LimiterInv, LimiterTypeOK, Times
  <2>3. StillKept'
    BY <2>1, RateAssumption DEF LimiterInv, LimiterTypeOK, Members, Times, StillKept
  <2> QED BY <2>1, <2>2, <2>3 DEF LimiterInv
<1>2. CASE KeyExpires
  <2>1. /\ clock >= renewed + Window /\ window' = {}
        /\ UNCHANGED <<clock, hit, renewed, passed>>
    BY <1>2 DEF KeyExpires
  <2>2. LimiterTypeOK'
    BY <2>1 DEF LimiterInv, LimiterTypeOK
  <2>3. \A m \in passed : ~(m.at > clock - Window)
    BY <2>1, RateAssumption DEF LimiterInv, LimiterTypeOK, Members, Times
  <2> QED BY <2>1, <2>2, <2>3 DEF LimiterInv, StillKept
<1>3. ASSUME NEW h \in Hits, ReadClock(h) PROVE LimiterInv'
  <2>1. hit' = [hit EXCEPT ![h] = clock] /\ UNCHANGED <<clock, window, renewed, passed>>
    BY <1>3 DEF ReadClock
  <2>2. LimiterTypeOK' /\ \A g \in Hits : hit'[g] <= clock'
    BY <2>1 DEF LimiterInv, LimiterTypeOK, Times
  <2> QED BY <2>1, <2>2 DEF LimiterInv, StillKept
<1>4. ASSUME NEW h \in Hits, NEW id \in RequestIds, RunScript(h, id) PROVE LimiterInv'
  <2>1. CASE Cardinality(After(window, hit[h] - Window)) < PerWindow
    BY <1>4, <2>1, LetThrough
  <2>2. CASE ~(Cardinality(After(window, hit[h] - Window)) < PerWindow)
    <3> DEFINE c == Cardinality(After(window, hit[h] - Window))
    <3>1. c \in Nat /\ ~(c < PerWindow)
      BY <2>2, KeptIsFinite
    <3> HIDE DEF c
    <3>2. c >= PerWindow
      BY <3>1, RateAssumption
    <3> USE DEF c
    <3>3. /\ hit' = [hit EXCEPT ![h] = 0]
          /\ window' = After(window, hit[h] - Window)
          /\ UNCHANGED <<clock, renewed, passed>>
      BY <1>4, <3>2 DEF RunScript
    <3>4. hit[h] <= clock /\ hit[h] \in Nat /\ clock \in Nat /\ Window \in Nat
      BY RateAssumption DEF LimiterInv, LimiterTypeOK, Times
    <3>5. LimiterTypeOK' /\ \A g \in Hits : hit'[g] <= clock'
      <4>1. window' \subseteq passed'
        BY <3>3 DEF LimiterInv, LimiterTypeOK, After
      <4>2. hit' \in [Hits -> 0..MaxTime] /\ \A g \in Hits : hit'[g] <= clock'
        BY <3>3, <3>4, RateAssumption DEF LimiterInv, LimiterTypeOK
      <4> QED BY <3>3, <4>1, <4>2 DEF LimiterInv, LimiterTypeOK
    <3>6. StillKept'
      BY <3>3, <3>4 DEF LimiterInv, LimiterTypeOK, Members, Times, StillKept, After
    <3> QED BY <3>3, <3>5, <3>6 DEF LimiterInv
  <2> QED BY <2>1, <2>2
<1>5. CASE UNCHANGED limiterVars
  BY <1>5 DEF limiterVars, LimiterInv, LimiterTypeOK, StillKept
<1> QED BY <1>1, <1>2, <1>3, <1>4, <1>5 DEF LimiterNext

LEMMA WindowStep == LimiterInv /\ [LimiterNext]_limiterVars =>
  \A m \in passed' \ passed : m.at = clock =>
    Cardinality(UpTo(After(passed', clock - Window), clock)) <= PerWindow
<1> SUFFICES ASSUME LimiterInv, [LimiterNext]_limiterVars, NEW m \in passed' \ passed, m.at = clock
             PROVE  Cardinality(UpTo(After(passed', clock - Window), clock)) <= PerWindow
  OBVIOUS
<1>1. PICK h \in Hits, id \in RequestIds : RunScript(h, id)
  BY DEF LimiterNext, limiterVars, Tick, KeyExpires, ReadClock
<1> DEFINE kept == After(window, hit[h] - Window)
<1>2. /\ ~(Cardinality(kept) >= PerWindow)
      /\ passed' = passed \cup {Member(hit[h], id)}
      /\ hit[h] \in Times
  BY <1>1 DEF RunScript, LimiterInv, LimiterTypeOK, Times
<1>3. m = Member(hit[h], id) /\ hit[h] = clock
  BY <1>2 DEF Member
<1>4. IsFiniteSet(kept) /\ Cardinality(kept) \in Nat
  BY KeptIsFinite
<1>5. UpTo(After(passed', clock - Window), clock) \subseteq kept \cup {m}
  BY <1>2, <1>3 DEF UpTo, After, LimiterInv, StillKept
<1> HIDE DEF kept
<1>6. /\ IsFiniteSet(kept \cup {m})
      /\ Cardinality(kept \cup {m}) \in {Cardinality(kept), Cardinality(kept) + 1}
  BY <1>4, FS_AddElement
<1>7. Cardinality(UpTo(After(passed', clock - Window), clock)) <= Cardinality(kept \cup {m})
  BY <1>5, <1>6, FS_Subset
<1>8. /\ Cardinality(UpTo(After(passed', clock - Window), clock)) \in Nat
      /\ Cardinality(kept \cup {m}) \in Nat
  BY <1>5, <1>6, FS_Subset, FS_CardinalityType
<1> QED BY <1>2, <1>4, <1>6, <1>7, <1>8, RateAssumption
-----------------------------------------------------------------------------
(* Routes and those who may call them *)

\* The sets of routes that a route for owners is in.
LEMMA OwnerRoutes ==
  /\ EdgeOwner = CreditsRoutes.owner \cup BillingRoutes
  /\ \A r \in EdgeOwner :
       /\ r \notin UNION {CreditsRoutes.internal, CreditsRoutes.any, GatewayRoutes, EdgeAdmin, EdgeManager}
       /\ r \notin UNION {UsageRoutes.own, UsageRoutes.scoped, ContentRoutes.own, ContentRoutes.item,
                          SchedulerRoutes.own, SchedulerRoutes.item, NotificationRoutes}
       /\ r \notin UNION {PublishingRoutes.any, PublishingRoutes.manager, ScraperRoutes.own,
                          ScraperRoutes.item, AIRoutes.any, AIRoutes.item, AIRoutes.open}
       /\ r \notin UNION {AdminRoutes.own, AdminRoutes.scoped, AuthRoutes.internal, AuthRoutes.any,
                          AuthRoutes.platform}
       /\ r \notin UNION {TenantRoutes.internal, TenantRoutes.any, TenantRoutes.member,
                          TenantRoutes.self, TenantRoutes.manager, TenantRoutes.platform}
<1>1. EdgeOwner = CreditsRoutes.owner \cup BillingRoutes
  BY DEF EdgeOwner, CreditsRoutes, BillingRoutes
<1>2. ASSUME NEW r \in EdgeOwner
      PROVE  r \notin UNION {CreditsRoutes.internal, CreditsRoutes.any, GatewayRoutes, EdgeAdmin, EdgeManager}
  BY <1>2 DEF EdgeOwner, CreditsRoutes, GatewayRoutes, EdgeAdmin, AdminRoutes, EdgeManager
<1>3. ASSUME NEW r \in EdgeOwner
      PROVE  r \notin UNION {UsageRoutes.own, UsageRoutes.scoped, ContentRoutes.own, ContentRoutes.item,
                             SchedulerRoutes.own, SchedulerRoutes.item, NotificationRoutes}
  BY <1>3 DEF EdgeOwner, UsageRoutes, ContentRoutes, SchedulerRoutes, NotificationRoutes
<1>4. ASSUME NEW r \in EdgeOwner
      PROVE  r \notin UNION {PublishingRoutes.any, PublishingRoutes.manager, ScraperRoutes.own,
                             ScraperRoutes.item, AIRoutes.any, AIRoutes.item, AIRoutes.open}
  BY <1>4 DEF EdgeOwner, PublishingRoutes, ScraperRoutes, AIRoutes
<1>5. ASSUME NEW r \in EdgeOwner
      PROVE  r \notin UNION {AdminRoutes.own, AdminRoutes.scoped, AuthRoutes.internal, AuthRoutes.any,
                             AuthRoutes.platform}
  BY <1>5 DEF EdgeOwner, AdminRoutes, AuthRoutes
<1>6. ASSUME NEW r \in EdgeOwner
      PROVE  r \notin UNION {TenantRoutes.internal, TenantRoutes.any, TenantRoutes.member,
                             TenantRoutes.self, TenantRoutes.manager, TenantRoutes.platform}
  BY <1>6 DEF EdgeOwner, TenantRoutes
<1> QED BY <1>1, <1>2, <1>3, <1>4, <1>5, <1>6

LEMMA UserIsNotInternal ==
  ASSUME NEW b \in Claims
  PROVE  b # Internal /\ b # NoToken /\ b.user \in Users
BY ConstantsAssumption DEF Claims, Internal, NoToken

\* Owners and the platform call them, and nobody else.
LEMMA OwnersOnly ==
  ASSUME NEW r \in EdgeOwner, NEW b \in Claims, NEW a
  PROVE  EdgePermits(r, b) <=> Permits(r, b, a)
<1>1. EdgePermits(r, b) <=> IsOwner(b)
  BY OwnerRoutes DEF EdgePermits
<1>2. /\ ~UsagePermits(r, b, a) /\ ~ContentPermits(r, b, a) /\ ~SchedulerPermits(r, b, a)
      /\ ~PublishingPermits(r, b, a) /\ ~ScraperPermits(r, b, a) /\ ~NotificationPermits(r, b)
  BY OwnerRoutes DEF UsagePermits, ContentPermits, SchedulerPermits, PublishingPermits,
     ScraperPermits, NotificationPermits
<1>3. /\ ~AIPermits(r, b, a) /\ ~AdminPermits(r, b, a) /\ ~TenantPermits(r, b, a)
      /\ ~AuthPermits(r, b)
  BY OwnerRoutes DEF AIPermits, AdminPermits, TenantPermits, AuthPermits
<1>4. CreditsPermits(r, b) \/ BillingPermits(r, b) <=> IsOwner(b)
  BY OwnerRoutes, UserIsNotInternal DEF CreditsPermits, BillingPermits
<1> QED BY <1>1, <1>2, <1>3, <1>4, OwnerRoutes DEF Permits

LEMMA ManagerRoutes ==
  \A r \in EdgeManager :
    /\ r \in TenantRoutes.manager /\ r \in ByRow
    /\ r \notin UNION {EdgeAdmin, EdgeOwner, GatewayRoutes, TenantRoutes.internal, TenantRoutes.any,
                       TenantRoutes.member, TenantRoutes.self, TenantRoutes.platform}
    /\ r \notin UNION {CreditsRoutes.internal, CreditsRoutes.any, CreditsRoutes.owner, BillingRoutes}
    /\ r \notin UNION {UsageRoutes.own, UsageRoutes.scoped, ContentRoutes.own, ContentRoutes.item,
                       SchedulerRoutes.own, SchedulerRoutes.item, NotificationRoutes}
    /\ r \notin UNION {PublishingRoutes.any, PublishingRoutes.manager, ScraperRoutes.own,
                       ScraperRoutes.item, AIRoutes.any, AIRoutes.item, AIRoutes.open}
    /\ r \notin UNION {AdminRoutes.own, AdminRoutes.scoped, AuthRoutes.internal, AuthRoutes.any,
                       AuthRoutes.platform}
BY DEF EdgeManager, TenantRoutes, ByRow, EdgeAdmin, EdgeOwner, GatewayRoutes, CreditsRoutes,
   BillingRoutes, UsageRoutes, ContentRoutes, SchedulerRoutes, NotificationRoutes,
   PublishingRoutes, ScraperRoutes, AIRoutes, AdminRoutes, AuthRoutes

\* Managers and the platform call them, by the claims at the edge and by the row behind it.
LEMMA ManagersOnly ==
  ASSUME NEW r \in EdgeManager, NEW b \in Claims, Current(b)
  PROVE  EdgePermits(r, b) <=> Permits(r, b, b.account)
<1>1. EdgePermits(r, b) <=> Manages(b)
  BY ManagerRoutes DEF EdgePermits
<1>2. /\ ~UsagePermits(r, b, b.account) /\ ~ContentPermits(r, b, b.account)
      /\ ~SchedulerPermits(r, b, b.account) /\ ~PublishingPermits(r, b, b.account)
      /\ ~ScraperPermits(r, b, b.account) /\ ~NotificationPermits(r, b)
  BY ManagerRoutes DEF UsagePermits, ContentPermits, SchedulerPermits, PublishingPermits,
     ScraperPermits, NotificationPermits
<1>3. /\ ~AIPermits(r, b, b.account) /\ ~AdminPermits(r, b, b.account) /\ ~AuthPermits(r, b)
      /\ ~CreditsPermits(r, b) /\ ~BillingPermits(r, b)
  BY ManagerRoutes DEF AIPermits, AdminPermits, AuthPermits, CreditsPermits, BillingPermits
<1>4. TenantPermits(r, b, b.account) <=> Manages(b)
  BY ManagerRoutes, UserIsNotInternal DEF TenantPermits, Manages, Current
<1> QED BY <1>1, <1>2, <1>3, <1>4, ManagerRoutes DEF Permits

LEMMA EdgeAgreement == token \in Claims \cup {NoToken} => EdgeAgrees
<1> SUFFICES ASSUME token \in Claims,
                    NEW r \in UNION {EdgeOwner, EdgeManager, CreditsRoutes.owner, BillingRoutes},
                    r \in ByRow => Current(token)
             PROVE  EdgePermits(r, token) <=> Permits(r, token, token.account)
  BY DEF EdgeAgrees
<1>1. r \in EdgeOwner \/ r \in EdgeManager
  BY OwnerRoutes
<1> QED BY <1>1, OwnersOnly, ManagersOnly, ManagerRoutes
-----------------------------------------------------------------------------
(* Calls that are passed on *)

Targets(r) == {PassesOn(r)[i] : i \in 1..Len(PassesOn(r))}

AllTargets ==
  {"tenant/list_my_accounts", "tenant/summary_internal", "tenant/my_membership",
   "tenant/owner_internal", "auth/get_user_internal", "credits/summary", "credits/consume",
   "credits/balance_internal", "usage/summary", "usage/check_quota", "scheduler/summary",
   "content/get", "billing/create_escrow", "billing/capture_escrow", "ai/ownership"} \cup Unserved

Calls ==
  [at : {"none", "admitted", "passing", "switching"}, route : Routes \cup Messages \cup {"none"},
   account : Accounts \cup {"none"}, bearer : Claims \cup {NoToken, Internal},
   valid : {"live", "revoked", "expired"}, rest : Seq(AllTargets), role : Roles \cup {"none"}]

\* The call that a service makes for a caller is one that it makes for this route, about an
\* account that the caller's token is for, if the route does not name one; and who buys is
\* an owner, because the service has asked.
Entitled(c) ==
  /\ c.rest \in Seq(Targets(c.route)) /\ c.rest # <<>>
  /\ c.route \notin Messages => c.bearer \in Claims
  /\ c.route \notin Naming \cup Messages => c.account = c.bearer.account
  /\ c.route \in {"credits/purchase", "credits/confirm_purchase"} => IsOwner(c.bearer)

CallFits ==
  /\ call \in Calls
  /\ call.at # "none" => call.account \in Accounts
  /\ call.at = "admitted" =>
       /\ call.route \in Routes /\ call.bearer \in Claims
       /\ call.route \notin Naming => call.account = call.bearer.account
  /\ call.at = "passing" => Entitled(call)
  /\ call.at = "switching" => call.bearer \in Claims /\ call.role \in Roles

TokenFits ==
  /\ superadmins \subseteq Users \cup {Platform}
  /\ token \in Claims \cup {NoToken}
  /\ session \in {"live", "revoked", "expired"}

AInv == Inv /\ LimiterInv /\ TokenFits /\ CallFits

LEMMA PassesOnTargets ==
  ASSUME NEW r
  PROVE  PassesOn(r) \in Seq(AllTargets) /\ PassesOn(r) \in Seq(Targets(r))
<1>1. PassesOn(r) \in Seq(AllTargets)
  <2> USE DEF AllTargets, Unserved
  <2>1. DashboardTargets \in Seq(AllTargets)
    BY DEF DashboardTargets
  <2>2. SummaryTargets \in Seq(AllTargets)
    BY DEF SummaryTargets
  <2>3. GenerationTargets \in Seq(AllTargets) /\ NoticeTargets \in Seq(AllTargets)
    BY DEF GenerationTargets, NoticeTargets
  <2>4. /\ <<"ai/ownership">> \in Seq(AllTargets) /\ <<"content/get">> \in Seq(AllTargets)
        /\ <<"billing/create_escrow">> \in Seq(AllTargets)
        /\ <<"billing/capture_escrow">> \in Seq(AllTargets)
        /\ <<"tenant/my_membership">> \in Seq(AllTargets)
    OBVIOUS
  <2>5. <<>> \in Seq(AllTargets)
    OBVIOUS
  <2> HIDE DEF AllTargets, Unserved
  <2> QED BY <2>1, <2>2, <2>3, <2>4, <2>5 DEF PassesOn
<1> DEFINE s == PassesOn(r)
           T == {s[i] : i \in 1..Len(s)}
<1> HIDE DEF s
<1>2. s \in Seq(AllTargets)
  BY <1>1 DEF s
<1>3. s \in Seq(T)
  BY <1>2
<1> QED BY <1>1, <1>3 DEF Targets, s

LEMMA TailEntitled ==
  ASSUME NEW S, NEW s \in Seq(S), s # <<>>
  PROVE  Head(s) \in S /\ Tail(s) \in Seq(S) /\ (Len(s) > 1 => Tail(s) # <<>>)
<1>1. Head(s) \in S /\ Tail(s) \in Seq(S) /\ Len(Tail(s)) = Len(s) - 1
  BY HeadTailProperties
<1>2. ASSUME Len(s) > 1, Tail(s) = <<>> PROVE FALSE
  <2>1. Len(<<>>) = 0
    BY EmptySeq
  <2>2. Len(s) \in Nat
    BY LenProperties
  <2> QED BY <1>1, <1>2, <2>1, <2>2
<1> QED BY <1>1, <1>2

LEMMA KnownTargets ==
  /\ Targets("gateway/dashboard") =
       {"tenant/list_my_accounts", "credits/summary", "usage/summary", "scheduler/summary"} \cup Unserved
  /\ Targets("gateway/stream") = {"ai/ownership"}
  /\ Targets("admin/account_summary") =
       {"tenant/summary_internal", "credits/balance_internal", "usage/summary"}
  /\ Targets("ai/start") = {"usage/check_quota", "credits/consume"}
  /\ Targets("credits/purchase") = {"billing/create_escrow"}
  /\ Targets("credits/confirm_purchase") = {"billing/capture_escrow"}
  /\ Targets("publishing/publish_content") = {"content/get"}
  /\ Targets("auth/switch_account") = {"tenant/my_membership"}
  /\ Targets("notices/consume") = {"tenant/owner_internal", "auth/get_user_internal"}
  /\ Targets("publishing/consume") = {"content/get"}
<1> USE DEF Targets, PassesOn
<1>1. Targets("gateway/dashboard") =
       {"tenant/list_my_accounts", "credits/summary", "usage/summary", "scheduler/summary"} \cup Unserved
  BY DEF DashboardTargets, Unserved
<1>2. /\ Targets("gateway/stream") = {"ai/ownership"}
      /\ Targets("credits/purchase") = {"billing/create_escrow"}
      /\ Targets("credits/confirm_purchase") = {"billing/capture_escrow"}
      /\ Targets("publishing/publish_content") = {"content/get"}
      /\ Targets("auth/switch_account") = {"tenant/my_membership"}
      /\ Targets("publishing/consume") = {"content/get"}
  OBVIOUS
<1>3. /\ Targets("ai/start") = {"usage/check_quota", "credits/consume"}
      /\ Targets("notices/consume") = {"tenant/owner_internal", "auth/get_user_internal"}
  BY DEF GenerationTargets, NoticeTargets
<1>4. Targets("admin/account_summary") =
       {"tenant/summary_internal", "credits/balance_internal", "usage/summary"}
  BY DEF SummaryTargets
<1> QED BY <1>1, <1>2, <1>3, <1>4

\* No other route passes its call on.
LEMMA OtherTargets ==
  ASSUME NEW r,
         r \notin {"gateway/dashboard", "gateway/stream", "admin/account_summary", "ai/start",
                   "credits/purchase", "credits/confirm_purchase", "publishing/publish_content",
                   "auth/switch_account", "notices/consume", "publishing/consume"}
  PROVE  PassesOn(r) = <<>> /\ Targets(r) = {}
<1>1. PassesOn(r) = <<>>
  BY DEF PassesOn
<1>2. 1..Len(<<>>) = {}
  OBVIOUS
<1> QED BY <1>1, <1>2 DEF Targets

LEMMA AccessTypes == AInv => AccessTypeOK
BY DEF AInv, Inv, LimiterInv, TokenFits, CallFits, Calls, AccessTypeOK

LEMMA AccessInitInv == AccessInit => AInv
<1> SUFFICES ASSUME AccessInit PROVE AInv
  OBVIOUS
<1>1. Inv /\ LimiterInv
  BY InitInv, LimiterInitInv DEF AccessInit
<1>2. TokenFits
  BY DEF AccessInit, TokenFits
<1>3. <<>> \in Seq(AllTargets)
  BY EmptySeq
<1>4. CallFits
  BY <1>3 DEF AccessInit, CallFits, Calls, NoCall
<1> QED BY <1>1, <1>2, <1>4 DEF AInv

LEMMA Issued ==
  ASSUME NEW u \in Users, NEW a \in Accounts, NEW role \in Roles, Issue(u, a, role)
  PROVE  token' \in Claims /\ session' = "live"
BY DEF Issue, Claims

\* Tokens are issued, roles of the platform change, sessions and tokens end.
LEMMA TokenStep ==
  ASSUME TokenFits, CallFits,
         \/ \E u \in Users : LogIn(u) \/ SetPlatformRole(u)
         \/ Refresh
         \/ \E how \in {"revoked", "expired"} : EndSession(how) \/ CallTokenEnds(how)
  PROVE  TokenFits' /\ CallFits'
<1>1. ASSUME NEW u \in Users, LogIn(u) PROVE TokenFits' /\ CallFits'
  <2>1. token' \in Claims /\ session' = "live"
    BY <1>1, Issued DEF LogIn, Accounts, Roles
  <2> QED BY <1>1, <2>1 DEF LogIn, TokenFits, CallFits
<1>2. ASSUME NEW valid \in {"revoked", "expired"}, call' = [call EXCEPT !.valid = valid]
      PROVE  CallFits'
  BY <1>2 DEF CallFits, Calls, Entitled
<1>3. ASSUME NEW u \in Users, SetPlatformRole(u) PROVE TokenFits' /\ CallFits'
  <2>1. TokenFits'
    BY <1>3 DEF SetPlatformRole, TokenFits
  <2>2. CallFits'
    <3>1. CASE call' = [call EXCEPT !.valid = "revoked"]
      BY <1>2, <3>1
    <3>2. CASE UNCHANGED call
      BY <3>2 DEF CallFits
    <3> QED BY <1>3, <3>1, <3>2 DEF SetPlatformRole
  <2> QED BY <2>1, <2>2
<1>4. CASE Refresh
  <2>1. token \in Claims
    BY <1>4 DEF Refresh, TokenFits
  <2>2. token' \in Claims /\ session' = "live"
    BY <1>4, <2>1, Issued DEF Refresh, Claims
  <2> QED BY <1>4, <2>2 DEF Refresh, TokenFits, CallFits
<1>5. ASSUME NEW how \in {"revoked", "expired"}, EndSession(how) PROVE TokenFits' /\ CallFits'
  BY <1>5 DEF EndSession, TokenFits, CallFits
<1>6. ASSUME NEW how \in {"revoked", "expired"}, CallTokenEnds(how) PROVE TokenFits' /\ CallFits'
  <2>1. CallFits'
    BY <1>2, <1>6 DEF CallTokenEnds
  <2> QED BY <1>6, <2>1 DEF CallTokenEnds, TokenFits
<1> QED BY <1>1, <1>3, <1>4, <1>5, <1>6

LEMMA AdmitStep ==
  ASSUME TokenFits, CallFits, NEW r \in Routes, NEW a \in Accounts, Admit(r, a)
  PROVE  CallFits'
<1>1. <<>> \in Seq(AllTargets)
  BY EmptySeq
<1>2. /\ call' = [NoCall EXCEPT !.at = "admitted", !.route = r, !.account = a, !.bearer = token]
      /\ token \in Claims /\ (r \notin Naming => a = token.account)
  BY DEF Admit, TokenFits
<1> QED BY <1>1, <1>2 DEF CallFits, Calls, NoCall

LEMMA DeliverStep ==
  ASSUME CallFits, NEW m \in Messages, NEW a \in Accounts, Deliver(m, a)
  PROVE  CallFits'
<1>1. PassesOn(m) \in Seq(AllTargets) /\ PassesOn(m) \in Seq(Targets(m))
  BY PassesOnTargets
<1>2. PassesOn(m) # <<>>
  <2>1. Len(NoticeTargets) = 2 /\ Len(<<"content/get">>) = 1 /\ Len(<<>>) = 0
    BY DEF NoticeTargets
  <2> QED BY <2>1 DEF PassesOn, Messages
<1>3. call' = [NoCall EXCEPT !.at = "passing", !.route = m, !.account = a, !.bearer = Internal,
                             !.rest = PassesOn(m)]
  BY DEF Deliver
<1> DEFINE s == PassesOn(m)
<1> HIDE DEF s
<1>4. call' \in Calls
  BY <1>1, <1>3 DEF Calls, NoCall, s
<1>5. /\ call'.at = "passing" /\ call'.rest = PassesOn(m) /\ call'.route = m /\ call'.account = a
  BY <1>3 DEF NoCall
<1>6. m \notin {"credits/purchase", "credits/confirm_purchase"}
  BY DEF Messages
<1>7. Entitled(call)'
  BY <1>1, <1>2, <1>5, <1>6 DEF Entitled
<1> QED BY <1>4, <1>5, <1>7 DEF CallFits

LEMMA BuyersAreOwners ==
  ASSUME NEW b, NEW a, NEW r \in {"credits/purchase", "credits/confirm_purchase"}, Permits(r, b, a)
  PROVE  IsOwner(b)
<1>1. r \in EdgeOwner /\ r \notin BillingRoutes
  BY DEF EdgeOwner, BillingRoutes
<1>2. /\ ~UsagePermits(r, b, a) /\ ~ContentPermits(r, b, a) /\ ~SchedulerPermits(r, b, a)
      /\ ~PublishingPermits(r, b, a) /\ ~ScraperPermits(r, b, a) /\ ~NotificationPermits(r, b)
  BY <1>1, OwnerRoutes DEF UsagePermits, ContentPermits, SchedulerPermits, PublishingPermits,
     ScraperPermits, NotificationPermits
<1>3. /\ ~AIPermits(r, b, a) /\ ~AdminPermits(r, b, a) /\ ~TenantPermits(r, b, a)
      /\ ~AuthPermits(r, b) /\ ~BillingPermits(r, b) /\ r \notin GatewayRoutes
  BY <1>1, OwnerRoutes DEF AIPermits, AdminPermits, TenantPermits, AuthPermits, BillingPermits
<1>4. CreditsPermits(r, b) => IsOwner(b)
  BY <1>1, OwnerRoutes DEF CreditsPermits
<1> QED BY <1>2, <1>3, <1>4 DEF Permits

LEMMA ForwardStep ==
  ASSUME CallFits, Forward
  PROVE  CallFits'
<1>1. <<>> \in Seq(AllTargets)
  BY EmptySeq
<1>2. CASE call' = NoCall
  BY <1>1, <1>2 DEF CallFits, Calls, NoCall
<1>3. CASE /\ Permits(call.route, call.bearer, call.account)
           /\ PassesOn(call.route) # <<>>
           /\ call' = [call EXCEPT !.at = "passing", !.rest = PassesOn(call.route)]
  <2> DEFINE s == PassesOn(call.route)
  <2>1. s \in Seq(AllTargets) /\ s \in Seq(Targets(call.route)) /\ s # <<>>
    BY <1>3, PassesOnTargets
  <2> HIDE DEF s
  <2>2. /\ call \in Calls /\ call.bearer \in Claims /\ call.account \in Accounts
        /\ call.route \notin Naming => call.account = call.bearer.account
    BY DEF Forward, CallFits
  <2>3. call' = [call EXCEPT !.at = "passing", !.rest = s]
    BY <1>3 DEF s
  <2>4. /\ call' \in Calls /\ call'.at = "passing" /\ call'.rest = s
        /\ call'.route = call.route /\ call'.account = call.account /\ call'.bearer = call.bearer
    BY <2>1, <2>2, <2>3 DEF Calls
  <2>5. Entitled(call)'
    BY <1>3, <2>1, <2>2, <2>4, BuyersAreOwners DEF Entitled
  <2> QED BY <2>2, <2>4, <2>5 DEF CallFits
<1> QED BY <1>2, <1>3 DEF Forward

\* What the service has asked for, it asks for in the name of the caller, or in its own.
LEMMA CarriedBy ==
  ASSUME CallFits
  PROVE  /\ call.route \notin Messages \cup {"admin/account_summary"} => Carried = call.bearer
         /\ call.route \in Messages \cup {"admin/account_summary"} => Carried = Internal
BY DEF Carried

\* An account is switched to only with a row there.
LEMMA SwitchedWithRow ==
  ASSUME TypeOK, CallFits, call.at = "passing", call.route = "auth/switch_account", Granted
  PROVE  Row(call.bearer.user, call.account) \in Roles
<1>1. Head(call.rest) = "tenant/my_membership"
  BY TailEntitled, KnownTargets DEF CallFits, Entitled
<1>2. call.route \notin Messages \cup {"admin/account_summary"}
  BY DEF Messages
<1>3. call.bearer \in Claims /\ Carried = call.bearer
  BY <1>2, CarriedBy DEF CallFits, Entitled
<1> DEFINE r == "tenant/my_membership"
           b == call.bearer
           a == call.account
<1>4. Permits(r, b, a)
  BY <1>1, <1>3 DEF Granted
<1>5. /\ ~CreditsPermits(r, b) /\ ~BillingPermits(r, b) /\ ~UsagePermits(r, b, a)
      /\ ~ContentPermits(r, b, a) /\ ~SchedulerPermits(r, b, a) /\ ~PublishingPermits(r, b, a)
  BY DEF CreditsPermits, CreditsRoutes, BillingPermits, BillingRoutes, UsagePermits, UsageRoutes,
     ContentPermits, ContentRoutes, SchedulerPermits, SchedulerRoutes, PublishingPermits,
     PublishingRoutes
<1>6. /\ ~ScraperPermits(r, b, a) /\ ~NotificationPermits(r, b) /\ ~AIPermits(r, b, a)
      /\ ~AdminPermits(r, b, a) /\ ~AuthPermits(r, b) /\ r \notin GatewayRoutes
  BY DEF ScraperPermits, ScraperRoutes, NotificationPermits, NotificationRoutes, AIPermits,
     AIRoutes, AdminPermits, AdminRoutes, AuthPermits, AuthRoutes, GatewayRoutes
<1>7. TenantPermits(r, b, a)
  BY <1>4, <1>5, <1>6 DEF Permits
<1>8. Row(b.user, a) # "none"
  BY <1>7 DEF TenantPermits, TenantRoutes
<1>9. Row(b.user, a) \in Roles \cup {"none"}
  BY <1>3, UserIsNotInternal DEF Row, TypeOK, MemberStates, Absent, Roles
<1> QED BY <1>8, <1>9

LEMMA PassOnStep ==
  ASSUME TypeOK, CallFits, PassOn
  PROVE  CallFits'
<1>1. <<>> \in Seq(AllTargets)
  BY EmptySeq
<1>2. /\ call \in Calls /\ Entitled(call) /\ call.at = "passing" /\ call.account \in Accounts
  BY DEF PassOn, CallFits
<1>3. CASE call' = NoCall
  BY <1>1, <1>3 DEF CallFits, Calls, NoCall
<1>4. CASE /\ Granted /\ call.route = "auth/switch_account"
           /\ call' = [call EXCEPT !.at = "switching", !.rest = <<>>,
                                   !.role = Row(call.bearer.user, call.account)]
  <2>1. Row(call.bearer.user, call.account) \in Roles
    BY <1>2, <1>4, SwitchedWithRow DEF CallFits
  <2>2. call.bearer \in Claims
    BY <1>2, <1>4 DEF Entitled, Messages
  <2> DEFINE role == Row(call.bearer.user, call.account)
  <2>3. call' = [call EXCEPT !.at = "switching", !.rest = <<>>, !.role = role]
    BY <1>4
  <2> HIDE DEF role
  <2> QED BY <1>1, <1>2, <2>1, <2>2, <2>3 DEF CallFits, Calls, role
<1>5. CASE Len(call.rest) > 1 /\ call' = [call EXCEPT !.rest = Tail(@)]
  <2> DEFINE s == Tail(call.rest)
  <2>1. s \in Seq(AllTargets) /\ s \in Seq(Targets(call.route)) /\ s # <<>>
    BY <1>2, <1>5, TailEntitled DEF Entitled, Calls
  <2>2. call' = [call EXCEPT !.rest = s]
    BY <1>5
  <2> HIDE DEF s
  <2>3. /\ call' \in Calls /\ call'.at = "passing" /\ call'.rest = s
        /\ call'.route = call.route /\ call'.account = call.account /\ call'.bearer = call.bearer
    BY <1>2, <2>1, <2>2 DEF Calls
  <2>4. Entitled(call)'
    BY <1>2, <2>1, <2>3 DEF Entitled
  <2> QED BY <1>2, <2>3, <2>4 DEF CallFits
<1> QED BY <1>3, <1>4, <1>5 DEF PassOn

LEMMA IssueSwitchedStep ==
  ASSUME TokenFits, CallFits, IssueSwitched
  PROVE  TokenFits' /\ CallFits'
<1>1. <<>> \in Seq(AllTargets)
  BY EmptySeq
<1>2. call.bearer \in Claims /\ call.account \in Accounts /\ call.role \in Roles
  BY DEF IssueSwitched, CallFits
<1>3. token' \in Claims /\ session' = "live"
  BY <1>2, Issued DEF IssueSwitched, Claims
<1> QED BY <1>1, <1>3 DEF IssueSwitched, TokenFits, CallFits, Calls, NoCall

LEMMA AccessNextInv == AInv /\ [AccessNext]_<<vars, limiterVars, accessVars>> => AInv'
<1> SUFFICES ASSUME AInv, [AccessNext]_<<vars, limiterVars, accessVars>> PROVE AInv'
  OBVIOUS
<1>1. Inv'
  <2>1. [Next]_vars
    BY DEF AccessNext
  <2> QED BY <2>1, NextInv DEF AInv
<1>2. LimiterInv'
  <2>1. [LimiterNext]_limiterVars
    BY DEF AccessNext
  <2> QED BY <2>1, LimiterNextInv DEF AInv
<1>3. CASE UNCHANGED accessVars
  BY <1>1, <1>2, <1>3 DEF AInv, accessVars, TokenFits, CallFits
<1>4. CASE AccessStep
  <2>1. TypeOK /\ TokenFits /\ CallFits
    BY DEF AInv, Inv
  <2>2. ASSUME NEW r \in Routes, NEW a \in Accounts, Admit(r, a) PROVE TokenFits' /\ CallFits'
    BY <2>1, <2>2, AdmitStep DEF Admit, TokenFits
  <2>3. ASSUME NEW m \in Messages, NEW a \in Accounts, Deliver(m, a) PROVE TokenFits' /\ CallFits'
    BY <2>1, <2>3, DeliverStep DEF Deliver, TokenFits
  <2>4. ASSUME Forward PROVE TokenFits' /\ CallFits'
    BY <2>1, <2>4, ForwardStep DEF Forward, TokenFits
  <2>5. ASSUME PassOn PROVE TokenFits' /\ CallFits'
    BY <2>1, <2>5, PassOnStep DEF PassOn, TokenFits
  <2>6. ASSUME IssueSwitched PROVE TokenFits' /\ CallFits'
    BY <2>1, <2>6, IssueSwitchedStep
  <2> QED BY <1>1, <1>2, <1>4, <2>1, <2>2, <2>3, <2>4, <2>5, <2>6, TokenStep DEF AccessStep, AInv
<1> QED BY <1>3, <1>4 DEF AccessNext

LEMMA AlwaysAInv == AccessSpec => []AInv
BY AccessInitInv, AccessNextInv, PTL DEF AccessSpec

\* Every variable of the tenant service, the limiter and the client stays of its type.
THEOREM AccessTypeCorrect == AccessSpec => []AccessTypeOK
BY AlwaysAInv, AccessTypes, PTL

\* The gateway asks for a role exactly where the service behind it does, for any users and
\* whatever has become of the members while the token lives.
THEOREM EdgeIsFaithful == AccessSpec => []EdgeAgrees
<1>1. AInv => EdgeAgrees
  BY EdgeAgreement DEF AInv, TokenFits
<1> QED BY <1>1, AlwaysAInv, PTL

\* A call that a limiter lets through at the time it has read finds room in its window, for
\* any number of gateways that judge at one time, any limit and any window.
THEOREM WindowIsBounded == AccessSpec => WindowBounded
<1>1. AInv /\ [AccessNext]_<<vars, limiterVars, accessVars>> =>
        [\A m \in passed' \ passed : m.at = clock =>
           Cardinality(UpTo(After(passed', clock - Window), clock)) <= PerWindow]_limiterVars
  <2> SUFFICES ASSUME AInv, [AccessNext]_<<vars, limiterVars, accessVars>>
               PROVE  \A m \in passed' \ passed : m.at = clock =>
                        Cardinality(UpTo(After(passed', clock - Window), clock)) <= PerWindow
    OBVIOUS
  <2>1. [LimiterNext]_limiterVars
    BY DEF AccessNext
  <2> QED BY <2>1, WindowStep DEF AInv
<1> QED BY <1>1, AlwaysAInv, PTL DEF AccessSpec, WindowBounded
-----------------------------------------------------------------------------
\* The client and the limiter leave the members alone: what tenant-service promises by
\* itself it promises in their company.
LEMMA MembersKeepTheirSpec == AccessSpec => Spec
<1>1. AccessInit => Init
  BY DEF AccessInit
<1>2. [AccessNext]_<<vars, limiterVars, accessVars>> => [Next]_vars
  BY DEF AccessNext
<1> QED BY <1>1, <1>2, PTL DEF AccessSpec, Spec

\* The last Owner goes only by the platform, or by a request that has counted an Owner who
\* is none any more, also while clients call.
THEOREM OwnerKeptInCompany == AccessSpec => KeepsOwner
BY MembersKeepTheirSpec, OwnerKept, PTL

\* Nobody joins but by an open invitation, also while clients call.
THEOREM JoinedByInviteInCompany == AccessSpec => JoinsByInvite
BY MembersKeepTheirSpec, JoinedByInvite, PTL
-----------------------------------------------------------------------------
(* What is passed on *)

\* Two routes that name no account.
LEMMA NotNaming ==
  /\ "gateway/dashboard" \notin Naming \cup Messages
  /\ "ai/start" \notin Naming \cup Messages
BY DEF Naming, Messages, ByRow, TenantRoutes, UsageRoutes, ContentRoutes, SchedulerRoutes,
   PublishingRoutes, ScraperRoutes, AIRoutes, AdminRoutes

\* What the services ask for in their own name is permitted to them.
LEMMA InternalPermitted ==
  ASSUME NEW a
  PROVE  /\ Permits("tenant/summary_internal", Internal, a)
         /\ Permits("credits/balance_internal", Internal, a)
         /\ Permits("usage/summary", Internal, a)
         /\ Permits("tenant/owner_internal", Internal, a)
         /\ Permits("auth/get_user_internal", Internal, a)
         /\ Permits("content/get", Internal, a)
<1>1. InScope(Internal, a)
  BY DEF InScope, Internal
<1>2. TenantPermits("tenant/summary_internal", Internal, a) /\ TenantPermits("tenant/owner_internal", Internal, a)
  BY DEF TenantPermits, TenantRoutes
<1>3. CreditsPermits("credits/balance_internal", Internal)
  BY DEF CreditsPermits, CreditsRoutes
<1>4. UsagePermits("usage/summary", Internal, a)
  BY <1>1 DEF UsagePermits, UsageRoutes
<1>5. AuthPermits("auth/get_user_internal", Internal)
  BY DEF AuthPermits, AuthRoutes
<1>6. ContentPermits("content/get", Internal, a)
  BY <1>1 DEF ContentPermits, ContentRoutes
<1> QED BY <1>2, <1>3, <1>4, <1>5, <1>6 DEF Permits

\* What they ask for in the name of a user is permitted to the user.
LEMMA UserPermitted ==
  ASSUME NEW b \in Claims, NEW a
  PROVE  /\ Permits("tenant/list_my_accounts", b, a)
         /\ Permits("credits/summary", b, a)
         /\ InScope(b, a) => Permits("usage/summary", b, a)
         /\ Permits("scheduler/summary", b, a)
         /\ Permits("ai/ownership", b, a)
         /\ Permits("usage/check_quota", b, a)
         /\ Permits("credits/consume", b, a)
         /\ IsOwner(b) => Permits("billing/create_escrow", b, a) /\ Permits("billing/capture_escrow", b, a)
         /\ InScope(b, a) => Permits("content/get", b, a)
<1>1. b # Internal
  BY UserIsNotInternal
<1>2. TenantPermits("tenant/list_my_accounts", b, a)
  BY <1>1 DEF TenantPermits, TenantRoutes
<1>3. CreditsPermits("credits/summary", b) /\ CreditsPermits("credits/consume", b)
  BY <1>1 DEF CreditsPermits, CreditsRoutes
<1>4. /\ InScope(b, a) => UsagePermits("usage/summary", b, a)
      /\ UsagePermits("usage/check_quota", b, a)
  BY DEF UsagePermits, UsageRoutes
<1>5. SchedulerPermits("scheduler/summary", b, a)
  BY <1>1 DEF SchedulerPermits, SchedulerRoutes
<1>6. AIPermits("ai/ownership", b, a)
  BY DEF AIPermits, AIRoutes
<1>7. IsOwner(b) => BillingPermits("billing/create_escrow", b) /\ BillingPermits("billing/capture_escrow", b)
  BY <1>1 DEF BillingPermits, BillingRoutes
<1>8. InScope(b, a) => ContentPermits("content/get", b, a)
  BY DEF ContentPermits, ContentRoutes
<1> QED BY <1>2, <1>3, <1>4, <1>5, <1>6, <1>7, <1>8 DEF Permits

LEMMA PassedOnPermitted == AInv => PassedOnIsPermitted
<1> DEFINE next == Head(call.rest)
           r == call.route
           b == call.bearer
           a == call.account
<1> SUFFICES ASSUME AInv, call.at = "passing",
                    next \notin Unserved,
                    ~(next = "tenant/my_membership" /\ Row(b.user, a) = "none"),
                    ~(r = "publishing/publish_content" /\ ~InScope(b, a))
             PROVE  Permits(next, Carried, a)
  BY DEF PassedOnIsPermitted
<1>1. Entitled(call) /\ CallFits /\ next \in Targets(r)
  BY TailEntitled DEF AInv, CallFits, Entitled
<1> HIDE DEF next
<1>2. CASE r \in Messages \cup {"admin/account_summary"}
  <2>1. Carried = Internal
    BY <1>1, <1>2, CarriedBy
  <2>2. Targets(r) \subseteq {"tenant/summary_internal", "credits/balance_internal", "usage/summary",
                              "tenant/owner_internal", "auth/get_user_internal", "content/get"}
    BY <1>2, KnownTargets DEF Messages
  <2> QED BY <1>1, <2>1, <2>2, InternalPermitted
<1>3. CASE r \notin Messages \cup {"admin/account_summary"}
  <2>1. Carried = b /\ b \in Claims
    BY <1>1, <1>3, CarriedBy DEF Entitled
  <2>2. CASE r \in {"gateway/dashboard", "ai/start"}
    <3>1. InScope(b, a)
      BY <1>1, <2>2, NotNaming DEF Entitled, InScope
    <3>2. next \in {"tenant/list_my_accounts", "credits/summary", "usage/summary", "scheduler/summary",
                    "usage/check_quota", "credits/consume"}
      BY <1>1, <2>2, KnownTargets
    <3> QED BY <2>1, <3>1, <3>2, UserPermitted
  <2>3. CASE r \in {"credits/purchase", "credits/confirm_purchase"}
    <3>1. IsOwner(b) /\ next \in {"billing/create_escrow", "billing/capture_escrow"}
      BY <1>1, <2>3, KnownTargets DEF Entitled
    <3> QED BY <2>1, <3>1, UserPermitted
  <2>4. CASE r = "publishing/publish_content"
    <3>1. InScope(b, a) /\ next = "content/get"
      BY <1>1, <2>4, KnownTargets
    <3> QED BY <2>1, <3>1, UserPermitted
  <2>5. CASE r = "gateway/stream"
    BY <1>1, <2>1, <2>5, KnownTargets, UserPermitted
  <2>6. CASE r = "auth/switch_account"
    <3>1. next = "tenant/my_membership" /\ Row(b.user, a) # "none"
      BY <1>1, <2>6, KnownTargets
    <3>2. TenantPermits("tenant/my_membership", b, a)
      BY <2>1, <3>1, UserIsNotInternal DEF TenantPermits, TenantRoutes
    <3> QED BY <2>1, <3>1, <3>2 DEF Permits
  <2> QED BY <1>1, <1>3, <2>2, <2>3, <2>4, <2>5, <2>6, OtherTargets DEF Messages
<1> QED BY <1>2, <1>3

\* What a service has begun for a caller no other service refuses it: a reservation gets its
\* escrow and a generation is paid, for any users, accounts and changes of members.
THEOREM PassedOnIsServed == AccessSpec => []PassedOnIsPermitted
BY AlwaysAInv, PassedOnPermitted, PTL
=============================================================================
