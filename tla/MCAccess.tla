------------------------------ MODULE MCAccess ------------------------------
\* A small instance of Access for TLC.
EXTENDS Access, TLC

CONSTANTS
  u1, u2, u3,    \* users
  i1, i2,        \* invitations
  r1, r2,        \* requests
  b1,            \* paid invoices
  h1, h2,        \* calls judged by the limiter
  q1, q2         \* their request ids

Alike == Permutations(Users) \cup Permutations(Invites) \cup Permutations(Requests)

Nobodys == \A u \in Users : signup[u] = "none"
NoEvents == \A m \in Deliveries : event[m].at = "none"
NoRequests == \A r \in Requests : request[r] = Idle
OneRequest == \E r \in Requests : \A q \in Requests : q # r => request[q] = Idle
NoInvites == \A i \in Invites : invite[i].state = "none"
NoClient == superadmins = {Platform} /\ token = NoToken /\ call = NoCall
Unlimited == clock = 1 /\ passed = {} /\ \A h \in Hits : hit[h] = 0

Joined == {u \in Users : member[u] # Absent}
Founded == [role |-> "owner", by |-> Founder]

\* With both invitations out there are at most two members, and one request at a time.
MembersOnly ==
  /\ NoEvents /\ Nobodys /\ NoClient /\ Unlimited
  /\ (\A i \in Invites : invite[i].state # "none") => Cardinality(Joined) <= 2 /\ OneRequest

\* The signup of one user at a time, and a team of its founder.
ConsumerOnly ==
  /\ NoRequests /\ NoInvites /\ NoClient /\ Unlimited
  /\ \A u \in Users : member[u] \in {Absent, Founded}
  /\ Cardinality({u \in Users : signup[u] # "none"}) <= 1

LimiterOnly == NoEvents /\ Nobodys /\ ~team /\ NoClient

\* One user has signed up and may join the team of another; without a team, tenant-service
\* may not have heard of the user yet. A call that is answered at once is not followed, a
\* message only while nobody is signed in. Members are changed while the token lives,
\* between the calls or during a switch of account.
ClientOnly ==
  /\ Unlimited
  /\ \A u \in Users :
       \/ signup[u] = "none" /\ member[u] \in {Absent, Founded}
       \/ signup[u] = "inserted" /\ ~team
       \/ signup[u] = "told" /\ event[<<u, 1>>] = [at |-> "done", tries |-> 0]
  /\ Cardinality({u \in Users : signup[u] # "none"}) <= 1
  /\ \A m \in Invoices \X Copies : event[m].at = "none"
  /\ Cardinality({i \in Invites : invite[i].state # "none"}) <= 1
  /\ superadmins \subseteq {Platform} \cup {u \in Users : signup[u] # "none"}
  /\ OneRequest
  /\ NoRequests \/ (session = "live" /\ superadmins = {Platform})
  /\ \/ call = NoCall
     \/ /\ PassesOn(call.route) # <<>>
        /\ token = IF call.route \in Messages THEN NoToken ELSE call.bearer
        /\ call.route = "auth/switch_account" \/ NoRequests

\* The members, the consumer, the limiter and the client are explored in turn.
Apart == MembersOnly \/ ConsumerOnly \/ LimiterOnly \/ ClientOnly
=============================================================================
