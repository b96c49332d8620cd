---------------------------- MODULE SignInProofs ----------------------------
(***************************************************************************)
(* What auth-service promises of its tokens and codes, for any number of   *)
(* users, pairs, codes and requests, and what the web client and the       *)
(* gateway make of them, for any number of tabs and calls. The locks of    *)
(* the refresh token and of the credential carry the first: a token is     *)
(* active as long as its refresh is under way, and one reset of a user at  *)
(* a time knows the active pairs. The second rests on pairs that nobody    *)
(* else has before they reach the cookie jar.                              *)
(***************************************************************************)
EXTENDS Sessions, Browser, TLAPS, FiniteSetTheorems

RequestRows == [at : Stages, user : Users, old : Pairs \cup {None}, new : Pairs \cup {None},
                password : Nat, code : Codes \cup {None}, targets : SUBSET Pairs]
Issuing == {"login", "refresh", "switch"}

\* What a request relies on between its steps.
RequestFits(q) ==
  /\ q.at \in Issuing => q.new \in Pairs /\ pair[q.new] = Unused
  /\ q.at \in {"switched", "store"} => q.new \in Pairs /\ pair[q.new].state # "unused"
  /\ q.at \in {"refresh", "switch"} => q.old \in Pairs
  /\ q.at = "refresh" => pair[q.old].state = "active" /\ pair[q.old].user = q.user
  /\ q.at = "switch" => pair[q.old].state # "unused" /\ pair[q.old].user = q.user
  /\ q.at = "reset" =>
       /\ q.code \in Codes /\ code[q.code] = [state |-> "sent", user |-> q.user]
       /\ \A p \in Pairs : p \in q.targets => pair[p].state # "unused"
       /\ \A p \in Pairs : pair[p].state = "active" /\ pair[p].user = q.user =>
            p \in q.targets \/ pair[p].overtaken

RequestsFit == \A r \in Requests : RequestFits(request[r])

\* What the requests at work have for themselves: a new pair, a refresh token, a credential.
Apart(q, p) ==
  /\ q.new # None => q.new # p.new
  /\ q.at = "refresh" /\ p.at = "refresh" => q.old # p.old
  /\ q.at = "reset" /\ p.at = "reset" => q.user # p.user

RequestsApart == \A r, s \in Requests : r # s => Apart(request[r], request[s])

UnusedFit ==
  \A p \in Pairs : /\ pair[p].state = "unused" => pair[p] = Unused
                   /\ pair[p].state # "unused" => pair[p].user \in Users

Inv == TypeOK /\ RequestsFit /\ RequestsApart /\ UnusedFit /\ ExchangedOnce /\ SurvivorsOvertaken
-----------------------------------------------------------------------------
LEMMA AtWork ==
  ASSUME TypeOK, NEW r \in Requests, request[r].at # "idle"
  PROVE  request[r] \in RequestRows
BY DEF TypeOK, Idle, Serving, RequestRows

LEMMA InitInv == Init => Inv
<1> SUFFICES ASSUME Init PROVE Inv
  OBVIOUS
<1>1. TypeOK
  BY DEF Init, TypeOK, PairStates, Unused
<1>2. RequestsFit
  BY DEF Init, RequestsFit, RequestFits, Idle, Serving, Issuing
<1>3. RequestsApart
  BY DEF Init, RequestsApart, Apart, Idle, Serving
<1>4. UnusedFit /\ ExchangedOnce /\ SurvivorsOvertaken
  BY ConstantsAssumption DEF Init, UnusedFit, ExchangedOnce, SurvivorsOvertaken, Unused
<1> QED BY <1>1, <1>2, <1>3, <1>4 DEF Inv

\* Pairs that are not locked are revoked, or nothing happens to them that matters here.
Kept(p) ==
  /\ pair'[p].user = pair[p].user /\ pair'[p].password = pair[p].password
  /\ pair'[p].parent = pair[p].parent /\ pair'[p].overtaken = pair[p].overtaken
  /\ pair[p].state = "unused" => pair'[p] = pair[p]
  /\ \/ pair'[p].state = pair[p].state
     \/ pair'[p].state = "revoked" /\ ~Locked(p)

\* A request goes on, or begins, without a claim to anything.
Claimless(q, to) ==
  /\ \/ to.at \in {"idle", "logout", "allowed", "clear", "promote", "demote", "revoke",
                   "listed", "unlisted"}
     \/ q.at = "switched" /\ to.at = "store" /\ to.new = q.new
  /\ to.new \in {None, q.new}

LEMMA StillFits ==
  ASSUME Inv, UNCHANGED code, \A p \in Pairs : Kept(p),
         NEW CONSTANT q, RequestFits(q), q.at = "refresh" => Locked(q.old)
  PROVE  RequestFits(q)'
BY DEF RequestFits, Kept, Issuing, Unused

LEMMA Quiet ==
  ASSUME Inv, TypeOK', UNCHANGED <<password, code>>, \A p \in Pairs : Kept(p),
         \A r \in Requests : request'[r] = request[r] \/ Claimless(request[r], request'[r])
  PROVE  Inv'
<1>1. RequestsFit'
  <2> SUFFICES ASSUME NEW r \in Requests PROVE RequestFits(request[r])'
    BY DEF RequestsFit
  <2>1. CASE Claimless(request[r], request'[r])
    <3>1. RequestFits(request[r])
      BY DEF Inv, RequestsFit
    <3>2. request'[r].at = "store" =>
            request'[r].new \in Pairs /\ pair'[request'[r].new].state # "unused"
      BY <2>1, <3>1 DEF Claimless, RequestFits, Kept
    <3>3. request'[r].at \notin Issuing \cup {"switched", "reset"}
      BY <2>1 DEF Claimless, Issuing
    <3> QED BY <3>2, <3>3 DEF RequestFits, Issuing
  <2>2. CASE request'[r] = request[r]
    <3>1. RequestFits(request[r])
      BY DEF Inv, RequestsFit
    <3>2. request[r].at = "refresh" => Locked(request[r].old)
      BY DEF Locked
    <3> QED BY <2>2, <3>1, <3>2, StillFits
  <2> QED BY <2>1, <2>2
<1>2. RequestsApart'
  BY DEF Inv, RequestsApart, Apart, Claimless
<1>3. UnusedFit'
  BY DEF Inv, UnusedFit, Kept
<1>4. ExchangedOnce'
  BY DEF Inv, ExchangedOnce, Kept
<1>5. SurvivorsOvertaken'
  BY DEF Inv, SurvivorsOvertaken, Kept
<1> QED BY <1>1, <1>2, <1>3, <1>4, <1>5 DEF Inv

\* A request begins, with a pair of its own.
LEMMA Begins ==
  ASSUME Inv, TypeOK', UNCHANGED <<password, code, pair>>, NEW r \in Requests,
         NEW CONSTANT q, RequestFits(q),
         \A s \in Requests \ {r} : Apart(q, request[s]) /\ Apart(request[s], q),
         request' = [request EXCEPT ![r] = q]
  PROVE  Inv'
<1>1. request'[r] = q /\ \A s \in Requests \ {r} : request'[s] = request[s]
  BY DEF Inv, TypeOK
<1>2. RequestsFit'
  BY <1>1 DEF Inv, RequestsFit, RequestFits
<1>3. RequestsApart'
  BY <1>1 DEF Inv, RequestsApart
<1>4. UnusedFit' /\ ExchangedOnce' /\ SurvivorsOvertaken'
  BY DEF Inv, UnusedFit, ExchangedOnce, SurvivorsOvertaken
<1> QED BY <1>2, <1>3, <1>4 DEF Inv

\* A request issues its pair s; a refresh revokes the pair that it replaces.
Issuance(r, q, to, s) ==
  /\ q = request[r] /\ q.at \in Issuing
  /\ to \in {"switched", "store"}
  /\ request' = [request EXCEPT ![r].at = to]
  /\ s \in PairStates
  /\ s.state = "active" /\ s.user = q.user /\ s.user \in Users
  /\ s.parent = IF q.at = "refresh" THEN q.old ELSE None
  /\ s.password < password[s.user] => s.overtaken
  /\ ResetUnderWay(q.user) => s.overtaken
  /\ pair'[q.new] = s
  /\ \A p \in Pairs \ {q.new} :
       pair'[p] = IF q.at = "refresh" /\ p = q.old THEN [pair[p] EXCEPT !.state = "revoked"]
                  ELSE pair[p]

LEMMA Issues ==
  ASSUME Inv, TypeOK', UNCHANGED <<password, code>>, NEW r \in Requests, NEW CONSTANT q,
         NEW CONSTANT to, NEW CONSTANT s, Issuance(r, q, to, s)
  PROVE  Inv'
<1> USE DEF Issuance
<1>1. /\ RequestFits(q) /\ q \in RequestRows
      /\ q.new \in Pairs /\ pair[q.new] = Unused /\ q.new # None
  BY AtWork, ConstantsAssumption DEF Inv, RequestsFit, RequestFits, Issuing
<1>2. /\ request'[r] = [q EXCEPT !.at = to]
      /\ \A t \in Requests \ {r} : request'[t] = request[t]
  BY DEF Inv, TypeOK
<1>3. q.at = "refresh" => /\ q.old \in Pairs \ {q.new} /\ pair[q.old].state = "active"
                          /\ pair[q.old].user = q.user
  BY <1>1 DEF RequestFits, Unused
<1>4. \A t \in Requests \ {r} : Apart(request[t], q) /\ Apart(q, request[t])
  BY DEF Inv, RequestsApart
<1>5. UnusedFit'
  <2>1. ASSUME NEW p \in Pairs
        PROVE  /\ pair'[p].state = "unused" => pair'[p] = Unused
               /\ pair'[p].state # "unused" => pair'[p].user \in Users
    <3>1. CASE p = q.new
      BY <3>1
    <3>2. CASE p # q.new /\ ~(q.at = "refresh" /\ p = q.old)
      BY <3>2 DEF Inv, UnusedFit
    <3>3. CASE p # q.new /\ q.at = "refresh" /\ p = q.old
      BY <1>3, <3>3 DEF Inv, UnusedFit, TypeOK, PairStates
    <3> QED BY <3>1, <3>2, <3>3
  <2> QED BY <2>1 DEF UnusedFit
<1>6. \A p \in Pairs \ {q.new} :
        /\ pair'[p].user = pair[p].user /\ pair'[p].parent = pair[p].parent
        /\ pair'[p].password = pair[p].password /\ pair'[p].overtaken = pair[p].overtaken
        /\ pair'[p].state = pair[p].state \/ pair'[p].state = "revoked"
        /\ pair[p].state = "unused" => pair'[p] = pair[p]
        /\ ~(q.at = "refresh" /\ p = q.old) => pair'[p] = pair[p]
  BY <1>3 DEF Inv, TypeOK, PairStates
<1>7. ExchangedOnce'
  <2> SUFFICES ASSUME NEW p \in Pairs, NEW c \in Pairs, NEW d \in Pairs, pair'[c].parent = p
               PROVE  pair'[p].state = "revoked" /\ (pair'[d].parent = p => c = d)
    BY DEF ExchangedOnce
  <2>1. CASE c = q.new
    <3>1. q.at = "refresh" /\ p = q.old
      BY <2>1, ConstantsAssumption
    <3>2. \A e \in Pairs : pair[e].parent # p
      BY <1>3, <3>1 DEF Inv, ExchangedOnce
    <3>3. pair'[p].state = "revoked"
      BY <1>3, <3>1 DEF Inv, TypeOK, PairStates
    <3> QED BY <1>6, <2>1, <3>2, <3>3
  <2>2. CASE c # q.new
    <3>1. pair[c].parent = p /\ pair[p].state = "revoked"
      BY <1>6, <2>2 DEF Inv, ExchangedOnce
    <3>2. p # q.new /\ ~(q.at = "refresh" /\ p = q.old)
      BY <1>1, <1>3, <3>1 DEF Unused
    <3>3. d = q.new => pair'[d].parent # p
      BY <3>2, ConstantsAssumption
    <3> QED BY <1>6, <2>2, <3>1, <3>2, <3>3 DEF Inv, ExchangedOnce
  <2> QED BY <2>1, <2>2
<1>8. SurvivorsOvertaken'
  <2> SUFFICES ASSUME NEW p \in Pairs, pair'[p].state = "active",
                      pair'[p].password < password[pair'[p].user]
               PROVE  pair'[p].overtaken
    BY DEF SurvivorsOvertaken
  <2>1. CASE p = q.new
    BY <2>1
  <2>2. CASE p # q.new
    BY <1>6, <2>2 DEF Inv, SurvivorsOvertaken
  <2> QED BY <2>1, <2>2
<1>9. RequestsFit'
  <2>1. RequestFits(request[r])'
    <3>1. /\ request'[r].at = to /\ request'[r].new = q.new
          /\ pair'[q.new].state = "active" /\ q.new \in Pairs
      BY <1>1, <1>2 DEF RequestRows
    <3> QED BY <3>1 DEF RequestFits, Issuing
  <2>2. ASSUME NEW t \in Requests \ {r} PROVE RequestFits(request[t])'
    <3>1. RequestFits(request[t]) /\ Apart(request[t], q) /\ request'[t] = request[t]
      BY <1>2, <1>4 DEF Inv, RequestsFit
    <3>2. request[t].at \in Issuing =>
            request[t].new \in Pairs \ {q.new} /\ pair'[request[t].new] = Unused
      BY <1>1, <1>3, <1>6, <3>1, ConstantsAssumption DEF RequestFits, Apart, Unused
    <3>3. request[t].at \in {"switched", "store"} =>
            request[t].new \in Pairs /\ pair'[request[t].new].state # "unused"
      BY <1>6, <3>1 DEF RequestFits
    <3>4. request[t].at = "refresh" =>
            /\ request[t].old \in Pairs
            /\ pair'[request[t].old].state = "active" /\ pair'[request[t].old].user = request[t].user
      <4> SUFFICES ASSUME request[t].at = "refresh"
                   PROVE  /\ request[t].old \in Pairs \ {q.new}
                          /\ pair[request[t].old].state = "active"
                          /\ pair[request[t].old].user = request[t].user
                          /\ ~(q.at = "refresh" /\ request[t].old = q.old)
        BY <1>6
      <4> QED BY <1>1, <3>1 DEF RequestFits, Apart, Unused
    <3>5. request[t].at = "switch" =>
            /\ request[t].old \in Pairs
            /\ pair'[request[t].old].state # "unused" /\ pair'[request[t].old].user = request[t].user
      <4> SUFFICES ASSUME request[t].at = "switch"
                   PROVE  /\ request[t].old \in Pairs \ {q.new}
                          /\ pair[request[t].old].state # "unused"
                          /\ pair[request[t].old].user = request[t].user
        BY <1>6
      <4> QED BY <1>1, <3>1 DEF RequestFits, Unused
    <3>6. request[t].at = "reset" =>
            /\ request[t].code \in Codes
            /\ code'[request[t].code] = [state |-> "sent", user |-> request[t].user]
            /\ \A p \in Pairs : p \in request[t].targets => pair'[p].state # "unused"
      BY <1>1, <1>6, <3>1 DEF RequestFits, Unused
    <3>7. ASSUME request[t].at = "reset", NEW p \in Pairs, pair'[p].state = "active",
                 pair'[p].user = request[t].user
          PROVE  p \in request[t].targets \/ pair'[p].overtaken
      <4>1. CASE p = q.new
        <5>1. ResetUnderWay(q.user)
          BY <3>7, <4>1 DEF ResetUnderWay
        <5> QED BY <4>1, <5>1
      <4>2. CASE p # q.new
        BY <1>6, <3>1, <3>7, <4>2 DEF RequestFits
      <4> QED BY <4>1, <4>2
    <3> QED BY <3>1, <3>2, <3>3, <3>4, <3>5, <3>6, <3>7 DEF RequestFits
  <2> QED BY <2>1, <2>2 DEF RequestsFit
<1>10. RequestsApart'
  <2>1. request'[r].new = q.new /\ request'[r].at \in {"switched", "store"}
    BY <1>1, <1>2 DEF RequestRows
  <2>2. \A t \in Requests \ {r} : Apart(request[r], request[t])' /\ Apart(request[t], request[r])'
    BY <1>2, <1>4, <2>1 DEF Apart
  <2> QED BY <1>2, <2>2 DEF Inv, RequestsApart, Apart
<1> QED BY <1>5, <1>7, <1>8, <1>9, <1>10 DEF Inv

-----------------------------------------------------------------------------
(* Actions *)

LEMMA BeginTypes ==
  ASSUME TypeOK, NEW r \in Requests, NEW CONSTANT q \in RequestRows,
         request' = [request EXCEPT ![r] = q],
         UNCHANGED <<password, superadmins, pair, redisVars, code, guesses>>
  PROVE  TypeOK'
BY DEF TypeOK, RequestRows, redisVars

LEMMA ServingTypes ==
  ASSUME NEW at \in Stages, NEW u \in Users, NEW old \in Pairs \cup {None},
         NEW new \in Pairs \cup {None}, NEW proved \in Nat
  PROVE  /\ Serving(at, u, old, new, proved) \in RequestRows
         /\ Serving(at, u, old, new, proved).at = at
         /\ Serving(at, u, old, new, proved).user = u
         /\ Serving(at, u, old, new, proved).old = old
         /\ Serving(at, u, old, new, proved).new = new
         /\ Serving(at, u, old, new, proved).password = proved
BY DEF Serving, RequestRows

LEMMA ReadCredentialStep ==
  ASSUME Inv, NEW r \in Requests, NEW u \in Users, NEW p \in Pairs, ReadCredential(r, u, p)
  PROVE  Inv'
<1> DEFINE q == Serving("login", u, None, p, password[u])
<1>1. q \in RequestRows /\ q.at = "login" /\ q.new = p
  <2>1. password[u] \in Nat /\ "login" \in Stages
    BY DEF Inv, TypeOK, Stages
  <2> QED BY <2>1, ServingTypes
<1>2. /\ request' = [request EXCEPT ![r] = q] /\ Fresh(p)
      /\ UNCHANGED <<password, superadmins, pair, redisVars, code, guesses>>
  BY DEF ReadCredential
<1> HIDE DEF q
<1>3. RequestFits(q)
  BY <1>1, <1>2 DEF RequestFits, Issuing, Fresh, Inv, UnusedFit
<1>4. \A s \in Requests \ {r} : Apart(q, request[s]) /\ Apart(request[s], q)
  BY <1>1, <1>2 DEF Apart, Fresh
<1> QED BY <1>1, <1>2, <1>3, <1>4, BeginTypes, Begins DEF Inv

LEMMA LockRefreshStep ==
  ASSUME Inv, NEW r \in Requests, NEW old \in Pairs, NEW new \in Pairs,
         LockRefreshToken(r, old, new)
  PROVE  Inv'
<1> DEFINE q == Serving("refresh", pair[old].user, old, new, 0)
<1>1. pair[old].state = "active" /\ ~Locked(old) /\ pair[old].user \in Users
  BY DEF LockRefreshToken, Refreshable, Inv, UnusedFit
<1>2. /\ q \in RequestRows
      /\ q.at = "refresh" /\ q.new = new /\ q.old = old /\ q.user = pair[old].user
  BY <1>1, ServingTypes DEF Stages
<1>3. /\ request' = [request EXCEPT ![r] = q] /\ Fresh(new)
      /\ UNCHANGED <<password, superadmins, pair, redisVars, code, guesses>>
  BY DEF LockRefreshToken
<1> HIDE DEF q
<1>4. RequestFits(q)
  BY <1>1, <1>2, <1>3 DEF RequestFits, Issuing, Fresh, Inv, UnusedFit
<1>5. \A s \in Requests \ {r} : Apart(q, request[s]) /\ Apart(request[s], q)
  BY <1>1, <1>2, <1>3 DEF Apart, Fresh, Locked
<1> QED BY <1>2, <1>3, <1>4, <1>5, BeginTypes, Begins DEF Inv

LEMMA CheckSessionStep ==
  ASSUME Inv, NEW r \in Requests, NEW old \in Pairs, NEW new \in Pairs,
         CheckSession(r, old, new)
  PROVE  Inv'
<1> DEFINE q == Serving("switch", pair[old].user, old, new, 0)
<1>1. pair[old].state # "unused" /\ pair[old].user \in Users
  BY DEF CheckSession, Inv, UnusedFit, Unused
<1>2. /\ q \in RequestRows
      /\ q.at = "switch" /\ q.new = new /\ q.old = old /\ q.user = pair[old].user
  BY <1>1, ServingTypes DEF Stages
<1>3. /\ request' = [request EXCEPT ![r] = q] /\ Fresh(new)
      /\ UNCHANGED <<password, superadmins, pair, redisVars, code, guesses>>
  BY DEF CheckSession
<1> HIDE DEF q
<1>4. RequestFits(q)
  BY <1>1, <1>2, <1>3 DEF RequestFits, Issuing, Fresh, Inv, UnusedFit
<1>5. \A s \in Requests \ {r} : Apart(q, request[s]) /\ Apart(request[s], q)
  BY <1>2, <1>3 DEF Apart, Fresh
<1> QED BY <1>2, <1>3, <1>4, <1>5, BeginTypes, Begins DEF Inv

LEMMA TakeCodeStep ==
  ASSUME Inv, NEW r \in Requests, NEW c \in Codes, TakeCode(r, c)
  PROVE  Inv'
<1> DEFINE u == request[r].user
           q == [at |-> "reset", user |-> u, old |-> None, new |-> None, password |-> 0,
                 code |-> c, targets |-> Active(u)]
<1>1. /\ request[r].at = "allowed" /\ u \in Users
      /\ code[c] = [state |-> "sent", user |-> u] /\ ~ResetUnderWay(u)
  BY AtWork DEF TakeCode, LockCredential, Inv, RequestRows
<1>2. q \in RequestRows
  BY <1>1 DEF RequestRows, Stages, Active
<1>3. /\ request' = [request EXCEPT ![r] = q]
      /\ UNCHANGED <<password, superadmins, pair, redisVars, code, guesses>>
  BY DEF TakeCode
<1>4. /\ q.at = "reset" /\ q.new = None /\ q.code = c /\ q.user = u
      /\ q.targets = Active(u)
  OBVIOUS
<1> HIDE DEF q
<1>5. RequestFits(q)
  BY <1>1, <1>4 DEF RequestFits, Issuing, Active
<1>6. \A s \in Requests \ {r} : Apart(q, request[s]) /\ Apart(request[s], q)
  <2> SUFFICES ASSUME NEW s \in Requests \ {r} PROVE Apart(q, request[s]) /\ Apart(request[s], q)
    OBVIOUS
  <2>1. request[s].at = "reset" => request[s].user # u
    BY <1>1 DEF ResetUnderWay
  <2> QED BY <1>4, <2>1 DEF Apart
<1> QED BY <1>2, <1>3, <1>5, <1>6, BeginTypes, Begins DEF Inv

LEMMA LogoutStep ==
  ASSUME Inv, NEW r \in Requests, NEW p \in Pairs, CommitLogout(r, p)
  PROVE  Inv'
<1> DEFINE q == Serving("logout", pair[p].user, p, None, 0)
<1>1. pair[p].state # "unused" /\ pair[p].user \in Users /\ ~Locked(p)
  BY DEF CommitLogout, Inv, UnusedFit, Unused
<1>2. q \in RequestRows /\ q.at = "logout" /\ q.new = None
  BY <1>1 DEF Serving, RequestRows, Stages
<1>3. /\ request' = [request EXCEPT ![r] = q]
      /\ pair' = [pair EXCEPT ![p].state = "revoked"]
      /\ UNCHANGED <<password, superadmins, redisVars, code, guesses>>
  BY DEF CommitLogout
<1> HIDE DEF q
<1>4. TypeOK'
  <2>1. pair' \in [Pairs -> PairStates]
    BY <1>3 DEF Inv, TypeOK, PairStates
  <2>2. request' \in [Requests -> {Idle} \cup RequestRows]
    BY <1>2, <1>3 DEF Inv, TypeOK, RequestRows
  <2> QED BY <1>3, <2>1, <2>2 DEF Inv, TypeOK, RequestRows, redisVars
<1>5. \A c \in Pairs : Kept(c)
  BY <1>1, <1>3 DEF Kept, Inv, TypeOK, PairStates
<1>6. \A s \in Requests : request'[s] = request[s] \/ Claimless(request[s], request'[s])
  BY <1>2, <1>3 DEF Claimless, Inv, TypeOK
<1> QED BY <1>3, <1>4, <1>5, <1>6, Quiet
-----------------------------------------------------------------------------
(* A request goes on *)

LEMMA StepTypes ==
  ASSUME Inv, NEW r \in Requests, request[r].at # "idle", NEW to \in Stages,
         request' = [request EXCEPT ![r].at = to]
  PROVE  /\ request' \in [Requests -> {Idle} \cup RequestRows]
         /\ request'[r].at = to /\ request'[r].new = request[r].new
         /\ \A s \in Requests \ {r} : request'[s] = request[s]
<1>1. request[r] \in RequestRows
  BY AtWork DEF Inv
<1>2. [request[r] EXCEPT !.at = to] \in RequestRows
  BY <1>1 DEF RequestRows
<1>3. request \in [Requests -> {Idle} \cup RequestRows]
  BY DEF Inv, TypeOK, RequestRows
<1>4. request'[r] = [request[r] EXCEPT !.at = to]
  BY <1>3
<1> QED BY <1>1, <1>2, <1>3, <1>4 DEF RequestRows

IssuedFits(s, q, proved, parent, overtaken) ==
  /\ s \in PairStates /\ s.state = "active" /\ s.user = q.user
  /\ s.parent = parent /\ s.password = proved
  /\ overtaken \/ ResetUnderWay(q.user) => s.overtaken

LEMMA IssuedTypes ==
  ASSUME NEW CONSTANT q, q.user \in Users, NEW proved \in Nat, NEW parent \in Pairs \cup {None},
         NEW overtaken \in BOOLEAN
  PROVE  IssuedFits(Issued(q, proved, parent, overtaken), q, proved, parent, overtaken)
<1>1. PICK b \in BOOLEAN : b = (overtaken \/ ResetUnderWay(q.user))
  OBVIOUS
<1>2. Issued(q, proved, parent, overtaken) =
        [state |-> "active", user |-> q.user, known |-> FALSE, password |-> proved,
         parent |-> parent, overtaken |-> b]
  BY <1>1 DEF Issued
<1> DEFINE s == Issued(q, proved, parent, overtaken)
<1>3. /\ s.state = "active" /\ s.user = q.user /\ s.parent = parent
      /\ s.password = proved /\ s.overtaken = b
  BY <1>2
<1>4. s \in PairStates
  BY <1>1, <1>2 DEF PairStates
<1>5. overtaken \/ ResetUnderWay(q.user) => s.overtaken
  <2> HIDE DEF s
  <2> QED BY <1>1, <1>3, Zenon
<1> HIDE DEF s
<1>6. IssuedFits(s, q, proved, parent, overtaken)
  BY <1>3, <1>4, <1>5 DEF IssuedFits
<1> QED BY <1>6 DEF s

LEMMA LoginStep ==
  ASSUME Inv, NEW r \in Requests, CommitLogin(r)
  PROVE  Inv'
<1> DEFINE q == request[r]
<1>1. q \in RequestRows /\ q.at = "login" /\ RequestFits(q)
  BY AtWork DEF CommitLogin, Step, Inv, RequestsFit
<1>2. q.new \in Pairs /\ q.user \in Users /\ q.password \in Nat
  BY <1>1 DEF RequestFits, Issuing, RequestRows
<1>3. PICK b \in BOOLEAN : b = (q.password # password[q.user])
  OBVIOUS
<1> DEFINE s == Issued(q, q.password, None, b)
<1>4. IssuedFits(s, q, q.password, None, b)
  <2>1. None \in Pairs \cup {None}
    OBVIOUS
  <2> QED BY <1>2, <1>3, <2>1, IssuedTypes
<1>5. /\ request' = [request EXCEPT ![r].at = "store"]
      /\ pair' = [pair EXCEPT ![q.new] = s]
      /\ UNCHANGED <<password, superadmins, redisVars, code, guesses>>
  BY <1>3 DEF CommitLogin, Step
<1> HIDE DEF s
<1>6. TypeOK'
  <2>1. request' \in [Requests -> {Idle} \cup RequestRows]
    BY <1>1, <1>5, StepTypes DEF Stages
  <2>2. pair' \in [Pairs -> PairStates]
    BY <1>4, <1>5 DEF Inv, TypeOK, IssuedFits
  <2> QED BY <1>5, <2>1, <2>2 DEF Inv, TypeOK, RequestRows, redisVars
<1>7. s.password < password[s.user] => s.overtaken
  <2>1. password[q.user] \in Nat
    BY <1>2 DEF Inv, TypeOK
  <2>2. q.password < password[q.user] => q.password # password[q.user]
    BY <1>2, <2>1
  <2> QED BY <1>3, <1>4, <2>2, Zenon DEF IssuedFits
<1>8. pair'[q.new] = s /\ \A p \in Pairs \ {q.new} : pair'[p] = pair[p]
  BY <1>2, <1>5 DEF Inv, TypeOK
<1>9. /\ q.at \in Issuing /\ q.at # "refresh" /\ q = request[r]
  BY <1>1 DEF Issuing
<1>10. /\ s \in PairStates /\ s.state = "active" /\ s.user = q.user /\ s.user \in Users
       /\ s.parent = (IF q.at = "refresh" THEN q.old ELSE None)
       /\ ResetUnderWay(q.user) => s.overtaken
  BY <1>2, <1>4, <1>9 DEF IssuedFits
<1>11. \A p \in Pairs \ {q.new} :
         pair'[p] = IF q.at = "refresh" /\ p = q.old THEN [pair[p] EXCEPT !.state = "revoked"]
                    ELSE pair[p]
  BY <1>8, <1>9
<1> HIDE DEF q
<1>12. Issuance(r, q, "store", s)
  BY <1>5, <1>7, <1>8, <1>9, <1>10, <1>11 DEF Issuance
<1> QED BY <1>5, <1>6, <1>12, Issues

LEMMA RefreshStep ==
  ASSUME Inv, NEW r \in Requests, CommitRefresh(r)
  PROVE  Inv'
<1> DEFINE q == request[r]
           old == pair[q.old]
           s == Issued(q, old.password, q.old, old.overtaken)
<1>1. q \in RequestRows /\ q.at = "refresh" /\ RequestFits(q)
  BY AtWork DEF CommitRefresh, Step, Inv, RequestsFit
<1>2. /\ q.new \in Pairs /\ q.old \in Pairs \ {q.new} /\ q.user \in Users
      /\ old.state = "active" /\ old.user = q.user
  BY <1>1 DEF RequestFits, Issuing, RequestRows, Unused
<1>3. old.password \in Nat /\ old.overtaken \in BOOLEAN
  BY <1>2 DEF Inv, TypeOK, PairStates
<1>4. IssuedFits(s, q, old.password, q.old, old.overtaken)
  <2>1. q.old \in Pairs \cup {None}
    BY <1>2
  <2> HIDE DEF q
  <2> QED BY <1>2, <1>3, <2>1, IssuedTypes
<1>5. /\ request' = [request EXCEPT ![r].at = "store"]
      /\ pair' = [pair EXCEPT ![q.old].state = "revoked", ![q.new] = s]
      /\ UNCHANGED <<password, superadmins, redisVars, code, guesses>>
  BY DEF CommitRefresh, Step
<1> HIDE DEF s
<1>6. TypeOK'
  <2>1. request' \in [Requests -> {Idle} \cup RequestRows]
    BY <1>1, <1>5, StepTypes DEF Stages
  <2>2. pair' \in [Pairs -> PairStates]
    BY <1>2, <1>4, <1>5 DEF Inv, TypeOK, IssuedFits, PairStates
  <2> QED BY <1>5, <2>1, <2>2 DEF Inv, TypeOK, RequestRows, redisVars
<1>7. s.password < password[s.user] => s.overtaken
  <2>1. old.password < password[q.user] => old.overtaken
    BY <1>2 DEF Inv, SurvivorsOvertaken
  <2> QED BY <1>4, <2>1 DEF IssuedFits
<1>8. \A p \in Pairs \ {q.new} :
        pair'[p] = IF q.at = "refresh" /\ p = q.old THEN [pair[p] EXCEPT !.state = "revoked"]
                   ELSE pair[p]
  BY <1>1, <1>2, <1>5 DEF Inv, TypeOK
<1>9. pair'[q.new] = s
  BY <1>2, <1>5 DEF Inv, TypeOK
<1>10. q.at \in Issuing /\ q = request[r]
  BY <1>1 DEF Issuing
<1> HIDE DEF q
<1>11. Issuance(r, q, "store", s)
  BY <1>1, <1>2, <1>4, <1>5, <1>7, <1>8, <1>9, <1>10 DEF Issuance, IssuedFits
<1> QED BY <1>5, <1>6, <1>11, Issues

LEMMA SwitchStep ==
  ASSUME Inv, NEW r \in Requests, CommitSwitch(r)
  PROVE  Inv'
<1> DEFINE q == request[r]
           old == pair[q.old]
<1>1. q \in RequestRows /\ q.at = "switch" /\ RequestFits(q)
  BY AtWork DEF CommitSwitch, Step, Inv, RequestsFit
<1>2. q.new \in Pairs /\ q.old \in Pairs /\ q.user \in Users
  BY <1>1 DEF RequestFits, Issuing, RequestRows
<1>3. old.password \in Nat /\ password[q.user] \in Nat
  BY <1>2 DEF Inv, TypeOK, PairStates
<1>4. PICK b \in BOOLEAN : b = (old.overtaken \/ old.password # password[q.user])
  OBVIOUS
<1> DEFINE s == Issued(q, old.password, None, b)
<1>5. IssuedFits(s, q, old.password, None, b)
  <2>1. None \in Pairs \cup {None}
    OBVIOUS
  <2> QED BY <1>2, <1>3, <1>4, <2>1, IssuedTypes
<1>6. /\ request' = [request EXCEPT ![r].at = "switched"]
      /\ pair' = [pair EXCEPT ![q.new] = s]
      /\ UNCHANGED <<password, superadmins, redisVars, code, guesses>>
  BY <1>4 DEF CommitSwitch, Step
<1> HIDE DEF s
<1>7. TypeOK'
  <2>1. request' \in [Requests -> {Idle} \cup RequestRows]
    BY <1>1, <1>6, StepTypes DEF Stages
  <2>2. pair' \in [Pairs -> PairStates]
    BY <1>5, <1>6 DEF Inv, TypeOK, IssuedFits
  <2> QED BY <1>6, <2>1, <2>2 DEF Inv, TypeOK, RequestRows, redisVars
<1>8. s.password < password[s.user] => s.overtaken
  <2>1. old.password < password[q.user] => old.password # password[q.user]
    BY <1>3
  <2> QED BY <1>4, <1>5, <2>1, Zenon DEF IssuedFits
<1>9. \A p \in Pairs \ {q.new} :
        pair'[p] = IF q.at = "refresh" /\ p = q.old THEN [pair[p] EXCEPT !.state = "revoked"]
                   ELSE pair[p]
  BY <1>1, <1>2, <1>6 DEF Inv, TypeOK
<1>10. /\ pair'[q.new] = s /\ q.at \in Issuing /\ q.at # "refresh" /\ q = request[r]
  BY <1>1, <1>2, <1>6 DEF Inv, TypeOK, Issuing
<1> HIDE DEF q
<1>11. Issuance(r, q, "switched", s)
  BY <1>2, <1>5, <1>6, <1>8, <1>9, <1>10 DEF Issuance, IssuedFits
<1> QED BY <1>6, <1>7, <1>11, Issues

-----------------------------------------------------------------------------
(* Steps that claim nothing *)

LEMMA Finishes ==
  ASSUME Inv, NEW r \in Requests, Finish(r)
  PROVE  /\ request' \in [Requests -> {Idle} \cup RequestRows]
         /\ \A s \in Requests : request'[s] = request[s] \/ Claimless(request[s], request'[s])
<1>1. Idle.at = "idle" /\ Idle.new = None
  BY DEF Idle, Serving
<1>2. request \in [Requests -> {Idle} \cup RequestRows]
  BY DEF Inv, TypeOK, RequestRows
<1> QED BY <1>1, <1>2 DEF Finish, Claimless

LEMMA Continues ==
  ASSUME Inv, NEW r \in Requests, NEW from \in Stages, NEW to \in Stages, Step(r, from, to),
         \/ to \in {"idle", "logout", "allowed", "clear", "promote", "demote", "revoke",
                    "listed", "unlisted"}
         \/ from = "switched" /\ to = "store"
  PROVE  /\ request' \in [Requests -> {Idle} \cup RequestRows]
         /\ \A s \in Requests : request'[s] = request[s] \/ Claimless(request[s], request'[s])
<1>1. request[r].at = from /\ from # "idle" /\ request' = [request EXCEPT ![r].at = to]
  BY DEF Step, Stages
<1> QED BY <1>1, StepTypes DEF Claimless

LEMMA Starts ==
  ASSUME Inv, NEW r \in Requests, NEW u \in Users, NEW at \in {"allowed", "promote", "demote"},
         Start(r, at, u)
  PROVE  /\ request' \in [Requests -> {Idle} \cup RequestRows]
         /\ \A s \in Requests : request'[s] = request[s] \/ Claimless(request[s], request'[s])
<1>1. /\ Serving(at, u, None, None, 0) \in RequestRows
      /\ Serving(at, u, None, None, 0).at = at
      /\ Serving(at, u, None, None, 0).new = None
  BY DEF Serving, RequestRows, Stages
<1>2. request \in [Requests -> {Idle} \cup RequestRows]
  BY DEF Inv, TypeOK, RequestRows
<1> QED BY <1>1, <1>2 DEF Start, Claimless

\* Neither the pairs nor the passwords nor the codes change.
LEMMA Beside ==
  ASSUME Inv, UNCHANGED <<password, pair, code>>,
         superadmins' \in SUBSET Users, session' \in SUBSET Pairs, index' \in SUBSET Pairs,
         guesses' \in [Users -> Nat],
         request' \in [Requests -> {Idle} \cup RequestRows],
         \A s \in Requests : request'[s] = request[s] \/ Claimless(request[s], request'[s])
  PROVE  Inv'
<1>1. TypeOK'
  BY DEF Inv, TypeOK, RequestRows
<1>2. \A p \in Pairs : Kept(p)
  BY DEF Kept
<1> QED BY <1>1, <1>2, Quiet

LEMMA DropSwitchedStep ==
  ASSUME Inv, NEW r \in Requests, DropSwitched(r)
  PROVE  Inv'
<1>1. Step(r, "switched", "store") /\ "switched" \in Stages /\ "store" \in Stages
  BY DEF DropSwitched, RevokeSession, Stages
<1>2. session' \in SUBSET Pairs /\ index' \in SUBSET Pairs
  BY DEF DropSwitched, RevokeSession, Inv, TypeOK
<1> QED BY <1>1, <1>2, Continues, Beside DEF DropSwitched, RevokeSession, Inv, TypeOK

LEMMA StoreSessionStep ==
  ASSUME Inv, NEW r \in Requests, NEW answered \in BOOLEAN, StoreSession(r, answered)
  PROVE  Inv'
<1> DEFINE q == request[r]
<1>1. q.new \in Pairs /\ pair[q.new].state # "unused"
  BY DEF StoreSession, Inv, RequestsFit, RequestFits
<1>2. Finish(r) /\ pair' = [pair EXCEPT ![q.new].known = answered]
  BY DEF StoreSession
<1>3. \A p \in Pairs : Kept(p)
  BY <1>1, <1>2 DEF Kept, Inv, TypeOK, PairStates
<1>4. TypeOK'
  <2>1. pair' \in [Pairs -> PairStates]
    BY <1>1, <1>2 DEF Inv, TypeOK, PairStates
  <2> QED BY <1>1, <1>2, <2>1, Finishes DEF StoreSession, Inv, TypeOK, RequestRows
<1> QED BY <1>2, <1>3, <1>4, Finishes, Quiet DEF StoreSession

LEMMA DropLoggedOutStep ==
  ASSUME Inv, NEW r \in Requests, DropLoggedOut(r)
  PROVE  Inv'
<1>1. session' \in SUBSET Pairs /\ index' \in SUBSET Pairs
  BY DEF DropLoggedOut, Inv, TypeOK
<1> QED BY <1>1, Finishes, Beside DEF DropLoggedOut, Inv, TypeOK

LEMMA CheckAttemptsStep ==
  ASSUME Inv, NEW r \in Requests, NEW u \in Users, CheckAttempts(r, u)
  PROVE  Inv'
BY Starts, Beside DEF CheckAttempts, redisVars, Inv, TypeOK

LEMMA WrongCodeStep ==
  ASSUME Inv, NEW r \in Requests, WrongCode(r)
  PROVE  Inv' /\ request[r].user \in Users
<1>1. request[r].user \in Users
  BY AtWork DEF WrongCode, Inv, RequestRows
<1>2. guesses' \in [Users -> Nat]
  BY <1>1 DEF WrongCode, Inv, TypeOK
<1> QED BY <1>1, <1>2, Finishes, Beside DEF WrongCode, redisVars, Inv, TypeOK

LEMMA ClearFailuresStep ==
  ASSUME Inv, NEW r \in Requests, ClearFailures(r)
  PROVE  Inv'
<1>1. request[r].user \in Users
  BY AtWork DEF ClearFailures, Step, Inv, RequestRows
<1>2. guesses' \in [Users -> Nat]
  BY <1>1 DEF ClearFailures, Inv, TypeOK
<1>3. Step(r, "clear", "revoke") /\ "clear" \in Stages /\ "revoke" \in Stages
  BY DEF ClearFailures, Stages
<1> QED BY <1>2, <1>3, Continues, Beside DEF ClearFailures, redisVars, Inv, TypeOK

LEMMA ListSessionsStep ==
  ASSUME Inv, NEW r \in Requests, ListSessions(r)
  PROVE  Inv'
<1> DEFINE u == request[r].user
           q == [at |-> "listed", user |-> u, old |-> None, new |-> None, password |-> 0,
                 code |-> None, targets |-> {p \in index : pair[p].user = u}]
<1>1. u \in Users
  BY AtWork DEF ListSessions, Inv, RequestRows
<1>2. q \in RequestRows /\ q.at = "listed" /\ q.new = None
  BY <1>1 DEF RequestRows, Stages, Inv, TypeOK
<1>3. request' = [request EXCEPT ![r] = q]
  BY DEF ListSessions
<1> HIDE DEF q
<1>4. request \in [Requests -> {Idle} \cup RequestRows]
  BY DEF Inv, TypeOK, RequestRows
<1>5. /\ request' \in [Requests -> {Idle} \cup RequestRows]
      /\ \A s \in Requests : request'[s] = request[s] \/ Claimless(request[s], request'[s])
  BY <1>2, <1>3, <1>4 DEF Claimless
<1> QED BY <1>5, Beside DEF ListSessions, redisVars, Inv, TypeOK

LEMMA DeleteSessionsStep ==
  ASSUME Inv, NEW r \in Requests, DeleteSessions(r)
  PROVE  Inv'
<1>1. Step(r, "listed", "unlisted") /\ "listed" \in Stages /\ "unlisted" \in Stages
  BY DEF DeleteSessions, Stages
<1> QED BY <1>1, Continues, Beside DEF DeleteSessions, Inv, TypeOK

LEMMA DeleteIndexStep ==
  ASSUME Inv, NEW r \in Requests, DeleteIndex(r)
  PROVE  Inv'
<1>1. index' \in SUBSET Pairs
  BY DEF DeleteIndex, Inv, TypeOK
<1> QED BY <1>1, Finishes, Beside DEF DeleteIndex, Inv, TypeOK

LEMMA ReadRoleStep ==
  ASSUME Inv, NEW r \in Requests, NEW u \in Users, NEW change \in {"promote", "demote"},
         ReadRole(r, u, change)
  PROVE  Inv'
BY Starts, Beside DEF ReadRole, redisVars, Inv, TypeOK

LEMMA CommitRoleStep ==
  ASSUME Inv, NEW r \in Requests, NEW change \in {"promote", "demote"}, CommitRole(r, change)
  PROVE  Inv'
<1>1. Step(r, change, "revoke") /\ change \in Stages /\ "revoke" \in Stages
  BY DEF CommitRole, Stages
<1>2. request[r].user \in Users
  BY AtWork DEF CommitRole, Step, Inv, RequestRows
<1>3. superadmins' \in SUBSET Users
  BY <1>2 DEF CommitRole, Inv, TypeOK
<1> QED BY <1>1, <1>3, Continues, Beside DEF CommitRole, redisVars, Inv, TypeOK

-----------------------------------------------------------------------------
(* The reset, and the codes *)

LEMMA ResetStep ==
  ASSUME Inv, NEW r \in Requests, CommitReset(r)
  PROVE  Inv'
<1> DEFINE q == request[r]
           u == q.user
<1>1. q \in RequestRows /\ q.at = "reset" /\ RequestFits(q) /\ u \in Users
  BY AtWork DEF CommitReset, Step, Inv, RequestsFit, RequestRows
<1>2. /\ request' = [request EXCEPT ![r].at = "clear"]
      /\ \A p \in q.targets : ~Locked(p)
      /\ pair' = [p \in Pairs |-> IF p \in q.targets THEN [pair[p] EXCEPT !.state = "revoked"]
                                  ELSE pair[p]]
      /\ password' = [password EXCEPT ![u] = @ + 1]
      /\ code' = [code EXCEPT ![q.code].state = "used"]
      /\ UNCHANGED <<superadmins, redisVars, guesses>>
  BY DEF CommitReset, Step
<1>3. /\ request' \in [Requests -> {Idle} \cup RequestRows]
      /\ request'[r].at = "clear" /\ request'[r].new = q.new
      /\ \A t \in Requests \ {r} : request'[t] = request[t]
  BY <1>1, <1>2, StepTypes DEF Stages
<1>4. \A p \in Pairs : Kept(p) /\ (p \in q.targets => pair'[p].state = "revoked")
  BY <1>1, <1>2 DEF Kept, RequestFits, Inv, TypeOK, PairStates
<1>5. /\ \A v \in Users : password'[v] = IF v = u THEN password[v] + 1 ELSE password[v]
      /\ password \in [Users -> Nat]
  BY <1>1, <1>2 DEF Inv, TypeOK
<1>6. TypeOK'
  <2>1. pair' \in [Pairs -> PairStates]
    BY <1>2 DEF Inv, TypeOK, PairStates
  <2>2. password' \in [Users -> Nat]
    BY <1>1, <1>2 DEF Inv, TypeOK
  <2>3. code' \in [Codes -> [state : {"unsent", "sent", "used"}, user : Users \cup {None}]]
    BY <1>1, <1>2 DEF RequestFits, Inv, TypeOK
  <2> QED BY <1>2, <1>3, <2>1, <2>2, <2>3 DEF Inv, TypeOK, RequestRows, redisVars
<1>7. RequestsFit'
  <2> SUFFICES ASSUME NEW t \in Requests PROVE RequestFits(request[t])'
    BY DEF RequestsFit
  <2>1. CASE t = r
    BY <1>3, <2>1 DEF RequestFits, Issuing
  <2>2. CASE t # r
    <3>1. /\ request'[t] = request[t] /\ RequestFits(request[t])
          /\ Apart(request[t], q)
      BY <1>3, <2>2 DEF Inv, RequestsFit, RequestsApart
    <3>2. request[t].at \in Issuing =>
            request[t].new \in Pairs /\ pair'[request[t].new] = Unused
      BY <1>4, <3>1 DEF RequestFits, Kept, Unused
    <3>3. request[t].at \in {"switched", "store"} =>
            request[t].new \in Pairs /\ pair'[request[t].new].state # "unused"
      BY <1>4, <3>1 DEF RequestFits, Kept
    <3>4. request[t].at = "refresh" =>
            /\ request[t].old \in Pairs /\ pair'[request[t].old].state = "active"
            /\ pair'[request[t].old].user = request[t].user
      <4>1. request[t].at = "refresh" => Locked(request[t].old)
        BY DEF Locked
      <4> QED BY <1>4, <3>1, <4>1 DEF RequestFits, Kept
    <3>5. request[t].at = "switch" =>
            /\ request[t].old \in Pairs /\ pair'[request[t].old].state # "unused"
            /\ pair'[request[t].old].user = request[t].user
      BY <1>4, <3>1 DEF RequestFits, Kept
    <3>6. request[t].at = "reset" =>
            /\ request[t].code \in Codes
            /\ code'[request[t].code] = [state |-> "sent", user |-> request[t].user]
            /\ \A p \in Pairs : p \in request[t].targets => pair'[p].state # "unused"
      <4> SUFFICES ASSUME request[t].at = "reset"
                   PROVE  /\ request[t].code \in Codes
                          /\ code'[request[t].code] = code[request[t].code]
                          /\ \A p \in Pairs : p \in request[t].targets => pair'[p].state # "unused"
        BY <3>1 DEF RequestFits
      <4>1. request[t].code # q.code
        BY <1>1, <3>1 DEF RequestFits, Apart
      <4> QED BY <1>1, <1>2, <1>4, <3>1, <4>1 DEF RequestFits, Kept, Inv, TypeOK
    <3>7. ASSUME request[t].at = "reset", NEW p \in Pairs, pair'[p].state = "active",
                 pair'[p].user = request[t].user
          PROVE  p \in request[t].targets \/ pair'[p].overtaken
      BY <1>4, <3>1, <3>7 DEF RequestFits, Kept
    <3> QED BY <3>1, <3>2, <3>3, <3>4, <3>5, <3>6, <3>7 DEF RequestFits
  <2> QED BY <2>1, <2>2
<1>8. RequestsApart'
  <2> SUFFICES ASSUME NEW t \in Requests, NEW v \in Requests, t # v
               PROVE  Apart(request[t], request[v])'
    BY DEF RequestsApart
  <2>1. Apart(request[t], request[v])
    BY DEF Inv, RequestsApart
  <2> QED BY <1>3, <2>1 DEF Apart
<1>9. UnusedFit'
  BY <1>4 DEF Inv, UnusedFit, Kept
<1>10. ExchangedOnce'
  BY <1>4 DEF Inv, ExchangedOnce, Kept
<1>11. SurvivorsOvertaken'
  <2> SUFFICES ASSUME NEW p \in Pairs, pair'[p].state = "active",
                      pair'[p].password < password'[pair'[p].user]
               PROVE  pair'[p].overtaken
    BY DEF SurvivorsOvertaken
  <2>1. /\ pair[p].state = "active" /\ p \notin q.targets /\ pair'[p].user = pair[p].user
        /\ pair'[p].password = pair[p].password /\ pair'[p].overtaken = pair[p].overtaken
    BY <1>4 DEF Kept
  <2>2. CASE pair[p].user = u
    BY <1>1, <2>1, <2>2 DEF RequestFits
  <2>3. CASE pair[p].user # u
    <3>1. password'[pair[p].user] = password[pair[p].user]
      BY <1>5, <2>1, <2>3 DEF Inv, UnusedFit
    <3> QED BY <2>1, <3>1 DEF Inv, SurvivorsOvertaken
  <2> QED BY <2>2, <2>3
<1> QED BY <1>6, <1>7, <1>8, <1>9, <1>10, <1>11 DEF Inv

LEMMA SendCodeStep ==
  ASSUME Inv, NEW c \in Codes, NEW u \in Users, SendCode(c, u)
  PROVE  Inv'
<1>1. /\ code[c].state = "unsent" /\ \A d \in Codes \ {c} : code'[d] = code[d]
      /\ UNCHANGED <<password, superadmins, pair, session, index, guesses, request>>
  BY DEF SendCode, redisVars, Inv, TypeOK
<1>2. TypeOK'
  <2>1. code' \in [Codes -> [state : {"unsent", "sent", "used"}, user : Users \cup {None}]]
    BY DEF SendCode, Inv, TypeOK
  <2> QED BY <1>1, <2>1 DEF Inv, TypeOK
<1>3. RequestsFit'
  <2> SUFFICES ASSUME NEW t \in Requests PROVE RequestFits(request[t])'
    BY DEF RequestsFit
  <2>1. RequestFits(request[t])
    BY DEF Inv, RequestsFit
  <2> QED BY <1>1, <2>1 DEF RequestFits
<1>4. RequestsApart'
  BY <1>1 DEF Inv, RequestsApart, Apart
<1>5. UnusedFit' /\ ExchangedOnce' /\ SurvivorsOvertaken'
  BY <1>1 DEF Inv, UnusedFit, ExchangedOnce, SurvivorsOvertaken
<1> QED BY <1>2, <1>3, <1>4, <1>5 DEF Inv

LEMMA RequestEndsStep ==
  ASSUME Inv, NEW r \in Requests, RequestEnds(r)
  PROVE  Inv'
BY Finishes, Beside DEF RequestEnds, redisVars, Inv, TypeOK

LEMMA Unattended ==
  ASSUME Inv, (\E p \in Pairs : SessionExpires(p)) \/ (\E u \in Users : WindowEnds(u))
  PROVE  Inv'
<1>1. /\ UNCHANGED <<password, pair, code, superadmins, request>>
      /\ session' \in SUBSET Pairs /\ index' \in SUBSET Pairs /\ guesses' \in [Users -> Nat]
  BY DEF SessionExpires, WindowEnds, redisVars, Inv, TypeOK
<1> QED BY <1>1, Beside DEF Inv, TypeOK, RequestRows
-----------------------------------------------------------------------------
LEMMA NextInv == Inv /\ [Next]_vars => Inv'
<1> SUFFICES ASSUME Inv, [Next]_vars PROVE Inv'
  OBVIOUS
<1>1. ASSUME NEW r \in Requests, Serve(r) PROVE Inv'
  BY <1>1, ReadCredentialStep, LoginStep, LockRefreshStep, RefreshStep, CheckSessionStep,
     SwitchStep, DropSwitchedStep, StoreSessionStep, LogoutStep, DropLoggedOutStep,
     CheckAttemptsStep, WrongCodeStep, TakeCodeStep, ResetStep, ClearFailuresStep,
     ListSessionsStep, DeleteSessionsStep, DeleteIndexStep, ReadRoleStep, CommitRoleStep,
     RequestEndsStep DEF Serve
<1>2. CASE UNCHANGED vars
  <2>1. UNCHANGED <<password, superadmins, pair, session, index, code, guesses, request>>
    BY <1>2 DEF vars, redisVars
  <2> QED BY <2>1, Beside DEF Inv, TypeOK, RequestRows
<1> QED BY <1>1, <1>2, SendCodeStep, Unattended DEF Next

\* Type correctness, with the locks and claims of the requests at work: refresh,
\* switch_account, reset and the others of auth.py and password_reset.py.
THEOREM TypeCorrect == Spec => []Inv
<1> QED BY InitInv, NextInv, PTL DEF Spec

\* refresh exchanges a token once (its row is locked until the transaction ends), for any
\* number of requests at one time.
THEOREM TokenExchangedOnce == Spec => []ExchangedOnce
<1>1. Inv => ExchangedOnce
  BY DEF Inv
<1> QED BY <1>1, TypeCorrect, PTL

\* The reset of a password revokes every refresh token of before, except what requests on
\* their way bring in.
THEOREM ResetRevokes == Spec => []SurvivorsOvertaken
<1>1. Inv => SurvivorsOvertaken
  BY DEF Inv
<1> QED BY <1>1, TypeCorrect, PTL

LEMMA PasswordStays ==
  ASSUME Inv, [Next]_vars, \A r \in Requests : ~CommitReset(r)
  PROVE  password' = password
BY DEF Next, vars, redisVars, Serve, ReadCredential, CommitLogin, LockRefreshToken, CommitRefresh,
   CheckSession, CommitSwitch, DropSwitched, RevokeSession, StoreSession, CommitLogout,
   DropLoggedOut, SessionExpires, SendCode, CheckAttempts, WrongCode, WindowEnds, TakeCode,
   ClearFailures, ListSessions, DeleteSessions, DeleteIndex, ReadRole, CommitRole, RequestEnds

\* No two resets share a one-time code: the code's row and the credential are locked by reset.
THEOREM OneCodeOneReset == Spec => CodeUsedOnce
<1> DEFINE Uses == \A u \in Users : password'[u] # password[u] =>
                     \E c \in Codes : /\ code[c] = [state |-> "sent", user |-> u]
                                      /\ code'[c].state = "used"
<1>1. ASSUME Inv, [Next]_vars PROVE Uses
  <2>1. CASE \E r \in Requests : CommitReset(r)
    <3>1. PICK r \in Requests : CommitReset(r)
      BY <2>1
    <3>2. /\ request[r].code \in Codes /\ request[r].user \in Users
          /\ code[request[r].code] = [state |-> "sent", user |-> request[r].user]
      BY <1>1, <3>1, AtWork DEF CommitReset, Step, Inv, RequestsFit, RequestFits, RequestRows
    <3>3. code'[request[r].code].state = "used"
      BY <1>1, <3>1, <3>2 DEF CommitReset, Inv, TypeOK
    <3>4. \A u \in Users : u # request[r].user => password'[u] = password[u]
      BY <1>1, <3>1, <3>2 DEF CommitReset, Inv, TypeOK
    <3> QED BY <3>2, <3>3, <3>4
  <2>2. CASE \A r \in Requests : ~CommitReset(r)
    BY <1>1, <2>2, PasswordStays
  <2> QED BY <2>1, <2>2
<1> HIDE DEF Uses
<1>2. Spec => [][Uses]_vars
  BY <1>1, TypeCorrect, PTL DEF Spec
<1> QED BY <1>2 DEF CodeUsedOnce, Uses

-----------------------------------------------------------------------------
(* The limit of wrong codes *)

Checked(u) == {r \in Requests : request[r].at = "allowed" /\ request[r].user = u}

\* Who has passed the check may still count a failure.
GuessesFit ==
  \A u \in Users : guesses[u] + Cardinality(Checked(u)) < AttemptLimit + Cardinality(Requests)

\* No further failure is counted or allowed.
NoMore ==
  /\ \A u \in Users : guesses'[u] <= guesses[u]
  /\ \A r \in Requests : request'[r].at = "allowed" => request'[r] = request[r]

LEMMA CheckedFinite ==
  ASSUME NEW u
  PROVE  /\ IsFiniteSet(Checked(u)) /\ Cardinality(Checked(u)) \in Nat
         /\ Cardinality(Requests) \in Nat /\ Cardinality(Checked(u)) <= Cardinality(Requests)
<1>1. Checked(u) \subseteq Requests
  BY DEF Checked
<1> QED BY <1>1, ConstantsAssumption, FS_Subset, FS_CardinalityType

LEMMA FewerChecked ==
  ASSUME Inv, GuessesFit, NEW u \in Users, guesses'[u] \in Nat, guesses'[u] <= guesses[u],
         Checked(u)' \subseteq Checked(u)
  PROVE  guesses'[u] + Cardinality(Checked(u)') < AttemptLimit + Cardinality(Requests)
<1>1. /\ Cardinality(Checked(u)') \in Nat
      /\ Cardinality(Checked(u)') <= Cardinality(Checked(u))
  BY CheckedFinite, FS_Subset, FS_CardinalityType
<1>2. guesses[u] \in Nat /\ AttemptLimit \in Nat
  BY ConstantsAssumption DEF Inv, TypeOK
<1> QED BY <1>1, <1>2, CheckedFinite DEF GuessesFit

LEMMA NoMoreFits ==
  ASSUME Inv, TypeOK', GuessesFit, NoMore
  PROVE  GuessesFit'
<1>1. ASSUME NEW u \in Users
      PROVE  guesses'[u] + Cardinality(Checked(u)') < AttemptLimit + Cardinality(Requests)
  <2>1. Checked(u)' \subseteq Checked(u)
    BY DEF Checked, NoMore
  <2> QED BY <2>1, FewerChecked DEF NoMore, TypeOK
<1> QED BY <1>1 DEF GuessesFit

LEMMA CheckFits ==
  ASSUME Inv, TypeOK', GuessesFit, NEW r \in Requests, NEW u \in Users, CheckAttempts(r, u)
  PROVE  GuessesFit'
<1>1. guesses' = guesses /\ guesses[u] < AttemptLimit /\ \A v \in Users : guesses[v] \in Nat
  BY DEF CheckAttempts, Allowed, Inv, TypeOK
<1>2. \A s \in Requests : request'[s] = IF s = r THEN Serving("allowed", u, None, None, 0)
                                        ELSE request[s]
  BY DEF CheckAttempts, Start, Inv, TypeOK
<1>3. \A v \in Users \ {u} : Checked(v)' \subseteq Checked(v)
  BY <1>2 DEF Checked, Serving
<1>4. Cardinality(Checked(u)') \in Nat /\ Cardinality(Checked(u)') <= Cardinality(Requests)
  <2>1. Checked(u)' \subseteq Requests
    BY DEF Checked
  <2> QED BY <2>1, ConstantsAssumption, FS_Subset, FS_CardinalityType
<1>5. ASSUME NEW v \in Users
      PROVE  guesses'[v] + Cardinality(Checked(v)') < AttemptLimit + Cardinality(Requests)
  <2>1. CASE v = u
    <3>1. AttemptLimit \in Nat /\ Cardinality(Requests) \in Nat
      BY ConstantsAssumption, CheckedFinite
    <3>2. guesses'[u] + Cardinality(Checked(u)') < AttemptLimit + Cardinality(Requests)
      BY <1>1, <1>4, <3>1
    <3> QED BY <2>1, <3>2
  <2>2. CASE v # u
    BY <1>1, <1>3, <2>2, FewerChecked
  <2> QED BY <2>1, <2>2
<1> QED BY <1>5 DEF GuessesFit

LEMMA WrongFits ==
  ASSUME Inv, TypeOK', GuessesFit, NEW r \in Requests, WrongCode(r)
  PROVE  GuessesFit'
<1>1. PICK u \in Users : u = request[r].user /\ request[r].at = "allowed"
  BY WrongCodeStep DEF WrongCode
<1>2. guesses' = [guesses EXCEPT ![u] = @ + 1] /\ \A v \in Users : guesses[v] \in Nat
  BY <1>1 DEF WrongCode, Inv, TypeOK
<1>3. \A s \in Requests : request'[s] = IF s = r THEN Idle ELSE request[s]
  BY DEF WrongCode, Finish, Inv, TypeOK
<1>4. Checked(u)' = Checked(u) \ {r} /\ r \in Checked(u)
  BY <1>1, <1>3 DEF Checked, Idle, Serving
<1>5. Cardinality(Checked(u)') = Cardinality(Checked(u)) - 1
  BY <1>4, CheckedFinite, FS_RemoveElement
<1>6. ASSUME NEW v \in Users
      PROVE  guesses'[v] + Cardinality(Checked(v)') < AttemptLimit + Cardinality(Requests)
  <2>1. CASE v = u
    <3>1. guesses'[u] = guesses[u] + 1
      BY <1>1, <1>2 DEF Inv, TypeOK
    <3>2. guesses[u] + Cardinality(Checked(u)) < AttemptLimit + Cardinality(Requests)
      BY <1>1 DEF GuessesFit
    <3>3. /\ AttemptLimit \in Nat /\ Cardinality(Requests) \in Nat
          /\ Cardinality(Checked(u)) \in Nat /\ guesses[u] \in Nat
      BY <1>2, ConstantsAssumption, CheckedFinite
    <3>4. guesses'[u] + Cardinality(Checked(u)') < AttemptLimit + Cardinality(Requests)
      BY <1>5, <3>1, <3>2, <3>3
    <3> QED BY <2>1, <3>4
  <2>2. CASE v # u
    <3>1. Checked(v)' \subseteq Checked(v)
      BY <1>3 DEF Checked, Idle, Serving
    <3>2. guesses'[v] = guesses[v]
      BY <1>2, <2>2 DEF Inv, TypeOK
    <3> QED BY <1>2, <3>1, <3>2, FewerChecked
  <2> QED BY <2>1, <2>2
<1> QED BY <1>6 DEF GuessesFit

\* A step moves its request elsewhere than to "allowed", and counts nothing.
Elsewhere(r) ==
  /\ \A u \in Users : guesses'[u] <= guesses[u]
  /\ request'[r].at # "allowed"
  /\ \A s \in Requests \ {r} : request'[s] = request[s]

LEMMA Moves ==
  ASSUME Inv, NEW r \in Requests, UNCHANGED guesses
  PROVE  /\ \A from, to \in Stages : Step(r, from, to) /\ to # "allowed" => Elsewhere(r)
         /\ Finish(r) => Elsewhere(r)
         /\ \A q : q.at # "allowed" /\ request' = [request EXCEPT ![r] = q] => Elsewhere(r)
<1>1. /\ guesses \in [Users -> Nat]
      /\ request \in [Requests -> {Idle} \cup RequestRows]
  BY DEF Inv, TypeOK, RequestRows
<1>2. ASSUME NEW q, q.at # "allowed", request' = [request EXCEPT ![r] = q] PROVE Elsewhere(r)
  BY <1>1, <1>2 DEF Elsewhere
<1>3. ASSUME NEW from \in Stages, NEW to \in Stages, Step(r, from, to), to # "allowed"
      PROVE  Elsewhere(r)
  <2>1. request[r].at # "idle"
    BY <1>3 DEF Step, Stages
  <2> QED BY <1>1, <1>3, <2>1, StepTypes DEF Step, Elsewhere
<1>4. ASSUME Finish(r) PROVE Elsewhere(r)
  <2>1. Idle.at # "allowed"
    BY DEF Idle, Serving
  <2> QED BY <1>2, <1>4, <2>1 DEF Finish
<1> QED BY <1>2, <1>3, <1>4

LEMMA NoMoreStep ==
  ASSUME Inv, NEW r \in Requests, Serve(r), \A u \in Users : ~CheckAttempts(r, u), ~WrongCode(r)
  PROVE  NoMore
<1>1. ASSUME Elsewhere(r) PROVE NoMore
  BY <1>1 DEF Elsewhere, NoMore
<1>2. "store" \in Stages /\ "login" \in Stages /\ "refresh" \in Stages /\ "switch" \in Stages
      /\ "switched" \in Stages /\ "reset" \in Stages /\ "clear" \in Stages /\ "revoke" \in Stages
      /\ "listed" \in Stages /\ "unlisted" \in Stages /\ "promote" \in Stages /\ "demote" \in Stages
  BY DEF Stages
<1>3. CASE \/ CommitLogin(r) \/ CommitRefresh(r) \/ CommitSwitch(r) \/ DropSwitched(r)
           \/ CommitReset(r) \/ DeleteSessions(r)
  BY <1>1, <1>2, <1>3, Moves DEF CommitLogin, CommitRefresh, CommitSwitch, DropSwitched,
     RevokeSession, CommitReset, DeleteSessions
<1>4. CASE \E change \in {"promote", "demote"} : CommitRole(r, change)
  BY <1>1, <1>2, <1>4, Moves DEF CommitRole
<1>5. CASE ClearFailures(r)
  <2>1. /\ request' \in [Requests -> {Idle} \cup RequestRows] /\ request'[r].at = "revoke"
        /\ \A s \in Requests \ {r} : request'[s] = request[s]
    BY <1>2, <1>5, StepTypes DEF ClearFailures, Step
  <2>2. \A u \in Users : guesses'[u] <= guesses[u]
    BY <1>5 DEF ClearFailures, Inv, TypeOK
  <2> QED BY <1>1, <2>1, <2>2 DEF Elsewhere
<1>6. CASE \/ \E answered \in BOOLEAN : StoreSession(r, answered)
           \/ DropLoggedOut(r) \/ DeleteIndex(r) \/ RequestEnds(r)
  BY <1>1, <1>6, Moves DEF StoreSession, DropLoggedOut, DeleteIndex, RequestEnds
<1>7. CASE \/ \E u \in Users, p \in Pairs : ReadCredential(r, u, p)
           \/ \E old, new \in Pairs : LockRefreshToken(r, old, new)
           \/ \E old, new \in Pairs : CheckSession(r, old, new)
           \/ \E p \in Pairs : CommitLogout(r, p)
           \/ \E u \in Users, change \in {"promote", "demote"} : ReadRole(r, u, change)
  <2>1. /\ UNCHANGED guesses
        /\ \E at \in Stages \ {"allowed"} : \E u, old, new, proved :
             request' = [request EXCEPT ![r] = Serving(at, u, old, new, proved)]
    <3>1. UNCHANGED guesses
      BY <1>7 DEF ReadCredential, LockRefreshToken, CheckSession, CommitLogout, ReadRole
    <3>2. \E at \in Stages \ {"allowed"} : \E u, old, new, proved :
             request' = [request EXCEPT ![r] = Serving(at, u, old, new, proved)]
      BY <1>2, <1>7 DEF ReadCredential, LockRefreshToken, CheckSession, CommitLogout, ReadRole,
         Start, Stages
    <3> QED BY <3>1, <3>2
  <2>2. PICK at, u, old, new, proved :
          /\ at \in Stages \ {"allowed"}
          /\ request' = [request EXCEPT ![r] = Serving(at, u, old, new, proved)]
    BY <2>1, Zenon
  <2>3. Serving(at, u, old, new, proved).at # "allowed"
    BY <2>2 DEF Serving
  <2> QED BY <1>1, <2>1, <2>2, <2>3, Moves
<1>8. CASE ListSessions(r) \/ \E c \in Codes : TakeCode(r, c)
  <2>1. UNCHANGED guesses /\ \E q : q.at # "allowed" /\ request' = [request EXCEPT ![r] = q]
    BY <1>8 DEF ListSessions, TakeCode
  <2> QED BY <1>1, <2>1, Moves
<1> QED BY <1>3, <1>4, <1>5, <1>6, <1>7, <1>8 DEF Serve

LEMMA GuessesStep == Inv /\ GuessesFit /\ [Next]_vars => GuessesFit'
<1> SUFFICES ASSUME Inv, GuessesFit, [Next]_vars PROVE GuessesFit'
  OBVIOUS
<1>1. TypeOK'
  BY NextInv DEF Inv
<1>2. ASSUME NEW r \in Requests, Serve(r) PROVE GuessesFit'
  <2>1. CASE \E u \in Users : CheckAttempts(r, u)
    BY <1>1, <2>1, CheckFits
  <2>2. CASE WrongCode(r)
    BY <1>1, <2>2, WrongFits
  <2>3. CASE ~WrongCode(r) /\ \A u \in Users : ~CheckAttempts(r, u)
    BY <1>1, <1>2, <2>3, NoMoreStep, NoMoreFits
  <2> QED BY <2>1, <2>2, <2>3
<1>3. CASE \/ \E p \in Pairs : SessionExpires(p)
           \/ \E c \in Codes, u \in Users : SendCode(c, u)
           \/ \E u \in Users : WindowEnds(u)
           \/ UNCHANGED vars
  <2>1. NoMore
    BY <1>3 DEF SessionExpires, SendCode, WindowEnds, vars, NoMore, Inv, TypeOK
  <2> QED BY <1>1, <2>1, NoMoreFits
<1> QED BY <1>2, <1>3 DEF Next

\* otp_allowed and record_otp_failure are separate calls to Redis: what their race lets
\* through is at most one wrong code for each request at work.
THEOREM GuessesLimited == Spec => []GuessesBounded
<1>1. Init => GuessesFit
  <2> SUFFICES ASSUME Init, NEW u \in Users
               PROVE  guesses[u] + Cardinality(Checked(u)) < AttemptLimit + Cardinality(Requests)
    BY DEF GuessesFit
  <2>1. guesses[u] = 0
    BY DEF Init
  <2>2. Checked(u) = {}
    BY DEF Init, Checked, Idle, Serving
  <2> QED BY <2>1, <2>2, FS_EmptySet, CheckedFinite, ConstantsAssumption
<1>2. Inv /\ GuessesFit => GuessesBounded
  <2> SUFFICES ASSUME Inv, GuessesFit, NEW u \in Users
               PROVE  guesses[u] < AttemptLimit + Cardinality(Requests)
    BY DEF GuessesBounded
  <2>1. /\ guesses[u] \in Nat /\ Cardinality(Checked(u)) \in Nat /\ AttemptLimit \in Nat
        /\ Cardinality(Requests) \in Nat
    BY ConstantsAssumption, CheckedFinite DEF Inv, TypeOK
  <2> QED BY <2>1 DEF GuessesFit
<1> QED BY <1>1, <1>2, GuessesStep, TypeCorrect, PTL DEF Spec
-----------------------------------------------------------------------------
(* The web client and the gateway. Of every pair that is on its way to the *)
(* jar, the refresh token is good and nobody has it yet: not the jar, not  *)
(* another exchange. So no exchange revokes what another brings.           *)

\* What a call is between its steps, when n pairs have been issued.
CallRows(n) ==
  [at : {"idle", "sent", "answered", "waiting"}, tab : Tabs \cup {Nobody}, kind : Kinds,
   bearer : 0..MaxPairs, carried : 0..n, retried : BOOLEAN, again : BOOLEAN, answer : Answers,
   new : 0..n, ran : 0..1]

CallFits(q, n) ==
  /\ q \in CallRows(n)
  /\ q.at # "idle" => q.tab \in Tabs
  /\ q.ran # 0 => q.kind = "write" /\ q.at = "answered" /\ q.answer \in {"ok", "failed"}
  /\ ~WithCookie(q.kind) => q.carried = NoToken
  /\ q.new # NoToken => q.at = "answered" /\ q.answer = "ok" /\ q.kind # "logout"
  /\ q.at = "answered" /\ q.answer = "ok" /\ q.carried # NoToken =>
       q.new # NoToken \/ q.kind = "logout"

RefreshRows(n) ==
  [at : {"none", "sent", "answered"}, carried : 0..n, answer : Answers, new : 0..n]

RefreshFits(r, n) ==
  /\ r \in RefreshRows(n)
  /\ (r.new # NoToken) <=> (r.at = "answered" /\ r.answer = "ok")

ExchangesFit ==
  /\ issued \in 0..MaxPairs /\ cookie \in 0..issued /\ refreshes \subseteq 1..issued
  /\ call \in [Calls -> CallRows(issued)]
  /\ refreshing \in [Tabs -> RefreshRows(issued)]
  /\ \A c \in Calls : CallFits(call[c], issued)
  /\ \A t \in Tabs : RefreshFits(refreshing[t], issued)

TabsFit ==
  /\ sessions \subseteq TokenPairs /\ lost \subseteq TokenPairs
  /\ memory \in [Tabs -> 0..MaxPairs]
  /\ signedIn \in [Tabs -> BOOLEAN]
  /\ loaded \subseteq Tabs

\* A pair on its way to the jar is good for a refresh, and nobody has it yet.
Unseen(p) ==
  /\ p \in refreshes /\ p # cookie
  /\ \A c \in Calls : call[c].carried # p
  /\ \A t \in Tabs : refreshing[t].carried # p

AllUnseen ==
  /\ \A c \in Calls : call[c].new # NoToken => Unseen(call[c].new)
  /\ \A t \in Tabs : refreshing[t].new # NoToken => Unseen(refreshing[t].new)

PairsApart ==
  /\ \A c, d \in Calls : c # d /\ call[c].new # NoToken => call[c].new # call[d].new
  /\ \A s, t \in Tabs : s # t /\ refreshing[s].new # NoToken =>
       refreshing[s].new # refreshing[t].new
  /\ \A c \in Calls, t \in Tabs : call[c].new # NoToken => call[c].new # refreshing[t].new

JarFits == ExchangesFit /\ AllUnseen /\ PairsApart /\ CookieIsGood

BrowserInv == JarFits /\ TabsFit
-----------------------------------------------------------------------------
LEMMA NoCallFits ==
  ASSUME NEW n \in Nat
  PROVE  CallFits(NoCall, n) /\ NoCall.new = NoToken /\ NoCall.carried = NoToken
         /\ NoCall.at = "idle"
  BY BrowserAssumption DEF CallFits, CallRows, NoCall, NoToken, Kinds, Answers

LEMMA NoRefreshFits ==
  ASSUME NEW n \in Nat
  PROVE  RefreshFits(NoRefresh, n) /\ NoRefresh.new = NoToken /\ NoRefresh.carried = NoToken
         /\ NoRefresh.at = "none"
  BY DEF RefreshFits, RefreshRows, NoRefresh, NoToken, Answers

\* A request that is sent again, or first, keeps nothing of an earlier answer.
LEMMA SentFits ==
  ASSUME NEW n \in Nat, NEW m \in 0..MaxPairs, NEW jar \in 0..n, NEW q, CallFits(q, n),
         q.tab \in Tabs, q.ran = 0
  PROVE  /\ CallFits(Sent(q, m, jar), n)
         /\ Sent(q, m, jar).new = NoToken
         /\ Sent(q, m, jar).carried \in {NoToken, jar}
         /\ Sent(q, m, jar).at = "sent"
<1>. DEFINE bearer == IF Protected(q.kind) THEN m ELSE NoToken
            carried == IF WithCookie(q.kind) THEN jar ELSE NoToken
<1>1. /\ q \in CallRows(n) /\ bearer \in 0..MaxPairs /\ carried \in 0..n
      /\ "sent" \in {"idle", "sent", "answered", "waiting"} /\ "none" \in Answers
      /\ NoToken \in 0..n
  BY BrowserAssumption DEF CallFits, NoToken, Answers
<1>2. /\ carried \in {NoToken, jar}
      /\ ~WithCookie(q.kind) => carried = NoToken
  OBVIOUS
<1>. HIDE DEF bearer, carried
<1>3. Sent(q, m, jar) = [q EXCEPT !.at = "sent", !.answer = "none", !.new = NoToken,
                                  !.bearer = bearer, !.carried = carried]
  BY DEF Sent, bearer, carried
<1>4. Sent(q, m, jar) =
        [at |-> "sent", tab |-> q.tab, kind |-> q.kind, bearer |-> bearer, carried |-> carried,
         retried |-> q.retried, again |-> q.again, answer |-> "none", new |-> NoToken,
         ran |-> q.ran]
  BY <1>1, <1>3 DEF CallRows
<1>5. /\ q.tab \in Tabs \cup {Nobody} /\ q.kind \in Kinds /\ q.retried \in BOOLEAN
      /\ q.again \in BOOLEAN /\ q.ran \in 0..1
  BY <1>1 DEF CallRows
<1>6. Sent(q, m, jar) \in CallRows(n)
  BY <1>1, <1>4, <1>5 DEF CallRows
<1>. QED  BY <1>2, <1>4, <1>6 DEF CallFits

\* Steps that issue nothing and leave the jar and the refresh tokens as they are: an exchange
\* may forget its new pair, take what is in the jar, and give up what it has spent as lost.
LEMMA ExchangesMove ==
  ASSUME BrowserInv, UNCHANGED <<cookie, issued, refreshes>>, lost \subseteq lost',
         call' \in [Calls -> CallRows(issued)], \A c \in Calls : CallFits(call'[c], issued),
         refreshing' \in [Tabs -> RefreshRows(issued)],
         \A t \in Tabs : RefreshFits(refreshing'[t], issued),
         \A c \in Calls :
           \/ call'[c] = call[c]
           \/ /\ call'[c].new = NoToken
              /\ call'[c].carried \in {NoToken, cookie, call[c].carried}
              /\ call[c].at = "answered" => Spent(call[c]) \subseteq lost',
         \A t \in Tabs :
           \/ refreshing'[t] = refreshing[t]
           \/ /\ refreshing'[t].new = NoToken
              /\ refreshing'[t].carried \in {NoToken, cookie, refreshing[t].carried}
              /\ refreshing[t].at = "answered" => Spent(refreshing[t]) \subseteq lost'
  PROVE  JarFits'
<1>. USE DEF BrowserInv, JarFits
<1>1. ExchangesFit'
  BY DEF ExchangesFit, CallFits, RefreshFits, RefreshRows
<1>2. /\ \A c \in Calls : call'[c].new = NoToken \/ call'[c].new = call[c].new
      /\ \A t \in Tabs : refreshing'[t].new = NoToken \/ refreshing'[t].new = refreshing[t].new
      /\ \A c \in Calls : call'[c].carried \in {NoToken, cookie, call[c].carried}
      /\ \A t \in Tabs : refreshing'[t].carried \in {NoToken, cookie, refreshing[t].carried}
  OBVIOUS
<1>3. AllUnseen'
  <2>1. ASSUME NEW p, Unseen(p)  PROVE Unseen(p)'
    <3>1. p # NoToken
      BY <2>1 DEF Unseen, ExchangesFit, NoToken
    <3>. QED  BY <1>2, <2>1, <3>1 DEF Unseen
  <2>. QED  BY <1>2, <2>1 DEF AllUnseen
<1>4. PairsApart'
  BY <1>2 DEF PairsApart
<1>5. CookieIsGood'
  BY DEF CookieIsGood
<1>. QED  BY <1>1, <1>3, <1>4, <1>5

\* What an answer makes of a call.
LEMMA AnsweredFits ==
  ASSUME BrowserInv, NEW c \in Calls, NEW answer \in {"ok", "unauthorized", "failed"},
         NEW n \in Nat, issued <= n, NEW new \in 0..n, Answered(c, answer, new),
         call[c].at # "idle", answer = "ok" => call[c].ran = 0,
         new # NoToken => answer = "ok" /\ call[c].kind # "logout",
         answer = "ok" /\ call[c].carried # NoToken => new # NoToken \/ call[c].kind = "logout",
         answer = "unauthorized" => call[c].ran = 0
  PROVE  \E q : /\ call' = [call EXCEPT ![c] = q] /\ CallFits(q, n)
                /\ q.new = new /\ q.answer = answer /\ q.at = "answered"
                /\ q.carried = IF answer = "ok" THEN call[c].carried ELSE NoToken
<1>. DEFINE o == call[c]
            carried == IF answer = "ok" THEN o.carried ELSE NoToken
            ran == IF o.kind = "write" /\ answer = "ok" THEN o.ran + 1 ELSE o.ran
            q == [at |-> "answered", tab |-> o.tab, kind |-> o.kind, bearer |-> NoToken,
                  carried |-> carried, retried |-> o.retried, again |-> o.again,
                  answer |-> answer, new |-> new, ran |-> ran]
<1>1. /\ o \in CallRows(issued) /\ CallFits(o, issued) /\ issued \in Nat
      /\ call \in [Calls -> CallRows(issued)]
  BY BrowserAssumption DEF BrowserInv, JarFits, ExchangesFit
<1>2. call' = [call EXCEPT ![c] = q]
  <2>1. call' = [call EXCEPT ![c] = [o EXCEPT !.at = "answered", !.bearer = NoToken,
                   !.answer = answer, !.new = new, !.carried = carried, !.ran = ran]]
    BY DEF Answered
  <2>2. [o EXCEPT !.at = "answered", !.bearer = NoToken, !.answer = answer, !.new = new,
                  !.carried = carried, !.ran = ran] = q
    <3>. DEFINE Fields == {"at", "tab", "kind", "bearer", "carried", "retried", "again",
                           "answer", "new", "ran"}
                p == [o EXCEPT !.at = "answered", !.bearer = NoToken, !.answer = answer]
                r == [p EXCEPT !.new = new, !.carried = carried, !.ran = ran]
    <3>. HIDE DEF carried, ran
    <3>1. o = [i \in Fields |-> o[i]] /\ DOMAIN o = Fields
      BY <1>1 DEF CallRows
    <3>2. /\ p = [i \in Fields |-> p[i]] /\ DOMAIN p = Fields
          /\ p.at = "answered" /\ p.bearer = NoToken /\ p.answer = answer /\ p.tab = o.tab
          /\ p.kind = o.kind /\ p.retried = o.retried /\ p.again = o.again
      BY <3>1
    <3>. HIDE DEF p
    <3>3. /\ r = [i \in Fields |-> r[i]] /\ DOMAIN r = Fields
          /\ r.at = "answered" /\ r.bearer = NoToken /\ r.answer = answer /\ r.tab = o.tab
          /\ r.kind = o.kind /\ r.retried = o.retried /\ r.again = o.again
          /\ r.new = new /\ r.carried = carried /\ r.ran = ran
      BY <3>2
    <3>4. [o EXCEPT !.at = "answered", !.bearer = NoToken, !.answer = answer, !.new = new,
                    !.carried = carried, !.ran = ran] = r
      BY DEF p
    <3>. HIDE DEF r
    <3>5. r = [at |-> r.at, tab |-> r.tab, kind |-> r.kind, bearer |-> r.bearer,
               carried |-> r.carried, retried |-> r.retried, again |-> r.again,
               answer |-> r.answer, new |-> r.new, ran |-> r.ran]
      BY <3>3
    <3>. QED  BY <3>3, <3>4, <3>5
  <2>. QED  BY <2>1, <2>2
<1>3. /\ carried \in 0..n /\ NoToken \in 0..MaxPairs /\ answer \in Answers
      /\ ran \in 0..1
      /\ ran # 0 => o.kind = "write" /\ answer \in {"ok", "failed"}
  BY <1>1, BrowserAssumption DEF CallFits, CallRows, NoToken, Answers
<1>4. /\ ~WithCookie(o.kind) => carried = NoToken
      /\ answer = "ok" /\ carried # NoToken => new # NoToken \/ o.kind = "logout"
  BY <1>1 DEF CallFits
<1>5. /\ o.tab \in Tabs \cup {Nobody} /\ o.kind \in Kinds /\ o.retried \in BOOLEAN
      /\ o.again \in BOOLEAN /\ o.tab \in Tabs
  BY <1>1 DEF CallRows, CallFits
<1>. HIDE DEF carried, ran, o
<1>6. q \in CallRows(n)
  BY <1>3, <1>5 DEF CallRows
<1>7. CallFits(q, n)
  BY <1>3, <1>4, <1>5, <1>6 DEF CallFits, o
<1>8. q.carried = IF answer = "ok" THEN call[c].carried ELSE NoToken
  BY DEF carried, o
<1>. QED  BY <1>2, <1>7, <1>8

LEMMA FitsGrow ==
  ASSUME NEW n \in Nat
  PROVE  /\ \A q : CallFits(q, n) => CallFits(q, n + 1)
         /\ \A r : RefreshFits(r, n) => RefreshFits(r, n + 1)
<1>1. \A k \in 0..n : k \in 0..(n + 1)
  OBVIOUS
<1>. QED  BY <1>1 DEF CallFits, CallRows, RefreshFits, RefreshRows

\* Whoever is given a new pair has spent the token that was revoked for it.
LEMMA CallIssues ==
  ASSUME BrowserInv, NEW c \in Calls, NEW revoked, NEW ended, Issue(revoked, ended),
         revoked \subseteq {call[c].carried}, NEW q, call' = [call EXCEPT ![c] = q],
         CallFits(q, issued + 1), q.new = issued + 1, q.carried = call[c].carried,
         q.answer = "ok", q.at = "answered", call[c].at = "sent",
         UNCHANGED <<cookie, refreshing, lost>>
  PROVE  JarFits'
<1>. USE DEF BrowserInv, JarFits
<1>1. /\ issued \in Nat /\ issued' = issued + 1 /\ issued' \in 0..MaxPairs
      /\ refreshes' = (refreshes \ revoked) \cup {issued + 1}
      /\ call'[c] = q /\ \A d \in Calls \ {c} : call'[d] = call[d]
  BY BrowserAssumption DEF ExchangesFit, Issue
<1>2. /\ \A d \in Calls : CallFits(call'[d], issued')
      /\ \A t \in Tabs : RefreshFits(refreshing'[t], issued')
  BY <1>1, FitsGrow DEF ExchangesFit
<1>3. ExchangesFit'
  <2>1. /\ \A d \in Calls : call'[d] \in CallRows(issued')
        /\ \A t \in Tabs : refreshing'[t] \in RefreshRows(issued')
    BY <1>2 DEF CallFits, RefreshFits
  <2>2. cookie' \in 0..issued' /\ refreshes' \subseteq 1..issued'
    <3>1. /\ \A k \in 0..issued : k \in 0..(issued + 1)
          /\ \A k \in 1..issued : k \in 1..(issued + 1)
          /\ issued + 1 \in 1..(issued + 1)
      BY <1>1
    <3>. QED  BY <1>1, <3>1 DEF ExchangesFit
  <2>. QED  BY <1>1, <1>2, <2>1, <2>2 DEF ExchangesFit
<1>4. /\ cookie # issued + 1
      /\ \A d \in Calls : call[d].carried # issued + 1 /\ call[d].new # issued + 1
      /\ \A t \in Tabs : refreshing[t].carried # issued + 1 /\ refreshing[t].new # issued + 1
  BY <1>1 DEF ExchangesFit, CallFits, CallRows, RefreshFits, RefreshRows
<1>5. AllUnseen'
  <2>1. ASSUME NEW p, Unseen(p)  PROVE Unseen(p)'
    BY <1>1, <2>1 DEF Unseen
  <2>2. PICK p \in Nat : p = issued + 1
    BY <1>1
  <2>3. Unseen(p)'
    BY <1>1, <1>4, <2>2 DEF Unseen
  <2>. QED  BY <1>1, <2>1, <2>2, <2>3 DEF AllUnseen
<1>6. PairsApart'
  BY <1>1, <1>4 DEF PairsApart
<1>7. CookieIsGood'
  <2>1. CASE cookie \in revoked /\ cookie # NoToken
    BY <1>1, <2>1 DEF CookieIsGood, Spent
  <2>2. CASE cookie \notin revoked
    <3>1. \A d \in Calls : call[d].at = "answered" => call'[d] = call[d]
      BY <1>1
    <3>. QED  BY <1>1, <2>2, <3>1 DEF CookieIsGood
  <2>. QED  BY <2>1, <2>2 DEF CookieIsGood
<1>. QED  BY <1>3, <1>5, <1>6, <1>7

LEMMA RefreshIssues ==
  ASSUME BrowserInv, NEW t \in Tabs, NEW revoked, NEW ended, Issue(revoked, ended),
         revoked \subseteq {refreshing[t].carried}, NEW r,
         refreshing' = [refreshing EXCEPT ![t] = r],
         RefreshFits(r, issued + 1), r.new = issued + 1, r.carried = refreshing[t].carried,
         r.answer = "ok", r.at = "answered", refreshing[t].at = "sent",
         UNCHANGED <<cookie, call, lost>>
  PROVE  JarFits'
<1>. USE DEF BrowserInv, JarFits
<1>1. /\ issued \in Nat /\ issued' = issued + 1 /\ issued' \in 0..MaxPairs
      /\ refreshes' = (refreshes \ revoked) \cup {issued + 1}
      /\ refreshing'[t] = r /\ \A s \in Tabs \ {t} : refreshing'[s] = refreshing[s]
  BY BrowserAssumption DEF ExchangesFit, Issue
<1>2. /\ \A d \in Calls : CallFits(call'[d], issued')
      /\ \A s \in Tabs : RefreshFits(refreshing'[s], issued')
  BY <1>1, FitsGrow DEF ExchangesFit
<1>3. ExchangesFit'
  <2>1. /\ \A d \in Calls : call'[d] \in CallRows(issued')
        /\ \A s \in Tabs : refreshing'[s] \in RefreshRows(issued')
    BY <1>2 DEF CallFits, RefreshFits
  <2>2. cookie' \in 0..issued' /\ refreshes' \subseteq 1..issued'
    <3>1. /\ \A k \in 0..issued : k \in 0..(issued + 1)
          /\ \A k \in 1..issued : k \in 1..(issued + 1)
          /\ issued + 1 \in 1..(issued + 1)
      BY <1>1
    <3>. QED  BY <1>1, <3>1 DEF ExchangesFit
  <2>. QED  BY <1>1, <1>2, <2>1, <2>2 DEF ExchangesFit
<1>4. /\ cookie # issued + 1
      /\ \A d \in Calls : call[d].carried # issued + 1 /\ call[d].new # issued + 1
      /\ \A s \in Tabs : refreshing[s].carried # issued + 1 /\ refreshing[s].new # issued + 1
  BY <1>1 DEF ExchangesFit, CallFits, CallRows, RefreshFits, RefreshRows
<1>5. AllUnseen'
  <2>1. ASSUME NEW p, Unseen(p)  PROVE Unseen(p)'
    BY <1>1, <2>1 DEF Unseen
  <2>2. PICK p \in Nat : p = issued + 1
    BY <1>1
  <2>3. Unseen(p)'
    BY <1>1, <1>4, <2>2 DEF Unseen
  <2>. QED  BY <1>1, <2>1, <2>2, <2>3 DEF AllUnseen
<1>6. PairsApart'
  BY <1>1, <1>4 DEF PairsApart
<1>7. CookieIsGood'
  <2>1. CASE cookie \in revoked /\ cookie # NoToken
    BY <1>1, <2>1 DEF CookieIsGood, Spent
  <2>2. CASE cookie \notin revoked
    <3>1. \A s \in Tabs : refreshing[s].at = "answered" => refreshing'[s] = refreshing[s]
      BY <1>1
    <3>. QED  BY <1>1, <2>2, <3>1 DEF CookieIsGood
  <2>. QED  BY <2>1, <2>2 DEF CookieIsGood
<1>. QED  BY <1>3, <1>5, <1>6, <1>7

LEMMA Fitting ==
  ASSUME BrowserInv
  PROVE  /\ issued \in Nat /\ cookie \in 0..issued
         /\ call \in [Calls -> CallRows(issued)] /\ refreshing \in [Tabs -> RefreshRows(issued)]
         /\ \A c \in Calls : CallFits(call[c], issued)
         /\ \A t \in Tabs : RefreshFits(refreshing[t], issued) /\ memory[t] \in 0..MaxPairs
  BY BrowserAssumption DEF BrowserInv, JarFits, ExchangesFit, TabsFit

LEMMA StartStep ==
  ASSUME BrowserInv, NEW c \in Calls, NEW t \in Tabs, NEW kind \in Kinds, StartCall(c, t, kind)
  PROVE  JarFits'
<1>. DEFINE q == Sent(NewCall(t, kind), memory[t], cookie)
<1>1. /\ CallFits(NewCall(t, kind), issued)
      /\ NewCall(t, kind).tab \in Tabs /\ NewCall(t, kind).ran = 0
  <2>. DEFINE new == NewCall(t, kind)
  <2>1. NoCall \in CallRows(issued) /\ NoCall.new = NoToken /\ NoCall.carried = NoToken
        /\ NoCall.at = "idle" /\ NoCall.ran = 0
    BY Fitting, NoCallFits DEF CallFits, NoCall
  <2>2. /\ new.tab = t /\ new.at = "idle" /\ new.ran = 0
        /\ new.new = NoToken /\ new.carried = NoToken
    BY <2>1 DEF NewCall, CallRows
  <2>3. new \in CallRows(issued)
    BY <2>1 DEF NewCall, CallRows
  <2>. HIDE DEF new
  <2>4. CallFits(new, issued) /\ new.tab \in Tabs /\ new.ran = 0
    BY <2>2, <2>3 DEF CallFits
  <2>. QED  BY <2>4 DEF new
<1>2. /\ CallFits(q, issued) /\ q.new = NoToken /\ q.carried \in {NoToken, cookie}
  BY <1>1, Fitting, SentFits
<1>. HIDE DEF q
<1>3. call' = [call EXCEPT ![c] = q] /\ call[c].at # "answered"
  BY DEF StartCall, q, NoCall
<1>4. call' \in [Calls -> CallRows(issued)]
  BY <1>2, <1>3, Fitting DEF CallFits
<1>. QED  BY <1>2, <1>3, <1>4, Fitting, ExchangesMove DEF StartCall, serverVars

LEMMA RefuseStep ==
  ASSUME BrowserInv, NEW c \in Calls, Refuse(c)
  PROVE  JarFits'
<1>1. call[c].at = "sent" /\ call[c].ran = 0
  BY Fitting DEF Refuse, CallFits
<1>2. PICK q : /\ call' = [call EXCEPT ![c] = q] /\ CallFits(q, issued)
               /\ q.new = NoToken /\ q.carried = NoToken
  BY <1>1, Fitting, AnsweredFits DEF Refuse, NoToken
<1>3. call' \in [Calls -> CallRows(issued)]
  BY <1>2, Fitting DEF CallFits
<1>. QED  BY <1>1, <1>2, <1>3, Fitting, ExchangesMove DEF Refuse, serverVars

LEMMA ExecuteStep ==
  ASSUME BrowserInv, NEW c \in Calls, Execute(c)
  PROVE  JarFits'
<1>1. call[c].at = "sent" /\ call[c].ran = 0 /\ call[c].carried = NoToken
  BY Fitting DEF Execute, CallFits, WithCookie, Exchanging
<1>2. PICK q : /\ call' = [call EXCEPT ![c] = q] /\ CallFits(q, issued)
               /\ q.new = NoToken /\ q.carried = NoToken
  BY <1>1, Fitting, AnsweredFits DEF Execute, NoToken
<1>3. call' \in [Calls -> CallRows(issued)]
  BY <1>2, Fitting DEF CallFits
<1>. QED  BY <1>1, <1>2, <1>3, Fitting, ExchangesMove DEF Execute, serverVars

LEMMA IssueStep ==
  ASSUME BrowserInv, NEW c \in Calls, LogIn(c) \/ SwitchAccount(c) \/ Hydrate(c)
  PROVE  JarFits'
<1>1. /\ call[c].at = "sent" /\ call[c].ran = 0 /\ call[c].kind # "logout"
      /\ Answered(c, "ok", issued + 1) /\ UNCHANGED <<cookie, refreshing, lost>>
  BY Fitting DEF LogIn, SwitchAccount, Hydrate, CallFits, Exchanging
<1>2. issued + 1 \in Nat /\ issued <= issued + 1 /\ issued + 1 # NoToken
      /\ issued + 1 \in 0..(issued + 1)
  BY Fitting DEF NoToken
<1>3. PICK q : /\ call' = [call EXCEPT ![c] = q] /\ CallFits(q, issued + 1)
               /\ q.new = issued + 1 /\ q.carried = call[c].carried
               /\ q.answer = "ok" /\ q.at = "answered"
  BY <1>1, <1>2, AnsweredFits
<1>4. CASE LogIn(c)
  BY <1>1, <1>3, <1>4, CallIssues DEF LogIn
<1>5. CASE SwitchAccount(c)
  <2>1. PICK e : Issue({}, e)
    BY <1>5 DEF SwitchAccount
  <2>. QED  BY <1>1, <1>3, <2>1, CallIssues
<1>6. CASE Hydrate(c)
  BY <1>1, <1>3, <1>6, CallIssues DEF Hydrate
<1>. QED  BY <1>4, <1>5, <1>6

LEMMA LogOutStep ==
  ASSUME BrowserInv, NEW c \in Calls, NEW reached \in BOOLEAN, LogOut(c, reached)
  PROVE  JarFits'
<1>1. /\ call[c].at = "sent" /\ call[c].ran = 0 /\ call[c].kind = "logout"
      /\ Answered(c, "ok", NoToken) /\ UNCHANGED <<cookie, refreshing, lost, issued>>
      /\ refreshes' = refreshes \/ refreshes' = refreshes \ {call[c].carried}
  BY Fitting DEF LogOut, CallFits
<1>2. PICK q : /\ call' = [call EXCEPT ![c] = q] /\ CallFits(q, issued)
               /\ q.new = NoToken /\ q.carried = call[c].carried
               /\ q.answer = "ok" /\ q.at = "answered"
  BY <1>1, Fitting, AnsweredFits DEF NoToken
<1>3. /\ call'[c] = q /\ \A d \in Calls \ {c} : call'[d] = call[d]
      /\ call' \in [Calls -> CallRows(issued)]
  BY <1>2, Fitting DEF CallFits
<1>. USE DEF BrowserInv, JarFits
<1>4. ExchangesFit'
  BY <1>1, <1>2, <1>3 DEF ExchangesFit
<1>5. AllUnseen'
  <2>1. ASSUME NEW p, Unseen(p)  PROVE Unseen(p)'
    BY <1>1, <1>2, <1>3, <2>1 DEF Unseen
  <2>. QED  BY <1>1, <1>2, <1>3, <2>1 DEF AllUnseen
<1>6. PairsApart'
  BY <1>1, <1>2, <1>3 DEF PairsApart
<1>7. CookieIsGood'
  <2>1. CASE cookie = call[c].carried
    BY <1>1, <1>2, <1>3, <2>1 DEF CookieIsGood, Spent
  <2>2. CASE cookie # call[c].carried
    <3>1. \A d \in Calls : call[d].at = "answered" => call'[d] = call[d]
      BY <1>1, <1>3
    <3>. QED  BY <1>1, <2>2, <3>1 DEF CookieIsGood
  <2>. QED  BY <2>1, <2>2
<1>. QED  BY <1>4, <1>5, <1>6, <1>7

LEMMA ServeRefreshStep ==
  ASSUME BrowserInv, NEW t \in Tabs, ServeRefresh(t)
  PROVE  JarFits'
<1>1. /\ refreshing[t] \in RefreshRows(issued) /\ refreshing[t].at = "sent"
      /\ issued \in Nat
  BY Fitting DEF ServeRefresh
<1>2. CASE refreshing[t].carried \in refreshes
  <2>1. PICK r : /\ refreshing' = [refreshing EXCEPT ![t] = r]
                 /\ RefreshFits(r, issued + 1) /\ r.new = issued + 1
                 /\ r.carried = refreshing[t].carried /\ r.answer = "ok" /\ r.at = "answered"
    <3>. DEFINE r == [refreshing[t] EXCEPT !.at = "answered", !.answer = "ok", !.new = issued + 1]
    <3>1. /\ r \in RefreshRows(issued + 1) /\ r.new = issued + 1
          /\ r.carried = refreshing[t].carried /\ r.answer = "ok" /\ r.at = "answered"
      <4>1. issued + 1 \in 0..(issued + 1) /\ "ok" \in Answers
            /\ "answered" \in {"none", "sent", "answered"}
            /\ \A k \in 0..issued : k \in 0..(issued + 1)
        BY <1>1 DEF Answers
      <4>. QED  BY <1>1, <4>1 DEF RefreshRows
    <3>2. refreshing' = [refreshing EXCEPT ![t] = r]
      BY <1>2 DEF ServeRefresh
    <3>. HIDE DEF r
    <3>3. RefreshFits(r, issued + 1)
      BY <1>1, <3>1 DEF RefreshFits, NoToken
    <3>. QED  BY <3>1, <3>2, <3>3
  <2>2. /\ Issue({refreshing[t].carried}, {}) /\ UNCHANGED <<cookie, call, lost>>
        /\ {refreshing[t].carried} \subseteq {refreshing[t].carried}
    BY <1>2 DEF ServeRefresh
  <2>. QED  BY <1>1, <2>1, <2>2, RefreshIssues
<1>3. CASE refreshing[t].carried \notin refreshes
  <2>1. PICK r : /\ refreshing' = [refreshing EXCEPT ![t] = r] /\ RefreshFits(r, issued)
                 /\ r.new = NoToken /\ r.carried = refreshing[t].carried
    <3>. DEFINE r == [refreshing[t] EXCEPT !.at = "answered", !.answer = "unauthorized"]
    <3>1. refreshing[t].new = NoToken
      BY <1>1, Fitting DEF RefreshFits
    <3>2. /\ r \in RefreshRows(issued) /\ r.new = NoToken
          /\ r.carried = refreshing[t].carried /\ r.answer = "unauthorized"
      BY <1>1, <3>1 DEF RefreshRows, Answers
    <3>3. refreshing' = [refreshing EXCEPT ![t] = r]
      BY <1>3 DEF ServeRefresh
    <3>. HIDE DEF r
    <3>. QED  BY <3>2, <3>3 DEF RefreshFits
  <2>2. refreshing' \in [Tabs -> RefreshRows(issued)]
    BY <2>1, Fitting DEF RefreshFits
  <2>. QED  BY <1>1, <1>3, <2>1, <2>2, Fitting, ExchangesMove DEF ServeRefresh, serverVars, tabVars
<1>. QED  BY <1>2, <1>3

LEMMA CallFailsStep ==
  ASSUME BrowserInv, NEW c \in Calls, CallFails(c)
  PROVE  JarFits'
<1>1. call[c].at # "idle" /\ Answered(c, "failed", NoToken)
      /\ UNCHANGED <<cookie, issued, refreshes, refreshing>>
      /\ lost' = lost \cup Spent(call[c])
  BY DEF CallFails, serverVars
<1>2. PICK q : /\ call' = [call EXCEPT ![c] = q] /\ CallFits(q, issued)
               /\ q.new = NoToken /\ q.carried = NoToken
  BY <1>1, Fitting, AnsweredFits DEF NoToken
<1>3. call' \in [Calls -> CallRows(issued)]
  BY <1>2, Fitting DEF CallFits
<1>. QED  BY <1>1, <1>2, <1>3, Fitting, ExchangesMove

LEMMA RefreshFailsStep ==
  ASSUME BrowserInv, NEW t \in Tabs, RefreshFails(t)
  PROVE  JarFits'
<1>1. PICK r : /\ refreshing' = [refreshing EXCEPT ![t] = r] /\ RefreshFits(r, issued)
               /\ r.new = NoToken /\ r.carried = refreshing[t].carried
  <2>. DEFINE r == [refreshing[t] EXCEPT !.at = "answered", !.answer = "failed",
                                         !.new = NoToken]
  <2>1. /\ r \in RefreshRows(issued) /\ r.new = NoToken
        /\ r.carried = refreshing[t].carried /\ r.answer = "failed"
    <3>1. NoToken \in 0..issued /\ "failed" \in Answers
          /\ "answered" \in {"none", "sent", "answered"}
          /\ refreshing[t] \in RefreshRows(issued)
      BY Fitting DEF Answers, NoToken
    <3>. QED  BY <3>1 DEF RefreshRows
  <2>2. refreshing' = [refreshing EXCEPT ![t] = r]
    BY DEF RefreshFails
  <2>. HIDE DEF r
  <2>. QED  BY <2>1, <2>2 DEF RefreshFits
<1>2. refreshing' \in [Tabs -> RefreshRows(issued)]
  BY <1>1, Fitting DEF RefreshFits
<1>. QED  BY <1>1, <1>2, Fitting, ExchangesMove DEF RefreshFails, serverVars

LEMMA AwaitStep ==
  ASSUME BrowserInv, NEW c \in Calls, AwaitRefresh(c)
  PROVE  JarFits'
<1>1. /\ call[c].at = "answered" /\ call[c].answer = "unauthorized"
      /\ call[c] \in CallRows(issued) /\ call[c].tab \in Tabs /\ call[c].new = NoToken
      /\ call[c].ran = 0
  BY Fitting DEF AwaitRefresh, CallFits
<1>2. PICK q : /\ call' = [call EXCEPT ![c] = q] /\ CallFits(q, issued)
               /\ q.new = NoToken /\ q.carried = call[c].carried
  <2>. DEFINE q == [call[c] EXCEPT !.at = "waiting", !.retried = TRUE]
  <2>1. /\ q.new = NoToken /\ q.carried = call[c].carried /\ q.ran = 0 /\ q.at = "waiting"
        /\ q.kind = call[c].kind /\ q.tab = call[c].tab
    BY <1>1 DEF CallRows
  <2>2. q \in CallRows(issued)
    <3>1. TRUE \in BOOLEAN
      OBVIOUS
    <3>. QED  BY <1>1, <3>1 DEF CallRows
  <2>3. call' = [call EXCEPT ![c] = q]
    BY Fitting DEF AwaitRefresh
  <2>. HIDE DEF q
  <2>. QED  BY <2>1, <2>2, <2>3, <1>1, Fitting DEF CallFits
<1>3. call' \in [Calls -> CallRows(issued)] /\ Spent(call[c]) = {}
  BY <1>1, <1>2, Fitting DEF CallFits, Spent
<1>4. CASE refreshing[call[c].tab].at # "none"
  BY <1>2, <1>3, <1>4, Fitting, ExchangesMove DEF AwaitRefresh, serverVars
<1>5. CASE refreshing[call[c].tab].at = "none"
  <2>1. PICK r : /\ refreshing' = [refreshing EXCEPT ![call[c].tab] = r]
                 /\ RefreshFits(r, issued) /\ r.new = NoToken /\ r.carried = cookie
    <3>. DEFINE r == [NoRefresh EXCEPT !.at = "sent", !.carried = cookie]
    <3>1. /\ r \in RefreshRows(issued) /\ r.new = NoToken
          /\ r.carried = cookie /\ r.at = "sent"
      <4>1. NoRefresh \in RefreshRows(issued) /\ NoRefresh.new = NoToken
            /\ cookie \in 0..issued /\ "sent" \in {"none", "sent", "answered"}
        BY Fitting, NoRefreshFits DEF RefreshFits
      <4>. QED  BY <4>1 DEF RefreshRows
    <3>2. refreshing' = [refreshing EXCEPT ![call[c].tab] = r]
      BY <1>5 DEF AwaitRefresh
    <3>. HIDE DEF r
    <3>. QED  BY <3>1, <3>2 DEF RefreshFits
  <2>2. refreshing' \in [Tabs -> RefreshRows(issued)]
    BY <2>1, Fitting DEF RefreshFits
  <2>3. lost \subseteq lost' /\ UNCHANGED <<cookie, issued, refreshes>>
    BY DEF AwaitRefresh, serverVars
  <2>. QED  BY <1>1, <1>2, <1>3, <1>5, <2>1, <2>2, <2>3, Fitting, ExchangesMove
<1>. QED  BY <1>4, <1>5

LEMMA TryAgainStep ==
  ASSUME BrowserInv, NEW c \in Calls, TryAgain(c)
  PROVE  JarFits'
<1>1. /\ call[c].at = "answered" /\ call[c].answer = "failed" /\ call[c].kind = "read"
      /\ call[c].tab \in Tabs /\ call[c].ran = 0 /\ CallFits(call[c], issued)
  BY Fitting DEF TryAgain, Repeatable, CallFits
<1>2. PICK p : /\ p = Sent(call[c], memory[call[c].tab], cookie) /\ CallFits(p, issued)
               /\ p.new = NoToken /\ p.carried \in {NoToken, cookie} /\ p.at = "sent"
  BY <1>1, Fitting, SentFits
<1>3. PICK q : /\ call' = [call EXCEPT ![c] = q] /\ CallFits(q, issued)
               /\ q.new = NoToken /\ q.carried \in {NoToken, cookie}
  <2>. DEFINE q == [p EXCEPT !.again = TRUE, !.retried = FALSE]
  <2>1. p \in CallRows(issued) /\ TRUE \in BOOLEAN /\ FALSE \in BOOLEAN
    BY <1>2 DEF CallFits
  <2>2. /\ q \in CallRows(issued) /\ q.new = NoToken /\ q.carried = p.carried
        /\ q.at = "sent" /\ q.tab = p.tab /\ q.kind = p.kind /\ q.ran = p.ran
    BY <1>2, <2>1 DEF CallRows
  <2>3. call' = [call EXCEPT ![c] = q]
    BY <1>2 DEF TryAgain
  <2>. HIDE DEF q
  <2>. QED  BY <1>2, <2>2, <2>3 DEF CallFits
<1>4. call' \in [Calls -> CallRows(issued)] /\ Spent(call[c]) = {}
  BY <1>1, <1>3, Fitting DEF CallFits, Spent
<1>. QED  BY <1>3, <1>4, Fitting, ExchangesMove DEF TryAgain, serverVars

LEMMA GiveUpStep ==
  ASSUME BrowserInv, NEW c \in Calls, GiveUp(c)
  PROVE  JarFits'
<1>1. /\ call' = [call EXCEPT ![c] = NoCall] /\ Spent(call[c]) = {}
      /\ UNCHANGED <<cookie, issued, refreshes, refreshing, lost>>
  BY DEF GiveUp, End, Spent, serverVars
<1>2. call' \in [Calls -> CallRows(issued)]
  BY <1>1, NoCallFits, Fitting DEF CallFits
<1>. QED  BY <1>1, <1>2, NoCallFits, Fitting, ExchangesMove

\* An answer brings the jar its pair, which is good.
LEMMA SucceedStep ==
  ASSUME BrowserInv, NEW c \in Calls, Succeed(c)
  PROVE  JarFits'
<1>1. /\ call[c].at = "answered" /\ call[c].answer = "ok" /\ cookie' = JarAfter(call[c])
      /\ call' = [call EXCEPT ![c] = NoCall]
      /\ UNCHANGED <<issued, refreshes, refreshing, lost>>
  BY DEF Succeed, End, serverVars
<1>2. /\ call'[c] = NoCall /\ \A d \in Calls \ {c} : call'[d] = call[d]
      /\ call' \in [Calls -> CallRows(issued)]
      /\ NoCall.new = NoToken /\ NoCall.carried = NoToken /\ CallFits(NoCall, issued)
  BY <1>1, NoCallFits, Fitting DEF CallFits
<1>3. /\ CallFits(call[c], issued) /\ call[c].new \in 0..issued
      /\ call[c].new # NoToken => Unseen(call[c].new)
  BY Fitting DEF BrowserInv, JarFits, AllUnseen, CallFits, CallRows
<1>4. \/ call[c].new # NoToken /\ cookie' = call[c].new
      \/ call[c].new = NoToken /\ cookie' = NoToken
      \/ call[c].new = NoToken /\ cookie' = cookie /\ Spent(call[c]) = {}
  BY <1>1, <1>3 DEF JarAfter, CallFits, Spent
<1>. USE DEF BrowserInv, JarFits
<1>5. ExchangesFit'
  <2>1. cookie' \in 0..issued
    BY <1>3, <1>4, Fitting DEF NoToken
  <2>. QED  BY <1>1, <1>2, <2>1, Fitting DEF ExchangesFit
<1>6. AllUnseen'
  <2>1. ASSUME NEW p, Unseen(p), p # call[c].new  PROVE Unseen(p)'
    <3>1. p # NoToken
      BY <2>1 DEF Unseen, ExchangesFit, NoToken
    <3>2. p # cookie'
      BY <1>4, <2>1, <3>1 DEF Unseen
    <3>. QED  BY <1>1, <1>2, <2>1, <3>1, <3>2 DEF Unseen
  <2>2. ASSUME NEW d \in Calls \ {c}, call[d].new # NoToken
        PROVE  call[d].new # call[c].new
    BY <2>2 DEF PairsApart
  <2>3. ASSUME NEW t \in Tabs, refreshing[t].new # NoToken
        PROVE  refreshing[t].new # call[c].new
    BY <2>3 DEF PairsApart
  <2>. QED  BY <1>1, <1>2, <2>1, <2>2, <2>3 DEF AllUnseen
<1>7. PairsApart'
  BY <1>1, <1>2 DEF PairsApart
<1>8. CookieIsGood'
  <2>1. CASE call[c].new # NoToken /\ cookie' = call[c].new
    BY <1>1, <1>3, <2>1 DEF CookieIsGood, Unseen
  <2>2. CASE cookie' = NoToken
    BY <2>2 DEF CookieIsGood
  <2>3. CASE cookie' = cookie /\ Spent(call[c]) = {}
    BY <1>1, <1>2, <2>3 DEF CookieIsGood
  <2>. QED  BY <1>4, <2>1, <2>2, <2>3
<1>. QED  BY <1>5, <1>6, <1>7, <1>8

LEMMA RefreshedStep ==
  ASSUME BrowserInv, NEW t \in Tabs, Refreshed(t)
  PROVE  JarFits'
<1>. DEFINE p == refreshing[t].new
<1>1. /\ refreshing[t].at = "answered" /\ refreshing[t].answer = "ok" /\ cookie' = p
      /\ refreshing' = [refreshing EXCEPT ![t] = NoRefresh]
      /\ call' = [c \in Calls |-> IF c \in WaitingIn(t) THEN Sent(call[c], p, p) ELSE call[c]]
      /\ UNCHANGED <<issued, refreshes, lost>>
  BY DEF Refreshed, serverVars
<1>2. /\ RefreshFits(refreshing[t], issued) /\ p \in 0..issued /\ p # NoToken /\ Unseen(p)
      /\ p \in 0..MaxPairs
  BY <1>1, Fitting, BrowserAssumption
     DEF BrowserInv, JarFits, AllUnseen, RefreshFits, RefreshRows, ExchangesFit
<1>3. \A c \in Calls :
        /\ CallFits(call'[c], issued)
        /\ \/ call'[c] = call[c]
           \/ /\ call'[c].new = NoToken /\ call'[c].carried \in {NoToken, p}
              /\ call[c].at = "waiting"
  <2>. HIDE DEF p
  <2>. SUFFICES ASSUME NEW c \in Calls, c \in WaitingIn(t)
                PROVE  /\ CallFits(call'[c], issued) /\ call'[c].new = NoToken
                       /\ call'[c].carried \in {NoToken, p} /\ call[c].at = "waiting"
    BY <1>1, Fitting
  <2>1. call[c].at = "waiting" /\ call[c].tab \in Tabs /\ call[c].ran = 0
    BY Fitting DEF WaitingIn, CallFits
  <2>. QED  BY <1>1, <1>2, <2>1, Fitting, SentFits
<1>4. /\ refreshing'[t] = NoRefresh /\ \A s \in Tabs \ {t} : refreshing'[s] = refreshing[s]
      /\ refreshing' \in [Tabs -> RefreshRows(issued)]
      /\ NoRefresh.new = NoToken /\ NoRefresh.carried = NoToken
      /\ RefreshFits(NoRefresh, issued)
  BY <1>1, NoRefreshFits, Fitting DEF RefreshFits
<1>5. call' \in [Calls -> CallRows(issued)]
  BY <1>1, <1>3 DEF CallFits
<1>. USE DEF BrowserInv, JarFits
<1>6. ExchangesFit'
  BY <1>1, <1>2, <1>3, <1>4, <1>5, Fitting DEF ExchangesFit
<1>7. AllUnseen'
  <2>1. ASSUME NEW x, Unseen(x), x # p  PROVE Unseen(x)'
    <3>1. x # NoToken
      BY <2>1 DEF Unseen, ExchangesFit, NoToken
    <3>2. x # cookie'
      BY <1>1, <2>1
    <3>. QED  BY <1>1, <1>3, <1>4, <2>1, <3>1, <3>2 DEF Unseen
  <2>2. ASSUME NEW c \in Calls, call[c].new # NoToken
        PROVE  call[c].new # p
    BY <2>2 DEF PairsApart
  <2>3. ASSUME NEW s \in Tabs \ {t}, refreshing[s].new # NoToken
        PROVE  refreshing[s].new # p
    BY <2>3 DEF PairsApart
  <2>4. \A c \in Calls : call'[c].new = NoToken \/ call'[c].new = call[c].new
    BY <1>3
  <2>. HIDE DEF p
  <2>. QED  BY <1>1, <1>4, <2>1, <2>2, <2>3, <2>4 DEF AllUnseen
<1>8. PairsApart'
  <2>1. \A c \in Calls : call'[c].new = NoToken \/ call'[c].new = call[c].new
    BY <1>3
  <2>2. \A s \in Tabs : refreshing'[s].new = NoToken \/ refreshing'[s].new = refreshing[s].new
    BY <1>4
  <2>. QED  BY <2>1, <2>2 DEF PairsApart
<1>9. CookieIsGood'
  BY <1>1, <1>2 DEF CookieIsGood, Unseen
<1>. QED  BY <1>6, <1>7, <1>8, <1>9

\* A page that is left gives up what its exchanges have spent as lost.
LEMMA LeaveStep ==
  ASSUME BrowserInv, NEW t \in Tabs, Leave(t), UNCHANGED <<cookie, serverVars>>
  PROVE  JarFits'
<1>1. /\ refreshing' = [refreshing EXCEPT ![t] = NoRefresh]
      /\ call' = [c \in Calls |-> IF call[c].tab = t THEN NoCall ELSE call[c]]
      /\ UNCHANGED <<cookie, issued, refreshes>>
  BY DEF Leave, serverVars
<1>. DEFINE spent == UNION {Spent(call[c]) : c \in {d \in Calls : call[d].tab = t}}
<1>4. lost' = lost \cup Spent(refreshing[t]) \cup spent
  BY DEF Leave
<1>5. ASSUME NEW c \in Calls, call[c].tab = t  PROVE Spent(call[c]) \subseteq spent
  BY <1>5
<1>. HIDE DEF spent
<1>6. /\ lost \subseteq lost' /\ Spent(refreshing[t]) \subseteq lost'
      /\ \A c \in Calls : call[c].tab = t => Spent(call[c]) \subseteq lost'
  BY <1>4, <1>5
<1>2. /\ call' \in [Calls -> CallRows(issued)]
      /\ \A c \in Calls : CallFits(call'[c], issued)
  BY <1>1, NoCallFits, Fitting DEF CallFits
<1>3. /\ refreshing' \in [Tabs -> RefreshRows(issued)]
      /\ \A s \in Tabs : RefreshFits(refreshing'[s], issued)
  BY <1>1, NoRefreshFits, Fitting DEF RefreshFits
<1>. QED  BY <1>1, <1>2, <1>3, <1>6, NoCallFits, NoRefreshFits, Fitting, ExchangesMove

LEMMA RefusedStep ==
  ASSUME BrowserInv, NEW t \in Tabs, NEW away \in BOOLEAN, RefreshRefused(t, away)
  PROVE  JarFits'
<1>1. CASE away
  BY <1>1, LeaveStep DEF RefreshRefused
<1>2. CASE ~away
  <2>1. /\ refreshing' = [refreshing EXCEPT ![t] = NoRefresh]
        /\ call' = [c \in Calls |-> IF c \in WaitingIn(t) THEN NoCall ELSE call[c]]
        /\ UNCHANGED <<cookie, issued, refreshes, lost>>
        /\ Spent(refreshing[t]) = {}
    BY <1>2 DEF RefreshRefused, EndsInVain, Spent, serverVars
  <2>4. \A c \in Calls : call'[c] = call[c] \/ (call'[c] = NoCall /\ call[c].at = "waiting")
    <3>1. \A c \in WaitingIn(t) : call[c].at = "waiting"
      BY DEF WaitingIn
    <3>. QED  BY <2>1, <3>1
  <2>5. \A c \in Calls : CallFits(call'[c], issued)
    BY <2>4, NoCallFits, Fitting
  <2>2. call' \in [Calls -> CallRows(issued)]
    BY <2>1, <2>5 DEF CallFits
  <2>3. /\ refreshing' \in [Tabs -> RefreshRows(issued)]
        /\ \A s \in Tabs : RefreshFits(refreshing'[s], issued)
    BY <2>1, NoRefreshFits, Fitting DEF RefreshFits
  <2>. QED  BY <2>1, <2>2, <2>3, <2>4, <2>5, NoCallFits, NoRefreshFits, Fitting, ExchangesMove
<1>. QED  BY <1>1, <1>2

\* What the tabs keep and what is given up as lost, when every step is counted.
LEMMA SpentPairs ==
  ASSUME BrowserInv
  PROVE  /\ \A c \in Calls : Spent(call[c]) \subseteq TokenPairs
         /\ \A t \in Tabs : Spent(refreshing[t]) \subseteq TokenPairs
<1>1. issued \in 0..MaxPairs /\ MaxPairs \in Nat
  BY BrowserAssumption DEF BrowserInv, JarFits, ExchangesFit
<1>2. /\ \A c \in Calls : call[c].carried \in 0..issued
      /\ \A t \in Tabs : refreshing[t].carried \in 0..issued
  BY Fitting DEF CallFits, CallRows, RefreshFits, RefreshRows
<1>. QED  BY <1>1, <1>2 DEF Spent, TokenPairs, NoToken

LEMMA SessionsFit ==
  ASSUME BrowserInv, NEW revoked, NEW ended, Issue(revoked, ended)
  PROVE  sessions' \subseteq TokenPairs
<1>1. issued + 1 \in TokenPairs
  BY Fitting, BrowserAssumption DEF Issue, TokenPairs
<1>. QED  BY <1>1 DEF Issue, BrowserInv, TabsFit

LEMMA LeaveFits ==
  ASSUME BrowserInv, NEW t \in Tabs, Leave(t), UNCHANGED serverVars
  PROVE  TabsFit'
<1>. DEFINE spent == UNION {Spent(call[c]) : c \in {d \in Calls : call[d].tab = t}}
<1>1. lost' = lost \cup Spent(refreshing[t]) \cup spent
  BY DEF Leave
<1>2. spent \subseteq TokenPairs
  BY SpentPairs
<1>. HIDE DEF spent
<1>3. lost' \subseteq TokenPairs
  BY <1>1, <1>2, SpentPairs DEF BrowserInv, TabsFit
<1>. QED  BY <1>3, BrowserAssumption DEF Leave, BrowserInv, TabsFit, serverVars, NoToken

LEMMA EndFits ==
  ASSUME BrowserInv, NEW c \in Calls, call[c].at # "idle", End(c)
  PROVE  /\ memory' \in [Tabs -> 0..MaxPairs] /\ signedIn' \in [Tabs -> BOOLEAN]
<1>1. call[c].tab \in Tabs /\ call[c].new \in 0..MaxPairs /\ NoToken \in 0..MaxPairs
  BY Fitting, BrowserAssumption
     DEF CallFits, CallRows, BrowserInv, JarFits, ExchangesFit, NoToken
<1>2. /\ memory[call[c].tab] \in 0..MaxPairs /\ signedIn[call[c].tab] \in BOOLEAN
      /\ memory \in [Tabs -> 0..MaxPairs] /\ signedIn \in [Tabs -> BOOLEAN]
  BY <1>1 DEF BrowserInv, TabsFit
<1>. DEFINE e == Ending(call[c], call[c].tab)
<1>3. e.token \in 0..MaxPairs
  BY <1>1, <1>2 DEF Ending
<1>4. e.signed \in BOOLEAN
  BY <1>1, <1>2 DEF Ending
<1>. HIDE DEF e
<1>5. /\ memory' = [memory EXCEPT ![call[c].tab] = e.token]
      /\ signedIn' = [signedIn EXCEPT ![call[c].tab] = e.signed]
  BY DEF End, e
<1>. QED  BY <1>2, <1>3, <1>4, <1>5

LEMMA TabsStep ==
  ASSUME BrowserInv, [BrowserNext]_browserVars
  PROVE  TabsFit'
<1>. USE DEF BrowserInv, TabsFit
<1>1. ASSUME NEW c \in Calls, NEW t \in Tabs, NEW kind \in Kinds, StartCall(c, t, kind)
      PROVE  TabsFit'
  BY <1>1 DEF StartCall, serverVars
<1>2. ASSUME NEW c \in Calls, Refuse(c) \/ Execute(c)
      PROVE  TabsFit'
  BY <1>2 DEF Refuse, Execute, serverVars, tabVars
<1>3. ASSUME NEW c \in Calls, LogIn(c) \/ SwitchAccount(c) \/ Hydrate(c)
      PROVE  TabsFit'
  <2>1. sessions' \subseteq TokenPairs
    BY <1>3, SessionsFit DEF LogIn, SwitchAccount, Hydrate
  <2>. QED  BY <1>3, <2>1 DEF LogIn, SwitchAccount, Hydrate, tabVars
<1>4. ASSUME NEW c \in Calls, NEW reached \in BOOLEAN, LogOut(c, reached)
      PROVE  TabsFit'
  BY <1>4 DEF LogOut, tabVars
<1>5. ASSUME NEW c \in Calls, CallFails(c)
      PROVE  TabsFit'
  BY <1>5, SpentPairs DEF CallFails, serverVars, tabVars
<1>6. ASSUME NEW c \in Calls, Succeed(c) \/ GiveUp(c)
      PROVE  TabsFit'
  <2>1. memory' \in [Tabs -> 0..MaxPairs] /\ signedIn' \in [Tabs -> BOOLEAN]
    BY <1>6, EndFits DEF Succeed, GiveUp
  <2>. QED  BY <1>6, <2>1 DEF Succeed, GiveUp, serverVars
<1>7. ASSUME NEW c \in Calls, AwaitRefresh(c) \/ TryAgain(c)
      PROVE  TabsFit'
  BY <1>7 DEF AwaitRefresh, TryAgain, serverVars, tabVars
<1>8. ASSUME NEW t \in Tabs, ServeRefresh(t)
      PROVE  TabsFit'
  <2>1. sessions' \subseteq TokenPairs
    BY <1>8, SessionsFit DEF ServeRefresh, serverVars
  <2>. QED  BY <1>8, <2>1 DEF ServeRefresh, tabVars
<1>9. ASSUME NEW t \in Tabs, RefreshFails(t)
      PROVE  TabsFit'
  BY <1>9, SpentPairs DEF RefreshFails, serverVars, tabVars
<1>10. ASSUME NEW t \in Tabs, Refreshed(t)
       PROVE  TabsFit'
  <2>1. refreshing[t].new \in 0..MaxPairs
    BY Fitting, BrowserAssumption
       DEF RefreshFits, RefreshRows, JarFits, ExchangesFit
  <2>. QED  BY <1>10, <2>1 DEF Refreshed, serverVars
<1>11. ASSUME NEW t \in Tabs, NEW away \in BOOLEAN, RefreshRefused(t, away)
       PROVE  TabsFit'
  <2>1. CASE away
    BY <1>11, <2>1, LeaveFits DEF RefreshRefused
  <2>2. CASE ~away
    <3>1. signedIn' \in [Tabs -> BOOLEAN]
      BY <1>11, <2>2 DEF RefreshRefused
    <3>. QED  BY <1>11, <2>2, <3>1, BrowserAssumption DEF RefreshRefused, serverVars, NoToken
  <2>. QED  BY <2>1, <2>2
<1>12. ASSUME NEW t \in Tabs, Reload(t)
       PROVE  TabsFit'
  BY <1>12, LeaveFits DEF Reload
<1>13. ASSUME NEW p \in TokenPairs, AccessExpires(p)
       PROVE  TabsFit'
  BY <1>13 DEF AccessExpires, tabVars
<1>14. CASE UNCHANGED browserVars
  BY <1>14 DEF browserVars
<1>. QED
  BY <1>1, <1>2, <1>3, <1>4, <1>5, <1>6, <1>7, <1>8, <1>9, <1>10, <1>11, <1>12, <1>13, <1>14
     DEF BrowserNext, ServeCall, Arrive, ArriveRefresh

LEMMA BrowserStarts == BrowserInit => BrowserInv
<1>. SUFFICES ASSUME BrowserInit  PROVE BrowserInv
  OBVIOUS
<1>. USE DEF BrowserInit
<1>1. TabsFit
  BY BrowserAssumption DEF TabsFit, NoToken
<1>2. ExchangesFit
  BY NoCallFits, NoRefreshFits, BrowserAssumption
     DEF ExchangesFit, CallFits, RefreshFits, NoToken
<1>3. AllUnseen /\ PairsApart /\ CookieIsGood
  BY NoCallFits, NoRefreshFits DEF AllUnseen, PairsApart, CookieIsGood
<1>. QED  BY <1>1, <1>2, <1>3 DEF BrowserInv, JarFits

LEMMA BrowserStep == BrowserInv /\ [BrowserNext]_browserVars => BrowserInv'
<1>. SUFFICES ASSUME BrowserInv, [BrowserNext]_browserVars  PROVE JarFits'
  BY TabsStep DEF BrowserInv
<1>1. ASSUME NEW p \in TokenPairs, AccessExpires(p)
      PROVE  JarFits'
  BY <1>1 DEF AccessExpires, BrowserInv, JarFits, ExchangesFit, AllUnseen, PairsApart, Unseen,
              CookieIsGood
<1>2. CASE UNCHANGED browserVars
  BY <1>2 DEF browserVars, BrowserInv, JarFits, ExchangesFit, AllUnseen, PairsApart, Unseen,
              CookieIsGood
<1>3. ASSUME NEW t \in Tabs, Reload(t)
      PROVE  JarFits'
  BY <1>3, LeaveStep DEF Reload
<1>4. ASSUME NEW c \in Calls, ServeCall(c)
      PROVE  JarFits'
  BY <1>4, RefuseStep, ExecuteStep, IssueStep, LogOutStep DEF ServeCall
<1>5. ASSUME NEW c \in Calls, Arrive(c)
      PROVE  JarFits'
  BY <1>5, SucceedStep, AwaitStep, TryAgainStep, GiveUpStep DEF Arrive
<1>6. ASSUME NEW t \in Tabs, ArriveRefresh(t)
      PROVE  JarFits'
  BY <1>6, RefreshedStep, RefusedStep DEF ArriveRefresh
<1>. QED
  BY <1>1, <1>2, <1>3, <1>4, <1>5, <1>6, StartStep, CallFailsStep, ServeRefreshStep,
     RefreshFailsStep DEF BrowserNext

LEMMA BrowserHolds == BrowserSpec => []BrowserInv
  BY BrowserStarts, BrowserStep, PTL DEF BrowserSpec

\* The refresh token in the cookie of the gateway is good for a refresh, however the exchanges
\* of any number of tabs overlap, unless its successor is on the way or was lost with its
\* answer (refreshPromise and the interceptors of lib/api/client.ts, the cookie of
\* api/routes/auth_session.py).
THEOREM CookieStaysGood == BrowserSpec => []CookieIsGood
  BY BrowserHolds, PTL DEF BrowserInv, JarFits

\* Through the refresh after a 401 and the second attempt of request, a call that changes
\* something is executed at most once: only a GET is repeated without an answer.
THEOREM MutationsRunOnce == BrowserSpec => []MutationOnce
<1>1. BrowserInv => MutationOnce
  BY Fitting DEF MutationOnce, CallFits, CallRows
<1>. QED  BY <1>1, BrowserHolds, PTL

\* Tokens, cookies, exchanges and tabs keep their shape: every token anyone holds is of a pair
\* that was issued.
THEOREM BrowserTypeCorrect == BrowserSpec => []BrowserTypeOK
<1>1. ASSUME BrowserInv  PROVE BrowserTypeOK
  <2>1. issued \in 0..MaxPairs /\ MaxPairs \in Nat
    BY <1>1, BrowserAssumption DEF BrowserInv, JarFits, ExchangesFit
  <2>2. cookie \in 0..MaxPairs /\ refreshes \subseteq TokenPairs
    BY <1>1, <2>1 DEF BrowserInv, JarFits, ExchangesFit, TokenPairs
  <2>3. /\ \A k \in 0..issued : k \in 0..MaxPairs
        /\ \A k \in 0..1 : k \in 0..4
    BY <2>1
  <2>4. /\ CallRows(issued) \subseteq
             [at : {"idle", "sent", "answered", "waiting"}, tab : Tabs \cup {Nobody},
              kind : Kinds, bearer : 0..MaxPairs, carried : 0..MaxPairs, retried : BOOLEAN,
              again : BOOLEAN, answer : Answers, new : 0..MaxPairs, ran : 0..4]
        /\ RefreshRows(issued) \subseteq
             [at : {"none", "sent", "answered"}, carried : 0..MaxPairs, answer : Answers,
              new : 0..MaxPairs]
    BY <2>3 DEF CallRows, RefreshRows
  <2>. QED  BY <1>1, <2>1, <2>2, <2>4, Fitting DEF BrowserTypeOK, BrowserInv, TabsFit
<1>. QED  BY <1>1, BrowserHolds, PTL
=============================================================================
