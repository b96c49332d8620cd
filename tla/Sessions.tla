------------------------------ MODULE Sessions ------------------------------
(***************************************************************************)
(* auth-service: token pairs and the access sessions behind them, password *)
(* resets by a one-time code, and platform roles.                          *)
(*                                                                         *)
(* A request changes Postgres first and Redis afterwards, and can end      *)
(* anywhere between (an exception, the end of the process). Refresh tokens *)
(* are rows of Postgres; an access token lives while its session is in     *)
(* Redis, where user_sessions is an index of each user's sessions.         *)
(***************************************************************************)
EXTENDS Integers, FiniteSets

CONSTANTS
  Users,
  Pairs,          \* token pairs, an access token and a refresh token each
  Codes,          \* one-time codes
  Requests,       \* requests served at one time
  AttemptLimit,   \* OTP_ATTEMPT_LIMIT (5 in the code)
  None

ASSUME ConstantsAssumption ==
  /\ AttemptLimit \in Nat \ {0}
  /\ IsFiniteSet(Requests)
  /\ None \notin Users \cup Pairs \cup Codes

VARIABLES
  password,      \* changes of each user's password
  superadmins,   \* users whose platform role is SuperAdmin
  pair,          \* refresh_tokens, and who has the pair
  session,       \* pairs whose access session is in Redis
  index,         \* user_sessions
  code,          \* password_reset_tokens
  guesses,       \* failures counted for each user's email
  request

vars == <<password, superadmins, pair, session, index, code, guesses, request>>
redisVars == <<session, index>>

\* A pair records the password that its owner proved, the pair it was refreshed from, and
\* whether a reset could not have seen it (its request overlapped one).
PairStates == [state : {"unused", "active", "revoked"}, user : Users \cup {None}, known : BOOLEAN,
               password : Nat, parent : Pairs \cup {None}, overtaken : BOOLEAN]
Unused == [state |-> "unused", user |-> None, known |-> FALSE, password |-> 0,
           parent |-> None, overtaken |-> FALSE]

Stages == {"login", "refresh", "switch", "switched", "store", "logout", "allowed", "reset",
           "clear", "promote", "demote", "revoke", "listed", "unlisted"}

\* A request of the user u, which uses the pair old and issues the pair new.
Serving(at, u, old, new, proved) ==
  [at |-> at, user |-> u, old |-> old, new |-> new, password |-> proved,
   code |-> None, targets |-> {}]
Idle == Serving("idle", None, None, None, 0)

TypeOK ==
  /\ password \in [Users -> Nat]
  /\ superadmins \subseteq Users
  /\ pair \in [Pairs -> PairStates]
  /\ session \subseteq Pairs
  /\ index \subseteq Pairs
  /\ code \in [Codes -> [state : {"unsent", "sent", "used"}, user : Users \cup {None}]]
  /\ guesses \in [Users -> Nat]
  /\ request \in [Requests -> {Idle} \cup
       [at : Stages, user : Users, old : Pairs \cup {None}, new : Pairs \cup {None},
        password : Nat, code : Codes \cup {None}, targets : SUBSET Pairs]]

Init ==
  /\ password = [u \in Users |-> 0]
  /\ superadmins \in SUBSET Users
  /\ pair = [p \in Pairs |-> Unused]
  /\ session = {}
  /\ index = {}
  /\ code = [c \in Codes |-> [state |-> "unsent", user |-> None]]
  /\ guesses = [u \in Users |-> 0]
  /\ request = [r \in Requests |-> Idle]

-----------------------------------------------------------------------------
Start(r, at, u) ==
  /\ request[r] = Idle
  /\ request' = [request EXCEPT ![r] = Serving(at, u, None, None, 0)]

Step(r, from, to) ==
  /\ request[r].at = from
  /\ request' = [request EXCEPT ![r].at = to]

Finish(r) == request' = [request EXCEPT ![r] = Idle]

Fresh(p) == pair[p].state = "unused" /\ \A r \in Requests : request[r].new # p

\* SELECT ... FOR UPDATE: the row is locked until the transaction of the refresh ends.
Locked(p) == \E r \in Requests : request[r].at = "refresh" /\ request[r].old = p

\* Between the statement that picks the rows to revoke and the commit.
ResetUnderWay(u) == \E r \in Requests : request[r].at = "reset" /\ request[r].user = u

Issued(q, proved, parent, overtaken) ==
  [state |-> "active", user |-> q.user, known |-> FALSE, password |-> proved,
   parent |-> parent, overtaken |-> overtaken \/ ResetUnderWay(q.user)]

-----------------------------------------------------------------------------
(* Logging in, refreshing, switching the account, logging out *)

ReadCredential(r, u, p) ==
  /\ request[r] = Idle
  /\ Fresh(p)
  /\ request' = [request EXCEPT ![r] = Serving("login", u, None, p, password[u])]
  /\ UNCHANGED <<password, superadmins, pair, redisVars, code, guesses>>

CommitLogin(r) ==
  LET q == request[r] IN
  /\ Step(r, "login", "store")
  /\ pair' = [pair EXCEPT ![q.new] =
       Issued(q, q.password, None, q.password # password[q.user])]
  /\ UNCHANGED <<password, superadmins, redisVars, code, guesses>>

RefreshableUnlocked(p) == pair[p].known
Refreshable(p) == pair[p].known /\ pair[p].state = "active" /\ ~Locked(p)

LockRefreshToken(r, old, new) ==
  /\ request[r] = Idle
  /\ Fresh(new)
  /\ Refreshable(old)
  /\ request' = [request EXCEPT ![r] = Serving("refresh", pair[old].user, old, new, 0)]
  /\ UNCHANGED <<password, superadmins, pair, redisVars, code, guesses>>

CommitRefresh(r) ==
  LET q == request[r] IN
  /\ Step(r, "refresh", "store")
  /\ pair' = [pair EXCEPT
       ![q.old].state = "revoked",
       ![q.new] = Issued(q, pair[q.old].password, q.old, pair[q.old].overtaken)]
  /\ UNCHANGED <<password, superadmins, redisVars, code, guesses>>

\* The session is looked up, and then tenant-service asked for the membership.
CheckSession(r, old, new) ==
  /\ request[r] = Idle
  /\ pair[old].known
  /\ old \in session
  /\ Fresh(new)
  /\ request' = [request EXCEPT ![r] = Serving("switch", pair[old].user, old, new, 0)]
  /\ UNCHANGED <<password, superadmins, pair, redisVars, code, guesses>>

\* The old refresh token stays as it is.
CommitSwitch(r) ==
  LET q == request[r] IN
  /\ Step(r, "switch", "switched")
  /\ pair' = [pair EXCEPT ![q.new] =
       Issued(q, pair[q.old].password, None,
              pair[q.old].overtaken \/ pair[q.old].password # password[q.user])]
  /\ UNCHANGED <<password, superadmins, redisVars, code, guesses>>

\* revoke_session; a jti left in the index without its session has no effect.
RevokeSession(r, from, to) ==
  /\ Step(r, from, to)
  /\ session' = session \ {request[r].old}
  /\ index' = index \ {request[r].old}
  /\ UNCHANGED <<password, superadmins, pair, code, guesses>>

DropSwitched(r) == RevokeSession(r, "switched", "store")

\* store_session; then user.logged_in is published. The answer may be lost.
StoreSession(r, answered) ==
  LET q == request[r] IN
  /\ q.at = "store"
  /\ session' = session \cup {q.new}
  /\ index' = index \cup {q.new}
  /\ pair' = [pair EXCEPT ![q.new].known = answered]
  /\ Finish(r)
  /\ UNCHANGED <<password, superadmins, code, guesses>>

\* The row is read without a lock and written only if it was active: revoking it twice
\* changes nothing.
CommitLogout(r, p) ==
  /\ request[r] = Idle
  /\ pair[p].known
  /\ ~Locked(p)
  /\ pair' = [pair EXCEPT ![p].state = "revoked"]
  /\ request' = [request EXCEPT ![r] = Serving("logout", pair[p].user, p, None, 0)]
  /\ UNCHANGED <<password, superadmins, redisVars, code, guesses>>

DropLoggedOut(r) ==
  /\ request[r].at = "logout"
  /\ session' = session \ {request[r].old}
  /\ index' = index \ {request[r].old}
  /\ Finish(r)
  /\ UNCHANGED <<password, superadmins, pair, code, guesses>>

SessionExpires(p) ==
  /\ p \in session
  /\ session' = session \ {p}
  /\ UNCHANGED <<password, superadmins, pair, index, code, guesses, request>>

-----------------------------------------------------------------------------
(* Resetting the password *)

SendCode(c, u) ==
  /\ code[c].state = "unsent"
  /\ code' = [code EXCEPT ![c] = [state |-> "sent", user |-> u]]
  /\ UNCHANGED <<password, superadmins, pair, redisVars, guesses, request>>

NotTooMany(u) == guesses[u] <= AttemptLimit
Allowed(u) == guesses[u] < AttemptLimit

\* otp_allowed, of verify and of reset.
CheckAttempts(r, u) ==
  /\ Allowed(u)
  /\ Start(r, "allowed", u)
  /\ UNCHANGED <<password, superadmins, pair, redisVars, code, guesses>>

\* record_otp_failure, after a code that is not there, is used or has expired.
WrongCode(r) ==
  /\ request[r].at = "allowed"
  /\ guesses' = [guesses EXCEPT ![request[r].user] = @ + 1]
  /\ Finish(r)
  /\ UNCHANGED <<password, superadmins, pair, redisVars, code>>

\* The counters of a user, unless the process ended between INCR and EXPIRE.
WindowEnds(u) ==
  /\ guesses[u] > 0
  /\ guesses' = [guesses EXCEPT ![u] = 0]
  /\ UNCHANGED <<password, superadmins, pair, redisVars, code, request>>

Active(u) == {p \in Pairs : pair[p].state = "active" /\ pair[p].user = u}

WithoutLock(u) == TRUE

\* The code's row and the credential are locked: resets of a user follow one another.
LockCredential(u) == ~ResetUnderWay(u)

\* The UPDATE sees the pairs of this moment.
TakeCode(r, c) ==
  LET u == request[r].user IN
  /\ request[r].at = "allowed"
  /\ code[c] = [state |-> "sent", user |-> u]
  /\ LockCredential(u)
  /\ request' = [request EXCEPT ![r] =
       [at |-> "reset", user |-> u, old |-> None, new |-> None, password |-> 0,
        code |-> c, targets |-> Active(u)]]
  /\ UNCHANGED <<password, superadmins, pair, redisVars, code, guesses>>

\* It waits for the rows that are locked and passes over those revoked meanwhile.
CommitReset(r) ==
  LET q == request[r] IN
  /\ Step(r, "reset", "clear")
  /\ \A p \in q.targets : ~Locked(p)
  /\ pair' = [p \in Pairs |-> IF p \in q.targets THEN [pair[p] EXCEPT !.state = "revoked"] ELSE pair[p]]
  /\ password' = [password EXCEPT ![q.user] = @ + 1]
  /\ code' = [code EXCEPT ![q.code].state = "used"]
  /\ UNCHANGED <<superadmins, redisVars, guesses>>

ClearFailures(r) ==
  /\ Step(r, "clear", "revoke")
  /\ guesses' = [guesses EXCEPT ![request[r].user] = 0]
  /\ UNCHANGED <<password, superadmins, pair, redisVars, code>>

-----------------------------------------------------------------------------
(* revoke_user_sessions *)

ListSessions(r) ==
  LET u == request[r].user IN
  /\ request[r].at = "revoke"
  /\ request' = [request EXCEPT ![r] =
       [at |-> "listed", user |-> u, old |-> None, new |-> None, password |-> 0,
        code |-> None, targets |-> {p \in index : pair[p].user = u}]]
  /\ UNCHANGED <<password, superadmins, pair, redisVars, code, guesses>>

DeleteSessions(r) ==
  /\ Step(r, "listed", "unlisted")
  /\ session' = session \ request[r].targets
  /\ UNCHANGED <<password, superadmins, pair, index, code, guesses>>

\* A session stored since they were listed goes out of the index, and lives on.
DeleteIndex(r) ==
  /\ request[r].at = "unlisted"
  /\ index' = {p \in index : pair[p].user # request[r].user}
  /\ Finish(r)
  /\ UNCHANGED <<password, superadmins, pair, session, code, guesses>>

-----------------------------------------------------------------------------
(* Platform roles *)

\* A SuperAdmin asks. The SuperAdmins are counted before one of them is removed, so two
\* removals can count one another and leave none.
ReadRole(r, u, change) ==
  /\ superadmins # {}
  /\ change = "demote" /\ u \in superadmins => Cardinality(superadmins) > 1
  /\ Start(r, change, u)
  /\ UNCHANGED <<password, superadmins, pair, redisVars, code, guesses>>

CommitRole(r, change) ==
  LET u == request[r].user IN
  /\ Step(r, change, "revoke")
  /\ superadmins' = IF change = "promote" THEN superadmins \cup {u} ELSE superadmins \ {u}
  /\ UNCHANGED <<password, pair, redisVars, code, guesses>>

-----------------------------------------------------------------------------
\* A right code that verify found, an exception, or the end of the process.
RequestEnds(r) ==
  /\ request[r] # Idle
  /\ Finish(r)
  /\ UNCHANGED <<password, superadmins, pair, redisVars, code, guesses>>

Serve(r) ==
  \/ \E u \in Users, p \in Pairs : ReadCredential(r, u, p)
  \/ CommitLogin(r)
  \/ \E old, new \in Pairs : LockRefreshToken(r, old, new)
  \/ CommitRefresh(r)
  \/ \E old, new \in Pairs : CheckSession(r, old, new)
  \/ CommitSwitch(r)
  \/ DropSwitched(r)
  \/ \E answered \in BOOLEAN : StoreSession(r, answered)
  \/ \E p \in Pairs : CommitLogout(r, p)
  \/ DropLoggedOut(r)
  \/ \E u \in Users : CheckAttempts(r, u)
  \/ WrongCode(r)
  \/ \E c \in Codes : TakeCode(r, c)
  \/ CommitReset(r)
  \/ ClearFailures(r)
  \/ ListSessions(r)
  \/ DeleteSessions(r)
  \/ DeleteIndex(r)
  \/ \E u \in Users, change \in {"promote", "demote"} : ReadRole(r, u, change)
  \/ \E change \in {"promote", "demote"} : CommitRole(r, change)
  \/ RequestEnds(r)

Next ==
  \/ \E r \in Requests : Serve(r)
  \/ \E p \in Pairs : SessionExpires(p)
  \/ \E c \in Codes, u \in Users : SendCode(c, u)
  \/ \E u \in Users : WindowEnds(u)

Spec == Init /\ [][Next]_vars

-----------------------------------------------------------------------------
(* Properties *)

\* A refresh token is exchanged once, however many refreshes, logouts and resets race
\* for it: it has one successor, and is revoked from then on.
ExchangedOnce ==
  \A p, c, d \in Pairs :
    pair[c].parent = p =>
      /\ pair[p].state = "revoked"
      /\ pair[d].parent = p => c = d

\* A reset leaves nobody else logged in: a refresh token that is active on an earlier
\* password comes from a request that was itself on its way during a reset, or from the
\* access session of before, which Redis forgets a little later.
SurvivorsOvertaken ==
  \A p \in Pairs :
    pair[p].state = "active" /\ pair[p].password < password[pair[p].user] => pair[p].overtaken

\* Each change of the password uses up a code: two resets never share one.
CodeUsedOnce ==
  [][\A u \in Users : password'[u] # password[u] =>
       \E c \in Codes : /\ code[c] = [state |-> "sent", user |-> u]
                        /\ code'[c].state = "used"]_vars

\* The limit of wrong codes is passed by at most the requests at work at one time.
GuessesBounded == \A u \in Users : guesses[u] < AttemptLimit + Cardinality(Requests)
=============================================================================
