------------------------------- MODULE Browser -------------------------------
(***************************************************************************)
(* The web client between a user and the gateway. The tabs of a browser    *)
(* share one cookie jar, which holds the refresh token where scripts do    *)
(* not see it; each tab has an access token in memory. A call that is      *)
(* answered 401 waits for the one refresh of its tab and is sent again; a  *)
(* GET without an answer is sent again too. The gateway moves refresh      *)
(* tokens between cookies and bodies, and lets a call pass whose access    *)
(* session is in Redis. Steps of auth-service are taken at once: how they  *)
(* interleave is in Sessions. Any answer may be lost, after the call was   *)
(* served or before, and any tab may be loaded again.                      *)
(***************************************************************************)
EXTENDS Integers, FiniteSets

CONSTANTS
  Tabs,
  Calls,     \* calls that are under way at one time
  MaxPairs,  \* bound: token pairs that are issued
  Nobody

ASSUME BrowserAssumption == MaxPairs \in Nat /\ Nobody \notin Tabs

TokenPairs == 1..MaxPairs
NoToken == 0

VARIABLES
  cookie,    \* the refresh token in the jar, by its pair
  issued,    \* pairs issued so far
  refreshes, \* pairs whose refresh token is not revoked
  sessions,  \* pairs whose access session is in Redis
  memory,    \* accessToken of each tab
  signedIn,  \* whether AuthProvider of a tab has a session
  loaded,    \* tabs whose hydration has begun
  refreshing,\* the refresh that a tab's calls wait for
  call,      \* calls of the api client
  lost       \* pairs revoked by an exchange whose answer was lost

browserVars == <<cookie, issued, refreshes, sessions, memory, signedIn, loaded, refreshing, call,
                 lost>>
serverVars == <<issued, refreshes, sessions>>
tabVars == <<memory, signedIn, loaded>>

Kinds == {"read", "write", "login", "hydrate", "refresh", "switch", "logout"}
Answers == {"none", "ok", "unauthorized", "failed"}

(* An exchange is sent with a cookie, and answered, maybe with a new pair. *)
NoRefresh == [at |-> "none", carried |-> NoToken, answer |-> "none", new |-> NoToken]
NoCall == [at |-> "idle", tab |-> Nobody, kind |-> "read", bearer |-> NoToken,
           carried |-> NoToken, retried |-> FALSE, again |-> FALSE, answer |-> "none",
           new |-> NoToken, ran |-> 0]

BrowserTypeOK ==
  /\ cookie \in 0..MaxPairs /\ issued \in 0..MaxPairs
  /\ refreshes \subseteq TokenPairs /\ sessions \subseteq TokenPairs /\ lost \subseteq TokenPairs
  /\ memory \in [Tabs -> 0..MaxPairs]
  /\ signedIn \in [Tabs -> BOOLEAN]
  /\ loaded \subseteq Tabs
  /\ refreshing \in [Tabs -> [at : {"none", "sent", "answered"}, carried : 0..MaxPairs,
                              answer : Answers, new : 0..MaxPairs]]
  /\ call \in [Calls -> [at : {"idle", "sent", "answered", "waiting"},
                         tab : Tabs \cup {Nobody}, kind : Kinds, bearer : 0..MaxPairs,
                         carried : 0..MaxPairs, retried : BOOLEAN, again : BOOLEAN,
                         answer : Answers, new : 0..MaxPairs, ran : 0..4]]

BrowserInit ==
  /\ cookie = NoToken /\ issued = 0
  /\ refreshes = {} /\ sessions = {} /\ lost = {}
  /\ memory = [t \in Tabs |-> NoToken]
  /\ signedIn = [t \in Tabs |-> FALSE]
  /\ loaded = {}
  /\ refreshing = [t \in Tabs |-> NoRefresh]
  /\ call = [c \in Calls |-> NoCall]

-----------------------------------------------------------------------------
(* Sending. The request interceptor adds the access token of the moment,   *)
(* the browser the cookie; noted where the gateway looks at them.          *)

Protected(kind) == kind \in {"read", "write", "switch", "logout"}
Exchanging(kind) == kind \in {"hydrate", "refresh"}
WithCookie(kind) == Exchanging(kind) \/ kind = "logout"

Sent(q, bearer, jar) ==
  [q EXCEPT !.at = "sent", !.answer = "none", !.new = NoToken,
            !.bearer = IF Protected(q.kind) THEN bearer ELSE NoToken,
            !.carried = IF WithCookie(q.kind) THEN jar ELSE NoToken]

NewCall(t, kind) == [NoCall EXCEPT !.tab = t, !.kind = kind]

(* A page hydrates when it is loaded; after that the user logs in, and     *)
(* does the rest while signed in.                                          *)
StartCall(c, t, kind) ==
  /\ call[c] = NoCall
  /\ CASE kind = "hydrate" -> t \notin loaded
       [] kind = "login"   -> t \in loaded
       [] OTHER            -> signedIn[t]
  /\ loaded' = loaded \cup {t}
  /\ call' = [call EXCEPT ![c] = Sent(NewCall(t, kind), memory[t], cookie)]
  /\ UNCHANGED <<cookie, serverVars, memory, signedIn, refreshing, lost>>

-----------------------------------------------------------------------------
(* The gateway and auth-service. *)

Admitted(q) == ~Protected(q.kind) \/ q.bearer \in sessions

Answered(c, answer, new) ==
  LET q == call[c] IN
  call' = [call EXCEPT ![c] =
    [q EXCEPT !.at = "answered", !.bearer = NoToken, !.answer = answer, !.new = new,
              !.carried = IF answer = "ok" THEN q.carried ELSE NoToken,
              !.ran = IF q.kind = "write" /\ answer = "ok" THEN q.ran + 1 ELSE q.ran]]

Issue(revoked, ended) ==
  /\ issued < MaxPairs
  /\ issued' = issued + 1
  /\ refreshes' = (refreshes \ revoked) \cup {issued + 1}
  /\ sessions' = (sessions \ ended) \cup {issued + 1}

Refuse(c) ==
  LET q == call[c] IN
  /\ q.at = "sent"
  /\ \/ ~Admitted(q)
     \/ q.kind = "login"
     \/ Exchanging(q.kind) /\ q.carried \notin refreshes
  /\ Answered(c, "unauthorized", NoToken)
  /\ UNCHANGED <<cookie, serverVars, tabVars, refreshing, lost>>

Execute(c) ==
  /\ call[c].at = "sent" /\ call[c].kind \in {"read", "write"}
  /\ Admitted(call[c])
  /\ Answered(c, "ok", NoToken)
  /\ UNCHANGED <<cookie, serverVars, tabVars, refreshing, lost>>

LogIn(c) ==
  /\ call[c].at = "sent" /\ call[c].kind = "login"
  /\ Issue({}, {})
  /\ Answered(c, "ok", issued + 1)
  /\ UNCHANGED <<cookie, tabVars, refreshing, lost>>

(* The old access session ends, the old refresh token stays. *)
SwitchAccount(c) ==
  /\ call[c].at = "sent" /\ call[c].kind = "switch"
  /\ Admitted(call[c])
  /\ Issue({}, {call[c].bearer})
  /\ Answered(c, "ok", issued + 1)
  /\ UNCHANGED <<cookie, tabVars, refreshing, lost>>

(* The old refresh token is revoked, the old access session stays. *)
Hydrate(c) ==
  /\ call[c].at = "sent" /\ Exchanging(call[c].kind)
  /\ call[c].carried \in refreshes
  /\ Issue({call[c].carried}, {})
  /\ Answered(c, "ok", issued + 1)
  /\ UNCHANGED <<cookie, tabVars, refreshing, lost>>

(* The gateway answers that all is well even if auth-service does not.     *)
LogOut(c, reached) ==
  LET q == call[c] IN
  /\ q.at = "sent" /\ q.kind = "logout"
  /\ Admitted(q)
  /\ reached => q.carried # NoToken
  /\ refreshes' = IF reached THEN refreshes \ {q.carried} ELSE refreshes
  /\ sessions' = IF reached THEN sessions \ {q.bearer} ELSE sessions
  /\ Answered(c, "ok", NoToken)
  /\ UNCHANGED <<cookie, issued, tabVars, refreshing, lost>>

ServeRefresh(t) ==
  LET r == refreshing[t] IN
  /\ r.at = "sent"
  /\ IF r.carried \in refreshes
     THEN /\ Issue({r.carried}, {})
          /\ refreshing' = [refreshing EXCEPT ![t] = [r EXCEPT !.at = "answered", !.answer = "ok",
                                                               !.new = issued + 1]]
     ELSE /\ refreshing' = [refreshing EXCEPT ![t] = [r EXCEPT !.at = "answered",
                                                               !.answer = "unauthorized"]]
          /\ UNCHANGED serverVars
  /\ UNCHANGED <<cookie, tabVars, call, lost>>

AccessExpires(p) ==
  /\ p \in sessions
  /\ sessions' = sessions \ {p}
  /\ UNCHANGED <<cookie, issued, refreshes, tabVars, refreshing, call, lost>>

(* What the cookie of an exchange is good for no longer, once it is served.*)
Spent(q) == IF q.answer = "ok" THEN {q.carried} \ {NoToken} ELSE {}

(* A timeout, a lost connection, 5xx: served or not, the client cannot     *)
(* tell.                                                                   *)
CallFails(c) ==
  /\ call[c].at = "sent" \/ (call[c].at = "answered" /\ call[c].answer # "failed")
  /\ lost' = lost \cup Spent(call[c])
  /\ Answered(c, "failed", NoToken)
  /\ UNCHANGED <<cookie, serverVars, tabVars, refreshing>>

RefreshFails(t) ==
  LET r == refreshing[t] IN
  /\ r.at = "sent" \/ (r.at = "answered" /\ r.answer # "failed")
  /\ lost' = lost \cup Spent(r)
  /\ refreshing' = [refreshing EXCEPT ![t] = [r EXCEPT !.at = "answered", !.answer = "failed",
                                                       !.new = NoToken]]
  /\ UNCHANGED <<cookie, serverVars, tabVars, call>>

-----------------------------------------------------------------------------
(* Answers that arrive at their tab. *)

(* persist, and the end of hydrateSession: of a call that is over. *)
Ending(q, t) ==
  CASE q.new # NoToken -> [token |-> q.new, signed |-> TRUE]
    [] q.kind \in {"logout", "hydrate"} -> [token |-> NoToken, signed |-> FALSE]
    [] OTHER -> [token |-> memory[t], signed |-> signedIn[t]]

End(c) ==
  LET q == call[c] IN
  /\ memory' = [memory EXCEPT ![q.tab] = Ending(q, q.tab).token]
  /\ signedIn' = [signedIn EXCEPT ![q.tab] = Ending(q, q.tab).signed]
  /\ call' = [call EXCEPT ![c] = NoCall]

(* The cookie after an answer. Mutant: only the login's is set. *)
JarOfLogin(q) == IF q.kind \in {"login", "switch"} THEN q.new
                 ELSE IF q.kind = "logout" THEN NoToken ELSE cookie
JarAfter(q) ==
  CASE q.new # NoToken      -> q.new
    [] q.kind = "logout"    -> NoToken
    [] OTHER                -> cookie

Succeed(c) ==
  LET q == call[c] IN
  /\ q.at = "answered" /\ q.answer = "ok"
  /\ cookie' = JarAfter(q)
  /\ End(c)
  /\ UNCHANGED <<serverVars, loaded, refreshing, lost>>

(* The first 401 of a call: it waits for the refresh of its tab, and       *)
(* begins it if there is none.                                             *)
AwaitRefresh(c) ==
  LET q == call[c] IN
  /\ q.at = "answered" /\ q.answer = "unauthorized" /\ ~q.retried
  /\ refreshing' = IF refreshing[q.tab].at # "none" THEN refreshing
                   ELSE [refreshing EXCEPT ![q.tab] = [NoRefresh EXCEPT !.at = "sent",
                                                                    !.carried = cookie]]
  /\ call' = [call EXCEPT ![c].at = "waiting", ![c].retried = TRUE]
  /\ UNCHANGED <<cookie, serverVars, tabVars, lost>>

(* Only a GET that was not refused is worth a second attempt. Mutant: any  *)
(* call without an answer is sent again.                                   *)
AlwaysRepeatable(q) == q.answer = "failed"
Repeatable(q) == q.kind = "read" /\ q.answer = "failed"

(* Behind the pause of request, which is a late answer as well.            *)
TryAgain(c) ==
  LET q == call[c] IN
  /\ q.at = "answered" /\ Repeatable(q) /\ ~q.again
  /\ call' = [call EXCEPT ![c] = [Sent(q, memory[q.tab], cookie) EXCEPT !.again = TRUE,
                                                                      !.retried = FALSE]]
  /\ UNCHANGED <<cookie, serverVars, tabVars, refreshing, lost>>

GiveUp(c) ==
  LET q == call[c] IN
  /\ q.at = "answered"
  /\ \/ q.answer = "unauthorized" /\ q.retried
     \/ q.answer = "failed" /\ (q.again \/ ~Repeatable(q))
  /\ End(c)
  /\ UNCHANGED <<cookie, serverVars, loaded, refreshing, lost>>

WaitingIn(t) == {c \in Calls : call[c].tab = t /\ call[c].at = "waiting"}

Refreshed(t) ==
  LET r == refreshing[t] IN
  /\ r.at = "answered" /\ r.answer = "ok"
  /\ cookie' = r.new
  /\ memory' = [memory EXCEPT ![t] = r.new]
  /\ refreshing' = [refreshing EXCEPT ![t] = NoRefresh]
  /\ call' = [c \in Calls |-> IF c \in WaitingIn(t) THEN Sent(call[c], r.new, r.new) ELSE call[c]]
  /\ UNCHANGED <<serverVars, signedIn, loaded, lost>>

(* A page that is left: what is under way in the tab is forgotten. *)
Leave(t) ==
  /\ lost' = lost \cup Spent(refreshing[t])
                  \cup UNION {Spent(call[c]) : c \in {d \in Calls : call[d].tab = t}}
  /\ memory' = [memory EXCEPT ![t] = NoToken]
  /\ signedIn' = [signedIn EXCEPT ![t] = FALSE]
  /\ loaded' = loaded \ {t}
  /\ refreshing' = [refreshing EXCEPT ![t] = NoRefresh]
  /\ call' = [c \in Calls |-> IF call[c].tab = t THEN NoCall ELSE call[c]]

(* refreshAccessToken goes past the interceptors, so its own 401 ends it.  *)
(* Mutant: through them, it waits for the refresh, which is itself.        *)
EndsUnlessRefused(r) == r.at = "answered" /\ r.answer = "failed"
EndsInVain(r) == r.at = "answered" /\ r.answer # "ok"

(* The calls that waited fail, and the browser leaves for /login, unless   *)
(* it is there.                                                            *)
RefreshRefused(t, away) ==
  /\ EndsInVain(refreshing[t])
  /\ IF away
     THEN Leave(t)
     ELSE /\ refreshing' = [refreshing EXCEPT ![t] = NoRefresh]
          /\ memory' = [memory EXCEPT ![t] = NoToken]
          /\ signedIn' = [signedIn EXCEPT ![t] =
                            @ /\ \A c \in WaitingIn(t) : call[c].kind \notin {"logout", "hydrate"}]
          /\ call' = [c \in Calls |-> IF c \in WaitingIn(t) THEN NoCall ELSE call[c]]
          /\ UNCHANGED <<loaded, lost>>
  /\ UNCHANGED <<cookie, serverVars>>

Reload(t) ==
  /\ t \in loaded
  /\ Leave(t)
  /\ UNCHANGED <<cookie, serverVars>>

-----------------------------------------------------------------------------
ServeCall(c) ==
  \/ Refuse(c) \/ Execute(c) \/ LogIn(c) \/ SwitchAccount(c) \/ Hydrate(c)
  \/ \E reached \in BOOLEAN : LogOut(c, reached)

Arrive(c) == Succeed(c) \/ AwaitRefresh(c) \/ TryAgain(c) \/ GiveUp(c)

ArriveRefresh(t) == Refreshed(t) \/ \E away \in BOOLEAN : RefreshRefused(t, away)

BrowserNext ==
  \/ \E c \in Calls : \/ \E t \in Tabs, kind \in Kinds : StartCall(c, t, kind)
                      \/ ServeCall(c) \/ CallFails(c) \/ Arrive(c)
  \/ \E t \in Tabs : ServeRefresh(t) \/ RefreshFails(t) \/ ArriveRefresh(t) \/ Reload(t)
  \/ \E p \in TokenPairs : AccessExpires(p)

(* Requests time out after 15 s, and the tab handles what arrives. *)
BrowserFairness ==
  /\ \A c \in Calls :
       /\ WF_browserVars(call[c].at = "sent" /\ (ServeCall(c) \/ CallFails(c)))
       /\ WF_browserVars(Arrive(c))
  /\ \A t \in Tabs :
       /\ WF_browserVars(refreshing[t].at = "sent" /\ (ServeRefresh(t) \/ RefreshFails(t)))
       /\ WF_browserVars(ArriveRefresh(t))

BrowserSpec == BrowserInit /\ [][BrowserNext]_browserVars /\ BrowserFairness

-----------------------------------------------------------------------------
(* The refresh token in the jar is good for a refresh, whatever the tabs   *)
(* do at one time, unless the answer with its successor, or the one that   *)
(* deletes it, is on the way or was lost.                                  *)
CookieIsGood ==
  cookie # NoToken =>
    \/ cookie \in refreshes \cup lost
    \/ \E c \in Calls : call[c].at = "answered" /\ cookie \in Spent(call[c])
    \/ \E t \in Tabs : refreshing[t].at = "answered" /\ cookie \in Spent(refreshing[t])

(* A call that changes something is executed once, through the refresh and *)
(* both kinds of retry.                                                    *)
MutationOnce == \A c \in Calls : call[c].kind = "write" => call[c].ran <= 1

(* Every call ends: none waits for ever on a refresh that waits on itself. *)
CallEnds == \A c \in Calls : call[c].at # "idle" ~> call[c].at = "idle"
=============================================================================
