------------------------------- MODULE Access -------------------------------
(***************************************************************************)
(* Who may call what. The gateway judges a call by the claims of its token *)
(* and sends it on with that token; each service judges it again, most by  *)
(* the same claims, tenant-service by its rows, auth-service by its        *)
(* sessions; and some services pass it on to others, with the token that   *)
(* came or with the internal one that they share.                          *)
(*                                                                         *)
(* One client is followed, with the token it has and one call of it or of  *)
(* a message. The members that tenant-service judges by are those of       *)
(* Membership; the gateway's limits are those of RateLimit. A route is     *)
(* named by its service and its handler.                                   *)
(***************************************************************************)
EXTENDS Membership, RateLimit, Sequences

VARIABLES
  superadmins,  \* users whose platform_role is SuperAdmin, and the platform's own
  token,        \* claims of the client's access token
  session,      \* of that token: whether Redis has it
  call          \* the call under way

accessVars == <<superadmins, token, session, call>>

Accounts == {"own", "team"}
Claims == [user : Users, account : Accounts, role : Roles, platform : BOOLEAN]
NoToken == [user |-> None, account |-> "none", role |-> "none", platform |-> FALSE]

\* What a service takes the internal token for.
Internal == [user |-> None, account |-> "none", role |-> "owner", platform |-> TRUE]

IsOwner(b) == b.role = "owner" \/ b.platform
Manages(b) == b.role \in {"owner", "admin"} \/ b.platform
InScope(b, a) == b.account = a \/ b.platform

-----------------------------------------------------------------------------
(* The services: their routes by what each asks for, and whether the bearer b may call *)
(* route r about account a. A token that is no JWT is refused where the internal one is *)
(* not known. *)

\* Mutant: only owners may spend.
SpendingByOwners ==
  [any |-> {"credits/balance", "credits/summary", "credits/transactions", "credits/overview",
            "credits/listings"},
   owner |-> {"credits/consume", "credits/create_listing", "credits/cancel_listing",
              "credits/purchase", "credits/confirm_purchase", "credits/cancel_purchase"},
   internal |-> {"credits/balance_internal"}]

CreditsRoutes ==
  [any |-> {"credits/balance", "credits/summary", "credits/consume", "credits/transactions",
            "credits/overview", "credits/listings"},
   owner |-> {"credits/create_listing", "credits/cancel_listing", "credits/purchase",
              "credits/confirm_purchase", "credits/cancel_purchase"},
   internal |-> {"credits/balance_internal"}]

CreditsPermits(r, b) ==
  \/ r \in CreditsRoutes.internal /\ b = Internal
  \/ r \in CreditsRoutes.any /\ b # Internal
  \/ r \in CreditsRoutes.owner /\ b # Internal /\ IsOwner(b)

BillingRoutes ==
  {"billing/overview", "billing/invoices", "billing/get_subscription", "billing/checkout",
   "billing/credit_checkout", "billing/portal", "billing/create_escrow",
   "billing/capture_escrow", "billing/change_subscription", "billing/refund"}

BillingPermits(r, b) == r \in BillingRoutes /\ b # Internal /\ IsOwner(b)

UsageRoutes == [own |-> {"usage/check_quota"}, scoped |-> {"usage/summary", "usage/ledger"}]

UsagePermits(r, b, a) ==
  /\ r \in UsageRoutes.own \cup UsageRoutes.scoped
  /\ r \in UsageRoutes.scoped => InScope(b, a)

ContentRoutes ==
  [own |-> {"content/list", "content/create"},
   item |-> {"content/get", "content/update", "content/delete", "content/approve",
             "content/publish", "content/upload_image"},
   manager |-> {"content/publish"}]

ContentPermits(r, b, a) ==
  /\ r \in ContentRoutes.own \cup ContentRoutes.item
  /\ r \in ContentRoutes.item => InScope(b, a)
  /\ r \in ContentRoutes.manager => Manages(b)

SchedulerRoutes ==
  [own |-> {"scheduler/calendar", "scheduler/schedule", "scheduler/summary"},
   item |-> {"scheduler/get", "scheduler/reschedule", "scheduler/cancel"}]

SchedulerPermits(r, b, a) ==
  /\ r \in SchedulerRoutes.own \cup SchedulerRoutes.item
  /\ b # Internal
  /\ r \in SchedulerRoutes.item => InScope(b, a)

PublishingRoutes ==
  [any |-> {"publishing/get", "publishing/refresh_tokens"},
   manager |-> {"publishing/connect", "publishing/connect_dev", "publishing/disconnect",
                "publishing/publish_content", "publishing/publish_manual"},
   item |-> {"publishing/disconnect"}]

\* A post of another account is refused only once content-service has given its text.
PublishingPermits(r, b, a) ==
  /\ r \in PublishingRoutes.any \cup PublishingRoutes.manager
  /\ b # Internal
  /\ r \in PublishingRoutes.manager => Manages(b)
  /\ r \in PublishingRoutes.item => InScope(b, a)

ScraperRoutes ==
  [own |-> {"scraper/list_jobs", "scraper/create_job"},
   item |-> {"scraper/get_job", "scraper/cancel_job", "scraper/list_documents",
             "scraper/get_document"},
   manager |-> {"scraper/create_job", "scraper/cancel_job"}]

ScraperPermits(r, b, a) ==
  /\ r \in ScraperRoutes.own \cup ScraperRoutes.item
  /\ r \in ScraperRoutes.item => InScope(b, a)
  /\ r \in ScraperRoutes.manager => Manages(b)

NotificationRoutes == {"notifications/list"}
NotificationPermits(r, b) == r \in NotificationRoutes /\ b # NoToken

\* The check of ownership asks for no token: its answer names the account.
AIRoutes ==
  [any |-> {"ai/overview", "ai/start", "ai/history", "ai/generate_image"},
   item |-> {"ai/get", "ai/cancel", "ai/stream", "ai/delete_history"},
   open |-> {"ai/ownership"}]

AIPermits(r, b, a) ==
  /\ r \in UNION {AIRoutes.any, AIRoutes.item, AIRoutes.open}
  /\ r \notin AIRoutes.open => b # Internal
  /\ r \in AIRoutes.item => InScope(b, a)

AdminRoutes ==
  [own |-> {"admin/overview"},
   scoped |-> {"admin/list_sessions", "admin/revoke_session", "admin/account_summary",
               "admin/list_audit"}]

AdminPermits(r, b, a) ==
  /\ r \in AdminRoutes.own \cup AdminRoutes.scoped
  /\ r \in AdminRoutes.scoped => InScope(b, a)

TenantRoutes ==
  [any |-> {"tenant/create_account", "tenant/list_my_accounts", "tenant/accept_invite"},
   member |-> {"tenant/get_account", "tenant/list_members"},
   self |-> {"tenant/my_membership"},
   manager |-> {"tenant/update_account", "tenant/update_role", "tenant/remove_member",
                "tenant/invite", "tenant/list_invites"},
   platform |-> {"tenant/list_all_accounts"},
   internal |-> {"tenant/owner_internal", "tenant/summary_internal"}]

\* The role of a user in the account, by its row.
Row(u, a) ==
  IF a = "team" THEN member[u].role ELSE IF u \in account THEN "owner" ELSE "none"

TenantPermits(r, b, a) ==
  \/ r \in TenantRoutes.internal /\ b = Internal
  \/ /\ b # Internal
     /\ \/ r \in TenantRoutes.any
        \/ r \in TenantRoutes.member /\ (b.platform \/ Row(b.user, a) # "none")
        \/ r \in TenantRoutes.self /\ Row(b.user, a) # "none"
        \/ r \in TenantRoutes.manager /\ (b.platform \/ Row(b.user, a) \in {"owner", "admin"})
        \/ r \in TenantRoutes.platform /\ b.platform

AuthRoutes ==
  [any |-> {"auth/me", "auth/switch_account", "auth/logout"},
   platform |-> {"auth/list_users", "auth/update_platform_role"},
   internal |-> {"auth/get_user_internal"}]

AuthPermits(r, b) ==
  \/ r \in AuthRoutes.internal /\ b = Internal
  \/ r \in AuthRoutes.any /\ b # Internal
  \/ r \in AuthRoutes.platform /\ b # Internal /\ b.user \in superadmins

-----------------------------------------------------------------------------
(* The gateway *)

GatewayRoutes == {"gateway/dashboard", "gateway/stream", "gateway/admin_overview"}

\* admin-service's own overview is hidden by the gateway's.
EdgeAdmin == AdminRoutes.scoped \cup {"gateway/admin_overview"}

\* Mutant: the list without the customer portal.
EdgeOwnerButPortal ==
  CreditsRoutes.owner \cup
  {"billing/overview", "billing/invoices", "billing/get_subscription", "billing/checkout",
   "billing/credit_checkout", "billing/create_escrow", "billing/capture_escrow",
   "billing/change_subscription", "billing/refund"}

EdgeOwner ==
  {"credits/create_listing", "credits/cancel_listing", "credits/purchase",
   "credits/confirm_purchase", "credits/cancel_purchase"} \cup
  {"billing/overview", "billing/invoices", "billing/portal", "billing/refund",
   "billing/create_escrow", "billing/capture_escrow", "billing/credit_checkout"} \cup
  {"billing/checkout", "billing/change_subscription", "billing/get_subscription"}

EdgeManager == {"tenant/update_role", "tenant/remove_member", "tenant/invite", "tenant/list_invites"}

EdgePermits(r, b) ==
  /\ r \in EdgeAdmin => b.platform
  /\ r \in EdgeOwner => IsOwner(b)
  /\ r \in EdgeManager => Manages(b)

\* The service that a path is sent to judges it.
Permits(r, b, a) ==
  \/ r \in GatewayRoutes
  \/ CreditsPermits(r, b)
  \/ BillingPermits(r, b)
  \/ UsagePermits(r, b, a)
  \/ ContentPermits(r, b, a)
  \/ SchedulerPermits(r, b, a)
  \/ PublishingPermits(r, b, a)
  \/ ScraperPermits(r, b, a)
  \/ NotificationPermits(r, b)
  \/ AIPermits(r, b, a)
  \/ AdminPermits(r, b, a)
  \/ TenantPermits(r, b, a)
  \/ AuthPermits(r, b)

ByRow == UNION {TenantRoutes.member, TenantRoutes.self, TenantRoutes.manager}

\* Routes that name an account, or a thing of one: it may be any account.
Naming ==
  UNION {ByRow, UsageRoutes.scoped, ContentRoutes.item, SchedulerRoutes.item,
         PublishingRoutes.item, ScraperRoutes.item, AIRoutes.item, AdminRoutes.scoped,
         {"publishing/publish_content", "auth/switch_account", "gateway/stream"}}

Hidden == {"admin/overview", "ai/stream"}     \* by routes of the gateway

Routes ==
  UNION {Naming, CreditsRoutes.any, CreditsRoutes.owner, CreditsRoutes.internal, BillingRoutes,
         UsageRoutes.own, ContentRoutes.own, SchedulerRoutes.own, PublishingRoutes.any,
         PublishingRoutes.manager, ScraperRoutes.own, NotificationRoutes, AIRoutes.any,
         TenantRoutes.any, TenantRoutes.platform, TenantRoutes.internal,
         AuthRoutes.any, AuthRoutes.platform, AuthRoutes.internal, GatewayRoutes} \ Hidden

-----------------------------------------------------------------------------
(* Calls that are passed on *)

\* Two of the dashboard's six targets have no route: they are reported as degraded.
Unserved == {"content/summary", "notifications/summary"}

DashboardTargets ==
  <<"tenant/list_my_accounts", "credits/summary", "usage/summary", "content/summary",
    "scheduler/summary", "notifications/summary">>

SummaryTargets == <<"tenant/summary_internal", "credits/balance_internal", "usage/summary">>

\* A generation asks for the quota, and pays when it has run, long after the answer.
GenerationTargets == <<"usage/check_quota", "credits/consume">>

NoticeTargets == <<"tenant/owner_internal", "auth/get_user_internal">>

PassesOn(r) ==
  CASE r = "gateway/dashboard" -> DashboardTargets
    [] r = "gateway/stream" -> <<"ai/ownership">>
    [] r = "admin/account_summary" -> SummaryTargets
    [] r = "ai/start" -> GenerationTargets
    [] r = "credits/purchase" -> <<"billing/create_escrow">>
    [] r = "credits/confirm_purchase" -> <<"billing/capture_escrow">>
    [] r = "publishing/publish_content" -> <<"content/get">>
    [] r = "auth/switch_account" -> <<"tenant/my_membership">>
    [] r = "notices/consume" -> NoticeTargets
    [] r = "publishing/consume" -> <<"content/get">>
    [] OTHER -> <<>>

\* Handlers of messages, and the summary for the back office, have no user's token to send.
Messages == {"notices/consume", "publishing/consume"}
Carried == IF call.route \in Messages \cup {"admin/account_summary"} THEN Internal ELSE call.bearer

\* A refusal is noted, and the others are asked all the same.
Lenient == {"gateway/dashboard", "admin/account_summary"}

\* Every service refuses a token that has expired; only auth-service asks for its session.
Live(r, valid) ==
  \/ valid = "live"
  \/ valid = "revoked" /\ r \notin AuthRoutes.platform \cup {"auth/me", "auth/switch_account"}

NoCall == [at |-> "none", route |-> "none", account |-> "none", bearer |-> NoToken,
           valid |-> "live", rest |-> <<>>, role |-> "none"]

AccessTypeOK ==
  /\ TypeOK
  /\ LimiterTypeOK
  /\ superadmins \subseteq Users \cup {Platform}
  /\ token \in Claims \cup {NoToken}
  /\ session \in {"live", "revoked", "expired"}
  /\ call.at \in {"none", "admitted", "passing", "switching"}
  /\ call.route \in Routes \cup Messages \cup {"none"}
  /\ call.bearer \in Claims \cup {NoToken, Internal}
  /\ call.role \in Roles \cup {"none"}

AccessInit ==
  /\ Init
  /\ LimiterInit
  /\ superadmins = {Platform}
  /\ token = NoToken
  /\ session = "live"
  /\ call = NoCall

-----------------------------------------------------------------------------
(* Tokens *)

Issue(u, a, role) ==
  /\ token' = [user |-> u, account |-> a, role |-> role, platform |-> u \in superadmins]
  /\ session' = "live"

LogIn(u) ==
  /\ signup[u] # "none"
  /\ Issue(u, "own", "owner")
  /\ UNCHANGED <<superadmins, call>>

\* The account and the role are those of the refresh token.
Refresh ==
  /\ token # NoToken
  /\ Issue(token.user, token.account, token.role)
  /\ UNCHANGED <<superadmins, call>>

\* It ends the sessions of the user, whichever way the role goes.
SetPlatformRole(u) ==
  /\ IF u \in superadmins
     THEN /\ Cardinality(superadmins) > 1
          /\ superadmins' = superadmins \ {u}
     ELSE superadmins' = superadmins \cup {u}
  /\ session' = IF token.user = u /\ session = "live" THEN "revoked" ELSE session
  /\ call' = IF call.bearer.user = u /\ call.valid = "live" THEN [call EXCEPT !.valid = "revoked"]
             ELSE call
  /\ UNCHANGED token

EndSession(how) ==
  /\ token # NoToken
  /\ session = "live"
  /\ session' = how
  /\ UNCHANGED <<superadmins, token, call>>

\* While a call is under way its token may expire, or be revoked in another window.
CallTokenEnds(how) ==
  /\ call.at # "none"
  /\ call.bearer # Internal
  /\ call.valid = "live"
  /\ call' = [call EXCEPT !.valid = how]
  /\ UNCHANGED <<superadmins, token, session>>

-----------------------------------------------------------------------------
(* Calls *)

\* A refusal, or one for too many calls, leaves everything as it is.
Admit(r, a) ==
  /\ call.at = "none"
  /\ token # NoToken
  /\ session = "live"
  /\ r \notin Naming => a = token.account
  /\ EdgePermits(r, token)
  /\ call' = [NoCall EXCEPT !.at = "admitted", !.route = r, !.account = a, !.bearer = token]
  /\ UNCHANGED <<superadmins, token, session>>

\* The rest of a call that is answered at once is that of its service's module.
Forward ==
  /\ call.at = "admitted"
  /\ call' =
       IF /\ Live(call.route, call.valid)
          /\ Permits(call.route, call.bearer, call.account)
          /\ PassesOn(call.route) # <<>>
       THEN [call EXCEPT !.at = "passing", !.rest = PassesOn(call.route)]
       ELSE NoCall
  /\ UNCHANGED <<superadmins, token, session>>

Deliver(m, a) ==
  /\ call.at = "none"
  /\ call' = [NoCall EXCEPT !.at = "passing", !.route = m, !.account = a, !.bearer = Internal,
                            !.rest = PassesOn(m)]
  /\ UNCHANGED <<superadmins, token, session>>

Granted == Live(Head(call.rest), call.valid) /\ Permits(Head(call.rest), Carried, call.account)

PassOn ==
  /\ call.at = "passing"
  /\ call' =
       CASE Granted /\ call.route = "auth/switch_account" ->
              [call EXCEPT !.at = "switching", !.rest = <<>>,
                           !.role = Row(call.bearer.user, call.account)]
         [] (Granted \/ call.route \in Lenient) /\ Len(call.rest) > 1 ->
              [call EXCEPT !.rest = Tail(@)]
         [] OTHER -> NoCall
  /\ UNCHANGED <<superadmins, token, session>>

\* The role is the one that tenant-service has answered.
IssueSwitched ==
  /\ call.at = "switching"
  /\ Issue(call.bearer.user, call.account, call.role)
  /\ call' = NoCall
  /\ UNCHANGED superadmins

AccessStep ==
  \/ \E u \in Users : LogIn(u) \/ SetPlatformRole(u)
  \/ Refresh
  \/ \E how \in {"revoked", "expired"} : EndSession(how) \/ CallTokenEnds(how)
  \/ \E r \in Routes, a \in Accounts : Admit(r, a)
  \/ Forward
  \/ \E m \in Messages, a \in Accounts : Deliver(m, a)
  \/ PassOn
  \/ IssueSwitched

AccessNext ==
  \/ Next /\ UNCHANGED <<limiterVars, accessVars>>
  \/ LimiterNext /\ UNCHANGED <<vars, accessVars>>
  \/ AccessStep /\ UNCHANGED <<vars, limiterVars>>

AccessSpec == AccessInit /\ [][AccessNext]_<<vars, limiterVars, accessVars>>

-----------------------------------------------------------------------------
(* Properties *)

\* The account and the role of the token are still those of a member.
Current(b) == b.platform \/ b.role = Row(b.user, b.account)

\* About the token's own account, the gateway asks for a role exactly where the service
\* does: it turns nobody away whom the service would serve, and leaves none of its refusals
\* to the service alone, unless the role has changed since the token was issued.
EdgeAgrees ==
  token # NoToken /\ call = NoCall =>
    \A r \in UNION {EdgeOwner, EdgeManager, CreditsRoutes.owner, BillingRoutes} :
      (r \in ByRow => Current(token)) =>
        (EdgePermits(r, token) <=> Permits(r, token, token.account))

\* What a service has begun for a caller no other service refuses it, as long as the token
\* lives: no reservation without an escrow, no generation that nobody pays.
PassedOnIsPermitted ==
  call.at = "passing" /\ call.valid # "expired" =>
    LET next == Head(call.rest) IN
    \/ next \in Unserved
    \/ next = "tenant/my_membership" /\ Row(call.bearer.user, call.account) = "none"
    \/ call.route = "publishing/publish_content" /\ ~InScope(call.bearer, call.account)
    \/ Permits(next, Carried, call.account)
=============================================================================
