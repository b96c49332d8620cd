# CreditFlow: TLA+ models and proofs

CreditFlow is a set of Python services around RabbitMQ, Redis and Stripe: customers pay for credits, spend
them on generated texts, sell them to each other, and have the texts posted on LinkedIn at a time of their
choice. This project models the services in which money, credits, texts, accounts and posts pass from one
place to another, or in which several requests, messages or workers meet on one row. TLC checks the models on
small instances; TLAPS proves the safety properties for every instance.

## Reading guide

| module | what it is | run | theorems in |
|---|---|---|---|
| `Credits` | credits-service: ledger, usage, billing events, marketplace; the escrow endpoints and Stripe's payment intents as it uses them | `credits` | `CreditsProofs` |
| `EscrowSale` | what a marketplace sale promises, without requests, reads or retries; `Credits` implements it | `credits` | `CreditsProofs` |
| `Payments` | gateway webhooks, billing-service's inbox, outbox and refunds, the two queues, credits-service's consumer; implements `Credits` restricted to billing events | `payments` | `BillingProofs` |
| `Subscriptions` | billing-service: checkout, plan changes, subscription webhooks, dunning, and Stripe's side of them | `subscriptions` | `BillingProofs` |
| `Scheduler` | scheduler-service: calendar, Celery task, Redis locks, `content.deleted` | `scheduler` | `SchedulerProofs` |
| `Publishing` | social-publishing-service: connections, `content.scheduled`, publish jobs, users who publish at once | `publishing` | `PublishingProofs` |
| `Library` | content-service: drafts, approval, publication, history, drafts of generations | `library` | `RecordsProofs` |
| `Generation` | ai-generation-service's background task and usage-service: quota, ledger, thresholds | `generation` | `GenerationProofs` |
| `Sessions` | auth-service: token pairs, access sessions, password resets, platform roles | `sessions` | `SignInProofs` |
| `Membership` | tenant-service: members, owners, invitations, accounts and plans; auth-service's signup | `access` | `AccessProofs` |
| `RateLimit` | api-gateway's sliding window: clocks, Redis' script and the key's expiry | `access` | `AccessProofs` |
| `Access` | who may call what: tokens and their claims, the gateway's roles and every service's own, calls that are passed on; composed of `Membership` and `RateLimit` | `access` | `AccessProofs` |
| `Scraping` | scraper-service: jobs in MongoDB, its worker, recurring jobs | `backoffice` | `RecordsProofs` |
| `Notices` | notification-service: mails and alerts for the platform's events, and their log | `backoffice`, `notices_resent` | `RecordsProofs` |
| `BackOffice` | admin-service's audit trail, composed of `Scraping` and `Notices` | `backoffice` | `RecordsProofs` |
| `Browser` | the web client's calls, tokens and retries; the gateway's session check and its cookie | `browser` | `SignInProofs` |
| `MC…` | values of the constants, symmetry and constraints for TLC | | |

Read `Scheduler` first: it is short and shows every convention. Commands, in this directory:
`tlc -workers 2 -config publishing.cfg MCPublishing`, `tlapm PublishingProofs.tla`. `PROJECT.json` lists every
run, the source lines of every definition, a mutant for every checked property, and the hazards of the code.

## Inventory

### How the parts interact

The browser talks to api-gateway, which checks tokens and forwards to the services over HTTP. Services call
each other over HTTP, with the token of the caller (credits-service → billing-service for escrow,
ai-generation-service → credits-service and usage-service, auth-service → tenant-service) or with one internal
token that they share (social-publishing-service → content-service for scheduled posts, notification-service and
admin-service → tenant-service and others), and tell each other what happened by events on topic exchanges. Each consumer has a durable quorum queue with
`x-delivery-limit` 5 and a dead-letter exchange, 20 unacknowledged messages at a time, and
`message.process(requeue=True)`: a handler that raises returns its message. Each remembers event ids in a
`processed_events` table. Most events are published to the service's own exchange *and* to
`creditflow.events`; a queue bound to both receives them twice. State is in PostgreSQL, one schema for each
service, read and written under READ COMMITTED; locks, counters and deduplication keys are in Redis.

Calls to Stripe are synchronous and block the event loop of their process. The interleavings around them that
the models show are therefore those of several processes of a service, for which the code is written: the
outbox and the dunning poller take their rows with `SKIP LOCKED`.

### Components

| component | state | operations | hard behaviours | what makes it correct |
|---|---|---|---|---|
| credits-service, ledger | `credits_ledger` (the balance is its sum), `processed_events` | `consume_credits`, `consume` of `invoice.paid`, `credits.purchased`, `refund.issued` | check-then-insert under READ COMMITTED, retries with a reference id, redelivered events whose handlers overlap | applied exactly once; a refund takes back what was granted |
| credits-service, marketplace | `marketplace_listings` | create, cancel, reserve, attach the escrow, confirm, release, sweep of old reservations (on every view) | a purchase and its confirmation are several transactions with calls to billing-service and Stripe between them; the sweep or another buyer comes between | sold only to whom paid for this listing; credits move once; sold and cancelled are final; reservations end |
| billing-service, webhooks | `subscription_events` (inbox), `invoices`, `outbox_events` | `handle_gateway_event` (two transactions), outbox publisher | redelivery, concurrent deliveries of one event, a publication that fails after the broker took the message | nothing lost, nothing granted twice |
| billing-service, refunds and escrow | `refunds`, Stripe's refunds and payment intents | `refund`, `create_escrow`, `capture_escrow` | Stripe's effect is outside the transaction | what is committed is told |
| billing-service, subscriptions | `subscriptions`, Stripe's subscriptions | checkout, `change_plan`, subscription and invoice webhooks, `downgrade_overdue` | a row merged over a webhook's update, webhooks in any order, a dunning loop that ends at its first exception | nobody is downgraded once the payment is recorded |
| api-gateway, webhooks | Redis keys `webhook:<provider>:<id>` | `process` | the key is set before the publication | what is published is not lost |
| api-gateway, sessions | (the browser's cookie) | session check, login, refresh, switch, logout, proxy | the answer that carries a new cookie is lost | the cookie is good for a refresh |
| api-gateway, roles | (the claims of the token) | `enforce_route_role`, proxy, dashboard | tables of roles kept apart from the services that ask for them; roles that change under a token | it turns away whom the service would refuse, and nobody else |
| api-gateway, limits | sorted sets `rate:<account or ip>` in Redis | `RateLimiter.check` | the clock is read before the script runs, the key expires in between, calls of one request id | a window lets through no more than its limit |
| api-gateway, rest | | CSRF, server-sent events | | (stateless) |
| scheduler-service | `scheduled_posts`, `processed_events`, Redis locks | schedule, reschedule, cancel, `fire_due`, `consume` of `content.deleted` | overlapping Celery tasks, a lock that only expires, status written by requests without the lock, crash with the lock held, a content in two accounts' calendars | fired at most once; a cancellation is respected; nothing due stays due; a deletion reaches the calendar |
| social-publishing-service | `social_connections`, `publish_jobs`, `processed_events` | connect, callback, disconnect, publish now, `consume` of `content.scheduled` | both exchanges deliver the event, `processed_events` is looked at long before it is written, LinkedIn's answer is lost, a connection is revoked under queued jobs | noted only after an attempt that was announced; nothing afterwards; nothing through a revoked connection |
| content-service | `content`, `content_versions`, `processed_events` | create, edit, approve, publish, delete, drafts from `ai.generation_*` | edit racing approve and publish without a lock, doubled events, deletion overtaking completion | what is published was approved; every version is kept; late deliveries do not draft again |
| ai-generation-service | `generation_jobs`, `prompt_history`, in-process tasks, Redis keys | start, run, cancel, charge, announce | a restart loses the task; whatever fails after the stream makes the fallback model answer | a delivered answer is final; only kept answers are charged |
| usage-service | `usage_ledger`, quota counter and markers in Redis | reserve, record, thresholds | a counter written by reservations and by sums, handlers that overlap | a generation counts once; a threshold is told once |
| tenant-service | accounts, members, invites, `processed_events` | create, invite, accept, change role, remove, `user.registered`, `invoice.paid` | owners act on each other, an invitation used twice, an old plan redelivered or still being handled | an Owner stays; nobody joins uninvited; a recorded plan does not come back |
| auth-service | credentials, refresh tokens, codes; sessions and counters in Redis | signup, verify, login, refresh, switch, logout, reset, platform roles | two refreshes with one token, a reset racing a login, parallel guesses | a token is exchanged once; a reset leaves no other login; guesses are bounded |
| scraper-service | jobs, documents, `processed_events` in MongoDB | create, cancel, `consume` of `scrape.requested`, scan of recurring jobs | whole documents replaced by copies read before, two messages for one request, a loop that ends at its first exception | a job that has ended stays so; a recurring job recurs |
| notification-service | `notification_log`, `processed_events` | `consume` of nine types of events: mail, Slack, log, `notification.sent` | a step fails after the mail went out; no event id reaches the service | what is acknowledged is in the log |
| admin-service | `audit_log` | `consume` of every event | any event comes again | an event is there once, and is true |
| frontend, API client | access token and session of each tab, the shared cookie | calls, refresh, retries, hydration | several calls and tabs need one refresh; answers are lost; pages are reloaded | nothing is executed twice, every call ends |
| frontend, pages; migrations, deployment | no state of the system | | | |

"hazards" in `PROJECT.json` gives the lines where these behaviours bite, and which property covers each.

## The models

### Common conventions

* An operation is cut where the code awaits something outside its transaction, or commits: what one action
  does is what no other request can come between. Under READ COMMITTED that is a read, or a commit with the
  checks that its locks and unique indexes repeat.
* A request in flight is a record (`req`, `gateway`, `scan`, `edit`, `request`, `task`), which carries what the
  handler has read so far; a message carries the progress of its own handler, since up to 20 messages of a
  queue are handled at a time. `Crash`, `…Raises`, `…Ends`, `Die` and `Return…` drop that record and keep what
  was committed. A returned message comes again until its limit.
* SQLAlchemy writes the columns that differ from what was read, so two transactions on a row can both win:
  `Library!Updated`, `Subscriptions!Written` and `Membership!CommitMember` are made so.
* Time is nondeterministic: `ReservationAges`, `ListingExpires`, `BecomesDue`, `DedupExpires`, `LockExpires`,
  `SessionExpires` and `WindowEnds` may happen at any step at which the code's clocks allow them.
* Identifiers, amounts and contents are model values or small numbers. Titles, currencies and time zones are
  left out. Permissions are in `Access`; the other modules start where a caller has been let in.

### Credits and EscrowSale

`ledger` is the set of `credits_ledger` rows (`n` tells equal rows apart), `processed` the event and reference
ids already applied, `listing` the rows of the marketplace, `intents` the states of Stripe's payment intents,
of which there is one for a listing and a buyer because of the idempotency key in stripe.py:140 (its expiry
after 24 hours is not modelled). `stale` are the reservations older than 15 minutes, `expired` the listings
past `expires_at`.

* `ConsumeCredits`, `CommitDebit`: the check of the reference and the balance, then the commit. The balance
  may have changed in between.
* `Consume`, `CommitEvent`: the check of `processed_events` and the search for the grant that a refund takes
  back, then the commit, which the unique index on the event id refuses to a second handler.
* `ReadBalance`, `ReadOffers`, `CreateListing`: `create_listing` with its two reads.
* `ReservePurchase`, `CreateEscrow`/`EscrowUnavailable`, `SetPaymentIntent`, `UndoPurchase`: `purchase`.
* `CaptureEscrow`, `CheckPurchase`, `CompletePurchase`: `confirm_purchase`. Between the last two the row is
  locked (`FOR UPDATE`), which is what `Locked` says: a request at pc `transfer` holds the row.
* `CancelPurchase`, `CancelListing`, `SweepListings`, `ReservationAges`, `ListingExpires`,
  `CustomerAuthorizes`, `Crash`.

Left out: the notifications after a commit (`_balance_events`), which no modelled state depends on; intents
that belong to somebody else, which `capture_escrow` checks only after the capture; and the branch of
`complete_purchase` for an already sold listing, which cannot be reached through `confirm_purchase`, since
Stripe refuses to capture an intent twice.

`EscrowSale` is the sale as a buyer understands it: a listing is open, held for one buyer, sold or cancelled;
it is delivered in one step to the holder whose card was charged. `SaleSpec` maps `Credits` to it: status to
stage, buyer to holder, captured intents to charges, purchase rows to deliveries.

### Payments

One Stripe event for each payment in `Charges` (an invoice, or a credit pack), one request for each refund.

* Gateway: `ReceiveWebhook` sets the Redis key, `PublishWebhook`, `AnswerWebhook`; a second request for the
  same event finds the key and is answered. `PublishFails`, `GatewayCrash`, `DedupExpires`.
* billing-service: `StoreHook` is the first transaction, which adds the inbox row; `LockHook` selects it
  `FOR UPDATE`; `ApplyHook` commits invoice, outbox row and `processed`. `EarlierHook` stands for an earlier
  webhook of the same invoice, which adds the invoice's row. When none came, the event's invoice id is the
  text `None`: the event is in `unnamed`. `IgnoreHook` is the handler that finds no subscription: the webhook
  is marked all the same. `strangers`, chosen at the start, are the payments for which that is so.
* Outbox: `TakeBatch` (rows locked, `SKIP LOCKED`), `PublishEvent` for each, `CommitBatch` or `FailBatch`.
* Refunds: `CreateRefund` is Stripe's, `CommitRefund` the transaction after it, `RefundCrash` in between.
* credits-service: `CheckEvent`, `CommitEvent`, `AckEvent`, `ReturnEvent`, like `Consume` and `CommitEvent` of
  `Credits`. `rows` are the rows of `credits_ledger`, each with the event it was added for, which the table does
  not have, and its number among the rows like it, as in `Credits` (`LedgerRow`, `NewEntry`). `LedgerSpec` says
  that the two modules describe one consumer: with `ledger`, `processed` and `req` computed from the pipeline,
  every step is a step of `Credits` or none. `EventsAsAssumed` discharges what `Credits` assumes of its events.

### Subscriptions

One account. `row` is its subscription, `stripe` what Stripe knows of its subscriptions and open checkouts.
A webhook (`Tell`) carries the state of its moment and is handled whenever: `ReadForWebhook`, `CommitWebhook`,
`WebhookRaises`. `ReadForChange`, `CallStripe`, `MergeChange`, `CommitChange` are `change_plan`: the session that
ends it loads the row, puts the row of before the call to Stripe over it, and writes the columns in which the
two differ. `ReadForCheckout`, `OpenCheckout` are `checkout`. `TakeOverdue` locks the row, `CancelOverdue`
tells Stripe, `CommitDowngrade` writes; `PollerRaises` ends the loop of main.py, and `Restart` is the
service's. `grace` names the failed payment from which `grace_period_ends_at` was counted, so that two of them
differ as their times do. `paidUp` is for the property: the last word on the payment that a handler has
recorded is `paid` (`Settled`). Plans stand for their prices; seats, `credit_checkout` and the portal change
nothing here.

### Scheduler

`status` is the column of `scheduled_posts`, `due` the posts whose `publish_at` has passed, `locks` the Redis
keys, `sent` counts the publications of `content.scheduled`.

* `Schedule`, `ReadForEdit`, `Cancel`, `Reschedule`: the requests. An account has one active post of a content
  (`SameItem`, the unique index), but nobody asks whose the content is, so several accounts may have one each.
  `Cancel` and `Reschedule` judge the row in one session
  and write it in another, without looking again and without the lock.
* `FindDue`, `AcquireLock`, `LoadPost`, `CommitFired`, `PublishScheduled`: `fire_due`. The up to 100 posts that
  a task has found and works through are separate scans of one post each. `ScanCrash` stops one anywhere; the
  key stays until `LockExpires`. Its guard is the one assumption about time: the two statements between taking
  the key and committing take less than 120 seconds.
* `DeleteContent`, `ReadNotice`, `CancelByContent`, `NoteProcessed`, `AckNotice`, `ReturnNotice`: the consumer
  of `content.deleted`, which content-service publishes to two exchanges that the queue is both bound to. It
  cancels one post of the content, any account's: the query takes the first row it finds.

### Publishing

Each post that `Scheduler` fires has two messages, one for each exchange (`Fire`); each delivery makes a new
job (`JobOf`: the message and how often it was returned). `StartDelivery` looks at `processed_events`,
`CreateJob`, `BeginPublish`, `CallLinkedIn`, `CommitPublished` or `CommitFailed`, `Emit` are
`_create_and_publish`, `Note` is the insert that may find another handler's row. `Ask` and `RequestFails` run the
same job for a user of `publish_content` or `publish_manual`, once. `Connect`, `ConnectDev`, `Callback`,
`FinishCallback`, `CallbackRaises`, `CallbackFailed` and `Disconnect` are the OAuth endpoints; a callback holds
the row it has found while it exchanges the code.

### Library

A body is named by the version that wrote it. `Read` and `CommitEdit` are the two ends of edit, approve and
publish, `CommitDelete` that of a deletion. What keeps concurrent edits apart is only the unique constraint on
`(content_id, version)` (`Fresh`). `LookForDraft`, `InsertDraft`, `LookForDeletion`, `DeleteDraft`, `Note` and
`ReturnMessage` are the consumer of the two messages of each `ai.generation_*` event; a deletion may be
announced before its completion.

### Generation

`Reserve` (the Lua script), `InsertJob`, then the task: `TryModel`, `Token`, `MarkCancelled`, `Complete`,
`PublishToAi`, `PublishToShared`, `Charge`, `End`; `Raise` is any exception of the loop over the models, after
which it goes on with the next one if nothing was output, or `Fail` and `AnnounceFailure`. `Die` is the end of
the process. In usage-service each completion has two messages: `SumLedger`, `Record` (unique event and
generation), `SetCounter`, and `Mark` and `TellThreshold` for 80 and 100 percent. One account, one month.

### Sessions

A pair is an access token, whose session is in Redis, and a refresh token, a row. `ReadCredential` and
`CommitLogin`; `LockRefreshToken` and `CommitRefresh`; `CheckSession`, `CommitSwitch`, `DropSwitched`; all end in
`StoreSession`, whose answer may be lost. `CommitLogout`, `DropLoggedOut`. `CheckAttempts`, `WrongCode`,
`TakeCode`, `CommitReset`, `ClearFailures`, then `ListSessions`, `DeleteSessions`, `DeleteIndex` for
`revoke_user_sessions`. `ReadRole`, `CommitRole`. A pair records, for the properties, which change of the
password its owner had proved and whether its request overlapped a reset.

### Membership

One team account: `BeginUpdateRole`, `BeginRemove`, `CommitMember`; `BeginInvite`, `CommitInvite`; `BeginAccept`
(which locks the invitation), `CommitAccept`. The consumer: `LookForAccount`, `InsertAccount` for a registered
user; `TakePaid` (the look at `processed_events`) and `ApplyPlan` for a paid invoice, of which the outbox may
publish several `Copies` whose handlers overlap; `PublishAccount`, `Note`. `SignUp`, `IssueToken`, `PublishRegistered`,
`VerifyEmail` are auth-service's.

### RateLimit

One key, of an account or an address. `ReadClock` is the gateway's `time.time()`, `RunScript` the script that
Redis runs later, with that time: it drops what is older than the window (`After`), counts, and adds the call (`Member`:
its time and its request id, which may be the client's own, so that calls of one id at one time are one member)
and sets the expiry anew, or refuses. `Tick`, and `KeyExpires` once the expiry is over, may happen between any two of
these. `passed` remembers, for the property, the members that were let through. Times are in a unit of which `Window` is a few.

### Access

One client, with the claims of its `token` and whether Redis has its `session`, and one `call`. A route is named
by its service and its handler. For each service there is a table of its routes by what they ask for
(`CreditsRoutes`, …) and an operator that says whom it serves (`CreditsPermits`, …): the bearer's claims in most,
the rows of `Membership` in tenant-service, the user's row in auth-service (`superadmins`); `EdgeAdmin`,
`EdgeOwner` and `EdgeManager` are the gateway's own table, `EdgePermits` is `enforce_route_role`.

* `LogIn`, `Refresh`, `IssueSwitched` issue a token (`Issue`): a login for the user's own account, a refresh with
  the account and the role that the refresh token names, a switch with the role that tenant-service answered.
  The platform role is read each time. `SetPlatformRole`, `EndSession`, `CallTokenEnds`.
* `Admit` is the gateway's middleware, with the limit left to `RateLimit`; `Forward` the proxy and the service's
  own check. What a call does when it is answered at once is in the module of its service.
* `PassesOn` lists the calls that a handler makes to other services; `PassOn` makes the next one, with the
  caller's token or the internal one (`Carried`). A handler of a message (`Deliver`) has no caller. A refusal ends
  the call, but for those that note it and go on (`Lenient`). Between two of them the token may expire or be
  revoked, and members may change.

Two accounts: the user's `own`, and the `team` of `Membership`. Routes that name an account, or a thing that
belongs to one (`Naming`), are called about either.

### Scraping, Notices and BackOffice

`jobs` is the collection `scraper_jobs`; every `scrape.requested` has two messages, for its two exchanges
(`Send`, twice; `SendFails` loses the rest). `DeliverRequest` looks at `processed_events`, `ReadJob` takes the
copy, `StartRun` and `FinishRun` put it over whatever the collection has, `InsertDocument` stores each page at
once, `Emit`, `RecordRequest`. `ReturnRequest` is an exception, `WorkerRestarts` the end of all handlers and of
the loop. `ReadForCancel` and `CancelJob` are the request; `FindDue`, `StoreDue`, `DispatchDue`, `ScanFails` the
loop of recurring jobs, which stores all it has found before it dispatches the first.

In `Notices` a message goes, for each channel, from `send` to `accepted` or `refused`, to a row in `log`, to
`notification.sent`; `ResolveRecipient` asks auth-service and tenant-service for the address. `EventId` is what
the consumer makes of the envelope's id: nothing, so `NoteNotice` notes nothing. `BackOffice` adds `trail`, the
rows of `audit_log` as a bag, and `Audit`, which takes any event that either service has published.

### Browser

`cookie` is the refresh token in the jar of the browser, `memory` the access token of each tab, both named by the
pair they are from; `call` are the calls of the API client, `refreshing` the one refresh of each tab that its
calls wait for. `StartCall` sends a call with the token and the cookie of its moment: of a page, of the session store (which
offers `refresh` as well as hydration, though no page uses it), or a login. `Refuse`, `Execute`, `LogIn`,
`SwitchAccount`, `Hydrate`, `LogOut` and `ServeRefresh` are the gateway with auth-service, whose own
interleavings are in `Sessions`; `CallFails` and `RefreshFails` lose a request or its answer. `Succeed`,
`AwaitRefresh`, `TryAgain`, `GiveUp`, `Refreshed` and `RefreshRefused` are the interceptor, `request` and the
session store; `Reload` forgets a tab. `lost` are the tokens whose exchange nobody heard of.

## What the runs show

| run | instance | states | checked |
|---|---|---|---|
| `credits` | 1 listing, seller and 2 buyers, 1 consumption, 2 grants without an invoice id, 1 with, 1 refund, 3 requests | 277 k | `SoldOnlyWhenCharged`, `AppliedExactlyOnce`, `ClawbackMatchesGrant`, `ReservationEnds`, `SaleSpec` |
| `payments` | 1 payment, of a known customer or not, and its refund, 2 copies of each message, 1 return | 116 k | `GrantedAtMostOnce`, `NeverLost`, `Granted`, `LedgerSpec` |
| `subscriptions` | 2 subscriptions, 3 webhooks, 1 request, the poller | 832 k | `DowngradeIsJust` |
| `scheduler` | 2 accounts' posts of 1 content, one of them due, 2 scans, 1 request, the deletion in 2 messages | 398 k | `DeletionReachesSchedule`, `FiredOnce`, `CancelledStaysQuiet`, `DueIsFired` |
| `publishing` | 1 post, 2 messages, 1 return of each, 1 connection, 1 user request | 266 k | `ProcessedIsTold`, `ProcessedStaysQuiet`, `MessageEnds` |
| `library` | 1 row of a user, 1 generation with 4 messages, 2 requests, 4 versions | 629 k | `PublishedAsApproved`, `HistoryComplete`, `PublishedIsLocked`, `DraftedOnce` |
| `generation` | 2 generations, 2 models, a quota of 2, 2 handlers | 722 k | `AnsweredOnce`, `RecordedOnce`, `ThresholdToldOnce` |
| `sessions` | 2 users, 3 pairs, 1 code, 2 requests | 1.5 M | `ExchangedOnce`, `SurvivorsOvertaken`, `GuessesBounded`, `CodeUsedOnce` |
| `access` | 3 users, 2 invitations, 2 requests; 1 signup, 1 invoice in 2 copies; 1 client with 1 call; 2 limited calls, 2 request ids, 2 to a window of 2 ticks, 4 ticks | 264 k | `KeepsOwner`, `JoinsByInvite`, `EdgeAgrees`, `PassedOnIsPermitted`, `WindowBounded` |
| `backoffice` | 1 recurring job with 2 events, 1 cancellation; 2 notices | 445 k | `Accounted`, `AuditIsTrue`, `SettledStays`, `Recurs` |
| `browser` | 2 tabs, 2 calls, 3 pairs | 338 k | `CookieIsGood`, `MutationOnce`, `CallEnds` |
| `notices_resent` | 2 notices, 2 messages of each | stops at | `NeverResent`, violated: see the deviations |

Deadlock is not checked anywhere: a system in which everything was sold, paid, fired and acknowledged stops.

### Bounds

* Requests, scans and edits: two are needed to overlap, and three let the sweep, a second purchase and a
  confirmation meet on one listing. Each is freed when it ends, so any number happen in sequence.
* One listing: listings share only the sellers' and buyers' balances; `Apart` in `MCCredits`
  lets consumption, grants and refunds meet one confirmation of a sale, not two purchases, a sweep or a cancellation.
* `Limit` is 1, or 0 where returns add nothing to what overlapping messages do, instead of 5: the number
  matters only as "some returns, then the dead-letter queue". `MaxCopies` bounds how often an event is
  published again, two being the first case in which deduplication matters.
* Two scans are the least for the lock; two messages of an event for its two exchanges. Two accounts' posts are
  the least for a deletion that cancels one of them; `DueSoon` lets the time of one pass, since tasks share
  nothing between posts but the rows. Two `Copies` of an invoice are the least for a handler that overlaps the
  one that records it, two `RequestIds` for calls of one time that count once, or twice.
* `MaxVersion` 4 is draft, edit, approval and publication. `Busy` (in `Free`) bounds how many requests and
  handlers are past their first read at one time; the third would read what one of two has left.
* `LastModel` 2 is the code's. `Tokens` 1 and `Quota` 2 put both thresholds within reach of two generations.
* Constraints (`Apart`, `Fewer`) keep parts of a model that share no state from being multiplied with each
  other: members, the consumer, the limiter and the client in `access`, rows of users and drafts in `library`, tasks and handlers in
  `generation`, platform roles and tokens in `sessions`, messages and a user's request in `publishing`. In
  `publishing`, which checks liveness, a request is never fair and never needed by a message, so no fair
  behaviour of the messages is cut. `access` has at most two members and one request
  once both invitations are out; its client is one user, who may join a team by one invitation, and whose calls
  are followed if they are passed on. Four ticks let one window of two pass and the next.
  `subscriptions` has two webhooks once both subscriptions exist. In `backoffice` the job and the notices are
  explored in turn, with one fault in each, one message of the recurrence, and one audited event; `Recurs` needs no
  message, and no job is cut from its loop. In `browser` one call under way reads or loads a page, the other does
  the rest; the second tab is only loaded; one answer is lost and one access token expires at one time. Every
  state of a call keeps the steps that its fairness is about. The proofs have none of these bounds.

Symmetry is used only in runs without liveness.

### Fairness

* `Credits`: a request that runs goes on (`WF Continue`): HTTP clients and sessions have timeouts, so an await
  ends with a result or an exception. Crashes are not fair. Reservations age, and somebody looks at the
  marketplace again (`SweepListings`): the sweep has no timer, it runs on every view. Buyers owe nothing:
  they may never authorize or confirm.
* `Payments`: a delivered message ends with success or a return (`WF` on their disjunction), never surely with
  success. The publisher runs for ever (`WF TakeBatch`), and of the publications that are possible again and
  again one succeeds (`SF PublishEvent`, `SF CommitBatch`). A refund that goes on commits (`WF CommitRefund`;
  a crash may come first). Stripe and the gateway are not fair.
* `Scheduler`, for each post that may become due: the beat is periodic (`SF FindDue`: a post may be found and lost
  repeatedly); a task that is started for it again and again is not killed every time at the same place (`SF` on
  taking the lock, loading, committing); Redis drops its key. Requests and messages are not fair.
* `Publishing`: a message's handler ends with success or a return, since its calls have timeouts.
* `BackOffice`: intervals pass and the loop, while it lives, scans, stores and publishes (`WF`; `SF StoreDue`, since
  the worker may restart over and over, but not always between finding a job and storing it).
* `Browser`: a request ends with an answer or, after 15 seconds, without (`WF` while it is sent), and a tab
  handles what arrives. Reloads, expiry and lost answers are not fair.
* The other modules state no liveness, because the code ensures none: a task that dies is not taken up again,
  and a request owes nothing.

## What is proved

With tlapm, for every value of the constants that satisfies the modules' named assumptions. Each proof module
begins with the argument; none of the properties is inductive by itself.

* **Credits**, the marketplace: `TypeOK`, `SoldOnlyWhenCharged`, `TransferredExactlyOnce`,
  `CheckedReservationHolds`, `FinalStatusKept`, from `MarketInv`. That a sale is charged depends on what a
  confirmation in flight has captured (`ChargedJobs`), on the intent attached to a reservation being one of that
  listing (`IntentOfListing`), on what was checked still being so when the transfer commits
  (`CheckedReservationHolds`), and the uniqueness of the two rows on there being none before (`OffersFresh`).
  `SaleSpec` follows step by step: of all steps only those that write a listing, capture an intent or commit a
  transfer are seen by `EscrowSale`, and each is one of its actions. `TransferredExactlyOnce` and
  `CheckedReservationHolds` are no properties of the run, whose `SaleSpec` has them on the level of the sale.
* **Credits**, the ledger: `AppliedExactlyOnce`, `ClawbackMatchesGrant`, from `LedgerInv`. A handler in flight
  carries the amount of its event or the opposite of a grant that is still there when it commits (`HandlesFit`).
  Rows are counted by the numbers they have (`NumberedGrants`: each is below the number of rows like it), so a
  committed row is new, and the sets of grants and of processed events grow by one together.
* **Payments**: `TypeOK`, `GrantedAtMostOnce`, `NeverLost`, from `PaymentsInv`: a webhook that has an inbox row
  `processed` has exactly one outbox row (`HooksApplied`, `OneRow`), only made payments get there
  (`OnlyCharged`), what the outbox calls published was taken by the broker (`PublishedHeld`), and an event has
  added a row only if it is processed (`EventsApplied`). `LedgerSpec` uses the same invariant: whether an event
  names its invoice is settled when it is put in the outbox (`NamesKept`), so rows, notes and jobs look the same
  to `Credits` until a handler of credits-service writes them (`UnseenByLedger`), and `CheckEvent`, `CommitEvent`
  and `ReturnEvent` are its `Consume`, `CommitEvent` and `Crash`. `EventsAsAssumed` proves of the events of
  `Payments` what `Credits` assumes of its own.
* **Subscriptions**: types, `DowngradeIsJust`, from `DowngradeInv`: a webhook carries a status that its kind can have
  (`ToldFit`), who has read the row has read one that exists (`RowsFit`), while the poller holds the lock the row is
  past due, its grace period over, and as the poller has read it (`PollerFits`), and a row whose payment is recorded
  is not past due (`PaidFits`), which neither a plan change nor a late merge makes it. So what the poller writes down
  has no recorded payment.
* **Scheduler**: `TypeOK`, `FiredOnce`, from `FiringInv`. The lock does not suffice, since it expires and
  requests write without it; the argument is in two halves. From taking the key to the commit a task is alone
  with the post (`LockHeld`, `OneHolder`); from the commit on the status is no longer `scheduled`, and never is
  again, so that no later task gets past `LoadPost` (`OpenUnsent`, `OneHand`, `InHandUnsent`).
  `CancelledStaysQuiet` follows from the status never coming back. `DeletionReachesSchedule`, from `DeletionInv`:
  the unique index allows an account one scheduled post of a content (`OneActive`), so a handler that has selected
  a post has selected the only one of its account, and one that is about to note the deletion has left, of the
  posts it should reach, only those in whose place another account's went (`Reached`).
* **Publishing**: `ProcessedIsTold`, `ProcessedStaysQuiet`, `RevokedStaysQuiet`. A delivery works on a job of a
  number that none had before (`Numbered`) and that nobody has announced (`Untold`); it announces only an
  ended job (`SettledEnded`), and notes the event only after that (`Noted`).
* **Library**: `HistoryComplete`, `PublishedAsApproved`, `PublishedIsLocked`, `DraftedOnce`. A request has read a
  version of the row's history that it may edit (`RequestsFit`); versions are 1, 2, … up to the row's own
  (`Complete`), so the version after the one read is new only if nobody has edited the row since. Drafts are
  inserted once, since a delivery that has not inserted its own has none (`HandlersFit`), and while one is there a
  delivery that looks finds it, so that the handlers past their look do not become more.
* **Scraping, Notices, BackOffice**: types, `AuditIsTrue`, `Accounted`, `SettledStays`, from `BackOfficeInv`. A
  message goes on with a copy that was queued when it was read, and an outcome that is completed has pages
  (`ScrapesFit`); a notice has passed its mail before its alert, and has the row of each channel that it has passed
  in the log (`NoticesFit`); the trail has nothing twice and only what was published (`TrailFits`), which was
  stored before.
* **Generation**: `AnsweredOnce`, `RecordedOnce`, `ThresholdToldOnce`. What was kept of models that were tried
  before is empty, and nothing is kept of later ones (`Kept`); a threshold is announced by the handler that
  has set its marker (`MarkedOnce`).
* **Sessions**: `ExchangedOnce`, `SurvivorsOvertaken`, `CodeUsedOnce`, `GuessesBounded`. Requests at work have
  the pair they issue, the token they exchange and the credential they reset for themselves (`RequestsApart`);
  a reset knows all active pairs of its user but those it was overtaken by (`RequestFits`); counted guesses and
  guesses that have passed the check stay below the sum of limit and requests (`GuessesFit`).
* **Browser**: types, `CookieIsGood`, `MutationOnce`, from `BrowserInv`. A new pair is on its way in one answer
  only (`PairsApart`), is good for a refresh and was not in the jar before (`AllUnseen`); whoever exchanges the
  jar's token has its successor in an answer, or it was lost (`CookieIsGood` itself). A call that has run is
  answered, and what changes something is not sent again after that (`CallFits`).
* **Membership**: `KeepsOwner`, `JoinsByInvite`, `PlanSettles` (of no run). Once an invoice is recorded no handler of
  it gets past the look at `processed_events`, so when the last that is past it has ended, the plan stays away. A
  request that takes an Owner's role has counted another Owner when it read (`Counted`), and an invitation being
  accepted is open and accepted by one request (`InvitesLocked`).
* **RateLimit**: `WindowBounded`. What was let through within the window of the present is still in the sorted
  set (`StillKept`), whose expiry each call sets anew; so a call judged at the time it has read counts all members,
  which are the calls as far as their times or request ids differ.
* **Access**: types, `EdgeAgrees`, `PassedOnIsPermitted`. The two tables of roles are compared route by route, for
  every claim that a token can have (`TokenFits`); a call that is passed on makes only the calls of its route,
  about the account of its token unless the route names one, and who buys is an owner (`CallFits`, `Entitled`).

Theorems of two components that share a proof module are proved from an invariant of each; modules that other
modules compose (`Membership`, `RateLimit`, `Scraping`, `Notices`) are proved as parts of the composition.

Only model-checked: liveness (`ReservationEnds`, `Granted`, `DueIsFired`, `MessageEnds`, `Recurs`, `CallEnds`),
which needs ENABLED and is out of the prover's reach. Every other property of a passing run is a theorem.
Balances are sums over sets, folds whose values cannot be computed by induction here: no theorem is about a balance.

## Known deviations

The models have the following behaviours of the code, so the properties stop short of them. Each was found as
a counterexample to the sentence it contradicts.

* *An account can be overdrawn* (credits.py:68, :216): two consumptions read the same balance, both pass the
  check and both are debited. A sale reads the seller's balance in the same way.
* *A buyer can pay and get nothing* (routes/credits.py:171): the sweep takes the reservation between purchase
  and confirmation, the card is captured before that is noticed, and nothing gives the money back.
* *A webhook can be acknowledged and never published* (webhooks.py:39-40, against api-gateway/README.md:31):
  Stripe's second request finds the key of the first and is answered 200; the first then fails to publish.
* *A refund can be made and told nobody* (billing.py:169, against the outbox of README.md:58-61): the process
  stops between Stripe's refund and the transaction that records it.
* *A refund can find no grant* (billing.py:280): `invoice.paid` arrives as the first webhook of its invoice, the
  event carries `None` for the invoice id, under which the grant is entered.
* *A post can appear several times on LinkedIn* (publishing.py:361): two messages of one event overlap, or a
  handler ends between LinkedIn's answer and the note. `ProcessedStaysQuiet` bounds it.
* *Two drafts of one generation* (content.py:178), for the same reason; `DraftedOnce` bounds it.
* *A deleted content can stay in a calendar* (scheduler.py:257-264): a content may be scheduled by any account, and
  each may have an active post of it (scheduler.py:108-116, models.py:27-34); the deletion selects by the content
  alone, cancels the first row it finds, and is noted as handled. `DeletionReachesSchedule` says which remain.
* *An old plan can come back* (tenant-service/services/accounts.py:95-126): the look at `processed_events` and the update are two
  transactions, so a second copy of an old `invoice.paid` that is past the look may write after a newer one.
* *An account can lose its last Owner* (accounts.py:405), and the platform its last SuperAdmin (auth.py:285),
  when two demotions count one another.
* *The quota counter forgets reservations* (usage.py:106): `SetCounter` writes a sum in which they are missing.
* *Who has paid can be downgraded* (billing.py:272, :289, :365): webhooks of an invoice are not ordered by what they
  tell. A failed payment handled after the payment that followed it makes the row past due; and the handler of
  a payment that read the row as still active writes no status over the `past_due` that another has written
  meanwhile. The grace period ends, and the poller downgrades. `DowngradeIsJust` is about recorded payments.
* *A plan change can undo a webhook* (billing.py:146): what the request read before it called Stripe is put over the
  row as it is loaded at the merge, and the columns in which they differ are written. So a status and a plan
  come back, and with them a grace period that a payment had cleared.
* *A payment can be dropped* (billing.py:245, :299, :231): the webhook of a customer whom no subscription names is
  marked as processed, and no invoice, event or error is left of it. `Granted` is about known customers.
* *A session can outlive a reset for its own lifetime* (redis.py:73-81): stored while the user's sessions are
  being listed, it is dropped from the index only.
* *A generation can stay queued or streaming for ever* (generation.py:100): its task was in a process that ended.
* *A mail can be sent twice* (notification-service/services/rabbitmq.py:70, against models.py:45): the consumer
  passes on no event id, so a message that comes again is handled again. The run `notices_resent` shows it.
* *A recurring job can stop for ever* (worker.py:32): the loop ends at its first exception, or the dispatch of a
  job that is already stored as queued fails, and only completed and failed jobs are looked for.
* *A logout can leave a session* (auth_session.py:67-75, store/auth.tsx:83): the client forgets its session even if
  the call failed, and the answer of a refresh that was under way sets the cookie again.
* *A visitor can be logged out by a lost answer or a second tab* (auth.py:147, client.ts:64): the refresh token
  was exchanged, its successor was lost or is in the other tab's answer, and the refresh of this tab is refused.
* *A login can be undone by the page's own hydration* (store/auth.tsx:32): when that fails after the login has
  answered, it clears the token of the login.

* *The gateway's roles are not always the service's* (security.py:79-98, against admin.py:38-44 and
  tenant-service/README.md:24): on `/api/v1/admin` the gateway asks for SuperAdmin, where admin-service would show
  anybody their own account; about an account in the path it judges by the role in the account of the token,
  so an owner elsewhere passes and is refused by tenant-service, and an owner there who is a member elsewhere is
  refused before tenant-service is asked.
* *A role can be out of date as long as it is refreshed* (auth.py:164-170): a refresh copies the role of the refresh
  token, so all services but tenant-service go on to serve an owner who was made a member, until the next login
  or switch. A SuperAdmin who is no member of an account cannot switch to it (accounts.py:354-363).
* *A generation can stay unpaid* (generation.py:273): its token expired while it ran. `PassedOnIsPermitted` is about
  tokens that live.
* *A limit can be exceeded in a past window* (rate_limiter.py:37): a script that runs late, after
  another has dropped the calls of its window, does not count them.
* *Calls of one request id can pass a limit* (rate_limiter.py:38-39, request_context.py:15): a member of the sorted
  set is named by the millisecond and by `X-Request-ID`, which is the client's own if it sends one, so calls that
  agree in both are counted as one.
* *The dashboard is always degraded* (dashboard.py:14, :16, against api-gateway/README.md:17): content-service and
  notification-service have no `/summary`. The gateway's own `/admin/overview` and `/ai/generations/{id}/stream` hide those
  of the services; `/auth/forgot-password/verify` (routes/auth.py:189) is not among the gateway's public paths, so a
  visitor cannot call it.
* *An event stream ends at its first heartbeat* (sse.py:20-27, against api-gateway/README.md:35): the timeout cancels
  the subscription's generator, and the next read finds it closed.

Hazards of the code beyond those in `PROJECT.json`, seen while modelling: a partial refund claws back the whole
grant (credits.py:295); `invoice.created` usually precedes the payment intent, and the branch for a known
invoice does not add it (billing.py:267); two checkouts of an account can both be paid (billing.py:78, in
`Subscriptions`); the idempotency key of credit packs lets an account buy the same pack only once a day
(stripe.py:88); a post is committed as fired before it is published, and a crash in between loses it
(scheduler.py:227); a failed job has a time for its next attempt that nothing reads (publishing.py:377); the
refresh of tokens commits once for all connections, so one failure discards what LinkedIn has already rotated
and ends the loop (publishing.py:248-277, main.py:28); a deletion that overtakes its completion leaves the
draft (content.py:209); a deletion read before a publication takes the published row (content.py:112); a signup
that ends before `user.registered` leaves a user without an account (email_verification.py:35); a completed job
can be marked failed (generation.py:273); a scrape job whose worker stopped stays running (scraper.py:157); two messages of one
request can both run a job (scraper.py:157-162).

## What is not modelled

* Amounts of partial refunds: `consume` takes the whole grant back whatever was refunded, and when several
  grants match it takes any of them, as the query has no order.
* Loss of Redis, PostgreSQL or RabbitMQ data. Durable queues, committed rows and unexpired keys stay.
* Whether a fired post is published at all: `FiredOnce` is the half that the code's order chooses, the other
  half does not hold.
* auth-service: counters of failed logins, expiry of refresh tokens and codes, inactive users (three counters
  and clocks, which guard actions that the model allows at any time). social-publishing-service: the refresh
  of tokens, which writes no column that the model has. ai-generation-service: images, rows that nothing
  changes.
* What scraped pages hold, robots.txt and the rate limit of a domain; the wording of mails.
* api-gateway's CSRF check and the content of its event streams. admin-service's views, and its
  revocation of a session, which is `AccessExpires` in `Browser`. The frontend's pages, hooks and caches, which
  show what the services answer; migrations and deployment. They are more than half of the repository's lines.

## Plan

1. The composition of `Scheduler` and `Publishing` on one abstract specification, "attempted at least once for
   each post that was fired and told", once the order of commit and publication in `fire_due` allows it.
2. What the liveness properties rest on, as far as it is safety: that a message in the queues of `Payments` or
   `Publishing` that is not at its end always has a handler that can go on.
3. The abstract specification of a refresh token, exchanged at most once and revoked for good, shown to be
   implemented by `Sessions`.
