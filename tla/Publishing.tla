----------------------------- MODULE Publishing -----------------------------
(***************************************************************************)
(* social-publishing-service: connections to LinkedIn, the consumer of     *)
(* content.scheduled, and users who publish at once. scheduler-service     *)
(* publishes each event to two exchanges that the queue is both bound to,  *)
(* so a post has two messages, whose handlers overlap. A message that is   *)
(* returned makes a new job: jobs are numbered by the delivery that made   *)
(* them.                                                                   *)
(*                                                                         *)
(* That an event is announced at most once is Scheduler's FiredOnce.       *)
(***************************************************************************)
EXTENDS Integers, FiniteSets

CONSTANTS
  Posts,        \* scheduled posts that fire
  Requests,     \* calls of publish_content or publish_manual
  Connections,  \* rows of social_connections that may be made
  Limit,        \* x-delivery-limit (5 in the code)
  None

ASSUME ConstantsAssumption ==
  /\ Limit \in Nat
  /\ None \notin Connections
  /\ Requests \cap (Posts \X {1, 2}) = {}

Messages == Posts \X {1, 2}
Handlers == Messages \cup Requests
Jobs == Handlers \X (0..Limit)

VARIABLES
  connection, \* social_connections: status, whether oauth_state is set, dev mode
  callbacks,  \* connections whose callback is exchanging the code
  at,         \* where a handler is
  tries,      \* how often a message was returned
  job,        \* publish_jobs; live: LinkedIn shows the post
  told,       \* jobs whose post.published or post.failed was published
  processed   \* processed_events

vars == <<connection, callbacks, at, tries, job, told, processed>>
connectionVars == <<connection, callbacks>>
jobVars == <<tries, job, told, processed>>

ConnectionStatuses == {"none", "pending", "connected", "revoked", "failed"}
JobStatuses == {"none", "queued", "publishing", "published", "failed"}
Stages == {"none", "ready", "checked", "queued", "calling", "accepted", "broken", "settled",
           "noting", "done", "ended", "dropped"}

TypeOK ==
  /\ connection \in
       [Connections -> [status : ConnectionStatuses, state : BOOLEAN, dev : BOOLEAN]]
  /\ callbacks \subseteq Connections
  /\ at \in [Handlers -> Stages]
  /\ tries \in [Handlers -> 0..Limit]
  /\ job \in [Jobs -> [status : JobStatuses, via : Connections \cup {None}, live : BOOLEAN]]
  /\ told \subseteq Jobs
  /\ processed \subseteq Posts

Init ==
  /\ connection = [c \in Connections |-> [status |-> "none", state |-> FALSE, dev |-> FALSE]]
  /\ callbacks = {}
  /\ at = [h \in Handlers |-> "none"]
  /\ tries = [h \in Handlers |-> 0]
  /\ job = [j \in Jobs |-> [status |-> "none", via |-> None, live |-> FALSE]]
  /\ told = {}
  /\ processed = {}

-----------------------------------------------------------------------------
(* Connections *)

Connect(c) ==
  /\ connection[c].status = "none"
  /\ connection' = [connection EXCEPT ![c].status = "pending", ![c].state = TRUE]
  /\ UNCHANGED <<callbacks, at, jobVars>>

\* Only where linkedin_dev_mode is set.
ConnectDev(c) ==
  /\ connection[c].status = "none"
  /\ connection' = [connection EXCEPT ![c].status = "connected", ![c].dev = TRUE]
  /\ UNCHANGED <<callbacks, at, jobVars>>

\* The row is found by its state. LinkedIn takes a code once.
Callback(c) ==
  /\ connection[c].state
  /\ c \notin callbacks
  /\ callbacks' = callbacks \cup {c}
  /\ UNCHANGED <<connection, at, jobVars>>

Connected(c) == [connection EXCEPT ![c].status = "connected", ![c].state = FALSE]

FinishCallback(c) ==
  /\ c \in callbacks
  /\ connection' = Connected(c)
  /\ callbacks' = callbacks \ {c}
  /\ UNCHANGED <<at, jobVars>>

CallbackRaises(c) ==
  /\ c \in callbacks
  /\ callbacks' = callbacks \ {c}
  /\ UNCHANGED <<connection, at, jobVars>>

CallbackFailed(c) ==
  /\ connection[c].state
  /\ connection' = [connection EXCEPT ![c].status = "failed", ![c].state = FALSE]
  /\ UNCHANGED <<callbacks, at, jobVars>>

\* Whatever the status was; the state stays.
Disconnect(c) ==
  /\ connection[c].status # "none"
  /\ connection' = [connection EXCEPT ![c].status = "revoked"]
  /\ UNCHANGED <<callbacks, at, jobVars>>

-----------------------------------------------------------------------------
(* content.scheduled *)

\* Both publications succeed, or only the first.
Fire(p) ==
  /\ at[<<p, 1>>] = "none" /\ at[<<p, 2>>] = "none"
  /\ \E ks \in {{1}, {1, 2}} :
       at' = [h \in Handlers |-> IF h \in {p} \X ks THEN "ready" ELSE at[h]]
  /\ UNCHANGED <<connectionVars, jobVars>>

SeenNever(m) == FALSE
Seen(m) == m[1] \in processed

StartDelivery(m) ==
  /\ at[m] = "ready"
  /\ at' = [at EXCEPT ![m] = IF Seen(m) THEN "done" ELSE "checked"]
  /\ UNCHANGED <<connectionVars, jobVars>>

-----------------------------------------------------------------------------
(* _create_and_publish *)

\* A user has it published, now and once.
Ask(r) ==
  /\ at[r] = "none"
  /\ at' = [at EXCEPT ![r] = "checked"]
  /\ UNCHANGED <<connectionVars, jobVars>>

JobOf(h) == <<h, tries[h]>>
Via(h) == job[JobOf(h)].via

CreateJob(h, c) ==
  /\ at[h] = "checked"
  /\ connection[c].status = "connected"
  /\ job' = [job EXCEPT ![JobOf(h)] = [status |-> "queued", via |-> c, live |-> FALSE]]
  /\ at' = [at EXCEPT ![h] = "queued"]
  /\ UNCHANGED <<connectionVars, tries, told, processed>>

Usable(h) == connection[Via(h)].status = "connected"

BeginPublishQuietly(h) ==
  /\ at[h] = "queued"
  /\ job' = [job EXCEPT ![JobOf(h)].status = IF Usable(h) THEN "publishing" ELSE "failed"]
  /\ at' = [at EXCEPT ![h] = IF Usable(h) THEN "calling" ELSE "noting"]
  /\ UNCHANGED <<connectionVars, tries, told, processed>>

\* The connection is read again; without it the job fails.
BeginPublish(h) ==
  /\ at[h] = "queued"
  /\ job' = [job EXCEPT ![JobOf(h)].status = IF Usable(h) THEN "publishing" ELSE "failed"]
  /\ at' = [at EXCEPT ![h] = IF Usable(h) THEN "calling" ELSE "settled"]
  /\ UNCHANGED <<connectionVars, tries, told, processed>>

\* LinkedIn takes the post and answers, takes it and the answer is lost, or refuses.
\* It is not called through a connection of dev mode.
CallLinkedIn(h) ==
  /\ at[h] = "calling"
  /\ \E taken \in BOOLEAN, outcome \in {"accepted", "broken"} :
       /\ connection[Via(h)].dev => ~taken /\ outcome = "accepted"
       /\ ~connection[Via(h)].dev /\ outcome = "accepted" => taken
       /\ job' = [job EXCEPT ![JobOf(h)].live = taken]
       /\ at' = [at EXCEPT ![h] = outcome]
  /\ UNCHANGED <<connectionVars, tries, told, processed>>

CommitPublished(h) ==
  /\ at[h] = "accepted"
  /\ job' = [job EXCEPT ![JobOf(h)].status = "published"]
  /\ at' = [at EXCEPT ![h] = "settled"]
  /\ UNCHANGED <<connectionVars, tries, told, processed>>

\* A first attempt never reaches publish_max_attempts: the job is failed, with a time for
\* the next attempt that nothing reads.
CommitFailed(h) ==
  /\ at[h] = "broken"
  /\ job' = [job EXCEPT ![JobOf(h)].status = "failed"]
  /\ at' = [at EXCEPT ![h] = "settled"]
  /\ UNCHANGED <<connectionVars, tries, told, processed>>

Emit(h) ==
  /\ at[h] = "settled"
  /\ told' = told \cup {JobOf(h)}
  /\ at' = [at EXCEPT ![h] = IF h \in Messages THEN "noting" ELSE "ended"]
  /\ UNCHANGED <<connectionVars, tries, job, processed>>

\* The user sees the error, or nothing; the job stays as it is.
RequestFails(r) ==
  /\ at[r] \notin {"none", "ended"}
  /\ at' = [at EXCEPT ![r] = "ended"]
  /\ UNCHANGED <<connectionVars, jobVars>>

-----------------------------------------------------------------------------
(* The end of a message *)

\* The other message's handler may have been faster: its row is as good.
Note(m) ==
  /\ at[m] = "noting"
  /\ processed' = processed \cup {m[1]}
  /\ at' = [at EXCEPT ![m] = "done"]
  /\ UNCHANGED <<connectionVars, tries, job, told>>

Ack(m) ==
  /\ at[m] = "done"
  /\ at' = [at EXCEPT ![m] = "ended"]
  /\ UNCHANGED <<connectionVars, jobVars>>

CanBeReturned(m) == tries[m] < Limit

ReturnUncounted(m) ==
  /\ at[m] \notin {"none", "ended", "dropped"}
  /\ at' = [at EXCEPT ![m] = "ready"]
  /\ UNCHANGED <<connectionVars, jobVars>>

\* Any exception but LinkedIn's, or the end of the process. What the queue gives up is
\* dropped: no queue is bound to its dead-letter exchange.
ReturnMessage(m) ==
  /\ at[m] \notin {"none", "ended", "dropped"}
  /\ IF CanBeReturned(m)
     THEN /\ tries' = [tries EXCEPT ![m] = @ + 1]
          /\ at' = [at EXCEPT ![m] = "ready"]
     ELSE /\ at' = [at EXCEPT ![m] = "dropped"]
          /\ UNCHANGED tries
  /\ UNCHANGED <<connectionVars, job, told, processed>>

-----------------------------------------------------------------------------
Attempt(h) ==
  \/ \E c \in Connections : CreateJob(h, c)
  \/ BeginPublish(h)
  \/ CallLinkedIn(h)
  \/ CommitPublished(h)
  \/ CommitFailed(h)
  \/ Emit(h)

Handle(m) ==
  \/ StartDelivery(m)
  \/ Attempt(m)
  \/ Note(m)
  \/ Ack(m)
  \/ ReturnMessage(m)

Serve(r) ==
  \/ Ask(r)
  \/ Attempt(r)
  \/ RequestFails(r)

Authorize(c) ==
  \/ Connect(c)
  \/ ConnectDev(c)
  \/ Callback(c)
  \/ FinishCallback(c)
  \/ CallbackRaises(c)
  \/ CallbackFailed(c)
  \/ Disconnect(c)

Next ==
  \/ \E c \in Connections : Authorize(c)
  \/ \E p \in Posts : Fire(p)
  \/ \E m \in Messages : Handle(m)
  \/ \E r \in Requests : Serve(r)

Spec == Init /\ [][Next]_vars

\* A handler ends with success or an exception: its calls have timeouts.
Fairness == \A m \in Messages : WF_vars(Handle(m))

FairSpec == Spec /\ Fairness

-----------------------------------------------------------------------------
(* Properties *)

JobsOf(p) == {j \in Jobs : j[1] \in {p} \X {1, 2}}

\* A post is noted as processed only when one of its jobs has ended and the end was
\* announced, whichever handler stopped where: the note never hides a post that nobody
\* has attempted.
ProcessedIsTold ==
  \A p \in processed : \E j \in JobsOf(p) \cap told : job[j].status \in {"published", "failed"}

\* Once a post is processed, only handlers that looked before can still publish it;
\* later deliveries of either message do not.
Ahead(p) == {m \in {p} \X {1, 2} : at[m] \notin {"none", "ready", "done", "ended", "dropped"}}
LiveJobs(p) == {j \in JobsOf(p) : job[j].live}

ProcessedStaysQuiet ==
  [][\A p \in processed :
       /\ Ahead(p)' \subseteq Ahead(p)
       /\ Ahead(p) = {} => LiveJobs(p)' = LiveJobs(p)]_vars

\* Nothing is posted through a connection that is not connected, except by jobs that
\* have checked it before: not by jobs that were queued when it was revoked. And one that
\* was revoked after its authorization ended stays revoked: the state of an authorization
\* cannot be used again.
Calling(c) == {h \in Handlers : at[h] = "calling" /\ Via(h) = c}

RevokedStaysQuiet ==
  [][\A c \in Connections : connection[c].status # "connected" =>
       /\ Calling(c)' \subseteq Calling(c)
       /\ connection[c].status = "revoked" /\ ~connection[c].state /\ c \notin callbacks =>
            connection'[c] = connection[c]]_vars

\* A message does not stay in the queue for ever, whatever fails.
MessageEnds == \A m \in Messages : at[m] = "ready" ~> at[m] \in {"ended", "dropped"}
=============================================================================
