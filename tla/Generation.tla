----------------------------- MODULE Generation -----------------------------
(***************************************************************************)
(* ai-generation-service and usage-service: a generation reserves a quota, *)
(* runs as a background task that tries one model after another, is kept,  *)
(* announced and charged; usage-service enters each announced generation   *)
(* in its ledger and announces the thresholds of the quota.                *)
(*                                                                         *)
(* The task is nowhere persisted: one that dies leaves its job as it is.   *)
(* Each event is published to two exchanges that the queue of              *)
(* usage-service is both bound to.                                         *)
(***************************************************************************)
EXTENDS Integers, FiniteSets

CONSTANTS
  Generations,
  LastModel,     \* the models to try are 1..LastModel (2 in the code, or 1)
  Estimate,      \* tokens reserved for a generation
  Tokens,        \* tokens that a generation uses
  Quota,         \* default_monthly_token_quota
  Busy,          \* bounds the handlers at work at one time
  Limit          \* x-delivery-limit (5 in the code)

ASSUME ConstantsAssumption ==
  /\ IsFiniteSet(Generations)
  /\ LastModel \in Nat \ {0}
  /\ Estimate \in Nat \ {0} /\ Tokens \in Nat \ {0} /\ Quota \in Nat
  /\ Limit \in Nat

Models == 1..LastModel
Completions == Generations \X Models     \* ai.generation_completed events
Messages == Completions \X {1, 2}
Percentages == {80, 100}

VARIABLES
  counter,     \* usage:tokens in Redis
  job,         \* status of the generation_jobs row
  task,        \* run_job
  cancelled,   \* ai:cancel keys in Redis
  kept,        \* prompt_history
  charged,     \* charges booked in credits-service
  ledger,      \* usage_ledger: the events entered
  handler,     \* messages and their handlers
  marked,      \* usage:threshold keys in Redis
  told         \* usage.threshold_reached events published

vars == <<counter, job, task, cancelled, kept, charged, ledger, handler, marked, told>>
jobVars == <<job, cancelled, kept, charged>>
usageVars == <<ledger, marked, told>>

Statuses == {"none", "queued", "streaming", "completed", "failed", "cancelled"}
TaskStages == {"none", "reserved", "queued", "streaming", "noted", "publish", "republish",
               "charge", "tell", "raised", "fail", "announce", "ended"}
HandlerStages == {"none", "ready", "read", "recorded", "counted", "told80", "counted80",
                  "told100", "done"}

TypeOK ==
  /\ counter \in Nat
  /\ job \in [Generations -> Statuses]
  /\ task \in [Generations -> [at : TaskStages, model : 0..LastModel, text : BOOLEAN]]
  /\ cancelled \subseteq Generations
  /\ kept \in [Completions -> {"none", "empty", "text"}]
  /\ charged \subseteq Completions
  /\ ledger \subseteq Completions
  /\ handler \in [Messages -> [at : HandlerStages, tries : 0..Limit, previous : Nat]]
  /\ marked \subseteq Percentages
  /\ told \in [Percentages -> Nat]

Init ==
  /\ counter = 0
  /\ job = [g \in Generations |-> "none"]
  /\ task = [g \in Generations |-> [at |-> "none", model |-> 0, text |-> FALSE]]
  /\ cancelled = {}
  /\ kept = [c \in Completions |-> "none"]
  /\ charged = {}
  /\ ledger = {}
  /\ handler = [m \in Messages |-> [at |-> "none", tries |-> 0, previous |-> 0]]
  /\ marked = {}
  /\ told = [p \in Percentages |-> 0]

-----------------------------------------------------------------------------
(* Starting and cancelling *)

Proceed(g, from, to) ==
  /\ task[g].at = from
  /\ task' = [task EXCEPT ![g].at = to]

\* RESERVE_SCRIPT, atomic in Redis.
Reserve(g) ==
  /\ counter + Estimate <= Quota
  /\ Proceed(g, "none", "reserved")
  /\ counter' = counter + Estimate
  /\ UNCHANGED <<jobVars, usageVars, handler>>

InsertJob(g) ==
  /\ Proceed(g, "reserved", "queued")
  /\ job' = [job EXCEPT ![g] = "queued"]
  /\ UNCHANGED <<counter, cancelled, kept, charged, usageVars, handler>>

Cancel(g) ==
  /\ job[g] # "none"
  /\ cancelled' = cancelled \cup {g}
  /\ UNCHANGED <<counter, job, task, kept, charged, usageVars, handler>>

-----------------------------------------------------------------------------
(* run_job *)

BreakNever(t) == FALSE
Break(t) == t.text \/ t.model = LastModel

\* The next model, from the start or after an exception with nothing output.
TryModel(g) ==
  LET t == task[g] IN
  /\ t.at = "queued" \/ (t.at = "raised" /\ ~Break(t))
  /\ t.model < LastModel
  /\ task' = [task EXCEPT ![g] = [at |-> "streaming", model |-> t.model + 1, text |-> FALSE]]
  /\ job' = [job EXCEPT ![g] = "streaming"]
  /\ UNCHANGED <<counter, cancelled, kept, charged, usageVars, handler>>

Token(g) ==
  /\ task[g].at = "streaming"
  /\ g \notin cancelled
  /\ task' = [task EXCEPT ![g].text = TRUE]
  /\ UNCHANGED <<counter, jobVars, usageVars, handler>>

\* A token came and the key is there.
MarkCancelled(g) ==
  /\ g \in cancelled
  /\ Proceed(g, "streaming", "noted")
  /\ job' = [job EXCEPT ![g] = "cancelled"]
  /\ UNCHANGED <<counter, cancelled, kept, charged, usageVars, handler>>

\* The stream has ended, perhaps without any token.
Complete(g) ==
  /\ Proceed(g, "streaming", "publish")
  /\ job' = [job EXCEPT ![g] = "completed"]
  /\ kept' = [kept EXCEPT ![<<g, task[g].model>>] = IF task[g].text THEN "text" ELSE "empty"]
  /\ UNCHANGED <<counter, cancelled, charged, usageVars, handler>>

Send(g, copy) == handler' = [handler EXCEPT ![<<<<g, task[g].model>>, copy>>].at = "ready"]

PublishToAi(g) ==
  /\ Proceed(g, "publish", "republish")
  /\ Send(g, 1)
  /\ UNCHANGED <<counter, jobVars, usageVars>>

PublishToShared(g) ==
  /\ Proceed(g, "republish", "charge")
  /\ Send(g, 2)
  /\ UNCHANGED <<counter, jobVars, usageVars>>

\* credits-service books the first charge with the id of the job, and answers the others
\* alike. It may refuse, or not answer: nothing comes of it.
Charge(g, accepted) ==
  /\ Proceed(g, "charge", "tell")
  /\ charged' = IF accepted /\ \A n \in Models : <<g, n>> \notin charged
                 THEN charged \cup {<<g, task[g].model>>} ELSE charged
  /\ UNCHANGED <<counter, job, cancelled, kept, usageVars, handler>>

\* The last event on the channels.
End(g) ==
  /\ task[g].at \in {"noted", "tell"}
  /\ task' = [task EXCEPT ![g].at = "ended"]
  /\ UNCHANGED <<counter, jobVars, usageVars, handler>>

\* The provider, Postgres, the broker or Redis.
Raise(g) ==
  /\ task[g].at \in {"streaming", "noted", "publish", "republish", "tell"}
  /\ task' = [task EXCEPT ![g].at = "raised"]
  /\ UNCHANGED <<counter, jobVars, usageVars, handler>>

Fail(g) ==
  /\ Break(task[g])
  /\ Proceed(g, "raised", "announce")
  /\ job' = [job EXCEPT ![g] = "failed"]
  /\ UNCHANGED <<counter, cancelled, kept, charged, usageVars, handler>>

AnnounceFailure(g) ==
  /\ Proceed(g, "announce", "ended")
  /\ UNCHANGED <<counter, jobVars, usageVars, handler>>

\* The process, or an exception outside the try or in its handler.
Die(g) ==
  /\ task[g].at \notin {"none", "ended"}
  /\ task' = [task EXCEPT ![g].at = "ended"]
  /\ UNCHANGED <<counter, jobVars, usageVars, handler>>

-----------------------------------------------------------------------------
(* usage-service *)

Total(m) == handler[m].previous + Tokens

\* A bound of the model, no part of the code.
Free == Cardinality({m \in Messages : handler[m].at \notin {"none", "ready", "done"}}) < Busy

IgnoreMessage(m) ==
  /\ handler[m].at = "ready"
  /\ m[1] \in ledger
  /\ handler' = [handler EXCEPT ![m].at = "done"]
  /\ UNCHANGED <<counter, task, jobVars, usageVars>>

SumLedger(m) ==
  /\ handler[m].at = "ready"
  /\ m[1] \notin ledger
  /\ Free
  /\ handler' = [handler EXCEPT ![m] =
       [at |-> "read", tries |-> @.tries, previous |-> Tokens * Cardinality(ledger)]]
  /\ UNCHANGED <<counter, task, jobVars, usageVars>>

NewEvent(c) == c \notin ledger

\* Both event_id and generation_id are unique.
NewGeneration(c) == \A k \in ledger : k[1] # c[1]

Record(m) ==
  /\ handler[m].at = "read"
  /\ IF NewGeneration(m[1])
     THEN /\ ledger' = ledger \cup {m[1]}
          /\ handler' = [handler EXCEPT ![m].at = "recorded"]
     ELSE /\ handler' = [handler EXCEPT ![m].at = "done"]
          /\ UNCHANGED ledger
  /\ UNCHANGED <<counter, task, jobVars, marked, told>>

\* Whatever was reserved or recorded since the sum is gone from the counter.
SetCounter(m) ==
  /\ handler[m].at = "recorded"
  /\ counter' = Total(m)
  /\ handler' = [handler EXCEPT ![m].at = "counted"]
  /\ UNCHANGED <<task, jobVars, usageVars>>

Threshold(p) == (Quota * p) \div 100

CrossedAgain(m, p) == handler[m].previous < Threshold(p) /\ Threshold(p) <= Total(m)
Crossed(m, p) == handler[m].previous < Threshold(p) /\ Threshold(p) <= Total(m) /\ p \notin marked

\* SET NX of the marker.
Mark(m, p, from, crossed, passed) ==
  /\ handler[m].at = from
  /\ handler' = [handler EXCEPT ![m].at = IF Crossed(m, p) THEN crossed ELSE passed]
  /\ marked' = IF Crossed(m, p) THEN marked \cup {p} ELSE marked
  /\ UNCHANGED <<counter, task, jobVars, ledger, told>>

TellThreshold(m, p, from, to) ==
  /\ handler[m].at = from
  /\ told' = [told EXCEPT ![p] = @ + 1]
  /\ handler' = [handler EXCEPT ![m].at = to]
  /\ UNCHANGED <<counter, task, jobVars, ledger, marked>>

\* Any exception, the end of the process, or of its channel before the acknowledgement.
ReturnMessage(m) ==
  /\ handler[m].at # "none"
  /\ handler' = [handler EXCEPT ![m] =
       IF @.tries < Limit THEN [at |-> "ready", tries |-> @.tries + 1, previous |-> 0]
       ELSE [at |-> "done", tries |-> @.tries, previous |-> 0]]
  /\ UNCHANGED <<counter, task, jobVars, usageVars>>

-----------------------------------------------------------------------------
Run(g) ==
  \/ Reserve(g)
  \/ InsertJob(g)
  \/ Cancel(g)
  \/ TryModel(g)
  \/ Token(g)
  \/ MarkCancelled(g)
  \/ Complete(g)
  \/ PublishToAi(g)
  \/ PublishToShared(g)
  \/ \E accepted \in BOOLEAN : Charge(g, accepted)
  \/ End(g)
  \/ Raise(g)
  \/ Fail(g)
  \/ AnnounceFailure(g)
  \/ Die(g)

Handle(m) ==
  \/ IgnoreMessage(m)
  \/ SumLedger(m)
  \/ Record(m)
  \/ SetCounter(m)
  \/ Mark(m, 80, "counted", "told80", "counted80")
  \/ TellThreshold(m, 80, "told80", "counted80")
  \/ Mark(m, 100, "counted80", "told100", "done")
  \/ TellThreshold(m, 100, "told100", "done")
  \/ ReturnMessage(m)

Next ==
  \/ \E g \in Generations : Run(g)
  \/ \E m \in Messages : Handle(m)

Spec == Init /\ [][Next]_vars

-----------------------------------------------------------------------------
(* Properties *)

\* A delivered answer is final: the fallback answers a generation again only after an
\* answer without any text. And only what the history has is charged for.
AnsweredOnce ==
  /\ \A c, d \in Completions :
       c[1] = d[1] /\ c[2] < d[2] /\ kept[d] # "none" => kept[c] # "text"
  /\ \A c \in charged : kept[c] # "none"

\* A generation counts once in the ledger, although it is announced twice, redelivered,
\* and announced again by the fallback after an empty answer.
RecordedOnce == \A c, d \in ledger : c[1] = d[1] => c = d

\* A threshold is announced at most once, though concurrent handlers can all cross it.
ThresholdToldOnce == \A p \in Percentages : told[p] <= 1
=============================================================================
