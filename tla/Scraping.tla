------------------------------ MODULE Scraping ------------------------------
(***************************************************************************)
(* scraper-service: jobs in MongoDB, requests that create and cancel them, *)
(* the worker that consumes scrape.requested, and its loop that queues     *)
(* recurring jobs again. MongoDB is used without transactions: whoever     *)
(* writes a job replaces the whole document by the copy that it read. Each *)
(* scrape.requested goes to two exchanges that the queue is both bound to, *)
(* so it has two messages, whose handlers overlap.                         *)
(***************************************************************************)
EXTENDS Integers, FiniteSets

CONSTANTS
  Jobs,         \* jobs that may be created
  Recurring,    \* those with recurring and interval_hours
  Cancels,      \* calls of cancel
  MaxEvents,    \* bound: how many scrape.requested events are published
  MaxPages,     \* max_pages of each job
  ScrapeLimit,  \* x-delivery-limit (5 in the code)
  NoOne

ASSUME ScrapingAssumption ==
  /\ Recurring \subseteq Jobs
  /\ MaxEvents \in Nat /\ MaxPages \in Nat \ {0} /\ ScrapeLimit \in Nat
  /\ NoOne \notin Jobs

ScrapeEvents == 1..MaxEvents
ScrapeMessages == ScrapeEvents \X {1, 2}

VARIABLES
  jobs,       \* scraper_jobs: status and when the next run is
  documents,  \* scraped_documents: job, run that stored it and number of its page
  recorded,   \* processed_events
  dispatch,   \* scrape.requested events: their job, who publishes them and how far
  stage,      \* where the handler of a message is
  returns,    \* how often a message was returned
  copy,       \* the job that a handler has read and goes on changing
  cancelling, \* the job that a call of cancel has read as queued
  scan,       \* recurring_scan_loop: jobs still to be stored, jobs to be dispatched
  outcomes    \* scrape.completed and scrape.failed events published

scrapingVars == <<jobs, documents, recorded, dispatch, stage, returns, copy, cancelling, scan,
                  outcomes>>
handlerVars == <<dispatch, stage, returns, copy>>

JobStatuses == {"none", "queued", "running", "completed", "failed", "cancelled"}
JobRecords == [status : JobStatuses, next : {"none", "later", "due"}]
NoJob == [status |-> "none", next |-> "none"]
Queued == [status |-> "queued", next |-> "none"]
ScrapeStages == {"none", "queued", "begun", "copied", "running", "stored", "over", "done", "dead"}
Working == {"begun", "copied", "running", "stored", "over"}

(* A run is named by the delivery that made it. *)
Run(m) == <<m, returns[m]>>
Runs == ScrapeMessages \X (0..ScrapeLimit)
JobOf(m) == dispatch[m[1]].job
Pages(m) == {d \in documents : d.run = Run(m)}

ScrapingTypeOK ==
  /\ jobs \in [Jobs -> JobRecords]
  /\ documents \subseteq [job : Jobs, run : Runs, page : 1..MaxPages]
  /\ recorded \subseteq ScrapeEvents
  /\ dispatch \in [ScrapeEvents -> [job : Jobs \cup {NoOne}, by : {"request", "scan"},
                                    at : {"none", "first", "second", "sent", "lost"}]]
  /\ stage \in [ScrapeMessages -> ScrapeStages]
  /\ returns \in [ScrapeMessages -> 0..ScrapeLimit]
  /\ copy \in [ScrapeMessages -> JobRecords]
  /\ cancelling \in [Cancels -> Jobs \cup {NoOne}]
  /\ scan \in [left : SUBSET Jobs, ready : SUBSET Jobs, alive : BOOLEAN]
  /\ \A o \in outcomes : /\ o.job \in Jobs /\ o.run \in Runs /\ o.pages \subseteq documents
                         /\ o.status \in {"completed", "failed"}

ScrapingInit ==
  /\ jobs = [j \in Jobs |-> NoJob]
  /\ documents = {} /\ recorded = {} /\ outcomes = {}
  /\ dispatch = [e \in ScrapeEvents |-> [job |-> NoOne, by |-> "request", at |-> "none"]]
  /\ stage = [m \in ScrapeMessages |-> "none"]
  /\ returns = [m \in ScrapeMessages |-> 0]
  /\ copy = [m \in ScrapeMessages |-> NoJob]
  /\ cancelling = [c \in Cancels |-> NoOne]
  /\ scan = [left |-> {}, ready |-> {}, alive |-> TRUE]

-----------------------------------------------------------------------------
(* _dispatch: a new event, published to scraper_events and then to         *)
(* creditflow.events by whoever makes it; a failure in between leaves one  *)
(* message or none, and ends the loop when it was the loop that published. *)

Published == {e \in ScrapeEvents : dispatch[e].at # "none"}
NewEvent == Cardinality(Published) + 1

NewDispatch(j, by) ==
  /\ NewEvent \in ScrapeEvents
  /\ dispatch' = [dispatch EXCEPT ![NewEvent] = [job |-> j, by |-> by, at |-> "first"]]

Send(e) ==
  /\ dispatch[e].at \in {"first", "second"}
  /\ LET first == dispatch[e].at = "first" IN
     /\ dispatch' = [dispatch EXCEPT ![e].at = IF first THEN "second" ELSE "sent"]
     /\ stage' = [stage EXCEPT ![<<e, IF first THEN 1 ELSE 2>>] = "queued"]
  /\ UNCHANGED <<jobs, documents, recorded, returns, copy, cancelling, scan, outcomes>>

SendFails(e) ==
  /\ dispatch[e].at \in {"first", "second"}
  /\ dispatch' = [dispatch EXCEPT ![e].at = "lost"]
  /\ scan' = IF dispatch[e].by = "scan" THEN [scan EXCEPT !.alive = FALSE] ELSE scan
  /\ UNCHANGED <<jobs, documents, recorded, stage, returns, copy, cancelling, outcomes>>

-----------------------------------------------------------------------------
(* Requests. *)

CreateJob(j) ==
  /\ jobs[j] = NoJob
  /\ jobs' = [jobs EXCEPT ![j] = Queued]
  /\ NewDispatch(j, "request")
  /\ UNCHANGED <<documents, recorded, stage, returns, copy, cancelling, scan, outcomes>>

Cancellable(job) == job.status = "queued"

ReadForCancel(c, j) ==
  /\ cancelling[c] = NoOne
  /\ Cancellable(jobs[j])
  /\ cancelling' = [cancelling EXCEPT ![c] = j]
  /\ UNCHANGED <<jobs, documents, recorded, handlerVars, scan, outcomes>>

CancelJob(c) ==
  /\ cancelling[c] # NoOne
  /\ jobs' = [jobs EXCEPT ![cancelling[c]] = [status |-> "cancelled", next |-> "none"]]
  /\ cancelling' = [cancelling EXCEPT ![c] = NoOne]
  /\ UNCHANGED <<documents, recorded, handlerVars, scan, outcomes>>

-----------------------------------------------------------------------------
(* The worker: one handler for each message, any number of them at work.   *)

DeliverRequest(m) ==
  /\ stage[m] = "queued"
  /\ stage' = [stage EXCEPT ![m] = IF m[1] \in recorded THEN "done" ELSE "begun"]
  /\ UNCHANGED <<jobs, documents, recorded, dispatch, returns, copy, cancelling, scan, outcomes>>

AnyStatus(job) == job.status # "none"
Runnable(job) == job.status = "queued"

ReadJob(m) ==
  /\ stage[m] = "begun"
  /\ IF Runnable(jobs[JobOf(m)])
     THEN /\ stage' = [stage EXCEPT ![m] = "copied"]
          /\ copy' = [copy EXCEPT ![m] = jobs[JobOf(m)]]
     ELSE /\ stage' = [stage EXCEPT ![m] = "over"]
          /\ copy' = copy
  /\ UNCHANGED <<jobs, documents, recorded, dispatch, returns, cancelling, scan, outcomes>>

(* The copy, changed, replaces what the collection has by then. *)
ReplaceJob(m, job, next) ==
  /\ copy' = [copy EXCEPT ![m] = job]
  /\ jobs' = [jobs EXCEPT ![JobOf(m)] = job]
  /\ stage' = [stage EXCEPT ![m] = next]

StartRun(m) ==
  /\ stage[m] = "copied"
  /\ ReplaceJob(m, [copy[m] EXCEPT !.status = "running"], "running")
  /\ UNCHANGED <<documents, recorded, dispatch, returns, cancelling, scan, outcomes>>

(* A page of a site or a search result: stored as it comes. *)
InsertDocument(m) ==
  LET page == Cardinality(Pages(m)) + 1 IN
  /\ stage[m] = "running"
  /\ page <= MaxPages
  /\ documents' = documents \cup {[job |-> JobOf(m), run |-> Run(m), page |-> page]}
  /\ UNCHANGED <<jobs, recorded, handlerVars, cancelling, scan, outcomes>>

NextRunIfCompleted(j, status) == IF j \in Recurring /\ status = "completed" THEN "later" ELSE "none"
NextRun(j, status) == IF j \in Recurring THEN "later" ELSE "none"

(* Every kind of job completes with a document at least; any may fail      *)
(* after it has stored some.                                               *)
FinishRun(m, status) ==
  /\ stage[m] = "running"
  /\ status = "completed" => Pages(m) # {}
  /\ ReplaceJob(m, [status |-> status, next |-> NextRun(JobOf(m), status)], "stored")
  /\ UNCHANGED <<documents, recorded, dispatch, returns, cancelling, scan, outcomes>>

OutcomeWithPages(m) ==
  [job |-> JobOf(m), run |-> Run(m), status |-> copy[m].status, pages |-> Pages(m)]

Outcome(m) ==
  [job |-> JobOf(m), run |-> Run(m), status |-> copy[m].status,
   pages |-> IF copy[m].status = "completed" THEN Pages(m) ELSE {}]

Emit(m) ==
  /\ stage[m] = "stored"
  /\ outcomes' = outcomes \cup {Outcome(m)}
  /\ stage' = [stage EXCEPT ![m] = "over"]
  /\ UNCHANGED <<jobs, documents, recorded, dispatch, returns, copy, cancelling, scan>>

RecordRequest(m) ==
  /\ stage[m] = "over"
  /\ recorded' = recorded \cup {m[1]}
  /\ stage' = [stage EXCEPT ![m] = "done"]
  /\ UNCHANGED <<jobs, documents, dispatch, returns, copy, cancelling, scan, outcomes>>

(* message.process(requeue=True): after an exception or a lost connection  *)
(* the message comes again, or is dead-lettered at the limit.              *)
GoBack(ms) ==
  /\ stage' = [m \in ScrapeMessages |-> IF m \notin ms THEN stage[m]
                                        ELSE IF returns[m] < ScrapeLimit THEN "queued" ELSE "dead"]
  /\ returns' = [m \in ScrapeMessages |->
                   IF m \in ms /\ returns[m] < ScrapeLimit THEN returns[m] + 1 ELSE returns[m]]

ReturnRequest(m) ==
  /\ stage[m] \in Working
  /\ GoBack({m})
  /\ UNCHANGED <<jobs, documents, recorded, dispatch, copy, cancelling, scan, outcomes>>

-----------------------------------------------------------------------------
(* recurring_scan_loop: one task of the one worker. What it has found it   *)
(* stores job by job, and only then dispatches; an exception ends it until *)
(* the worker starts again.                                                *)

Due(job) == job.status \in {"completed", "failed"} /\ job.next = "due"

Dispatching ==
  \E e \in ScrapeEvents : dispatch[e].by = "scan" /\ dispatch[e].at \in {"first", "second"}

NextRunIsDue(j) ==
  /\ jobs[j].next = "later"
  /\ jobs' = [jobs EXCEPT ![j].next = "due"]
  /\ UNCHANGED <<documents, recorded, handlerVars, cancelling, scan, outcomes>>

FindDue ==
  /\ scan.alive /\ scan.left = {} /\ scan.ready = {} /\ ~Dispatching
  /\ LET found == {j \in Recurring : Due(jobs[j])} IN
     /\ found # {}
     /\ Cardinality(Published) + Cardinality(found) <= MaxEvents
     /\ scan' = [scan EXCEPT !.left = found]
  /\ UNCHANGED <<jobs, documents, recorded, handlerVars, cancelling, outcomes>>

StoreDue(j) ==
  /\ scan.alive /\ j \in scan.left
  /\ jobs' = [jobs EXCEPT ![j] = Queued]
  /\ scan' = [scan EXCEPT !.left = @ \ {j}, !.ready = @ \cup {j}]
  /\ UNCHANGED <<documents, recorded, handlerVars, cancelling, outcomes>>

DispatchDue(j) ==
  /\ scan.alive /\ scan.left = {} /\ j \in scan.ready /\ ~Dispatching
  /\ NewDispatch(j, "scan")
  /\ scan' = [scan EXCEPT !.ready = @ \ {j}]
  /\ UNCHANGED <<jobs, documents, recorded, stage, returns, copy, cancelling, outcomes>>

ScanFails ==
  /\ scan.alive
  /\ scan.left # {} \/ (scan.ready = {} /\ ~Dispatching)
  /\ scan' = [scan EXCEPT !.alive = FALSE]
  /\ UNCHANGED <<jobs, documents, recorded, handlerVars, cancelling, outcomes>>

(* The worker stops, with all its handlers and the loop, and starts again. *)
WorkerRestarts ==
  /\ GoBack({m \in ScrapeMessages : stage[m] \in Working})
  /\ scan' = [left |-> {}, ready |-> {}, alive |-> TRUE]
  /\ dispatch' = [e \in ScrapeEvents |->
                    IF dispatch[e].by = "scan" /\ dispatch[e].at \in {"first", "second"}
                    THEN [dispatch[e] EXCEPT !.at = "lost"] ELSE dispatch[e]]
  /\ UNCHANGED <<jobs, documents, recorded, copy, cancelling, outcomes>>

-----------------------------------------------------------------------------
HandleRequest(m) ==
  \/ DeliverRequest(m) \/ ReadJob(m) \/ StartRun(m) \/ InsertDocument(m) \/ Emit(m)
  \/ RecordRequest(m) \/ ReturnRequest(m)
  \/ \E status \in {"completed", "failed"} : FinishRun(m, status)

ScrapingNext ==
  \/ \E j \in Jobs : CreateJob(j) \/ NextRunIsDue(j) \/ StoreDue(j) \/ DispatchDue(j)
  \/ \E c \in Cancels : CancelJob(c) \/ \E j \in Jobs : ReadForCancel(c, j)
  \/ \E e \in ScrapeEvents : Send(e) \/ SendFails(e)
  \/ \E m \in ScrapeMessages : HandleRequest(m)
  \/ FindDue \/ ScanFails \/ WorkerRestarts

(* Intervals pass, and a loop that is alive goes on: it sleeps, scans and  *)
(* publishes without waiting for anyone. The worker may restart over and   *)
(* over, but not always between finding a job and storing it.              *)
ScrapingFairness ==
  /\ \A j \in Jobs : WF_scrapingVars(NextRunIsDue(j)) /\ SF_scrapingVars(StoreDue(j))
                     /\ WF_scrapingVars(DispatchDue(j))
  /\ \A e \in ScrapeEvents : WF_scrapingVars(Send(e))
  /\ WF_scrapingVars(FindDue)

-----------------------------------------------------------------------------
(* What is settled stays: replace_job puts a whole document over whatever  *)
(* is there, so the status of a job that is completed, failed or cancelled *)
(* changes only at the hand of the scan, or of somebody who read it while  *)
(* it was queued and has not finished yet. A message that comes late, or   *)
(* again after a crash, does not open it again.                            *)
HeldSinceQueued(j) ==
  \/ \E m \in ScrapeMessages : /\ JobOf(m) = j
                               /\ \/ stage[m] = "copied" /\ copy[m].status = "queued"
                                  \/ stage[m] = "running"
  \/ \E c \in Cancels : cancelling[c] = j

SettledStays ==
  [][\A j \in Jobs :
       /\ jobs[j].status \in {"completed", "failed", "cancelled"}
       /\ ~HeldSinceQueued(j)
       /\ jobs'[j].status # jobs[j].status
       => j \in scan.left /\ jobs'[j] = Queued]_scrapingVars

(* A recurring job recurs: once it has completed or failed it is queued    *)
(* again, unless the loop has died or the bound on events is reached.      *)
Recurs ==
  \A j \in Recurring :
    jobs[j].status \in {"completed", "failed"}
    ~> \/ jobs[j].status \notin {"completed", "failed"}
       \/ ~scan.alive
       \/ Cardinality(Published) = MaxEvents
=============================================================================
