-------------------------- MODULE PublishingProofs --------------------------
(***************************************************************************)
(* Proofs about Publishing, for any posts, requests, connections and limit *)
(* of returns.                                                             *)
(*                                                                         *)
(* That a processed post was announced depends on the announcement coming  *)
(* before the note (Noted), on the job having ended by then (SettledEnded) *)
(* and on no later delivery reopening it: jobs are numbered by the returns *)
(* of their message, so a delivery works on a job that nobody announced    *)
(* (Untold), of a number that no job has had before (Numbered).            *)
(***************************************************************************)
EXTENDS Publishing, TLAPS

Ended == {"published", "failed"}

\* Stages of a handler that has not announced its job.
Attempting == {"none", "ready", "checked", "queued", "calling", "accepted", "broken", "settled"}

Numbered == \A h \in Handlers, n \in 0..Limit : <<h, n>> \in told => n <= tries[h]
Untold == \A h \in Handlers : at[h] \in Attempting => JobOf(h) \notin told
ToldEnded == \A j \in told : job[j].status \in Ended
SettledEnded == \A h \in Handlers : at[h] = "settled" => job[JobOf(h)].status \in Ended
Noted == \A m \in Messages : at[m] = "noting" => JobOf(m) \in told

Inv ==
  /\ TypeOK
  /\ Numbered
  /\ Untold
  /\ ToldEnded
  /\ SettledEnded
  /\ Noted
  /\ ProcessedIsTold

-----------------------------------------------------------------------------
(* Types *)

LEMMA Typed ==
  ASSUME TypeOK, NEW h \in Handlers
  PROVE  /\ JobOf(h) \in Jobs
         /\ job[JobOf(h)] = [status |-> job[JobOf(h)].status, via |-> Via(h),
                             live |-> job[JobOf(h)].live]
         /\ job[JobOf(h)].status \in JobStatuses
         /\ Via(h) \in Connections \cup {None}
         /\ job[JobOf(h)].live \in BOOLEAN
<1>1. JobOf(h) \in Jobs
  BY DEF TypeOK, Jobs, JobOf
<1>2. job[JobOf(h)] \in
        [status : JobStatuses, via : Connections \cup {None}, live : BOOLEAN]
  BY <1>1 DEF TypeOK
<1> QED BY <1>1, <1>2 DEF Via

\* What a handler writes to its job.
JobWritten(h, row, s) ==
  /\ row \in [status : JobStatuses, via : Connections \cup {None}, live : BOOLEAN]
  /\ at[h] \in Attempting
  /\ s \in Attempting
  /\ s = "settled" => row.status \in Ended
  /\ job' = [job EXCEPT ![JobOf(h)] = row]
  /\ at' = [at EXCEPT ![h] = s]
  /\ UNCHANGED <<connectionVars, tries, told, processed>>

LEMMA Writes ==
  ASSUME TypeOK, NEW h \in Handlers,
         \/ \E c \in Connections : CreateJob(h, c)
         \/ BeginPublish(h)
         \/ CallLinkedIn(h)
         \/ CommitPublished(h)
         \/ CommitFailed(h)
  PROVE  \E row, s : JobWritten(h, row, s)
<1> DEFINE J == JobOf(h)
           Row(status, live) == [status |-> status, via |-> Via(h), live |-> live]
<1>0. /\ J \in Jobs /\ job[J] = Row(job[J].status, job[J].live)
      /\ job[J].status \in JobStatuses /\ job[J].live \in BOOLEAN
      /\ Via(h) \in Connections \cup {None}
  BY Typed
<1>s. ASSUME NEW status \in JobStatuses, job' = [job EXCEPT ![J].status = status]
      PROVE  job' = [job EXCEPT ![J] = Row(status, job[J].live)]
  <2>1. [Row(job[J].status, job[J].live) EXCEPT !.status = status] = Row(status, job[J].live)
    OBVIOUS
  <2>2. [job[J] EXCEPT !.status = status] = Row(status, job[J].live)
    BY <1>0, <2>1
  <2> QED BY <1>s, <2>2
<1>l. ASSUME NEW live \in BOOLEAN, job' = [job EXCEPT ![J].live = live]
      PROVE  job' = [job EXCEPT ![J] = Row(job[J].status, live)]
  <2>1. [Row(job[J].status, job[J].live) EXCEPT !.live = live] = Row(job[J].status, live)
    OBVIOUS
  <2>2. [job[J] EXCEPT !.live = live] = Row(job[J].status, live)
    BY <1>0, <2>1
  <2> QED BY <1>l, <2>2
<1>r. ASSUME NEW status \in JobStatuses, NEW live \in BOOLEAN
      PROVE  /\ Row(status, live) \in
                  [status : JobStatuses, via : Connections \cup {None}, live : BOOLEAN]
             /\ Row(status, live).status = status
  BY <1>0
<1> HIDE DEF Row
<1>1. CASE \E c \in Connections : CreateJob(h, c)
  <2>1. PICK c \in Connections : CreateJob(h, c)
    BY <1>1
  <2>2. JobWritten(h, [status |-> "queued", via |-> c, live |-> FALSE], "queued")
    BY <2>1 DEF CreateJob, JobWritten, Attempting, JobStatuses
  <2> QED BY <2>2
<1>2. CASE BeginPublish(h)
  <2>1. CASE Usable(h)
    <3>1. job' = [job EXCEPT ![J] = Row("publishing", job[J].live)]
      BY <1>2, <2>1, <1>s DEF BeginPublish, JobStatuses
    <3>2. JobWritten(h, Row("publishing", job[J].live), "calling")
      BY <1>2, <2>1, <1>0, <1>r, <3>1 DEF BeginPublish, JobWritten, Attempting, JobStatuses
    <3> QED BY <3>2
  <2>2. CASE ~Usable(h)
    <3>1. job' = [job EXCEPT ![J] = Row("failed", job[J].live)]
      BY <1>2, <2>2, <1>s DEF BeginPublish, JobStatuses
    <3>2. JobWritten(h, Row("failed", job[J].live), "settled")
      BY <1>2, <2>2, <1>0, <1>r, <3>1
         DEF BeginPublish, JobWritten, Attempting, JobStatuses, Ended
    <3> QED BY <3>2
  <2> QED BY <2>1, <2>2
<1>3. CASE CallLinkedIn(h)
  <2>1. PICK taken \in BOOLEAN, outcome \in {"accepted", "broken"} :
          /\ job' = [job EXCEPT ![J].live = taken]
          /\ at' = [at EXCEPT ![h] = outcome]
    BY <1>3 DEF CallLinkedIn
  <2>2. job' = [job EXCEPT ![J] = Row(job[J].status, taken)]
    BY <2>1, <1>l
  <2>3. JobWritten(h, Row(job[J].status, taken), outcome)
    BY <1>3, <2>1, <2>2, <1>0, <1>r DEF CallLinkedIn, JobWritten, Attempting
  <2> QED BY <2>3
<1>4. CASE CommitPublished(h)
  <2>1. job' = [job EXCEPT ![J] = Row("published", job[J].live)]
    BY <1>4, <1>s DEF CommitPublished, JobStatuses
  <2>2. JobWritten(h, Row("published", job[J].live), "settled")
    BY <1>4, <1>0, <1>r, <2>1 DEF CommitPublished, JobWritten, Attempting, JobStatuses, Ended
  <2> QED BY <2>2
<1>5. CASE CommitFailed(h)
  <2>1. job' = [job EXCEPT ![J] = Row("failed", job[J].live)]
    BY <1>5, <1>s DEF CommitFailed, JobStatuses
  <2>2. JobWritten(h, Row("failed", job[J].live), "settled")
    BY <1>5, <1>0, <1>r, <2>1 DEF CommitFailed, JobWritten, Attempting, JobStatuses, Ended
  <2> QED BY <2>2
<1> QED BY <1>1, <1>2, <1>3, <1>4, <1>5

\* Steps that leave the jobs alone, and no handler begins an attempt or leaves it.
Quiet ==
  /\ \A h \in Handlers :
       /\ at'[h] \in Attempting => at[h] \in Attempting
       /\ at'[h] = "settled" => at[h] = "settled"
       /\ at'[h] = "noting" => at[h] = "noting"
  /\ UNCHANGED jobVars

LEMMA ConnectionStep ==
  ASSUME TypeOK, NEW c \in Connections, Authorize(c)
  PROVE  TypeOK' /\ Quiet
<1>1. UNCHANGED <<at, jobVars>>
  BY DEF Authorize, Connect, ConnectDev, Callback, FinishCallback, CallbackRaises,
     CallbackFailed, Disconnect
<1>2. /\ connection' \in
           [Connections -> [status : ConnectionStatuses, state : BOOLEAN, dev : BOOLEAN]]
      /\ callbacks' \subseteq Connections
  <2> USE DEF TypeOK, ConnectionStatuses
  <2>1. CASE Connect(c)
    BY <2>1 DEF Connect
  <2>2. CASE ConnectDev(c)
    BY <2>2 DEF ConnectDev
  <2>3. CASE Callback(c)
    BY <2>3 DEF Callback
  <2>4. CASE FinishCallback(c)
    BY <2>4 DEF FinishCallback, Connected
  <2>5. CASE CallbackRaises(c)
    BY <2>5 DEF CallbackRaises
  <2>6. CASE CallbackFailed(c)
    BY <2>6 DEF CallbackFailed
  <2>7. CASE Disconnect(c)
    BY <2>7 DEF Disconnect
  <2> QED BY <2>1, <2>2, <2>3, <2>4, <2>5, <2>6, <2>7 DEF Authorize
<1> QED BY <1>1, <1>2 DEF TypeOK, Quiet, jobVars

\* Fire, StartDelivery, Ask, Ack, RequestFails: a handler moves and no job does.
LEMMA HandlerMoves ==
  ASSUME TypeOK, NEW h \in Handlers,
         \/ StartDelivery(h)
         \/ Ask(h)
         \/ Ack(h)
         \/ RequestFails(h)
  PROVE  TypeOK' /\ Quiet
<1>1. PICK s \in Stages :
        /\ at' = [at EXCEPT ![h] = s]
        /\ s \in Attempting => at[h] \in Attempting
        /\ s # "settled" /\ s # "noting"
        /\ UNCHANGED <<connectionVars, jobVars>>
  BY DEF StartDelivery, Ask, Ack, RequestFails, Stages, Attempting
<1> QED BY <1>1 DEF TypeOK, Quiet, connectionVars, jobVars

LEMMA FireStep ==
  ASSUME TypeOK, NEW p \in Posts, Fire(p)
  PROVE  TypeOK' /\ Quiet
<1>1. PICK ks \in {{1}, {1, 2}} :
        at' = [h \in Handlers |-> IF h \in {p} \X ks THEN "ready" ELSE at[h]]
  BY DEF Fire
<1>2. ASSUME NEW h \in {p} \X {1, 2} PROVE at[h] = "none"
  BY <1>2 DEF Fire
<1>3. \A h \in Handlers : at'[h] = at[h] \/ (at'[h] = "ready" /\ at[h] = "none")
  BY <1>1, <1>2
<1>4. at' \in [Handlers -> Stages]
  BY <1>1 DEF TypeOK, Stages
<1>5. TypeOK'
  BY <1>4 DEF Fire, TypeOK, connectionVars, jobVars
<1>6. Quiet
  BY <1>3 DEF Fire, Quiet, Attempting, jobVars
<1> QED BY <1>5, <1>6
-----------------------------------------------------------------------------
(* The invariant *)

LEMMA QuietKeeps == ASSUME Inv, TypeOK', Quiet PROVE Inv'
<1>1. \A h \in Handlers : JobOf(h)' = JobOf(h)
  BY DEF Quiet, jobVars, JobOf
<1> QED BY <1>1 DEF Inv, Quiet, jobVars, Numbered, Untold, ToldEnded, SettledEnded, Noted,
           ProcessedIsTold, JobsOf, Messages, Handlers

LEMMA WriteKeeps ==
  ASSUME Inv, NEW h \in Handlers, NEW row, NEW s, JobWritten(h, row, s)
  PROVE  Inv'
<1>1. TypeOK'
  <2>1. s \in Stages
    BY DEF JobWritten, Attempting, Stages
  <2> QED BY <2>1, Typed DEF Inv, TypeOK, JobWritten, connectionVars
<1>2. /\ JobOf(h) \in Jobs /\ JobOf(h) \notin told
      /\ \A g \in Handlers : JobOf(g)' = JobOf(g)
      /\ \A g \in Handlers : g # h => JobOf(g) # JobOf(h)
      /\ \A j \in Jobs : job'[j] = IF j = JobOf(h) THEN row ELSE job[j]
      /\ \A g \in Handlers : at'[g] = IF g = h THEN s ELSE at[g]
  BY Typed DEF Inv, TypeOK, JobWritten, Untold, JobOf
<1>3. Numbered' /\ Untold' /\ Noted'
  BY <1>2 DEF Inv, JobWritten, Numbered, Untold, Noted, Attempting, Messages, Handlers
<1>4. ToldEnded' /\ SettledEnded'
  BY <1>2, Typed DEF Inv, TypeOK, JobWritten, ToldEnded, SettledEnded
<1>5. ProcessedIsTold'
  BY <1>2 DEF Inv, JobWritten, ProcessedIsTold, JobsOf
<1> QED BY <1>1, <1>3, <1>4, <1>5 DEF Inv

LEMMA EmitKeeps ==
  ASSUME Inv, NEW h \in Handlers, Emit(h)
  PROVE  Inv'
<1> DEFINE s == IF h \in Messages THEN "noting" ELSE "ended"
<1>1. /\ JobOf(h) \in Jobs
      /\ \A g \in Handlers : JobOf(g)' = JobOf(g)
      /\ \A g \in Handlers : g # h => JobOf(g) # JobOf(h)
      /\ \A g \in Handlers : at'[g] = IF g = h THEN s ELSE at[g]
      /\ told' = told \cup {JobOf(h)}
      /\ UNCHANGED <<connectionVars, tries, job, processed>>
      /\ s \in Stages \ Attempting
  BY Typed DEF Inv, TypeOK, Emit, JobOf, Stages, Attempting
<1>2. TypeOK'
  BY <1>1 DEF Inv, TypeOK, Emit, connectionVars
<1>3. Numbered'
  BY <1>1 DEF Inv, TypeOK, Numbered, JobOf
<1>4. Untold' /\ Noted'
  BY <1>1 DEF Inv, Untold, Noted, Messages, Handlers
<1>5. ToldEnded' /\ SettledEnded'
  BY <1>1 DEF Inv, Emit, ToldEnded, SettledEnded, Attempting
<1>6. ProcessedIsTold'
  BY <1>1 DEF Inv, ProcessedIsTold, JobsOf
<1> QED BY <1>2, <1>3, <1>4, <1>5, <1>6 DEF Inv

LEMMA NoteKeeps ==
  ASSUME Inv, NEW m \in Messages, Note(m)
  PROVE  Inv'
<1>1. /\ m \in Handlers /\ m \in {m[1]} \X {1, 2} /\ m[1] \in Posts
      /\ JobOf(m) \in Jobs
  BY Typed DEF Inv, Messages, Handlers
<1>2. /\ \A g \in Handlers : JobOf(g)' = JobOf(g)
      /\ \A g \in Handlers : at'[g] = IF g = m THEN "done" ELSE at[g]
      /\ UNCHANGED <<connectionVars, tries, job, told>>
      /\ processed' = processed \cup {m[1]}
  BY <1>1 DEF Inv, TypeOK, Note, JobOf
<1>3. TypeOK'
  BY <1>1, <1>2 DEF Inv, TypeOK, Note, connectionVars, Stages
<1>4. Numbered' /\ Untold' /\ ToldEnded' /\ SettledEnded' /\ Noted'
  BY <1>2 DEF Inv, Numbered, Untold, ToldEnded, SettledEnded, Noted, Attempting, Messages,
     Handlers
<1>5. JobOf(m) \in JobsOf(m[1]) \cap told /\ job[JobOf(m)].status \in Ended
  BY <1>1 DEF Inv, Note, Noted, ToldEnded, JobsOf, JobOf
<1>6. ProcessedIsTold'
  BY <1>2, <1>5 DEF Inv, ProcessedIsTold, JobsOf, Ended
<1> QED BY <1>3, <1>4, <1>6 DEF Inv

LEMMA ReturnKeeps ==
  ASSUME Inv, NEW m \in Messages, ReturnMessage(m)
  PROVE  Inv'
<1>1. m \in Handlers
  BY DEF Messages, Handlers
<1>2. CASE CanBeReturned(m)
  <2>1. /\ tries' = [tries EXCEPT ![m] = @ + 1]
        /\ at' = [at EXCEPT ![m] = "ready"]
        /\ UNCHANGED <<connectionVars, job, told, processed>>
        /\ tries[m] + 1 \in 0..Limit
    BY <1>1, <1>2, ConstantsAssumption DEF ReturnMessage, CanBeReturned, Inv, TypeOK
  <2>2. TypeOK'
    BY <2>1 DEF Inv, TypeOK, connectionVars, Stages
  <2>3. /\ \A g \in Handlers \ {m} : JobOf(g)' = JobOf(g) /\ at'[g] = at[g]
        /\ JobOf(m)' = <<m, tries[m] + 1>> /\ at'[m] = "ready"
        /\ \A g \in Handlers : tries[g] <= tries'[g]
    BY <1>1, <2>1 DEF Inv, TypeOK, JobOf
  <2>4. JobOf(m)' \notin told
    BY <1>1, <2>1, <2>3, ConstantsAssumption DEF Inv, TypeOK, Numbered
  <2>5. Numbered'
    BY <2>1, <2>2, <2>3, ConstantsAssumption DEF Inv, TypeOK, Numbered
  <2>6. Untold' /\ ToldEnded' /\ SettledEnded' /\ Noted'
    BY <2>1, <2>3, <2>4 DEF Inv, Untold, ToldEnded, SettledEnded, Noted, Messages, Handlers
  <2>7. ProcessedIsTold'
    BY <2>1 DEF Inv, ProcessedIsTold, JobsOf
  <2> QED BY <2>2, <2>5, <2>6, <2>7 DEF Inv
<1>3. CASE ~CanBeReturned(m)
  <2>1. at' = [at EXCEPT ![m] = "dropped"] /\ UNCHANGED <<connectionVars, jobVars>>
    BY <1>3 DEF ReturnMessage, jobVars
  <2>2. TypeOK' /\ Quiet
    BY <1>1, <2>1 DEF Inv, TypeOK, Quiet, connectionVars, jobVars, Stages, Attempting
  <2> QED BY <2>2, QuietKeeps
<1> QED BY <1>2, <1>3

LEMMA InvStep == Inv /\ [Next]_vars => Inv'
<1> SUFFICES ASSUME Inv, [Next]_vars PROVE Inv'
  OBVIOUS
<1>1. TypeOK
  BY DEF Inv
<1>2. ASSUME NEW c \in Connections, Authorize(c) PROVE Inv'
  BY <1>1, <1>2, ConnectionStep, QuietKeeps
<1>3. ASSUME NEW p \in Posts, Fire(p) PROVE Inv'
  BY <1>1, <1>3, FireStep, QuietKeeps
<1>4. ASSUME NEW h \in Handlers, Attempt(h) PROVE Inv'
  <2>1. CASE Emit(h)
    BY <2>1, EmitKeeps
  <2>2. CASE ~Emit(h)
    <3>1. \E row, s : JobWritten(h, row, s)
      BY <1>1, <1>4, <2>2, Writes DEF Attempt
    <3> QED BY <3>1, WriteKeeps
  <2> QED BY <2>1, <2>2
<1>5. ASSUME NEW m \in Messages, Handle(m) PROVE Inv'
  <2>1. m \in Handlers
    BY DEF Handlers
  <2>2. CASE StartDelivery(m) \/ Ack(m)
    BY <1>1, <2>1, <2>2, HandlerMoves, QuietKeeps
  <2>3. CASE Note(m)
    BY <2>3, NoteKeeps
  <2>4. CASE ReturnMessage(m)
    BY <2>4, ReturnKeeps
  <2> QED BY <1>4, <1>5, <2>1, <2>2, <2>3, <2>4 DEF Handle
<1>6. ASSUME NEW r \in Requests, Serve(r) PROVE Inv'
  <2>1. r \in Handlers
    BY DEF Handlers
  <2>2. CASE Ask(r) \/ RequestFails(r)
    BY <1>1, <2>1, <2>2, HandlerMoves, QuietKeeps
  <2> QED BY <1>4, <1>6, <2>1, <2>2 DEF Serve
<1>7. CASE UNCHANGED vars
  <2>1. TypeOK' /\ Quiet
    BY <1>1, <1>7 DEF vars, TypeOK, Quiet, jobVars
  <2> QED BY <2>1, QuietKeeps
<1> QED BY <1>2, <1>3, <1>5, <1>6, <1>7 DEF Next

LEMMA Invariance == Spec => []Inv
<1>1. Init => Inv
  BY ConstantsAssumption DEF Init, Inv, TypeOK, ConnectionStatuses, JobStatuses, Stages, Numbered,
     Untold, ToldEnded, SettledEnded, Noted, ProcessedIsTold, Messages, Handlers
<1> QED BY <1>1, InvStep, PTL DEF Spec
-----------------------------------------------------------------------------
(* The theorems *)

\* _create_and_publish ends, and post.published or post.failed is out, before consume adds
\* the row to processed_events: whichever of the overlapping handlers notes the event.
THEOREM ProcessedWasTold == Spec => []ProcessedIsTold
<1>1. Inv => ProcessedIsTold
  BY DEF Inv
<1> QED BY <1>1, Invariance, PTL

\* A handler changes nothing but its own place and its own job.
OnlyOwn(h) ==
  /\ \A g \in Handlers \ {h} : at'[g] = at[g] /\ tries'[g] = tries[g]
  /\ \A j \in Jobs : j[1] # h => job'[j] = job[j]
  /\ UNCHANGED connectionVars

LEMMA Own ==
  ASSUME TypeOK, NEW h \in Handlers,
         Attempt(h) \/ StartDelivery(h) \/ Note(h) \/ Ack(h) \/ ReturnMessage(h) \/ Ask(h)
           \/ RequestFails(h)
  PROVE  OnlyOwn(h)
<1>1. CASE Emit(h) \/ StartDelivery(h) \/ Note(h) \/ Ack(h) \/ ReturnMessage(h) \/ Ask(h)
             \/ RequestFails(h)
  BY <1>1 DEF Emit, StartDelivery, Note, Ack, ReturnMessage, Ask, RequestFails, OnlyOwn, TypeOK,
     connectionVars, jobVars
<1>2. CASE \E row, s : JobWritten(h, row, s)
  <2>1. PICK row, s : JobWritten(h, row, s)
    BY <1>2
  <2>2. \A j \in Jobs : j[1] # h => j # JobOf(h)
    BY DEF JobOf
  <2> QED BY <2>1, <2>2 DEF JobWritten, OnlyOwn, TypeOK
<1> QED BY <1>1, <1>2, Writes DEF Attempt

\* The steps of a handler that can show a post on LinkedIn, or take it from there.
LEMMA Idle ==
  ASSUME TypeOK, NEW m \in Messages, m[1] \in processed, Handle(m)
  PROVE  /\ m \notin Ahead(m[1]) => m \notin Ahead(m[1])' /\ UNCHANGED job
<1> SUFFICES ASSUME m \notin Ahead(m[1]) PROVE m \notin Ahead(m[1])' /\ UNCHANGED job
  OBVIOUS
<1>1. m \in Handlers /\ m \in {m[1]} \X {1, 2}
  BY DEF Messages, Handlers
<1>2. at[m] \in {"none", "ready", "done", "ended", "dropped"}
  BY <1>1 DEF Ahead
<1>3. StartDelivery(m) \/ Ack(m) \/ ReturnMessage(m)
  BY <1>2 DEF Handle, Attempt, CreateJob, BeginPublish, CallLinkedIn, CommitPublished, CommitFailed,
     Emit, Note
<1>4. at'[m] \in {"none", "ready", "done", "ended", "dropped"} /\ UNCHANGED job
  BY <1>1, <1>3 DEF StartDelivery, Seen, Ack, ReturnMessage, TypeOK, jobVars
<1> QED BY <1>4 DEF Ahead

\* What consume's first look at processed_events is for.
THEOREM ProcessedIsQuiet == Spec => ProcessedStaysQuiet
<1> DEFINE QuietFor(p) == /\ Ahead(p)' \subseteq Ahead(p)
                          /\ Ahead(p) = {} => LiveJobs(p)' = LiveJobs(p)
<1>1. ASSUME TypeOK, [Next]_vars, NEW p \in processed
      PROVE  QuietFor(p)
  <2>0. p \in Posts /\ {p} \X {1, 2} \subseteq Messages /\ Messages \subseteq Handlers
    BY <1>1 DEF TypeOK, Messages, Handlers
  <2>1. ASSUME \A m \in {p} \X {1, 2} :
                 m \notin Ahead(p) => m \notin Ahead(p)' /\ \A j \in Jobs : j[1] = m => job'[j] = job[j]
        PROVE  QuietFor(p)
    <3>1. Ahead(p)' \subseteq Ahead(p)
      BY <2>1 DEF Ahead
    <3>2. ASSUME Ahead(p) = {} PROVE LiveJobs(p)' = LiveJobs(p)
      BY <2>1, <3>2 DEF LiveJobs, JobsOf
    <3> QED BY <3>1, <3>2
  <2>2. ASSUME NEW h \in Handlers, OnlyOwn(h), h \notin {p} \X {1, 2} PROVE QuietFor(p)
    BY <2>0, <2>1, <2>2 DEF OnlyOwn, Ahead
  <2>3. ASSUME NEW m \in Messages, Handle(m) PROVE QuietFor(p)
    <3>1. OnlyOwn(m)
      BY <1>1, <2>0, <2>3, Own DEF Handle
    <3>2. CASE m \in {p} \X {1, 2}
      <4>1. m[1] = p
        BY <3>2
      <4>2. m \notin Ahead(p) => m \notin Ahead(p)' /\ UNCHANGED job
        BY <1>1, <2>3, <4>1, Idle
      <4> QED BY <2>0, <2>1, <3>1, <4>2 DEF OnlyOwn, Ahead
    <3> QED BY <2>0, <2>2, <3>1, <3>2
  <2>4. ASSUME NEW r \in Requests, Serve(r) PROVE QuietFor(p)
    <3>1. r \in Handlers /\ r \notin {p} \X {1, 2}
      BY <2>0, ConstantsAssumption DEF Handlers
    <3> QED BY <1>1, <2>2, <2>4, <3>1, Own DEF Serve
  <2>5. ASSUME NEW c \in Connections, Authorize(c) PROVE QuietFor(p)
    BY <1>1, <2>0, <2>1, <2>5, ConnectionStep DEF Authorize, Connect, ConnectDev, Callback,
       FinishCallback, CallbackRaises, CallbackFailed, Disconnect, Ahead, jobVars
  <2>6. ASSUME NEW q \in Posts, Fire(q) PROVE QuietFor(p)
    <3>1. \A h \in Handlers : at'[h] = at[h] \/ at'[h] = "ready"
      BY <2>6 DEF Fire
    <3> QED BY <2>0, <2>1, <2>6, <3>1 DEF Fire, Ahead, jobVars
  <2>7. CASE UNCHANGED vars
    BY <2>1, <2>7 DEF vars, Ahead
  <2> QED BY <1>1, <2>3, <2>4, <2>5, <2>6, <2>7 DEF Next
<1>2. Inv /\ [Next]_vars =>
        \A p \in processed :
          /\ Ahead(p)' \subseteq Ahead(p)
          /\ Ahead(p) = {} => LiveJobs(p)' = LiveJobs(p)
  BY <1>1 DEF Inv
<1> QED BY <1>2, Invariance, PTL DEF Spec, ProcessedStaysQuiet

\* _publish_job reads the connection again. A queued job of a revoked connection fails, and
\* only a callback that is under way can bring a revoked connection back.
THEOREM RevokedIsQuiet == Spec => RevokedStaysQuiet
<1> DEFINE QuietFor(c) ==
             /\ Calling(c)' \subseteq Calling(c)
             /\ connection[c].status = "revoked" /\ ~connection[c].state /\ c \notin callbacks =>
                  connection'[c] = connection[c]
<1>1. ASSUME TypeOK, [Next]_vars, NEW c \in Connections, connection[c].status # "connected"
      PROVE  QuietFor(c)
  <2>1. ASSUME UNCHANGED connection,
               \A h \in Handlers : at'[h] = "calling" => at[h] = "calling" /\ Via(h)' = Via(h)
        PROVE  QuietFor(c)
    BY <2>1 DEF Calling
  <2>2. ASSUME NEW h \in Handlers, OnlyOwn(h), at'[h] # "calling" PROVE QuietFor(c)
    <3>1. ASSUME NEW g \in Handlers, at'[g] = "calling"
          PROVE  at[g] = "calling" /\ Via(g)' = Via(g)
      <4>1. g # h /\ JobOf(g)' = JobOf(g) /\ JobOf(g) \in Jobs /\ JobOf(g)[1] = g
        BY <1>1, <2>2, <3>1, Typed DEF OnlyOwn, JobOf
      <4>2. job'[JobOf(g)] = job[JobOf(g)]
        BY <2>2, <4>1 DEF OnlyOwn
      <4> QED BY <2>2, <3>1, <4>1, <4>2 DEF OnlyOwn, Via
    <3> QED BY <2>1, <2>2, <3>1 DEF OnlyOwn, connectionVars
  <2>3. ASSUME NEW h \in Handlers, BeginPublish(h), Usable(h) PROVE QuietFor(c)
    <3>1. /\ Via(h) # c /\ JobOf(h)' = JobOf(h) /\ JobOf(h) \in Jobs
          /\ job[JobOf(h)] = [status |-> job[JobOf(h)].status, via |-> Via(h),
                              live |-> job[JobOf(h)].live]
      BY <1>1, <2>3, Typed DEF BeginPublish, Usable, JobOf
    <3>2. Via(h)' = Via(h)
      BY <1>1, <2>3, <3>1 DEF BeginPublish, Via, TypeOK
    <3>3. ASSUME NEW g \in Handlers, g # h PROVE at'[g] = at[g] /\ Via(g)' = Via(g)
      <4>1. JobOf(g)' = JobOf(g) /\ JobOf(g) \in Jobs /\ JobOf(g) # JobOf(h)
        BY <1>1, <2>3, <3>3, Typed DEF BeginPublish, JobOf
      <4> QED BY <1>1, <2>3, <3>3, <4>1 DEF BeginPublish, Via, TypeOK
    <3> QED BY <2>3, <3>1, <3>2, <3>3 DEF Calling, BeginPublish, connectionVars
  <2>4. ASSUME NEW h \in Handlers,
               Attempt(h) \/ StartDelivery(h) \/ Note(h) \/ Ack(h) \/ ReturnMessage(h) \/ Ask(h)
                 \/ RequestFails(h)
        PROVE  QuietFor(c)
    <3>1. CASE BeginPublish(h) /\ Usable(h)
      BY <2>3, <3>1
    <3>2. CASE ~(BeginPublish(h) /\ Usable(h))
      <4>1. at'[h] # "calling"
        BY <1>1, <2>4, <3>2 DEF Attempt, CreateJob, BeginPublish, CallLinkedIn, CommitPublished,
           CommitFailed, Emit, StartDelivery, Note, Ack, ReturnMessage, Ask, RequestFails, TypeOK
      <4> QED BY <1>1, <2>2, <2>4, <4>1, Own
    <3> QED BY <3>1, <3>2
  <2>5. ASSUME NEW d \in Connections, Authorize(d) PROVE QuietFor(c)
    <3>1. UNCHANGED <<at, jobVars>>
      BY <2>5 DEF Authorize, Connect, ConnectDev, Callback, FinishCallback, CallbackRaises,
         CallbackFailed, Disconnect
    <3>2. Calling(c)' = Calling(c)
      BY <3>1 DEF Calling, Via, JobOf, jobVars
    <3>3. ASSUME connection[c].status = "revoked", ~connection[c].state, c \notin callbacks
          PROVE  connection'[c] = connection[c]
      BY <1>1, <2>5, <3>3 DEF Authorize, Connect, ConnectDev, Callback, FinishCallback,
         CallbackRaises, CallbackFailed, Disconnect, Connected, TypeOK
    <3> QED BY <3>2, <3>3
  <2>6. ASSUME NEW q \in Posts, Fire(q) PROVE QuietFor(c)
    <3>1. \A h \in Handlers : at'[h] = at[h] \/ at'[h] = "ready"
      BY <2>6 DEF Fire
    <3> QED BY <2>1, <2>6, <3>1 DEF Fire, Via, JobOf, connectionVars, jobVars
  <2>7. CASE UNCHANGED vars
    BY <2>1, <2>7 DEF vars, Via, JobOf
  <2>8. Messages \subseteq Handlers /\ Requests \subseteq Handlers
    BY DEF Handlers
  <2> QED BY <1>1, <2>4, <2>5, <2>6, <2>7, <2>8 DEF Next, Handle, Serve
<1>2. Inv /\ [Next]_vars =>
        \A c \in Connections : connection[c].status # "connected" =>
          /\ Calling(c)' \subseteq Calling(c)
          /\ connection[c].status = "revoked" /\ ~connection[c].state /\ c \notin callbacks =>
               connection'[c] = connection[c]
  BY <1>1 DEF Inv
<1> QED BY <1>2, Invariance, PTL DEF Spec, RevokedStaysQuiet
=============================================================================
