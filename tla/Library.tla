------------------------------- MODULE Library ------------------------------
(***************************************************************************)
(* content-service: drafts, their approval and publication, the history of *)
(* versions, and the consumer that keeps the drafts of AI generations.     *)
(*                                                                         *)
(* A request reads a row in a transaction and writes it back later in the  *)
(* same one, without a lock. What holds concurrent requests apart is the   *)
(* unique constraint on (content_id, version) of the history.              *)
(*                                                                         *)
(* ai-generation-service publishes each event to two exchanges that the    *)
(* queue is both bound to; the two messages' handlers overlap. It can      *)
(* publish the deletion of a generation before its completion, since the   *)
(* history entry that a user deletes is committed first.                   *)
(***************************************************************************)
EXTENDS Integers, FiniteSets

CONSTANTS
  Contents,     \* rows that users may create
  Generations,
  Requests,     \* requests served at one time
  Busy,         \* bounds the requests and handlers at work at one time
  MaxVersion,   \* bounds the edits of a row
  Limit,        \* x-delivery-limit (5 in the code)
  None

ASSUME ConstantsAssumption ==
  /\ MaxVersion \in Nat \ {0}
  /\ Limit \in Nat
  /\ Busy \in Nat

Completions == Generations \X {"completed"} \X {1, 2}
Deletions == Generations \X {"deleted"} \X {1, 2}
Messages == Completions \cup Deletions

\* A handler's draft is named by the delivery that makes it.
Drafts == Completions \X (0..Limit)
Rows == Contents \cup Drafts

ASSUME NamesAssumption == Contents \cap Drafts = {} /\ None \notin Rows

VARIABLES
  row,        \* content; a body is named by the version that wrote it
  history,    \* content_versions of each row
  request,    \* requests that have read a row
  handler,    \* messages and their handlers
  processed   \* processed_events: pairs of generation and event type

vars == <<row, history, request, handler, processed>>
rowVars == <<row, history>>

Statuses == {"none", "draft", "approved", "published", "deleted"}
Versions == 0..MaxVersion
RowStates == [status : Statuses, version : Versions, body : Versions]
Stages == {"none", "ready", "missing", "found", "noting", "done"}
Idle == [op |-> "idle", on |-> None, read |-> [status |-> "none", version |-> 0, body |-> 0]]

TypeOK ==
  /\ row \in [Rows -> RowStates]
  /\ history \in [Rows -> SUBSET RowStates]
  /\ request \in [Requests -> {Idle} \cup
       [op : {"update", "approve", "publish", "delete"}, on : Rows, read : RowStates]]
  /\ handler \in [Messages -> [at : Stages, tries : 0..Limit, on : Rows \cup {None}]]
  /\ processed \subseteq Generations \X {"completed", "deleted"}

Gone(status) == [status |-> status, version |-> 0, body |-> 0]

Init ==
  /\ row = [x \in Rows |-> Gone("none")]
  /\ history = [x \in Rows |-> {}]
  /\ request = [r \in Requests |-> Idle]
  /\ handler = [m \in Messages |-> [at |-> "none", tries |-> 0, on |-> None]]
  /\ processed = {}

\* A bound of the model, no part of the code.
Free ==
  Cardinality({r \in Requests : request[r] # Idle})
    + Cardinality({m \in Messages : handler[m].at \in {"missing", "found", "noting"}}) < Busy

-----------------------------------------------------------------------------
(* Requests *)

Exists(x) == row[x].status \in {"draft", "approved", "published"}
FirstVersion == [status |-> "draft", version |-> 1, body |-> 1]

Insert(x) ==
  /\ row' = [row EXCEPT ![x] = FirstVersion]
  /\ history' = [history EXCEPT ![x] = {FirstVersion}]

Create(x) ==
  /\ row[x].status = "none"
  /\ Insert(x)
  /\ UNCHANGED <<request, handler, processed>>

AllowedUnlocked(op, status) ==
  CASE op = "update" -> TRUE
    [] op = "delete" -> status # "published"
    [] op = "approve" -> status = "draft"
    [] op = "publish" -> status = "approved"

Allowed(op, status) ==
  CASE op \in {"update", "delete"} -> status # "published"
    [] op = "approve" -> status = "draft"
    [] op = "publish" -> status = "approved"

Read(r, op, x) ==
  /\ request[r] = Idle
  /\ Exists(x)
  /\ Allowed(op, row[x].status)
  /\ row[x].version < MaxVersion
  /\ Free
  /\ request' = [request EXCEPT ![r] = [op |-> op, on |-> x, read |-> row[x]]]
  /\ UNCHANGED <<rowVars, handler, processed>>

Target(op) == CASE op = "update" -> "draft" [] op = "approve" -> "approved" [] OTHER -> "published"

WrittenEarly(q) == q.read

\* The version that request q writes to the history, from what it has read.
Written(q) ==
  [status |-> Target(q.op), version |-> q.read.version + 1,
   body |-> IF q.op = "update" THEN q.read.version + 1 ELSE q.read.body]

\* The row after q: only columns that q has changed are written.
Updated(q) ==
  LET now == row[q.on] IN
  [status |-> IF Target(q.op) = q.read.status THEN now.status ELSE Target(q.op),
   version |-> q.read.version + 1,
   body |-> IF q.op = "update" THEN q.read.version + 1 ELSE now.body]

FreshAlways(x, v) == TRUE
Fresh(x, v) == \A h \in history[x] : h.version # v

\* The update matches no row if it was deleted, and the history refuses a second row of a
\* version: either way everything is rolled back.
CommitEdit(r) ==
  LET q == request[r] IN
  /\ q.op \in {"update", "approve", "publish"}
  /\ request' = [request EXCEPT ![r] = Idle]
  /\ IF Exists(q.on) /\ Fresh(q.on, q.read.version + 1)
     THEN /\ row' = [row EXCEPT ![q.on] = Updated(q)]
          /\ history' = [history EXCEPT ![q.on] = @ \cup {Written(q)}]
     ELSE UNCHANGED rowVars
  /\ UNCHANGED <<handler, processed>>

\* By id, whatever the row is by now; its history goes with it.
Delete(x) ==
  /\ row' = [row EXCEPT ![x] = Gone("deleted")]
  /\ history' = [history EXCEPT ![x] = {}]

CommitDelete(r) ==
  /\ request[r].op = "delete"
  /\ Delete(request[r].on)
  /\ request' = [request EXCEPT ![r] = Idle]
  /\ UNCHANGED <<handler, processed>>

RequestRaises(r) ==
  /\ request[r] # Idle
  /\ request' = [request EXCEPT ![r] = Idle]
  /\ UNCHANGED <<rowVars, handler, processed>>

-----------------------------------------------------------------------------
(* ai.generation_completed and ai.generation_deleted *)

\* When only the first publication succeeds, the second message stays ready here for ever.
Announce(g, event) ==
  /\ handler[<<g, event, 1>>].at = "none"
  /\ handler' = [m \in Messages |->
       IF m \in {g} \X {event} \X {1, 2} THEN [handler[m] EXCEPT !.at = "ready"] ELSE handler[m]]
  /\ UNCHANGED <<rowVars, request, processed>>

Seen(m) == <<m[1], m[2]>> \in processed

Sourced(g) == {x \in Drafts : x[1][1] = g /\ Exists(x)}

NotLooked(g) == FALSE
HasDraft(g) == Sourced(g) # {}

Move(m, at) == handler' = [handler EXCEPT ![m].at = at]

IgnoreMessage(m) ==
  /\ handler[m].at = "ready"
  /\ Seen(m)
  /\ Move(m, "done")
  /\ UNCHANGED <<rowVars, request, processed>>

\* The query for a draft of the generation.
LookForDraft(m) ==
  /\ m \in Completions
  /\ handler[m].at = "ready"
  /\ ~Seen(m)
  /\ Free
  /\ Move(m, IF HasDraft(m[1]) THEN "noting" ELSE "missing")
  /\ UNCHANGED <<rowVars, request, processed>>

InsertDraft(m) ==
  /\ handler[m].at = "missing"
  /\ Insert(<<m, handler[m].tries>>)
  /\ Move(m, "noting")
  /\ UNCHANGED <<request, processed>>

\* It takes one draft, whichever the query returns, and leaves a published one alone.
LookForDeletion(m) ==
  /\ m \in Deletions
  /\ handler[m].at = "ready"
  /\ ~Seen(m)
  /\ Free
  /\ \/ /\ \/ Sourced(m[1]) = {}
           \/ \E x \in Sourced(m[1]) : row[x].status = "published"
        /\ Move(m, "noting")
     \/ \E x \in Sourced(m[1]) :
          /\ row[x].status # "published"
          /\ handler' = [handler EXCEPT ![m] = [at |-> "found", tries |-> @.tries, on |-> x]]
  /\ UNCHANGED <<rowVars, request, processed>>

DeleteDraft(m) ==
  /\ handler[m].at = "found"
  /\ Delete(handler[m].on)
  /\ handler' = [handler EXCEPT ![m] = [at |-> "noting", tries |-> @.tries, on |-> None]]
  /\ UNCHANGED <<request, processed>>

\* After content.created or content.deleted was published.
Note(m) ==
  /\ handler[m].at = "noting"
  /\ processed' = processed \cup {<<m[1], m[2]>>}
  /\ Move(m, "done")
  /\ UNCHANGED <<rowVars, request>>

CanBeReturned(m) == handler[m].tries < Limit

\* Any exception, the end of the process, or of its channel before the acknowledgement. A
\* message that the queue gives up is done with, in the dead-letter queue.
ReturnMessage(m) ==
  /\ handler[m].at # "none"
  /\ handler' = [handler EXCEPT ![m] =
       IF CanBeReturned(m) THEN [at |-> "ready", tries |-> @.tries + 1, on |-> None]
       ELSE [at |-> "done", tries |-> @.tries, on |-> None]]
  /\ UNCHANGED <<rowVars, request, processed>>

-----------------------------------------------------------------------------
Serve(r) ==
  \/ \E op \in {"update", "approve", "publish", "delete"}, x \in Rows : Read(r, op, x)
  \/ CommitEdit(r)
  \/ CommitDelete(r)
  \/ RequestRaises(r)

Handle(m) ==
  \/ IgnoreMessage(m)
  \/ LookForDraft(m)
  \/ InsertDraft(m)
  \/ LookForDeletion(m)
  \/ DeleteDraft(m)
  \/ Note(m)
  \/ ReturnMessage(m)

Next ==
  \/ \E x \in Contents : Create(x)
  \/ \E r \in Requests : Serve(r)
  \/ \E g \in Generations, event \in {"completed", "deleted"} : Announce(g, event)
  \/ \E m \in Messages : Handle(m)

Spec == Init /\ [][Next]_vars

-----------------------------------------------------------------------------
(* Properties *)

\* Nobody publishes a text that was not approved: what is published is, word for word,
\* the version that the approval made, however edits interleave.
PublishedAsApproved ==
  \A x \in Rows : row[x].status = "published" =>
    [row[x] EXCEPT !.status = "approved", !.version = @ - 1] \in history[x]

\* The history has every version of a row once, and the last is the row itself: no edit is
\* lost and none is missing from the record.
HistoryComplete ==
  \A x \in Rows : Exists(x) =>
    /\ {h.version : h \in history[x]} = 1..row[x].version
    /\ \A h, k \in history[x] : h.version = k.version => h = k
    /\ row[x] \in history[x]

\* A published row is never edited. (A deletion that has read the row before can still
\* take it.)
PublishedIsLocked ==
  [][\A x \in Rows : row[x].status = "published" => row'[x] \in {row[x], Gone("deleted")}]_vars

\* While a draft of a generation exists, only handlers that have looked for one before add
\* another: redeliveries and retries do not.
Looked(g) == {m \in {g} \X {"completed"} \X {1, 2} : handler[m].at = "missing"}

DraftedOnce ==
  [][\A g \in Generations : Sourced(g) # {} =>
       /\ Looked(g)' \subseteq Looked(g)
       /\ Looked(g) = {} => Sourced(g)' \subseteq Sourced(g)]_vars
=============================================================================
