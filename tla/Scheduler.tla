----------------------------- MODULE Scheduler ------------------------------
(***************************************************************************)
(* scheduler-service: the calendar of posts, the Celery task that fires    *)
(* what is due, and the consumer that cancels the posts of deleted         *)
(* contents. Tasks overlap when one runs longer than the beat of 60 s; a   *)
(* Redis lock per post keeps them apart.                                   *)
(*                                                                         *)
(* No row is locked: an operation reads it in one session or statement and *)
(* writes it in another, by id, whatever its columns are by then. The      *)
(* posts a task has found and works through one by one are modelled as     *)
(* separate scans, each of one post.                                       *)
(***************************************************************************)
EXTENDS Integers, FiniteSets

CONSTANTS
  Posts,      \* rows that may be scheduled
  Contents,
  ContentOf,  \* [Posts -> Contents]
  Accounts,
  AccountOf,  \* [Posts -> Accounts]: nobody checks that the content is the account's own
  DueSoon,    \* posts whose publish_at may pass in the time that is modelled: a bound
  Scans,      \* posts being fired, and requests being served, at one time:
  Edits,      \* both bound concurrency
  Limit,      \* x-delivery-limit (5 in the code)
  None

ASSUME ConstantsAssumption ==
  /\ ContentOf \in [Posts -> Contents]
  /\ AccountOf \in [Posts -> Accounts]
  /\ DueSoon \subseteq Posts
  /\ Limit \in Nat
  /\ None \notin Posts

\* content.deleted goes to two exchanges, and the queue is bound to both.
Notices == Contents \X {1, 2}

VARIABLES
  status,     \* scheduled_posts.status
  due,        \* posts whose publish_at has passed
  locks,      \* Redis keys scheduler:scheduled_post:<id>:fire
  scan,       \* items of fire_due in progress
  sent,       \* how many content.scheduled events were published of each post
  edit,       \* cancel and reschedule requests in progress
  planned,    \* contents that were deleted, with the posts then scheduled of them
  notice,     \* content.deleted messages and their handlers
  processed   \* processed_events: contents whose deletion was handled

vars == <<status, due, locks, scan, sent, edit, planned, notice, processed>>
noticeVars == <<planned, notice, processed>>
scanVars == <<locks, scan, sent>>

Statuses == {"none", "scheduled", "cancelled", "fired"}
Idle == [pc |-> "idle", post |-> None]
ScanJobs == {Idle} \cup [pc : {"found", "locked", "loaded", "fired"}, post : Posts]
EditJobs == {Idle} \cup [pc : {"cancel", "reschedule"}, post : Posts]
NoticeStates == {"none", "ready", "selected", "noting", "done", "acked", "dead"}
Active == {p \in Posts : status[p] = "scheduled"}

TypeOK ==
  /\ status \in [Posts -> Statuses]
  /\ due \subseteq Posts
  /\ locks \subseteq Posts
  /\ scan \in [Scans -> ScanJobs]
  /\ sent \in [Posts -> Nat]
  /\ edit \in [Edits -> EditJobs]
  /\ planned \in [Contents -> [gone : BOOLEAN, posts : SUBSET Posts]]
  /\ notice \in [Notices -> [at : NoticeStates, tries : 0..Limit, post : Posts \cup {None}]]
  /\ processed \subseteq Contents

Init ==
  /\ status = [p \in Posts |-> "none"]
  /\ due = {}
  /\ locks = {}
  /\ scan = [w \in Scans |-> Idle]
  /\ sent = [p \in Posts |-> 0]
  /\ edit = [r \in Edits |-> Idle]
  /\ planned = [c \in Contents |-> [gone |-> FALSE, posts |-> {}]]
  /\ notice = [m \in Notices |-> [at |-> "none", tries |-> 0, post |-> None]]
  /\ processed = {}

-----------------------------------------------------------------------------
(* schedule, cancel, reschedule *)

SameItem(p, q) == AccountOf[p] = AccountOf[q] /\ ContentOf[p] = ContentOf[q]

\* The partial unique index refuses an account's second active schedule of a content.
\* Another account may have one of the same content.
Schedule(p) ==
  /\ status[p] = "none"
  /\ \A q \in Active : ~SameItem(p, q)
  /\ status' = [status EXCEPT ![p] = "scheduled"]
  /\ UNCHANGED <<due, scanVars, edit, noticeVars>>

BecomesDue(p) ==
  /\ p \in (Active \cap DueSoon) \ due
  /\ due' = due \cup {p}
  /\ UNCHANGED <<status, scanVars, edit, noticeVars>>

\* cancel and reschedule read the post in a session of its own.
ReadForEdit(r, p, op) ==
  /\ edit[r] = Idle
  /\ p \in Active
  /\ edit' = [edit EXCEPT ![r] = [pc |-> op, post |-> p]]
  /\ UNCHANGED <<status, due, scanVars, noticeVars>>

Cancel(r) ==
  /\ edit[r].pc = "cancel"
  /\ status' = [status EXCEPT ![edit[r].post] = "cancelled"]
  /\ edit' = [edit EXCEPT ![r] = Idle]
  /\ UNCHANGED <<due, scanVars, noticeVars>>

\* publish_at moves into the future.
Reschedule(r) ==
  /\ edit[r].pc = "reschedule"
  /\ due' = due \ {edit[r].post}
  /\ edit' = [edit EXCEPT ![r] = Idle]
  /\ UNCHANGED <<status, scanVars, noticeVars>>

EditCrash(r) ==
  /\ edit[r] # Idle
  /\ edit' = [edit EXCEPT ![r] = Idle]
  /\ UNCHANGED <<status, due, scanVars, noticeVars>>

-----------------------------------------------------------------------------
(* fire_due *)

FindDue(w, p) ==
  /\ scan[w] = Idle
  /\ p \in Active \cap due
  /\ scan' = [scan EXCEPT ![w] = [pc |-> "found", post |-> p]]
  /\ UNCHANGED <<status, due, locks, sent, edit, noticeVars>>

LockFree(p) == TRUE

\* SET NX. The key is never deleted; it expires.
Free(p) == p \notin locks

AcquireLock(w) ==
  /\ scan[w].pc = "found"
  /\ IF Free(scan[w].post)
     THEN /\ locks' = locks \cup {scan[w].post}
          /\ scan' = [scan EXCEPT ![w].pc = "locked"]
     ELSE /\ scan' = [scan EXCEPT ![w] = Idle]
          /\ UNCHANGED locks
  /\ UNCHANGED <<status, due, sent, edit, noticeVars>>

AnyStatus(p) == TRUE

StillScheduled(p) == p \in Active

\* The post is read again, in a new session.
LoadPost(w) ==
  /\ scan[w].pc = "locked"
  /\ scan' = [scan EXCEPT ![w] = IF StillScheduled(scan[w].post)
                                 THEN [@ EXCEPT !.pc = "loaded"]
                                 ELSE Idle]
  /\ UNCHANGED <<status, due, locks, sent, edit, noticeVars>>

CommitFired(w) ==
  /\ scan[w].pc = "loaded"
  /\ status' = [status EXCEPT ![scan[w].post] = "fired"]
  /\ scan' = [scan EXCEPT ![w].pc = "fired"]
  /\ UNCHANGED <<due, locks, sent, edit, noticeVars>>

PublishScheduled(w) ==
  /\ scan[w].pc = "fired"
  /\ sent' = [sent EXCEPT ![scan[w].post] = @ + 1]
  /\ scan' = [scan EXCEPT ![w] = Idle]
  /\ UNCHANGED <<status, due, locks, edit, noticeVars>>

\* The worker stops or an exception ends the task: the lock stays.
ScanCrash(w) ==
  /\ scan[w] # Idle
  /\ scan' = [scan EXCEPT ![w] = Idle]
  /\ UNCHANGED <<status, due, locks, sent, edit, noticeVars>>

LockStays(p) == FALSE

\* 120 s, which outlast the two statements between taking the lock and the commit.
LockExpires(p) ==
  /\ p \in locks
  /\ \A w \in Scans : scan[w].pc \in {"locked", "loaded"} => scan[w].post # p
  /\ locks' = locks \ {p}
  /\ UNCHANGED <<status, due, scan, sent, edit, noticeVars>>

-----------------------------------------------------------------------------
(* consume: content.deleted. The check of processed_events, the              *)
(* cancellation and the insert are three transactions.                      *)

\* content-service has deleted the content; both publications, one or none succeeds.
DeleteContent(c) ==
  /\ ~planned[c].gone
  /\ planned' = [planned EXCEPT ![c] = [gone |-> TRUE,
                                        posts |-> {p \in Active : ContentOf[p] = c}]]
  /\ \E ks \in {{}, {1}, {1, 2}} :
       notice' = [m \in Notices |-> IF m[1] = c /\ m[2] \in ks
                                    THEN [notice[m] EXCEPT !.at = "ready"]
                                    ELSE notice[m]]
  /\ UNCHANGED <<status, due, scanVars, edit, processed>>

ReadNoticeNoted(m) ==
  /\ notice[m].at = "ready"
  /\ processed' = processed \cup {m[1]}
  /\ IF m[1] \in processed
     THEN notice' = [notice EXCEPT ![m].at = "done"]
     ELSE LET found == {p \in Active : ContentOf[p] = m[1]} IN
          IF found = {}
          THEN notice' = [notice EXCEPT ![m].at = "noting"]
          ELSE \E p \in found :
                 notice' = [notice EXCEPT ![m] = [@ EXCEPT !.at = "selected", !.post = p]]
  /\ UNCHANGED <<status, due, scanVars, edit, planned>>

ReadNotice(m) ==
  /\ notice[m].at = "ready"
  /\ IF m[1] \in processed
     THEN notice' = [notice EXCEPT ![m].at = "done"]
     ELSE LET found == {p \in Active : ContentOf[p] = m[1]} IN
          IF found = {}
          THEN notice' = [notice EXCEPT ![m].at = "noting"]
          ELSE \E p \in found :
                 notice' = [notice EXCEPT ![m] = [@ EXCEPT !.at = "selected", !.post = p]]
  /\ UNCHANGED <<status, due, scanVars, edit, planned, processed>>

CancelByContent(m) ==
  /\ notice[m].at = "selected"
  /\ status' = [status EXCEPT ![notice[m].post] = "cancelled"]
  /\ notice' = [notice EXCEPT ![m] = [@ EXCEPT !.at = "noting", !.post = None]]
  /\ UNCHANGED <<due, scanVars, edit, planned, processed>>

\* The other message's handler may have been faster: its row is as good.
NoteProcessed(m) ==
  /\ notice[m].at = "noting"
  /\ processed' = processed \cup {m[1]}
  /\ notice' = [notice EXCEPT ![m].at = "done"]
  /\ UNCHANGED <<status, due, scanVars, edit, planned>>

AckNotice(m) ==
  /\ notice[m].at = "done"
  /\ notice' = [notice EXCEPT ![m].at = "acked"]
  /\ UNCHANGED <<status, due, scanVars, edit, planned, processed>>

\* message.process(requeue=True): back to the queue, or dead-lettered.
Returned(m) ==
  [notice EXCEPT ![m] = IF @.tries = Limit
                        THEN [@ EXCEPT !.at = "dead", !.post = None]
                        ELSE [at |-> "ready", tries |-> @.tries + 1, post |-> None]]

ReturnNotice(m) ==
  /\ notice[m].at \notin {"none", "acked", "dead"}
  /\ notice' = Returned(m)
  /\ UNCHANGED <<status, due, scanVars, edit, planned, processed>>

-----------------------------------------------------------------------------
Fire(w) ==
  \/ AcquireLock(w)
  \/ LoadPost(w)
  \/ CommitFired(w)
  \/ PublishScheduled(w)

HandleNotice(m) ==
  \/ ReadNotice(m)
  \/ CancelByContent(m)
  \/ NoteProcessed(m)
  \/ AckNotice(m)

Next ==
  \/ \E p \in Posts : Schedule(p) \/ BecomesDue(p) \/ LockExpires(p)
  \/ \E r \in Edits : \E p \in Posts, op \in {"cancel", "reschedule"} : ReadForEdit(r, p, op)
  \/ \E r \in Edits : Cancel(r) \/ Reschedule(r) \/ EditCrash(r)
  \/ \E w \in Scans : \E p \in Posts : FindDue(w, p)
  \/ \E w \in Scans : Fire(w) \/ ScanCrash(w)
  \/ \E c \in Contents : DeleteContent(c)
  \/ \E m \in Notices : HandleNotice(m) \/ ReturnNotice(m)

Spec == Init /\ [][Next]_vars

\* Celery beat starts a scan every minute, the scans of a post that are started again and
\* again are not all cut off, and Redis drops expired keys. Requests and messages are not fair.
Fairness ==
  /\ \A p \in DueSoon :
       LET Taken(Step(_)) == \E w \in Scans : scan[w].post = p /\ Step(w) IN
       /\ SF_vars(\E w \in Scans : FindDue(w, p))
       /\ SF_vars(Taken(AcquireLock) /\ locks' # locks)
       /\ SF_vars(Taken(LoadPost))
       /\ SF_vars(Taken(CommitFired))
       /\ WF_vars(LockExpires(p))
  /\ \A w \in Scans : WF_vars(Fire(w))

FairSpec == Spec /\ Fairness

-----------------------------------------------------------------------------
(* Properties *)

\* test_due_item_fires_once: however tasks overlap, crash and repeat, at most one
\* content.scheduled event is published of a post.
FiredOnce == \A p \in Posts : sent[p] <= 1

\* A cancelled post that no scan has read as scheduled before is never sent: the scans
\* that found it earlier, and still wait for the lock or have just taken it, drop it.
Overtaken(p) == \E w \in Scans : scan[w].post = p /\ scan[w].pc \in {"loaded", "fired"}

CancelledStaysQuiet ==
  [][\A p \in Posts :
       status[p] = "cancelled" /\ ~Overtaken(p) =>
         status'[p] = "cancelled" /\ ~Overtaken(p)' /\ sent'[p] = sent[p]]_vars

\* A post does not stay due for ever: it is fired, unless it is cancelled or moved, also
\* after a task that crashed with the lock in its hands.
DueIsFired ==
  \A p \in DueSoon : p \in Active \cap due ~> p \notin Active \cap due

\* The consumer of a deletion cancels one post of the content, whichever account's it is.
\* So when the deletion is noted, a post that was scheduled of the content at that time is
\* still scheduled only if another account's post of the content has left the calendar in
\* its place: what a single account has scheduled is always reached.
LeftInPlaceOf(q, p) ==
  /\ ContentOf[q] = ContentOf[p] /\ AccountOf[q] # AccountOf[p]
  /\ status[q] \in {"cancelled", "fired"}

DeletionReachesSchedule ==
  \A c \in processed : \A p \in planned[c].posts :
    status[p] = "scheduled" => \E q \in Posts : LeftInPlaceOf(q, p)
=============================================================================
