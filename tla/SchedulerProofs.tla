--------------------------- MODULE SchedulerProofs --------------------------
(***************************************************************************)
(* A due post is announced at most once, for any number of posts, tasks    *)
(* and requests. The lock alone does not give this: its key expires, and   *)
(* requests write the status without it. It separates the tasks only       *)
(* between reading the status and committing it; afterwards the status,    *)
(* which never returns to scheduled, keeps the other tasks away.           *)
(*                                                                         *)
(* A deletion is handled by cancelling one post of the content. The unique *)
(* index allows each account one, no post that left the calendar comes     *)
(* back to it, and so a handler that has selected another post than p has  *)
(* selected another account's, which stands for p from its cancellation    *)
(* on.                                                                     *)
(***************************************************************************)
EXTENDS Scheduler, TLAPS

Holds(w, p) == scan[w].pc \in {"locked", "loaded"} /\ scan[w].post = p
InHand(w, p) == scan[w].pc \in {"loaded", "fired"} /\ scan[w].post = p

\* The task between lock and commit owns the key, and owns it alone.
LockHeld == \A w \in Scans, p \in Posts : Holds(w, p) => p \in locks
OneHolder == \A v, w \in Scans, p \in Posts : Holds(v, p) /\ Holds(w, p) => v = w

\* What is in a task's hands was not sent, and is in no other task's hands.
OneHand == \A v, w \in Scans, p \in Posts : InHand(v, p) /\ InHand(w, p) => v = w
InHandUnsent == \A w \in Scans, p \in Posts : InHand(w, p) => sent[p] = 0

\* As long as a post can still be found, nobody has committed it as fired.
OpenUnsent ==
  \A p \in Posts : status[p] \in {"none", "scheduled"} =>
    /\ sent[p] = 0
    /\ \A w \in Scans : scan[w].post = p => scan[w].pc # "fired"

FiringInv ==
  /\ TypeOK
  /\ LockHeld
  /\ OneHolder
  /\ OneHand
  /\ InHandUnsent
  /\ OpenUnsent
  /\ FiredOnce

\* The steps of requests and of the consumer of content.deleted: no lock and no task
\* changes, nothing is sent, and no post becomes available again.
Quiet ==
  /\ UNCHANGED <<scan, sent, locks>>
  /\ \A p \in Posts : status'[p] \in {"none", "scheduled"} => status[p] \in {"none", "scheduled"}
-----------------------------------------------------------------------------
(* Types *)

NoticeRows == [at : NoticeStates, tries : 0..Limit, post : Posts \cup {None}]

LEMMA TypeInit == Init => TypeOK
BY ConstantsAssumption DEF Init, TypeOK, Statuses, ScanJobs, EditJobs, Idle, NoticeStates, Notices

\* What a busy task or request works on is a post.
LEMMA JobOf ==
  ASSUME TypeOK
  PROVE  /\ \A w \in Scans : scan[w].pc # "idle" =>
              scan[w] \in [pc : {"found", "locked", "loaded", "fired"}, post : Posts]
         /\ \A r \in Edits : edit[r].pc # "idle" =>
              edit[r] \in [pc : {"cancel", "reschedule"}, post : Posts]
BY DEF TypeOK, ScanJobs, EditJobs, Idle

LEMMA TypeStep == TypeOK /\ [Next]_vars => TypeOK'
<1> SUFFICES ASSUME TypeOK, [Next]_vars PROVE TypeOK'
  OBVIOUS
<1> USE JobOf
<1>1. ASSUME NEW p \in Posts, Schedule(p) \/ BecomesDue(p) \/ LockExpires(p)
      PROVE  TypeOK'
  BY <1>1 DEF Schedule, BecomesDue, LockExpires, scanVars, noticeVars, Active, TypeOK, Statuses
<1>2. ASSUME NEW r \in Edits, NEW p \in Posts, NEW op \in {"cancel", "reschedule"},
             ReadForEdit(r, p, op)
      PROVE  TypeOK'
  BY <1>2 DEF ReadForEdit, scanVars, noticeVars, TypeOK, EditJobs
<1>3. ASSUME NEW r \in Edits, Cancel(r) \/ Reschedule(r) \/ EditCrash(r)
      PROVE  TypeOK'
  BY <1>3 DEF Cancel, Reschedule, EditCrash, scanVars, noticeVars, TypeOK, EditJobs, Statuses
<1>4. ASSUME NEW w \in Scans, NEW p \in Posts, FindDue(w, p)
      PROVE  TypeOK'
  BY <1>4 DEF FindDue, noticeVars, TypeOK, ScanJobs
<1>5. ASSUME NEW w \in Scans, Fire(w)
      PROVE  TypeOK'
  <2>1. ASSUME AcquireLock(w) PROVE TypeOK'
    BY <2>1 DEF AcquireLock, noticeVars, TypeOK, ScanJobs
  <2>2. ASSUME LoadPost(w) PROVE TypeOK'
    BY <2>2 DEF LoadPost, noticeVars, TypeOK, ScanJobs
  <2>3. ASSUME CommitFired(w) PROVE TypeOK'
    BY <2>3 DEF CommitFired, noticeVars, TypeOK, ScanJobs, Statuses
  <2>4. ASSUME PublishScheduled(w) PROVE TypeOK'
    BY <2>4 DEF PublishScheduled, noticeVars, TypeOK, ScanJobs
  <2> QED
    BY <1>5, <2>1, <2>2, <2>3, <2>4 DEF Fire
<1>6. ASSUME NEW w \in Scans, ScanCrash(w)
      PROVE  TypeOK'
  BY <1>6 DEF ScanCrash, noticeVars, TypeOK, ScanJobs
<1>7. ASSUME NEW c \in Contents, DeleteContent(c)
      PROVE  TypeOK'
  <2>1. notice' \in [Notices -> NoticeRows]
    <3>1. PICK ks \in {{}, {1}, {1, 2}} :
            notice' = [m \in Notices |-> IF m[1] = c /\ m[2] \in ks
                                         THEN [notice[m] EXCEPT !.at = "ready"]
                                         ELSE notice[m]]
      BY <1>7 DEF DeleteContent
    <3>2. \A m \in Notices : [notice[m] EXCEPT !.at = "ready"] \in NoticeRows
      BY DEF TypeOK, NoticeRows, NoticeStates
    <3>3. notice \in [Notices -> NoticeRows]
      BY DEF TypeOK, NoticeRows
    <3> QED
      BY <3>1, <3>2, <3>3
  <2>2. planned' \in [Contents -> [gone : BOOLEAN, posts : SUBSET Posts]]
    BY <1>7 DEF DeleteContent, TypeOK, Active
  <2> QED
    BY <1>7, <2>1, <2>2 DEF DeleteContent, scanVars, TypeOK, NoticeRows
<1>8. ASSUME NEW m \in Notices, HandleNotice(m)
      PROVE  TypeOK'
  <2>1. /\ UNCHANGED <<scanVars, due, edit, planned>>
        /\ \E row \in NoticeRows : notice' = [notice EXCEPT ![m] = row]
    <3>1. notice[m] \in NoticeRows
      BY DEF TypeOK, NoticeRows
    <3>2. \A s \in NoticeStates, p \in Posts \cup {None} :
            /\ [notice[m] EXCEPT !.at = s] \in NoticeRows
            /\ [notice[m] EXCEPT !.at = s, !.post = p] \in NoticeRows
      BY <3>1 DEF NoticeRows
    <3>3. {"done", "noting", "selected", "acked"} \subseteq NoticeStates
      BY DEF NoticeStates
    <3>4. ASSUME ReadNotice(m) PROVE \E row \in NoticeRows : notice' = [notice EXCEPT ![m] = row]
      BY <3>2, <3>3, <3>4 DEF ReadNotice, Active
    <3>5. ASSUME CancelByContent(m) PROVE \E row \in NoticeRows : notice' = [notice EXCEPT ![m] = row]
      BY <3>2, <3>3, <3>5 DEF CancelByContent
    <3>6. ASSUME NoteProcessed(m) \/ AckNotice(m)
          PROVE  \E row \in NoticeRows : notice' = [notice EXCEPT ![m] = row]
      BY <3>2, <3>3, <3>6 DEF NoteProcessed, AckNotice
    <3> QED
      BY <1>8, <3>4, <3>5, <3>6 DEF HandleNotice, ReadNotice, CancelByContent, NoteProcessed, AckNotice
  <2>2. notice' \in [Notices -> NoticeRows]
    BY <2>1 DEF TypeOK, NoticeRows
  <2>3. status' \in [Posts -> Statuses]
    BY <1>8 DEF HandleNotice, ReadNotice, CancelByContent, NoteProcessed, AckNotice, TypeOK, Statuses
  <2>4. processed' \subseteq Contents
    <3>1. m[1] \in Contents
      BY DEF Notices
    <3>2. processed' = processed \/ processed' = processed \cup {m[1]}
      BY <1>8 DEF HandleNotice, ReadNotice, CancelByContent, NoteProcessed, AckNotice
    <3> QED
      BY <3>1, <3>2 DEF TypeOK
  <2> QED
    BY <2>1, <2>2, <2>3, <2>4 DEF scanVars, TypeOK, NoticeRows
<1>9. ASSUME NEW m \in Notices, ReturnNotice(m)
      PROVE  TypeOK'
  <2>1. notice[m] \in NoticeRows
    BY DEF TypeOK, NoticeRows
  <2>2. [notice[m] EXCEPT !.at = "dead", !.post = None] \in NoticeRows
    BY <2>1 DEF NoticeRows, NoticeStates
  <2>3. ASSUME notice[m].tries # Limit
        PROVE  [at |-> "ready", tries |-> notice[m].tries + 1, post |-> None] \in NoticeRows
    <3>1. notice[m].tries + 1 \in 0..Limit
      BY <2>1, <2>3, ConstantsAssumption DEF NoticeRows
    <3> QED
      BY <3>1 DEF NoticeRows, NoticeStates
  <2>4. notice' \in [Notices -> NoticeRows]
    BY <1>9, <2>2, <2>3 DEF ReturnNotice, Returned, TypeOK, NoticeRows
  <2> QED
    BY <1>9, <2>4 DEF ReturnNotice, scanVars, TypeOK, NoticeRows
<1>10. ASSUME UNCHANGED vars PROVE TypeOK'
  BY <1>10 DEF vars, TypeOK
<1> QED
  BY <1>1, <1>2, <1>3, <1>4, <1>5, <1>6, <1>7, <1>8, <1>9, <1>10 DEF Next

\* Type correctness of the calendar, its tasks, requests and messages.
THEOREM TypeCorrect == Spec => []TypeOK
<1> QED
  BY TypeInit, TypeStep, PTL DEF Spec

-----------------------------------------------------------------------------
(* Fired once *)

LEMMA FiringInit == Init => FiringInv
BY TypeInit DEF Init, FiringInv, LockHeld, OneHolder, OneHand, InHandUnsent, OpenUnsent,
  FiredOnce, Holds, InHand, Idle

\* Steps that leave the tasks alone.
LEMMA QuietStep ==
  ASSUME FiringInv, TypeOK', Quiet
  PROVE  FiringInv'
BY DEF FiringInv, Quiet, LockHeld, OneHolder, OneHand, InHandUnsent, OpenUnsent, FiredOnce,
  Holds, InHand

LEMMA OthersAreQuiet ==
  ASSUME TypeOK
  PROVE  /\ \A p \in Posts : Schedule(p) \/ BecomesDue(p) => Quiet
         /\ \A r \in Edits, p \in Posts, op \in {"cancel", "reschedule"} :
              ReadForEdit(r, p, op) => Quiet
         /\ \A r \in Edits : Cancel(r) \/ Reschedule(r) \/ EditCrash(r) => Quiet
         /\ \A c \in Contents : DeleteContent(c) => Quiet
         /\ \A m \in Notices : HandleNotice(m) \/ ReturnNotice(m) => Quiet
         /\ UNCHANGED vars => Quiet
<1> USE DEF Quiet, scanVars, noticeVars
<1>1. \A p \in Posts : Schedule(p) \/ BecomesDue(p) => Quiet
  BY DEF Schedule, BecomesDue, TypeOK
<1>2. \A r \in Edits, p \in Posts, op \in {"cancel", "reschedule"} : ReadForEdit(r, p, op) => Quiet
  BY DEF ReadForEdit
<1>3. \A r \in Edits : Cancel(r) \/ Reschedule(r) \/ EditCrash(r) => Quiet
  BY DEF Cancel, Reschedule, EditCrash, TypeOK
<1>4. \A c \in Contents : DeleteContent(c) => Quiet
  BY DEF DeleteContent
<1>5. \A m \in Notices : HandleNotice(m) \/ ReturnNotice(m) => Quiet
  BY DEF HandleNotice, ReadNotice, CancelByContent, NoteProcessed, AckNotice, ReturnNotice, TypeOK
<1>6. UNCHANGED vars => Quiet
  BY DEF vars
<1> QED
  BY <1>1, <1>2, <1>3, <1>4, <1>5, <1>6

LEMMA FiringStep == FiringInv /\ [Next]_vars => FiringInv'
<1> SUFFICES ASSUME FiringInv, [Next]_vars PROVE FiringInv'
  OBVIOUS
<1>0. TypeOK /\ TypeOK'
  BY TypeStep DEF FiringInv
<1> USE <1>0, JobOf DEF Holds, InHand
<1>1. ASSUME NEW p \in Posts, LockExpires(p)
      PROVE  FiringInv'
  BY <1>1 DEF LockExpires, FiringInv, LockHeld, OneHolder, OneHand, InHandUnsent, OpenUnsent,
    FiredOnce
<1>2. ASSUME NEW w \in Scans, (\E p \in Posts : FindDue(w, p)) \/ ScanCrash(w)
      PROVE  FiringInv'
  <2>1. scan' \in [Scans -> ScanJobs] /\ scan'[w].pc \in {"idle", "found"}
    BY <1>2 DEF FindDue, ScanCrash, TypeOK, Idle
  <2>2. \A v \in Scans \ {w} : scan'[v] = scan[v]
    BY <1>2 DEF FindDue, ScanCrash, TypeOK
  <2>3. UNCHANGED <<status, locks, sent>>
    BY <1>2 DEF FindDue, ScanCrash
  <2> QED
    BY <2>1, <2>2, <2>3 DEF FiringInv, LockHeld, OneHolder, OneHand, InHandUnsent, OpenUnsent,
      FiredOnce
<1>3. ASSUME NEW w \in Scans, AcquireLock(w)
      PROVE  FiringInv'
  <2>1. \A v \in Scans \ {w} : scan'[v] = scan[v]
    BY <1>3 DEF AcquireLock, TypeOK
  <2>2. scan'[w] = Idle \/ (/\ scan[w].post \notin locks
                           /\ locks' = locks \cup {scan[w].post}
                           /\ scan'[w] = [pc |-> "locked", post |-> scan[w].post])
    BY <1>3 DEF AcquireLock, Free, TypeOK
  <2>3. locks \subseteq locks' /\ UNCHANGED <<status, sent>>
    BY <1>3 DEF AcquireLock
  <2> QED
    BY <2>1, <2>2, <2>3 DEF FiringInv, LockHeld, OneHolder, OneHand, InHandUnsent, OpenUnsent,
      FiredOnce, Idle
<1>4. ASSUME NEW w \in Scans, LoadPost(w)
      PROVE  FiringInv'
  <2>1. \A v \in Scans \ {w} : scan'[v] = scan[v]
    BY <1>4 DEF LoadPost, TypeOK
  <2>2. scan'[w] = Idle \/ (/\ status[scan[w].post] = "scheduled"
                           /\ scan'[w] = [pc |-> "loaded", post |-> scan[w].post])
    BY <1>4 DEF LoadPost, StillScheduled, Active, TypeOK
  <2>3. UNCHANGED <<status, locks, sent>>
    BY <1>4 DEF LoadPost
  <2>4. \A v \in Scans \ {w} : scan'[w] # Idle => ~InHand(v, scan[w].post)
    BY <1>4, <2>2 DEF LoadPost, FiringInv, OneHolder, OpenUnsent
  <2>5. OneHand'
    BY <2>1, <2>2, <2>4 DEF FiringInv, OneHand, Idle
  <2>6. (LockHeld /\ OneHolder)'
    BY <1>4, <2>1, <2>2, <2>3 DEF LoadPost, FiringInv, LockHeld, OneHolder, Idle
  <2>7. (InHandUnsent /\ OpenUnsent /\ FiredOnce)'
    BY <1>4, <2>1, <2>2, <2>3 DEF LoadPost, FiringInv, InHandUnsent, OpenUnsent, FiredOnce, Idle
  <2> QED
    BY <2>5, <2>6, <2>7 DEF FiringInv
<1>5. ASSUME NEW w \in Scans, CommitFired(w)
      PROVE  FiringInv'
  <2>1. \A v \in Scans \ {w} : scan'[v] = scan[v]
    BY <1>5 DEF CommitFired, TypeOK
  <2>2. scan[w].pc = "loaded" /\ scan'[w] = [pc |-> "fired", post |-> scan[w].post]
    BY <1>5 DEF CommitFired, TypeOK
  <2>3. status' = [status EXCEPT ![scan[w].post] = "fired"] /\ UNCHANGED <<locks, sent>>
    BY <1>5 DEF CommitFired
  <2>4. OpenUnsent'
    <3> SUFFICES ASSUME NEW p \in Posts, status'[p] \in {"none", "scheduled"}
                 PROVE  sent'[p] = 0 /\ \A v \in Scans : scan'[v].post = p => scan'[v].pc # "fired"
      BY DEF OpenUnsent
    <3>1. p # scan[w].post /\ status[p] \in {"none", "scheduled"}
      BY <2>3 DEF TypeOK
    <3> QED
      BY <2>1, <2>2, <2>3, <3>1 DEF FiringInv, OpenUnsent
  <2>5. (LockHeld /\ OneHolder)'
    BY <2>1, <2>2, <2>3 DEF FiringInv, LockHeld, OneHolder
  <2>6. (OneHand /\ InHandUnsent /\ FiredOnce)'
    BY <2>1, <2>2, <2>3 DEF FiringInv, OneHand, InHandUnsent, FiredOnce
  <2> QED
    BY <2>4, <2>5, <2>6 DEF FiringInv
<1>6. ASSUME NEW w \in Scans, PublishScheduled(w)
      PROVE  FiringInv'
  <2>1. \A v \in Scans \ {w} : scan'[v] = scan[v]
    BY <1>6 DEF PublishScheduled, TypeOK
  <2>2. scan[w].pc = "fired" /\ scan[w].post \in Posts /\ scan'[w] = Idle
    BY <1>6 DEF PublishScheduled, TypeOK
  <2>3. sent' = [sent EXCEPT ![scan[w].post] = @ + 1] /\ UNCHANGED <<status, locks>>
    BY <1>6 DEF PublishScheduled
  <2>4. sent'[scan[w].post] = 1 /\ \A p \in Posts \ {scan[w].post} : sent'[p] = sent[p]
    BY <2>2, <2>3 DEF FiringInv, InHandUnsent, TypeOK
  <2>5. status[scan[w].post] \notin {"none", "scheduled"}
    BY <2>2 DEF FiringInv, OpenUnsent
  <2>6. (OpenUnsent /\ FiredOnce)'
    BY <2>1, <2>2, <2>3, <2>4, <2>5 DEF FiringInv, OpenUnsent, FiredOnce, Idle
  <2>7. (LockHeld /\ OneHolder)'
    BY <2>1, <2>2, <2>3 DEF FiringInv, LockHeld, OneHolder, Idle
  <2>8. (OneHand /\ InHandUnsent)'
    BY <2>1, <2>2, <2>4 DEF FiringInv, OneHand, InHandUnsent, Idle
  <2> QED
    BY <2>6, <2>7, <2>8 DEF FiringInv
<1>7. Quiet => FiringInv'
  BY QuietStep
<1>8. ASSUME NEW w \in Scans, Fire(w) PROVE FiringInv'
  BY <1>3, <1>4, <1>5, <1>6, <1>8 DEF Fire
<1> HIDE DEF Holds, InHand
<1> QED
  <2>1. CASE \E p \in Posts : Schedule(p) \/ BecomesDue(p) \/ LockExpires(p)
    BY <2>1, <1>1, <1>7, OthersAreQuiet
  <2>2. CASE \E r \in Edits : \E p \in Posts, op \in {"cancel", "reschedule"} : ReadForEdit(r, p, op)
    BY <2>2, <1>7, OthersAreQuiet
  <2>3. CASE \E r \in Edits : Cancel(r) \/ Reschedule(r) \/ EditCrash(r)
    BY <2>3, <1>7, OthersAreQuiet
  <2>4. CASE \E w \in Scans : \E p \in Posts : FindDue(w, p)
    BY <2>4, <1>2
  <2>5. CASE \E w \in Scans : Fire(w)
    BY <2>5, <1>8
  <2>6. CASE \E w \in Scans : ScanCrash(w)
    BY <2>6, <1>2
  <2>7. CASE \E c \in Contents : DeleteContent(c)
    BY <2>7, <1>7, OthersAreQuiet
  <2>8. CASE \E m \in Notices : HandleNotice(m) \/ ReturnNotice(m)
    BY <2>8, <1>7, OthersAreQuiet
  <2>9. CASE UNCHANGED vars
    BY <2>9, <1>7, OthersAreQuiet
  <2> QED
    BY <2>1, <2>2, <2>3, <2>4, <2>5, <2>6, <2>7, <2>8, <2>9 DEF Next

\* fire_due publishes content.scheduled at most once for each post, however many tasks
\* overlap, crash and leave locks behind, and whatever requests write meanwhile.
THEOREM FiresOnce == Spec => []FiredOnce
<1>1. FiringInv => FiredOnce
  BY DEF FiringInv
<1> QED
  BY <1>1, FiringInit, FiringStep, PTL DEF Spec
-----------------------------------------------------------------------------
(* Cancelled posts *)

LEMMA CancelledStep == TypeOK /\ [Next]_vars =>
  \A p \in Posts :
    status[p] = "cancelled" /\ ~Overtaken(p) =>
      status'[p] = "cancelled" /\ ~Overtaken(p)' /\ sent'[p] = sent[p]
<1> SUFFICES ASSUME TypeOK, [Next]_vars, NEW p \in Posts, status[p] = "cancelled", ~Overtaken(p)
             PROVE  status'[p] = "cancelled" /\ ~Overtaken(p)' /\ sent'[p] = sent[p]
  OBVIOUS
<1> USE JobOf DEF Overtaken
<1>1. CASE UNCHANGED scan
  <2>0. \A w \in Scans : ~PublishScheduled(w)
    BY <1>1 DEF PublishScheduled, TypeOK, Idle
  <2>1. UNCHANGED sent
    BY <1>1, <2>0 DEF Next, vars, Schedule, BecomesDue, LockExpires, ReadForEdit, Cancel, Reschedule,
       EditCrash, FindDue, Fire, AcquireLock, LoadPost, CommitFired, PublishScheduled, ScanCrash,
       DeleteContent, HandleNotice, ReadNotice, CancelByContent, NoteProcessed, AckNotice,
       ReturnNotice, scanVars, TypeOK, Idle
  <2>2. status'[p] = "cancelled"
    BY <1>1 DEF Next, vars, Schedule, BecomesDue, LockExpires, ReadForEdit, Cancel, Reschedule,
       EditCrash, FindDue, Fire, AcquireLock, LoadPost, CommitFired, PublishScheduled, ScanCrash,
       DeleteContent, HandleNotice, ReadNotice, CancelByContent, NoteProcessed, AckNotice,
       ReturnNotice, scanVars, TypeOK, Idle
  <2> QED BY <1>1, <2>1, <2>2
<1>2. ASSUME NEW w \in Scans, (\E q \in Posts : FindDue(w, q)) \/ ScanCrash(w)
      PROVE  status'[p] = "cancelled" /\ ~Overtaken(p)' /\ sent'[p] = sent[p]
  BY <1>2 DEF FindDue, ScanCrash, TypeOK, Idle
<1>3. ASSUME NEW w \in Scans, AcquireLock(w)
      PROVE  status'[p] = "cancelled" /\ ~Overtaken(p)' /\ sent'[p] = sent[p]
  BY <1>3 DEF AcquireLock, TypeOK, Idle
<1>4. ASSUME NEW w \in Scans, LoadPost(w)
      PROVE  status'[p] = "cancelled" /\ ~Overtaken(p)' /\ sent'[p] = sent[p]
  BY <1>4 DEF LoadPost, StillScheduled, Active, TypeOK, Idle
<1>5. ASSUME NEW w \in Scans, CommitFired(w) \/ PublishScheduled(w)
      PROVE  status'[p] = "cancelled" /\ ~Overtaken(p)' /\ sent'[p] = sent[p]
  BY <1>5 DEF CommitFired, PublishScheduled, TypeOK, Idle
<1>6. CASE scan' # scan
  <2>1. \E w \in Scans : (\E q \in Posts : FindDue(w, q)) \/ Fire(w) \/ ScanCrash(w)
    BY <1>6 DEF Next, vars, Schedule, BecomesDue, LockExpires, ReadForEdit, Cancel, Reschedule,
       EditCrash, DeleteContent, HandleNotice, ReadNotice, CancelByContent, NoteProcessed,
       AckNotice, ReturnNotice, scanVars
  <2> QED BY <2>1, <1>2, <1>3, <1>4, <1>5 DEF Fire
<1> QED BY <1>1, <1>6

\* A cancelled post that no task has read before stays cancelled and unsent, for any number
\* of tasks that have found it earlier, of requests and of handlers.
THEOREM CancelledIsQuiet == Spec => CancelledStaysQuiet
<1>1. TypeOK /\ [Next]_vars =>
        [\A p \in Posts :
           status[p] = "cancelled" /\ ~Overtaken(p) =>
             status'[p] = "cancelled" /\ ~Overtaken(p)' /\ sent'[p] = sent[p]]_vars
  BY CancelledStep
<1> QED BY <1>1, TypeInit, TypeStep, PTL DEF Spec, CancelledStaysQuiet
-----------------------------------------------------------------------------
(* Deleted contents *)

\* The partial unique index.
OneActive == \A p, q \in Active : SameItem(p, q) => p = q

PlannedOf == \A c \in Contents : \A p \in planned[c].posts : ContentOf[p] = c /\ status[p] # "none"

\* Nobody hears of a deletion before it.
ToldAfter ==
  \A c \in Contents : ~planned[c].gone =>
    c \notin processed /\ \A m \in Notices : m[1] = c => notice[m].at = "none"

\* The post q is, or was, another account's schedule of what p is a schedule of.
Rival(q, p) ==
  ContentOf[q] = ContentOf[p] /\ AccountOf[q] # AccountOf[p] /\ status[q] # "none"

Replaced(p) == \E q \in Posts : LeftInPlaceOf(q, p)

\* A handler has selected the post p or a rival of it; one that is about to note the deletion
\* has left no post, or has cancelled a rival of each that is left.
Selects(m, p) == \E q \in Posts : q = notice[m].post /\ (q = p \/ Rival(q, p))

Reached ==
  \A m \in Notices : \A p \in planned[m[1]].posts :
    status[p] = "scheduled" =>
      /\ notice[m].at = "selected" => Selects(m, p)
      /\ notice[m].at = "noting" => Replaced(p)

DeletionInv ==
  TypeOK /\ OneActive /\ PlannedOf /\ ToldAfter /\ Reached /\ DeletionReachesSchedule

LEMMA DeletionInit == Init => DeletionInv
BY TypeInit DEF Init, DeletionInv, OneActive, PlannedOf, ToldAfter, Reached,
  DeletionReachesSchedule, Active

\* No post comes back to the calendar.
Falls ==
  /\ \A p \in Posts : status'[p] = "scheduled" => status[p] = "scheduled"
  /\ \A p \in Posts : status'[p] = "none" => status[p] = "none"

LEMMA FallingKeeps ==
  ASSUME DeletionInv, TypeOK', Falls, UNCHANGED planned
  PROVE  /\ OneActive' /\ PlannedOf'
         /\ \A p, q \in Posts : Rival(q, p) => Rival(q, p)'
         /\ \A p \in Posts : Replaced(p) => Replaced(p)'
<1>1. \A q \in Posts : status[q] \in {"cancelled", "fired"} => status'[q] \in {"cancelled", "fired"}
  BY DEF DeletionInv, TypeOK, Statuses, Falls
<1>2. OneActive' /\ PlannedOf'
  BY DEF DeletionInv, TypeOK, Falls, OneActive, PlannedOf, Active
<1>3. \A p, q \in Posts : Rival(q, p) => Rival(q, p)'
  BY DEF Falls, Rival
<1>4. \A p \in Posts : Replaced(p) => Replaced(p)'
  BY <1>1 DEF Replaced, LeftInPlaceOf
<1> QED BY <1>2, <1>3, <1>4

\* A step on the message m, or on none: every other message stays as it is, and what the step
\* leaves of m is as Reached says.
LEMMA NewsStep ==
  ASSUME DeletionInv, TypeOK', NEW m \in Notices, Falls, UNCHANGED planned,
         notice'[m].at = notice[m].at \/ notice[m].at # "none",
         \A n \in Notices \ {m} : notice'[n] = notice[n],
         processed' \subseteq processed \cup {m[1]},
         \A p \in planned[m[1]].posts : status'[p] = "scheduled" =>
           /\ notice'[m].at = "selected" => Selects(m, p)'
           /\ notice'[m].at = "noting" \/ m[1] \in processed' => Replaced(p)',
         m[1] \in processed' => planned[m[1]].gone
  PROVE  DeletionInv'
<1>1. /\ OneActive' /\ PlannedOf'
      /\ \A p, q \in Posts : Rival(q, p) => Rival(q, p)'
      /\ \A p \in Posts : Replaced(p) => Replaced(p)'
  BY FallingKeeps
<1>2. \A c \in Contents : planned[c].posts \subseteq Posts
  BY DEF DeletionInv, TypeOK
<1>3. \A n \in Notices : n[1] \in Contents
  BY DEF Notices
<1>4. ToldAfter'
  <2>1. \A c \in Contents : ~planned[c].gone => c \notin processed'
    BY <1>3 DEF DeletionInv, ToldAfter
  <2>2. \A c \in Contents : ~planned[c].gone => \A n \in Notices : n[1] = c => notice'[n].at = "none"
    BY <1>3 DEF DeletionInv, ToldAfter
  <2> QED BY <2>1, <2>2 DEF ToldAfter
<1>5. Reached'
  <2> SUFFICES ASSUME NEW n \in Notices, NEW p \in planned[n[1]].posts, status'[p] = "scheduled"
               PROVE  /\ notice'[n].at = "selected" => Selects(n, p)'
                      /\ notice'[n].at = "noting" => Replaced(p)'
    BY DEF Reached
  <2>1. CASE n = m
    BY <2>1
  <2>2. CASE n # m
    <3>1. p \in Posts /\ status[p] = "scheduled" /\ notice'[n] = notice[n]
      BY <1>2, <1>3, <2>2 DEF Falls
    <3>2. /\ notice[n].at = "selected" => Selects(n, p)
          /\ notice[n].at = "noting" => Replaced(p)
      BY <3>1 DEF DeletionInv, Reached
    <3>3. Selects(n, p) => Selects(n, p)'
      BY <1>1, <3>1 DEF Selects
    <3> QED BY <1>1, <3>1, <3>2, <3>3
  <2> QED BY <2>1, <2>2
<1>6. DeletionReachesSchedule'
  <2> SUFFICES ASSUME NEW c \in processed', NEW p \in planned[c].posts, status'[p] = "scheduled"
               PROVE  Replaced(p)'
    BY DEF DeletionReachesSchedule, Replaced
  <2>1. CASE c = m[1]
    BY <2>1
  <2>2. CASE c # m[1]
    <3>1. c \in processed /\ p \in Posts /\ status[p] = "scheduled"
      BY <1>2, <2>2 DEF DeletionInv, TypeOK, Falls
    <3> QED BY <1>1, <3>1 DEF DeletionInv, DeletionReachesSchedule, Replaced
  <2> QED BY <2>1, <2>2
<1> QED BY <1>1, <1>4, <1>5, <1>6 DEF DeletionInv

\* Steps that do not concern the messages.
LEMMA NoNewsStep ==
  ASSUME DeletionInv, TypeOK', Falls, UNCHANGED noticeVars
  PROVE  DeletionInv'
<1>0. UNCHANGED <<planned, notice, processed>>
  BY DEF noticeVars
<1>1. /\ OneActive' /\ PlannedOf'
      /\ \A p, q \in Posts : Rival(q, p) => Rival(q, p)'
      /\ \A p \in Posts : Replaced(p) => Replaced(p)'
  BY <1>0, FallingKeeps
<1>2. \A c \in Contents : planned[c].posts \subseteq Posts
  BY DEF DeletionInv, TypeOK
<1>3. \A m \in Notices : m[1] \in Contents
  BY DEF Notices
<1>4. \A m \in Notices, p \in Posts : Selects(m, p) => Selects(m, p)'
  BY <1>0, <1>1 DEF Selects
<1>5. Reached'
  BY <1>0, <1>1, <1>2, <1>3, <1>4 DEF DeletionInv, Falls, Reached
<1>6. DeletionReachesSchedule'
  BY <1>0, <1>1, <1>2 DEF DeletionInv, TypeOK, Falls, DeletionReachesSchedule, Replaced
<1>7. ToldAfter'
  BY <1>0 DEF DeletionInv, ToldAfter
<1> QED BY <1>1, <1>5, <1>6, <1>7 DEF DeletionInv

LEMMA ScheduleStep ==
  ASSUME DeletionInv, TypeOK', NEW p \in Posts, Schedule(p)
  PROVE  DeletionInv'
<1>1. /\ status[p] = "none" /\ status'[p] = "scheduled"
      /\ \A q \in Posts \ {p} : status'[q] = status[q]
      /\ \A q \in Posts : status[q] = "scheduled" => ~SameItem(p, q)
      /\ UNCHANGED <<planned, notice, processed>>
  BY DEF Schedule, DeletionInv, TypeOK, Active, noticeVars
<1>2. OneActive'
  BY <1>1 DEF DeletionInv, OneActive, Active, SameItem
<1>3. \A c \in Contents : planned[c].posts \subseteq Posts \ {p}
  BY <1>1 DEF DeletionInv, TypeOK, PlannedOf
<1>4. \A m \in Notices : m[1] \in Contents
  BY DEF Notices
<1>5. PlannedOf' /\ ToldAfter'
  BY <1>1, <1>3 DEF DeletionInv, PlannedOf, ToldAfter
<1>6. \A q, r \in Posts : Rival(q, r) => Rival(q, r)'
  BY <1>1 DEF Rival
<1>7. \A q \in Posts : Replaced(q) => Replaced(q)'
  BY <1>1 DEF Replaced, LeftInPlaceOf
<1>8. \A m \in Notices, q \in Posts : Selects(m, q) => Selects(m, q)'
  BY <1>1, <1>6 DEF Selects
<1>9. Reached'
  BY <1>1, <1>3, <1>4, <1>7, <1>8 DEF DeletionInv, Reached
<1>10. DeletionReachesSchedule'
  BY <1>1, <1>3, <1>7 DEF DeletionInv, TypeOK, DeletionReachesSchedule, Replaced
<1> QED BY <1>2, <1>5, <1>9, <1>10 DEF DeletionInv

LEMMA DeleteStep ==
  ASSUME DeletionInv, TypeOK', NEW c \in Contents, DeleteContent(c)
  PROVE  DeletionInv'
<1>1. /\ ~planned[c].gone
      /\ planned'[c] = [gone |-> TRUE, posts |-> {p \in Active : ContentOf[p] = c}]
      /\ \A d \in Contents \ {c} : planned'[d] = planned[d]
      /\ UNCHANGED <<status, processed>>
  BY DEF DeleteContent, DeletionInv, TypeOK
<1>2. /\ c \notin processed
      /\ \A m \in Notices : m[1] = c => notice'[m].at \in {"none", "ready"}
      /\ \A m \in Notices : m[1] # c => notice'[m] = notice[m]
  <2>1. c \notin processed /\ \A m \in Notices : m[1] = c => notice[m].at = "none"
    BY <1>1 DEF DeletionInv, ToldAfter
  <2>2. PICK ks \in {{}, {1}, {1, 2}} :
          notice' = [m \in Notices |-> IF m[1] = c /\ m[2] \in ks
                                       THEN [notice[m] EXCEPT !.at = "ready"]
                                       ELSE notice[m]]
    BY DEF DeleteContent
  <2>3. \A m \in Notices : [notice[m] EXCEPT !.at = "ready"].at = "ready"
    BY DEF DeletionInv, TypeOK
  <2> QED BY <2>1, <2>2, <2>3
<1>3. OneActive'
  BY <1>1 DEF DeletionInv, OneActive, Active
<1>4. PlannedOf'
  BY <1>1 DEF DeletionInv, PlannedOf, Active
<1>5. ToldAfter'
  BY <1>1, <1>2 DEF DeletionInv, ToldAfter
<1>6. \A m \in Notices : m[1] \in Contents
  BY DEF Notices
<1>7. Reached'
  <2> SUFFICES ASSUME NEW m \in Notices, NEW p \in planned'[m[1]].posts, status'[p] = "scheduled"
               PROVE  /\ notice'[m].at = "selected" => Selects(m, p)'
                      /\ notice'[m].at = "noting" => Replaced(p)'
    BY DEF Reached
  <2>1. CASE m[1] = c
    BY <1>2, <2>1
  <2>2. CASE m[1] # c
    BY <1>1, <1>2, <1>6, <2>2 DEF DeletionInv, Reached, Selects, Rival, Replaced, LeftInPlaceOf
  <2> QED BY <2>1, <2>2
<1>8. DeletionReachesSchedule'
  BY <1>1, <1>2 DEF DeletionInv, TypeOK, DeletionReachesSchedule, LeftInPlaceOf
<1> QED BY <1>3, <1>4, <1>5, <1>7, <1>8 DEF DeletionInv

\* A message that somebody handles is of a deletion.
LEMMA ToldIsGone ==
  ASSUME DeletionInv, NEW m \in Notices, notice[m].at # "none" \/ m[1] \in processed
  PROVE  planned[m[1]].gone
BY DEF DeletionInv, ToldAfter, Notices

LEMMA ReadNoticeStep ==
  ASSUME DeletionInv, TypeOK', NEW m \in Notices, ReadNotice(m)
  PROVE  DeletionInv'
<1>1. /\ notice[m].at = "ready" /\ UNCHANGED <<status, planned, processed>>
      /\ \A n \in Notices \ {m} : notice'[n] = notice[n]
  BY DEF ReadNotice, DeletionInv, TypeOK
<1>2. m[1] \in Contents /\ planned[m[1]].gone /\ Falls
  BY <1>1, ToldIsGone DEF Notices, Falls
<1>3. CASE m[1] \in processed
  <2>1. notice'[m].at = "done"
    BY <1>3 DEF ReadNotice, DeletionInv, TypeOK
  <2>2. \A p \in planned[m[1]].posts : status'[p] = "scheduled" => Replaced(p)'
    BY <1>1, <1>3 DEF DeletionInv, DeletionReachesSchedule, Replaced, LeftInPlaceOf
  <2> QED BY <1>1, <1>2, <2>1, <2>2, NewsStep
<1>4. CASE m[1] \notin processed /\ {p \in Active : ContentOf[p] = m[1]} = {}
  <2>1. notice'[m].at = "noting"
    BY <1>4 DEF ReadNotice, DeletionInv, TypeOK
  <2>2. \A p \in planned[m[1]].posts : status'[p] # "scheduled"
    BY <1>1, <1>2, <1>4 DEF DeletionInv, TypeOK, PlannedOf, Active
  <2> QED BY <1>1, <1>2, <2>1, <2>2, NewsStep
<1>5. CASE m[1] \notin processed /\ {p \in Active : ContentOf[p] = m[1]} # {}
  <2>1. PICK q \in {p \in Active : ContentOf[p] = m[1]} :
          notice' = [notice EXCEPT ![m] = [@ EXCEPT !.at = "selected", !.post = q]]
    BY <1>5, Zenon DEF ReadNotice
  <2>2. notice'[m].at = "selected" /\ notice'[m].post = q
    BY <2>1 DEF DeletionInv, TypeOK
  <2>3. \A p \in planned[m[1]].posts : status'[p] = "scheduled" => Selects(m, p)'
    <3> SUFFICES ASSUME NEW p \in planned[m[1]].posts, status'[p] = "scheduled"
                 PROVE  Selects(m, p)'
      OBVIOUS
    <3>1. p \in Active /\ ContentOf[p] = ContentOf[q] /\ q \in Active
      BY <1>1, <1>2, <2>1 DEF DeletionInv, TypeOK, PlannedOf, Active
    <3>2. q = p \/ AccountOf[q] # AccountOf[p]
      BY <3>1 DEF DeletionInv, OneActive, SameItem
    <3> QED BY <1>1, <2>2, <3>1, <3>2 DEF Selects, Rival, Active
  <2>4. m[1] \notin processed'
    BY <1>1, <1>5
  <2> QED BY <1>1, <1>2, <2>2, <2>3, <2>4, NewsStep
<1> QED BY <1>3, <1>4, <1>5

LEMMA DeletionStep == DeletionInv /\ [Next]_vars => DeletionInv'
<1> SUFFICES ASSUME DeletionInv, [Next]_vars PROVE DeletionInv'
  OBVIOUS
<1>0. TypeOK /\ TypeOK'
  BY TypeStep DEF DeletionInv
<1>1. ASSUME NEW p \in Posts, BecomesDue(p) \/ LockExpires(p) PROVE DeletionInv'
  BY <1>0, <1>1, NoNewsStep DEF BecomesDue, LockExpires, Falls
<1>2. ASSUME NEW r \in Edits, Cancel(r) \/ Reschedule(r) \/ EditCrash(r)
               \/ \E p \in Posts, op \in {"cancel", "reschedule"} : ReadForEdit(r, p, op)
      PROVE  DeletionInv'
  BY <1>0, <1>2, NoNewsStep DEF Cancel, Reschedule, EditCrash, ReadForEdit, Falls, TypeOK
<1>3. ASSUME NEW w \in Scans, (\E p \in Posts : FindDue(w, p)) \/ Fire(w) \/ ScanCrash(w)
      PROVE  DeletionInv'
  BY <1>0, <1>3, NoNewsStep DEF FindDue, Fire, AcquireLock, LoadPost, CommitFired,
     PublishScheduled, ScanCrash, Falls, TypeOK
<1>4. ASSUME NEW m \in Notices, CancelByContent(m) PROVE DeletionInv'
  <2>1. /\ notice[m].at = "selected" /\ notice'[m].at = "noting"
        /\ status' = [status EXCEPT ![notice[m].post] = "cancelled"]
        /\ UNCHANGED <<planned, processed>>
        /\ \A n \in Notices \ {m} : notice'[n] = notice[n]
    BY <1>0, <1>4 DEF CancelByContent, TypeOK
  <2>2. Falls
    BY <1>0, <2>1 DEF Falls, TypeOK
  <2>3. m[1] \in Contents /\ planned[m[1]].gone
    BY <2>1, ToldIsGone DEF Notices
  <2>4. \A p \in planned[m[1]].posts : status'[p] = "scheduled" => Replaced(p)'
    <3> SUFFICES ASSUME NEW p \in planned[m[1]].posts, status'[p] = "scheduled"
                 PROVE  Replaced(p)'
      OBVIOUS
    <3>1. p \in Posts /\ status[p] = "scheduled"
      BY <1>0, <2>2, <2>3 DEF TypeOK, Falls
    <3>2. PICK q \in Posts : q = notice[m].post /\ (q = p \/ Rival(q, p))
      BY <2>1, <3>1 DEF DeletionInv, Reached, Selects
    <3>3. status'[q] = "cancelled"
      BY <1>0, <2>1, <3>2 DEF TypeOK
    <3> QED BY <3>2, <3>3 DEF Replaced, Rival, LeftInPlaceOf
  <2> QED BY <1>0, <2>1, <2>2, <2>3, <2>4, NewsStep
<1>5. ASSUME NEW m \in Notices, NoteProcessed(m) PROVE DeletionInv'
  <2>1. /\ notice[m].at = "noting" /\ notice'[m].at = "done"
        /\ processed' = processed \cup {m[1]}
        /\ UNCHANGED <<status, planned>>
        /\ \A n \in Notices \ {m} : notice'[n] = notice[n]
    BY <1>0, <1>5 DEF NoteProcessed, TypeOK
  <2>2. \A p \in planned[m[1]].posts : status'[p] = "scheduled" => Replaced(p)'
    BY <2>1 DEF DeletionInv, Reached, Replaced, LeftInPlaceOf
  <2>3. planned[m[1]].gone /\ Falls
    BY <2>1, ToldIsGone DEF Falls
  <2> QED BY <1>0, <2>1, <2>2, <2>3, NewsStep
<1>6. ASSUME NEW m \in Notices, AckNotice(m) \/ ReturnNotice(m) PROVE DeletionInv'
  <2>1. /\ notice[m].at # "none" /\ notice'[m].at \notin {"selected", "noting"}
        /\ UNCHANGED <<status, planned, processed>>
        /\ \A n \in Notices \ {m} : notice'[n] = notice[n]
    <3>1. CASE AckNotice(m)
      BY <1>0, <3>1 DEF AckNotice, TypeOK
    <3>2. CASE ReturnNotice(m)
      <4>1. notice'[m] = [notice[m] EXCEPT !.at = "dead", !.post = None]
              \/ notice'[m] = [at |-> "ready", tries |-> notice[m].tries + 1, post |-> None]
        BY <1>0, <3>2, Zenon DEF ReturnNotice, Returned, TypeOK
      <4>2. notice'[m].at \in {"dead", "ready"}
        <5>1. notice[m] \in NoticeRows
          BY <1>0 DEF TypeOK, NoticeRows
        <5>2. [notice[m] EXCEPT !.at = "dead", !.post = None].at = "dead"
          BY <5>1 DEF NoticeRows
        <5>3. CASE notice'[m] = [notice[m] EXCEPT !.at = "dead", !.post = None]
          BY <5>2, <5>3
        <5>4. CASE notice'[m] = [at |-> "ready", tries |-> notice[m].tries + 1, post |-> None]
          BY <5>4
        <5> QED BY <4>1, <5>3, <5>4
      <4>3. \A n \in Notices \ {m} : notice'[n] = notice[n]
        BY <1>0, <3>2 DEF ReturnNotice, Returned, TypeOK
      <4> QED BY <3>2, <4>2, <4>3 DEF ReturnNotice
    <3> QED BY <1>6, <3>1, <3>2
  <2>2. m[1] \in processed =>
          \A p \in planned[m[1]].posts : status'[p] = "scheduled" => Replaced(p)'
    BY <2>1 DEF DeletionInv, DeletionReachesSchedule, Replaced, LeftInPlaceOf
  <2>3. planned[m[1]].gone /\ Falls
    BY <2>1, ToldIsGone DEF Falls
  <2> QED BY <1>0, <2>1, <2>2, <2>3, NewsStep
<1>7. CASE UNCHANGED vars
  BY <1>0, <1>7, NoNewsStep DEF vars, noticeVars, Falls
<1> QED BY <1>0, <1>1, <1>2, <1>3, <1>4, <1>5, <1>6, <1>7, ScheduleStep, DeleteStep, ReadNoticeStep
     DEF Next, HandleNotice

\* When the deletion of a content is noted, a post that was scheduled of it at that time is
\* still scheduled only if another account's post has left the calendar in its place, for any
\* number of contents, accounts and posts and whatever is lost or repeated.
THEOREM DeletionIsReached == Spec => []DeletionReachesSchedule
<1>1. DeletionInv => DeletionReachesSchedule
  BY DEF DeletionInv
<1> QED BY <1>1, DeletionInit, DeletionStep, PTL DEF Spec
=============================================================================
