---------------------------- MODULE RecordsProofs ---------------------------
(***************************************************************************)
(* What the platform writes down is what has happened: the versions of a   *)
(* text, the documents of a scrape, the log of a notice, the audit trail.  *)
(* content-service keeps every version and publishes only what was         *)
(* approved, without a lock: an edit adds the version after the one it has *)
(* read, and since a row's versions are 1, 2, ... up to its own, that      *)
(* version is new only if nobody has edited the row since it was read. A   *)
(* generation gets a second draft only from a handler that has looked for  *)
(* one before the first was there. The trail of admin-service is the truth *)
(* because scraper-service and notification-service tell only what they    *)
(* have stored before.                                                     *)
(***************************************************************************)
EXTENDS Library, BackOffice, TLAPS, FiniteSetTheorems

Ops == {"update", "approve", "publish", "delete"}
Live == {"draft", "approved", "published"}
RequestRows == [op : Ops, on : Rows, read : RowStates]
HandlerRows == [at : Stages, tries : 0..Limit, on : Rows \cup {None}]

\* A row s and its history h.
Complete(s, h) ==
  /\ {k.version : k \in h} = 1..s.version
  /\ \A j, k \in h : j.version = k.version => j = k
  /\ s \in h
  /\ s.status = "published" => [s EXCEPT !.status = "approved", !.version = @ - 1] \in h

RowFits(s, h) == IF s.status \in Live THEN Complete(s, h) ELSE h = {}
RowsFit == \A x \in Rows : RowFits(row[x], history[x])

\* What a request has read is a version of the row that it may edit.
RequestFits(q) ==
  /\ q.read.status \in Live /\ Allowed(q.op, q.read.status) /\ q.read.version < MaxVersion
  /\ row[q.on].status # "none"
  /\ row[q.on].status \in Live => q.read \in history[q.on]

RequestsFit == \A r \in Requests : request[r] # Idle => RequestFits(request[r])

\* A delivery that has not inserted its draft has none, and neither have later ones.
HandlersFit ==
  \A m \in Messages :
    /\ handler[m].at = "found" => handler[m].on \in Rows /\ row[handler[m].on].status # "none"
    /\ handler[m].at = "missing" => m \in Completions
    /\ m \in Completions => \A t \in 0..Limit :
         \/ t > handler[m].tries
         \/ t = handler[m].tries /\ handler[m].at \in {"none", "ready", "missing"}
         => row[<<m, t>>].status = "none"

\* An event's two messages are announced together.
AnnouncedBoth ==
  \A m, n \in Messages :
    m[1] = n[1] /\ m[2] = n[2] /\ handler[m].at = "none" => handler[n].at = "none"

Inv == TypeOK /\ RowsFit /\ RequestsFit /\ HandlersFit /\ AnnouncedBoth
-----------------------------------------------------------------------------
(* Rows *)

LEMMA Numbers == MaxVersion \in Nat /\ MaxVersion > 0 /\ Limit \in Nat
BY ConstantsAssumption

LEMMA FirstFits == FirstVersion \in RowStates /\ RowFits(FirstVersion, {FirstVersion})
<1>1. FirstVersion \in RowStates
  BY Numbers DEF FirstVersion, RowStates, Statuses, Versions
<1>2. {k.version : k \in {FirstVersion}} = 1..1
  BY DEF FirstVersion
<1> QED BY <1>1, <1>2 DEF RowFits, Complete, FirstVersion, Live

LEMMA GoneFits ==
  ASSUME NEW status \in {"none", "deleted"}
  PROVE  Gone(status) \in RowStates /\ Gone(status).status = status /\ RowFits(Gone(status), {})
BY Numbers DEF Gone, RowStates, Statuses, Versions, RowFits, Live

\* Only the last version can be followed by a new one.
LEMMA FreshIsLast ==
  ASSUME NEW s \in RowStates, NEW h \in SUBSET RowStates, Complete(s, h), NEW k \in h,
         \A j \in h : j.version # k.version + 1
  PROVE  k = s
<1>1. s.version \in Nat /\ k.version \in Nat
  BY DEF RowStates, Versions
<1>2. k.version \in 1..s.version
  BY DEF Complete
<1>3. k.version + 1 \notin 1..s.version
  BY DEF Complete
<1>4. k.version = s.version
  BY <1>1, <1>2, <1>3
<1> QED BY <1>4 DEF Complete

LEMMA NextFits ==
  ASSUME NEW s \in RowStates, NEW h \in SUBSET RowStates, Complete(s, h),
         NEW t \in RowStates, t.version = s.version + 1,
         t.status = "published" => s.status = "approved" /\ t.body = s.body
  PROVE  Complete(t, h \cup {t})
<1> DEFINE H == h \cup {t}
<1>1. s.version \in Nat /\ t.version \in Nat
  BY DEF RowStates, Versions
<1>2. \A k \in h : k.version \in 1..s.version
  BY DEF Complete
<1>3. {k.version : k \in H} = 1..t.version
  <2>1. {k.version : k \in H} = {k.version : k \in h} \cup {t.version}
    OBVIOUS
  <2>2. {k.version : k \in h} = 1..s.version
    BY DEF Complete
  <2> QED BY <1>1, <2>1, <2>2
<1>4. \A k \in h : k.version # t.version
  BY <1>1, <1>2
<1>5. \A j, k \in H : j.version = k.version => j = k
  BY <1>4 DEF Complete
<1>6. t.status = "published" => [t EXCEPT !.status = "approved", !.version = @ - 1] \in H
  <2> SUFFICES ASSUME t.status = "published"
               PROVE  [t EXCEPT !.status = "approved", !.version = @ - 1] = s
    BY DEF Complete
  <2>1. t.version - 1 = s.version
    BY <1>1
  <2> QED BY <2>1 DEF RowStates
<1> QED BY <1>3, <1>5, <1>6 DEF Complete
-----------------------------------------------------------------------------
(* Steps *)

\* A row that was made stays made, and keeps its history as long as it lives.
Onward ==
  \A x \in Rows : row[x].status # "none" =>
    /\ row'[x].status # "none"
    /\ row'[x].status \in Live => row[x].status \in Live /\ history[x] \subseteq history'[x]

NoDraftAdded == \A d \in Drafts : row[d].status = "none" => row'[d].status = "none"

LEMMA ReadsStay ==
  ASSUME Inv, Onward, TypeOK', \A r \in Requests : request'[r] \in {request[r], Idle}
  PROVE  RequestsFit'
<1> SUFFICES ASSUME NEW r \in Requests, request'[r] # Idle PROVE RequestFits(request[r])'
  BY DEF RequestsFit
<1>1. request'[r] = request[r] /\ request[r] # Idle
  OBVIOUS
<1>2. RequestFits(request[r]) /\ request[r].on \in Rows
  BY <1>1 DEF Inv, RequestsFit, TypeOK
<1> QED BY <1>1, <1>2 DEF RequestFits, Onward

LEMMA Settled ==
  ASSUME Inv, Onward, NoDraftAdded, TypeOK', RowsFit', UNCHANGED handler,
         \A r \in Requests : request'[r] \in {request[r], Idle}
  PROVE  Inv'
<1>1. RequestsFit'
  BY ReadsStay
<1>2. HandlersFit'
  BY DEF Inv, HandlersFit, Onward, NoDraftAdded, Drafts
<1> QED BY <1>1, <1>2 DEF Inv, AnnouncedBoth

LEMMA SameRows ==
  ASSUME Inv, UNCHANGED rowVars
  PROVE  Onward /\ NoDraftAdded /\ RowsFit'
BY DEF Inv, Onward, NoDraftAdded, RowsFit, rowVars

\* One row x becomes s with history h.
LEMMA OneRow ==
  ASSUME Inv, NEW x \in Rows, NEW s \in RowStates, NEW h \in SUBSET RowStates,
         row' = [row EXCEPT ![x] = s], history' = [history EXCEPT ![x] = h], RowFits(s, h)
  PROVE  /\ RowsFit'
         /\ row' \in [Rows -> RowStates] /\ history' \in [Rows -> SUBSET RowStates]
         /\ \A y \in Rows \ {x} : row'[y] = row[y] /\ history'[y] = history[y]
         /\ row'[x] = s /\ history'[x] = h
BY DEF Inv, TypeOK, RowsFit

LEMMA InsertRow ==
  ASSUME Inv, NEW x \in Rows, row[x].status = "none", Insert(x)
  PROVE  /\ RowsFit' /\ Onward
         /\ row' \in [Rows -> RowStates] /\ history' \in [Rows -> SUBSET RowStates]
         /\ \A y \in Rows \ {x} : row'[y] = row[y]
BY FirstFits, OneRow DEF Insert, Onward

LEMMA DeleteRow ==
  ASSUME Inv, NEW x \in Rows, row[x].status # "none", Delete(x)
  PROVE  /\ RowsFit' /\ Onward /\ NoDraftAdded
         /\ row' \in [Rows -> RowStates] /\ history' \in [Rows -> SUBSET RowStates]
<1> DEFINE s == Gone("deleted")
<1>1. s \in RowStates /\ s.status = "deleted" /\ RowFits(s, {})
  BY GoneFits
<1> HIDE DEF s
<1>2. row' = [row EXCEPT ![x] = s] /\ history' = [history EXCEPT ![x] = {}]
  BY DEF Delete, s
<1> QED BY <1>1, <1>2, OneRow DEF Onward, NoDraftAdded, Live, Rows

LEMMA CreateStep ==
  ASSUME Inv, NEW x \in Contents, Create(x)
  PROVE  Inv'
<1>1. row[x].status = "none" /\ Insert(x) /\ UNCHANGED <<request, handler, processed>>
  BY DEF Create
<1>2. x \in Rows /\ x \notin Drafts
  BY NamesAssumption DEF Rows
<1>3. TypeOK'
  BY <1>1, <1>2, InsertRow DEF Inv, TypeOK
<1>4. NoDraftAdded
  BY <1>1, <1>2, InsertRow DEF NoDraftAdded, Rows
<1> QED BY <1>1, <1>2, <1>3, <1>4, InsertRow, Settled

LEMMA ReadStep ==
  ASSUME Inv, NEW r \in Requests, NEW op \in Ops, NEW x \in Rows, Read(r, op, x)
  PROVE  Inv'
<1> DEFINE q == [op |-> op, on |-> x, read |-> row[x]]
<1>1. q \in RequestRows /\ row[x] \in RowStates
  BY DEF Inv, TypeOK, RequestRows
<1>2. request' = [request EXCEPT ![r] = q] /\ UNCHANGED <<rowVars, handler, processed>>
  BY DEF Read
<1>3. RequestFits(q)
  BY DEF Read, Exists, RequestFits, Live, Inv, RowsFit, RowFits, Complete
<1> HIDE DEF q
<1>4. TypeOK'
  BY <1>1, <1>2 DEF Inv, TypeOK, RequestRows, Ops, rowVars
<1>5. RequestsFit'
  BY <1>2, <1>3 DEF Inv, TypeOK, RequestsFit, RequestFits, rowVars
<1>6. HandlersFit'
  BY <1>2 DEF Inv, HandlersFit, rowVars
<1> QED BY <1>2, <1>4, <1>5, <1>6, SameRows DEF Inv, AnnouncedBoth

\* An edit that commits has read the row as it is.
LEMMA EditIsFresh ==
  ASSUME Inv, NEW r \in Requests, CommitEdit(r), ~UNCHANGED rowVars
  PROVE  LET q == request[r] IN
         /\ q \in RequestRows /\ q.op # "delete" /\ q.read = row[q.on]
         /\ Complete(q.read, history[q.on]) /\ Allowed(q.op, q.read.status)
         /\ q.read.status \in Live /\ q.read.version < MaxVersion
         /\ row' = [row EXCEPT ![q.on] = Written(q)]
         /\ history' = [history EXCEPT ![q.on] = @ \cup {Written(q)}]
<1> DEFINE q == request[r]
<1>1. q \in RequestRows /\ q.op # "delete"
  BY DEF CommitEdit, Inv, TypeOK, RequestRows, Ops, Idle
<1>2. RequestFits(q)
  BY DEF CommitEdit, Inv, RequestsFit, Idle
<1>3. /\ Exists(q.on) /\ Fresh(q.on, q.read.version + 1)
      /\ row' = [row EXCEPT ![q.on] = Updated(q)]
      /\ history' = [history EXCEPT ![q.on] = @ \cup {Written(q)}]
  BY DEF CommitEdit
<1>4. Complete(row[q.on], history[q.on]) /\ q.read \in history[q.on]
  BY <1>1, <1>2, <1>3 DEF Exists, Live, RequestFits, Inv, RowsFit, RowFits, RequestRows
<1>5. q.read = row[q.on]
  <2>1. row[q.on] \in RowStates /\ history[q.on] \in SUBSET RowStates
    BY <1>1 DEF Inv, TypeOK, RequestRows
  <2> QED BY <1>3, <1>4, <2>1, FreshIsLast DEF Fresh
<1>6. Updated(q) = Written(q)
  BY <1>5 DEF Updated, Written
<1> QED BY <1>1, <1>2, <1>3, <1>4, <1>5, <1>6 DEF RequestFits

\* What it writes follows the row that it has read.
LEMMA WrittenFollows ==
  ASSUME NEW q \in RequestRows, q.op # "delete", Allowed(q.op, q.read.status),
         q.read.version < MaxVersion
  PROVE  /\ Written(q) \in RowStates /\ Written(q).version = q.read.version + 1
         /\ Written(q).status \in Live
         /\ Written(q).status = "published" =>
              q.read.status = "approved" /\ Written(q).body = q.read.body
<1>1. q.read.version \in Nat /\ q.read.version + 1 \in Versions /\ q.read.body \in Versions
  BY Numbers DEF RequestRows, RowStates, Versions
<1>2. q.op \in {"update", "approve", "publish"}
  BY DEF RequestRows, Ops
<1> QED BY <1>1, <1>2 DEF Written, Target, Allowed, RowStates, Statuses, Live

LEMMA CommitEditStep ==
  ASSUME Inv, NEW r \in Requests, CommitEdit(r)
  PROVE  Inv'
<1>1. request' = [request EXCEPT ![r] = Idle] /\ UNCHANGED <<handler, processed>>
  BY DEF CommitEdit
<1>2. \A s \in Requests : request'[s] \in {request[s], Idle}
  BY <1>1 DEF Inv, TypeOK
<1>3. CASE UNCHANGED rowVars
  <2>1. TypeOK'
    BY <1>1, <1>3 DEF Inv, TypeOK, rowVars
  <2> QED BY <1>1, <1>2, <1>3, <2>1, SameRows, Settled
<1>4. CASE ~UNCHANGED rowVars
  <2> DEFINE q == request[r]
             x == q.on
             t == Written(q)
             h == history[x] \cup {t}
  <2>1. /\ q \in RequestRows /\ q.op # "delete" /\ q.read = row[x]
        /\ Complete(q.read, history[x]) /\ Allowed(q.op, q.read.status)
        /\ q.read.status \in Live /\ q.read.version < MaxVersion
        /\ row' = [row EXCEPT ![x] = t]
        /\ history' = [history EXCEPT ![x] = h]
    BY <1>4, EditIsFresh
  <2>2. /\ t \in RowStates /\ t.version = q.read.version + 1 /\ t.status \in Live
        /\ t.status = "published" => q.read.status = "approved" /\ t.body = q.read.body
    BY <2>1, WrittenFollows
  <2>3. x \in Rows /\ q.read \in RowStates /\ history[x] \in SUBSET RowStates
    BY <2>1 DEF RequestRows, Inv, TypeOK
  <2> HIDE DEF t, x
  <2>4. Complete(t, h)
    BY <2>1, <2>2, <2>3, NextFits
  <2>5. h \in SUBSET RowStates /\ RowFits(t, h)
    BY <2>2, <2>3, <2>4 DEF RowFits
  <2>6. /\ RowsFit'
        /\ row' \in [Rows -> RowStates] /\ history' \in [Rows -> SUBSET RowStates]
        /\ \A y \in Rows \ {x} : row'[y] = row[y] /\ history'[y] = history[y]
        /\ row'[x] = t /\ history'[x] = h
    BY <2>1, <2>2, <2>3, <2>5, OneRow
  <2>7. TypeOK'
    BY <1>1, <2>6 DEF Inv, TypeOK
  <2>8. Onward /\ NoDraftAdded
    BY <2>1, <2>2, <2>6 DEF Onward, NoDraftAdded, Live, Rows
  <2> QED BY <1>1, <1>2, <2>6, <2>7, <2>8, Settled
<1> QED BY <1>3, <1>4

LEMMA CommitDeleteStep ==
  ASSUME Inv, NEW r \in Requests, CommitDelete(r)
  PROVE  Inv'
<1>1. /\ request[r].op = "delete" /\ Delete(request[r].on)
      /\ request' = [request EXCEPT ![r] = Idle] /\ UNCHANGED <<handler, processed>>
  BY DEF CommitDelete
<1>2. \A s \in Requests : request'[s] \in {request[s], Idle}
  BY <1>1 DEF Inv, TypeOK
<1>3. request[r].on \in Rows /\ row[request[r].on].status # "none"
  BY <1>1 DEF Inv, TypeOK, RequestsFit, RequestFits, Idle
<1>4. TypeOK'
  BY <1>1, <1>3, DeleteRow DEF Inv, TypeOK
<1> QED BY <1>1, <1>2, <1>3, <1>4, DeleteRow, Settled

LEMMA RaiseStep ==
  ASSUME Inv, NEW r \in Requests, RequestRaises(r)
  PROVE  Inv'
<1>1. /\ request' = [request EXCEPT ![r] = Idle] /\ UNCHANGED <<rowVars, handler, processed>>
  BY DEF RequestRaises
<1>2. \A s \in Requests : request'[s] \in {request[s], Idle}
  BY <1>1 DEF Inv, TypeOK
<1>3. TypeOK'
  BY <1>1 DEF Inv, TypeOK, rowVars
<1> QED BY <1>1, <1>2, <1>3, SameRows, Settled
-----------------------------------------------------------------------------
(* The consumer *)

LEMMA Handled ==
  ASSUME Inv, Onward, TypeOK', RowsFit', HandlersFit', AnnouncedBoth', UNCHANGED request
  PROVE  Inv'
BY ReadsStay DEF Inv

LEMMA MessageRow == \A m \in Completions, t \in 0..Limit : m \in Messages /\ <<m, t>> \in Rows
BY DEF Messages, Drafts, Rows

\* A step of a handler that changes no row.
LEMMA QuietHandler ==
  ASSUME Inv, UNCHANGED <<rowVars, request>>, NEW m \in Messages, NEW h \in HandlerRows,
         handler' = [handler EXCEPT ![m] = h],
         processed' \subseteq Generations \X {"completed", "deleted"},
         handler[m].at # "none", h.at # "none",
         h.at = "found" => h.on \in Rows /\ row[h.on].status # "none",
         h.at = "missing" => m \in Completions,
         \/ h.tries > handler[m].tries
         \/ h.tries = handler[m].tries /\ (handler[m].at \in {"none", "ready", "missing"} \/
                                           h.at \notin {"none", "ready", "missing"})
  PROVE  Inv'
<1>1. TypeOK'
  BY DEF Inv, TypeOK, HandlerRows, rowVars
<1>2. /\ handler'[m] = h
      /\ \A n \in Messages \ {m} : handler'[n] = handler[n]
      /\ UNCHANGED row
  BY DEF Inv, TypeOK, rowVars
<1>3. handler[m].tries \in Nat /\ h.tries \in Nat /\ \A t \in 0..Limit : t \in Nat
  BY Numbers DEF Inv, TypeOK, HandlerRows
<1>4. HandlersFit!(m)'
  BY <1>2, <1>3 DEF Inv, HandlersFit
<1>5. \A n \in Messages \ {m} : HandlersFit!(n)'
  BY <1>2 DEF Inv, HandlersFit
<1>6. HandlersFit'
  BY <1>4, <1>5 DEF HandlersFit
<1>7. AnnouncedBoth'
  BY <1>2 DEF Inv, AnnouncedBoth
<1> QED BY <1>1, <1>6, <1>7, SameRows, Handled

LEMMA MoveStep ==
  ASSUME Inv, NEW m \in Messages, NEW at \in Stages, Move(m, at),
         UNCHANGED <<rowVars, request>>,
         processed' \subseteq Generations \X {"completed", "deleted"},
         handler[m].at # "none", at \notin {"none", "found"}, at = "missing" => m \in Completions,
         handler[m].at \in {"none", "ready", "missing"} \/ at \notin {"none", "ready", "missing"}
  PROVE  Inv'
<1> DEFINE h == [handler[m] EXCEPT !.at = at]
<1>1. h \in HandlerRows /\ h.at = at /\ h.tries = handler[m].tries
  BY DEF Inv, TypeOK, HandlerRows
<1>2. handler' = [handler EXCEPT ![m] = h]
  BY DEF Move
<1> HIDE DEF h
<1> QED BY <1>1, <1>2, QuietHandler

LEMMA AnnounceStep ==
  ASSUME Inv, NEW g \in Generations, NEW event \in {"completed", "deleted"}, Announce(g, event)
  PROVE  Inv'
<1>1. /\ handler' = [m \in Messages |->
            IF m \in {g} \X {event} \X {1, 2} THEN [handler[m] EXCEPT !.at = "ready"] ELSE handler[m]]
      /\ UNCHANGED <<rowVars, request, processed>>
  BY DEF Announce
<1>2. \A m \in Messages :
        \/ handler'[m] = handler[m]
        \/ /\ handler'[m].at = "ready" /\ handler'[m].tries = handler[m].tries
           /\ handler'[m] \in HandlerRows
           /\ m[1] = g /\ m[2] = event
  BY <1>1 DEF Inv, TypeOK, HandlerRows, Stages
<1>3. TypeOK'
  BY <1>1, <1>2 DEF Inv, TypeOK, HandlerRows, rowVars
<1>4. \A m \in Messages : m[1] = g /\ m[2] = event => handler[m].at = "none"
  <2>1. <<g, event, 1>> \in Messages /\ handler[<<g, event, 1>>].at = "none"
    BY DEF Announce, Messages, Completions, Deletions
  <2> QED BY <2>1 DEF Inv, AnnouncedBoth
<1>5. ASSUME NEW m \in Messages PROVE HandlersFit!(m)'
  BY <1>1, <1>2, <1>4 DEF Inv, HandlersFit, rowVars
<1>6. AnnouncedBoth'
  <2>1. \A m \in Messages :
          handler'[m] = IF m \in {g} \X {event} \X {1, 2} THEN [handler[m] EXCEPT !.at = "ready"]
                        ELSE handler[m]
    BY <1>1
  <2>2. \A m \in Messages : m \in {g} \X {event} \X {1, 2} <=> m[1] = g /\ m[2] = event
    <3> SUFFICES ASSUME NEW m \in Messages
                 PROVE  m \in {g} \X {event} \X {1, 2} <=> m[1] = g /\ m[2] = event
      OBVIOUS
    <3>1. PICK a \in Generations, b \in {"completed", "deleted"}, c \in {1, 2} : m = <<a, b, c>>
      BY DEF Messages, Completions, Deletions
    <3>2. m \in {g} \X {event} \X {1, 2} <=> a = g /\ b = event
      BY <3>1
    <3>3. m[1] = a /\ m[2] = b
      BY <3>1
    <3> QED BY <3>2, <3>3
  <2>3. \A m \in Messages : m[1] = g /\ m[2] = event => handler'[m].at # "none"
    <3>1. \A m \in Messages : [handler[m] EXCEPT !.at = "ready"].at = "ready"
      BY DEF Inv, TypeOK
    <3> QED BY <2>1, <2>2, <3>1
  <2>4. \A m \in Messages : ~(m[1] = g /\ m[2] = event) => handler'[m] = handler[m]
    BY <2>1, <2>2
  <2> QED BY <2>3, <2>4 DEF Inv, AnnouncedBoth
<1>7. HandlersFit'
  BY <1>5 DEF HandlersFit
<1> QED BY <1>1, <1>3, <1>6, <1>7, SameRows, Handled

LEMMA LookStep ==
  ASSUME Inv, NEW m \in Messages,
         IgnoreMessage(m) \/ LookForDraft(m) \/ LookForDeletion(m) \/ Note(m)
  PROVE  Inv'
<1> USE DEF Stages
<1>1. processed \subseteq Generations \X {"completed", "deleted"}
  BY DEF Inv, TypeOK
<1>2. CASE IgnoreMessage(m)
  BY <1>1, <1>2, MoveStep DEF IgnoreMessage
<1>3. CASE LookForDraft(m)
  BY <1>1, <1>3, MoveStep DEF LookForDraft
<1>4. CASE LookForDeletion(m)
  <2>1. CASE Move(m, "noting")
    BY <1>1, <1>4, <2>1, MoveStep DEF LookForDeletion
  <2>2. CASE \E x \in Sourced(m[1]) :
               handler' = [handler EXCEPT ![m] = [at |-> "found", tries |-> @.tries, on |-> x]]
    <3>1. PICK x \in Sourced(m[1]) : handler' = [handler EXCEPT ![m] = [at |-> "found", tries |-> @.tries, on |-> x]]
      BY <2>2
    <3> DEFINE h == [at |-> "found", tries |-> handler[m].tries, on |-> x]
    <3>2. x \in Rows /\ row[x].status # "none"
      BY DEF Sourced, Exists, Rows
    <3>3. handler' = [handler EXCEPT ![m] = h] /\ h \in HandlerRows
      BY <3>1, <3>2 DEF Inv, TypeOK, HandlerRows
    <3>4. handler[m].at = "ready" /\ UNCHANGED <<rowVars, request, processed>>
      BY <1>4 DEF LookForDeletion
    <3>5. h.at = "found" /\ h.tries = handler[m].tries /\ h.on = x
      OBVIOUS
    <3> HIDE DEF h
    <3> QED BY <1>1, <3>2, <3>3, <3>4, <3>5, QuietHandler
  <2> QED BY <1>4, <2>1, <2>2 DEF LookForDeletion
<1>5. CASE Note(m)
  <2>1. <<m[1], m[2]>> \in Generations \X {"completed", "deleted"}
    BY DEF Messages, Completions, Deletions
  <2>2. processed' \subseteq Generations \X {"completed", "deleted"}
    BY <1>1, <1>5, <2>1 DEF Note
  <2> QED BY <1>5, <2>2, MoveStep DEF Note
<1> QED BY <1>2, <1>3, <1>4, <1>5

LEMMA ReturnStep ==
  ASSUME Inv, NEW m \in Messages, ReturnMessage(m)
  PROVE  Inv'
<1>1. handler[m] \in HandlerRows /\ handler[m].tries \in 0..Limit
  BY DEF Inv, TypeOK, HandlerRows
<1>2. CASE CanBeReturned(m)
  <2> DEFINE h == [at |-> "ready", tries |-> handler[m].tries + 1, on |-> None]
  <2>1. h \in HandlerRows /\ h.tries > handler[m].tries
    BY <1>1, <1>2, Numbers DEF CanBeReturned, HandlerRows, Stages
  <2>2. /\ handler' = [handler EXCEPT ![m] = h] /\ handler[m].at # "none"
        /\ UNCHANGED <<rowVars, request, processed>>
    BY <1>2 DEF ReturnMessage
  <2>3. h.at = "ready"
    OBVIOUS
  <2> HIDE DEF h
  <2> QED BY <2>1, <2>2, <2>3, QuietHandler DEF Inv, TypeOK
<1>3. CASE ~CanBeReturned(m)
  <2> DEFINE h == [at |-> "done", tries |-> handler[m].tries, on |-> None]
  <2>1. h \in HandlerRows /\ h.tries = handler[m].tries /\ h.at = "done"
    BY <1>1 DEF HandlerRows, Stages
  <2>2. /\ handler' = [handler EXCEPT ![m] = h] /\ handler[m].at # "none"
        /\ UNCHANGED <<rowVars, request, processed>>
    BY <1>3 DEF ReturnMessage
  <2> HIDE DEF h
  <2> QED BY <2>1, <2>2, QuietHandler DEF Inv, TypeOK
<1> QED BY <1>2, <1>3

LEMMA InsertDraftStep ==
  ASSUME Inv, NEW m \in Messages, InsertDraft(m)
  PROVE  Inv'
<1> DEFINE x == <<m, handler[m].tries>>
<1>1. /\ handler[m].at = "missing" /\ Insert(x) /\ Move(m, "noting")
      /\ UNCHANGED <<request, processed>>
  BY DEF InsertDraft
<1>2. m \in Completions /\ handler[m].tries \in 0..Limit
  BY <1>1 DEF Inv, HandlersFit, TypeOK
<1>3. x \in Rows /\ row[x].status = "none"
  BY <1>1, <1>2, MessageRow DEF Inv, HandlersFit
<1>4. /\ RowsFit' /\ Onward
      /\ row' \in [Rows -> RowStates] /\ history' \in [Rows -> SUBSET RowStates]
      /\ \A y \in Rows \ {x} : row'[y] = row[y]
  BY <1>1, <1>3, InsertRow
<1>5. TypeOK'
  BY <1>1, <1>4 DEF Inv, TypeOK, Move, Stages
<1>6. /\ handler'[m].at = "noting" /\ handler'[m].tries = handler[m].tries
      /\ \A n \in Messages \ {m} : handler'[n] = handler[n]
  BY <1>1 DEF Inv, TypeOK, Move
<1>7. HandlersFit'
  <2>1. ASSUME NEW n \in Messages, n # m PROVE HandlersFit!(n)'
    <3>1. \A t \in 0..Limit : n \in Completions => <<n, t>> \in Rows \ {x}
      BY <2>1, MessageRow
    <3> QED BY <1>4, <1>6, <2>1, <3>1 DEF Inv, HandlersFit, Onward
  <2>2. HandlersFit!(m)'
    <3>1. \A t \in 0..Limit : t # handler[m].tries => <<m, t>> \in Rows \ {x}
      BY <1>2, MessageRow
    <3>2. handler[m].tries \in Nat /\ \A t \in 0..Limit : t \in Nat
      BY <1>2, Numbers
    <3> QED BY <1>2, <1>4, <1>6, <3>1, <3>2 DEF Inv, HandlersFit
  <2> QED BY <2>1, <2>2 DEF HandlersFit
<1>8. AnnouncedBoth'
  BY <1>1, <1>6 DEF Inv, AnnouncedBoth
<1> QED BY <1>1, <1>4, <1>5, <1>7, <1>8, Handled

LEMMA DeleteDraftStep ==
  ASSUME Inv, NEW m \in Messages, DeleteDraft(m)
  PROVE  Inv'
<1> DEFINE x == handler[m].on
<1>1. /\ handler[m].at = "found" /\ Delete(x)
      /\ handler' = [handler EXCEPT ![m] = [at |-> "noting", tries |-> @.tries, on |-> None]]
      /\ UNCHANGED <<request, processed>>
  BY DEF DeleteDraft
<1>2. x \in Rows /\ row[x].status # "none"
  BY <1>1 DEF Inv, HandlersFit
<1>3. /\ RowsFit' /\ Onward /\ NoDraftAdded
      /\ row' \in [Rows -> RowStates] /\ history' \in [Rows -> SUBSET RowStates]
  BY <1>1, <1>2, DeleteRow
<1>4. handler' = [handler EXCEPT ![m] = [at |-> "noting", tries |-> handler[m].tries, on |-> None]]
  BY <1>1 DEF Inv, TypeOK
<1>5. TypeOK'
  BY <1>1, <1>3, <1>4 DEF Inv, TypeOK, Stages
<1>6. /\ handler'[m].at = "noting" /\ handler'[m].tries = handler[m].tries
      /\ \A n \in Messages \ {m} : handler'[n] = handler[n]
  BY <1>4 DEF Inv, TypeOK
<1>7. HandlersFit'
  <2>1. ASSUME NEW n \in Messages PROVE HandlersFit!(n)'
    BY <1>1, <1>3, <1>6, MessageRow DEF Inv, HandlersFit, Onward, NoDraftAdded, Drafts
  <2> QED BY <2>1 DEF HandlersFit
<1>8. AnnouncedBoth'
  BY <1>1, <1>6 DEF Inv, AnnouncedBoth
<1> QED BY <1>1, <1>3, <1>5, <1>7, <1>8, Handled
-----------------------------------------------------------------------------
LEMMA InitInv == Init => Inv
<1> SUFFICES ASSUME Init PROVE Inv
  OBVIOUS
<1>1. /\ \A x \in Rows : row[x] = Gone("none") /\ history[x] = {}
      /\ row \in [Rows -> RowStates] /\ history \in [Rows -> SUBSET RowStates]
  BY GoneFits DEF Init
<1>2. handler \in [Messages -> HandlerRows] /\ \A m \in Messages : handler[m].at = "none"
  BY Numbers DEF Init, HandlerRows, Stages
<1>3. TypeOK
  BY <1>1, <1>2 DEF Init, TypeOK, HandlerRows
<1>4. RowsFit
  BY <1>1, GoneFits DEF RowsFit
<1>5. HandlersFit
  BY <1>1, <1>2, MessageRow, GoneFits DEF HandlersFit
<1>6. RequestsFit /\ AnnouncedBoth
  BY <1>2 DEF Init, RequestsFit, AnnouncedBoth
<1> QED BY <1>3, <1>4, <1>5, <1>6 DEF Inv

LEMMA NextInv == Inv /\ [Next]_vars => Inv'
<1> SUFFICES ASSUME Inv, [Next]_vars PROVE Inv'
  OBVIOUS
<1>1. CASE \E x \in Contents : Create(x)
  BY <1>1, CreateStep
<1>2. ASSUME NEW r \in Requests, Serve(r) PROVE Inv'
  BY <1>2, ReadStep, CommitEditStep, CommitDeleteStep, RaiseStep DEF Serve, Ops
<1>3. CASE \E g \in Generations, event \in {"completed", "deleted"} : Announce(g, event)
  BY <1>3, AnnounceStep
<1>4. ASSUME NEW m \in Messages, Handle(m) PROVE Inv'
  BY <1>4, LookStep, InsertDraftStep, DeleteDraftStep, ReturnStep DEF Handle
<1>5. CASE UNCHANGED vars
  <2>1. TypeOK' /\ UNCHANGED <<rowVars, request, handler>>
    BY <1>5 DEF Inv, TypeOK, vars, rowVars
  <2> QED BY <2>1, SameRows, Settled
<1> QED BY <1>1, <1>2, <1>3, <1>4, <1>5 DEF Next

\* Every variable stays of its type; rows, requests and handlers fit together.
THEOREM TypeCorrect == Spec => []Inv
BY InitInv, NextInv, PTL DEF Spec
-----------------------------------------------------------------------------
(* The properties *)

\* The history has every version of a row once, and the last is the row itself, for any
\* number of rows, edits and requests.
THEOREM NoEditLost == Spec => []HistoryComplete
<1>1. Inv => HistoryComplete
  BY DEF Inv, RowsFit, RowFits, Complete, HistoryComplete, Exists, Live
<1> QED BY <1>1, TypeCorrect, PTL

\* What is published is the version that was approved, whatever edits interleave.
THEOREM OnlyApprovedPublished == Spec => []PublishedAsApproved
<1>1. Inv => PublishedAsApproved
  BY DEF Inv, RowsFit, RowFits, Complete, PublishedAsApproved, Live
<1> QED BY <1>1, TypeCorrect, PTL

LEMMA LockStep == Inv /\ [Next]_vars =>
  \A x \in Rows : row[x].status = "published" => row'[x] \in {row[x], Gone("deleted")}
<1> SUFFICES ASSUME Inv, [Next]_vars, NEW x \in Rows, row[x].status = "published"
             PROVE  row'[x] \in {row[x], Gone("deleted")}
  OBVIOUS
<1>1. ASSUME NEW y \in Rows, Delete(y) PROVE row'[x] \in {row[x], Gone("deleted")}
  BY <1>1 DEF Delete, Inv, TypeOK
<1>2. ASSUME NEW y \in Rows, row[y].status = "none", Insert(y) PROVE row'[x] = row[x]
  BY <1>2 DEF Insert, Inv, TypeOK
<1>3. ASSUME NEW r \in Requests, CommitEdit(r) PROVE row'[x] = row[x]
  <2>1. CASE UNCHANGED rowVars
    BY <2>1 DEF rowVars
  <2>2. CASE ~UNCHANGED rowVars
    <3> DEFINE q == request[r]
    <3>1. /\ q \in RequestRows /\ q.op # "delete" /\ q.read = row[q.on]
          /\ Allowed(q.op, q.read.status) /\ row' = [row EXCEPT ![q.on] = Written(q)]
      BY <1>3, <2>2, EditIsFresh
    <3>2. q.read.status # "published"
      BY <3>1 DEF Allowed, RequestRows, Ops
    <3> QED BY <3>1, <3>2 DEF Inv, TypeOK
  <2> QED BY <2>1, <2>2
<1>4. ASSUME NEW y \in Contents, Create(y) PROVE row'[x] = row[x]
  BY <1>2, <1>4 DEF Create, Rows
<1>5. ASSUME NEW r \in Requests, CommitDelete(r) PROVE row'[x] \in {row[x], Gone("deleted")}
  BY <1>1, <1>5 DEF CommitDelete, Inv, TypeOK, Idle
<1>6. ASSUME NEW m \in Messages, InsertDraft(m) PROVE row'[x] = row[x]
  <2>1. m \in Completions /\ handler[m].tries \in 0..Limit /\ handler[m].at = "missing"
    BY <1>6 DEF InsertDraft, Inv, HandlersFit, TypeOK
  <2>2. <<m, handler[m].tries>> \in Rows /\ row[<<m, handler[m].tries>>].status = "none"
    BY <2>1, MessageRow DEF Inv, HandlersFit
  <2> QED BY <1>2, <1>6, <2>2 DEF InsertDraft
<1>7. ASSUME NEW m \in Messages, DeleteDraft(m) PROVE row'[x] \in {row[x], Gone("deleted")}
  BY <1>1, <1>7 DEF DeleteDraft, Inv, HandlersFit
<1> QED BY <1>3, <1>4, <1>5, <1>6, <1>7 DEF Next, Serve, Handle, Read, RequestRaises, Announce,
     IgnoreMessage, LookForDraft, LookForDeletion, Note, ReturnMessage, rowVars, vars

\* A published row is never edited, by no request that has read it before either.
THEOREM PublishedNotEdited == Spec => PublishedIsLocked
<1>1. Inv /\ [Next]_vars =>
        [\A x \in Rows : row[x].status = "published" => row'[x] \in {row[x], Gone("deleted")}]_vars
  BY LockStep
<1> QED BY <1>1, InitInv, NextInv, PTL DEF Spec, PublishedIsLocked
-----------------------------------------------------------------------------
(* Drafts of generations *)

\* A handler sees no draft of its generation only if there is none.
LEMMA LookedStep ==
  ASSUME Inv, [Next]_vars, NEW g \in Generations, Sourced(g) # {}
  PROVE  Looked(g)' \subseteq Looked(g)
<1> SUFFICES ASSUME NEW m \in {g} \X {"completed"} \X {1, 2},
                    handler'[m].at = "missing", handler[m].at # "missing"
             PROVE  FALSE
  BY DEF Looked
<1>1. m \in Messages /\ m[1] = g /\ m \in Completions
  BY DEF Messages, Completions
<1>2. UNCHANGED handler \/ (\E h \in Generations, event \in {"completed", "deleted"} : Announce(h, event))
        \/ \E n \in Messages : Handle(n)
  BY DEF Next, vars, Create, Serve, Read, CommitEdit, CommitDelete, RequestRaises
<1>3. \A h \in Generations, event \in {"completed", "deleted"} : ~Announce(h, event)
  BY <1>1 DEF Announce, Inv, TypeOK
<1>4. PICK n \in Messages : Handle(n)
  BY <1>2, <1>3
<1>5. CASE n # m
  BY <1>1, <1>4, <1>5 DEF Handle, IgnoreMessage, LookForDraft, InsertDraft, LookForDeletion,
     DeleteDraft, Note, ReturnMessage, Move, Inv, TypeOK
<1>6. CASE n = m
  <2>1. HasDraft(m[1])
    BY <1>1 DEF HasDraft
  <2>2. ~LookForDraft(m)
    BY <1>1, <2>1 DEF LookForDraft, Move, Inv, TypeOK
  <2>3. ~IgnoreMessage(m) /\ ~InsertDraft(m) /\ ~Note(m)
    BY <1>1 DEF IgnoreMessage, InsertDraft, Note, Move, Inv, TypeOK
  <2>4. ~LookForDeletion(m) /\ ~DeleteDraft(m)
    BY <1>1 DEF LookForDeletion, DeleteDraft, Move, Inv, TypeOK
  <2>5. ~ReturnMessage(m)
    BY <1>1 DEF ReturnMessage, Inv, TypeOK
  <2> QED BY <1>4, <1>6, <2>2, <2>3, <2>4, <2>5 DEF Handle
<1> QED BY <1>5, <1>6

\* Only a handler that has looked inserts a draft.
LEMMA SourcedStep ==
  ASSUME Inv, [Next]_vars, NEW g \in Generations, Looked(g) = {}
  PROVE  Sourced(g)' \subseteq Sourced(g)
<1> SUFFICES ASSUME NEW d \in Drafts, d[1][1] = g, Exists(d)', ~Exists(d)
             PROVE  FALSE
  BY DEF Sourced
<1>1. d \in Rows /\ d \notin Contents
  BY NamesAssumption DEF Rows
<1>2. \A x \in Contents : ~Create(x)
  BY <1>1 DEF Create, Insert, Exists, Inv, TypeOK
<1>3. \A r \in Requests : ~CommitEdit(r)
  BY <1>1 DEF CommitEdit, Exists, rowVars, Inv, TypeOK
<1>4. \A r \in Requests : ~CommitDelete(r)
  BY <1>1 DEF CommitDelete, Delete, Exists, Gone, Inv, TypeOK
<1>5. \A m \in Messages : ~DeleteDraft(m)
  BY <1>1 DEF DeleteDraft, Delete, Exists, Gone, Inv, TypeOK
<1>6. \A m \in Messages : ~InsertDraft(m)
  <2> SUFFICES ASSUME NEW m \in Messages, InsertDraft(m) PROVE FALSE
    OBVIOUS
  <2>1. d = <<m, handler[m].tries>>
    BY <1>1 DEF InsertDraft, Insert, Exists, Inv, TypeOK
  <2>2. m \in Completions /\ m[1] = g /\ handler[m].at = "missing"
    BY <2>1 DEF InsertDraft, Inv, HandlersFit
  <2> QED BY <2>2 DEF Looked, Completions
<1> QED BY <1>2, <1>3, <1>4, <1>5, <1>6 DEF Next, vars, Serve, Read, RequestRaises, Announce,
     Handle, IgnoreMessage, LookForDraft, LookForDeletion, Note, ReturnMessage, rowVars, Exists

\* While a generation has a draft, only deliveries that had looked before add another, for
\* any number of redeliveries, edits and deletions.
THEOREM DraftsAreNotRepeated == Spec => DraftedOnce
<1>1. Inv /\ [Next]_vars =>
        [\A g \in Generations : Sourced(g) # {} =>
           /\ Looked(g)' \subseteq Looked(g)
           /\ Looked(g) = {} => Sourced(g)' \subseteq Sourced(g)]_vars
  BY LookedStep, SourcedStep
<1> QED BY <1>1, InitInv, NextInv, PTL DEF Spec, DraftedOnce
-----------------------------------------------------------------------------
(* What the handlers of scrapes and notices rely on between their steps,   *)
(* and what of it they have told: a scrape is settled by the copy of a     *)
(* handler that has read it as queued, a notice is over when each of its   *)
(* channels is in the log, and the trail shows what was told.              *)

ScrapeFits(m) ==
  /\ stage[m] # "none" => dispatch[m[1]].at # "none"
  /\ stage[m] = "copied" => copy[m].status = "queued"
  /\ stage[m] = "stored" => copy[m].status \in {"completed", "failed"}
  /\ stage[m] = "stored" /\ copy[m].status = "completed" => Pages(m) # {}

ScrapesFit ==
  /\ \A m \in ScrapeMessages : ScrapeFits(m)
  /\ \A e \in ScrapeEvents : dispatch[e].at # "none" => dispatch[e].job \in Jobs
  /\ \A o \in outcomes : (o.status = "completed") <=> (o.pages # {})
  /\ IsFiniteSet(documents)

ScrapingInv == ScrapingTypeOK /\ ScrapesFit

LoggedOn(m, channel) == \E r \in log : r.of[1][1] = m[1] /\ r.channel = channel
DueChannels(m) == IF m[1] \in Alerts THEN Channels ELSE {"email"}

NoticeFits(m) ==
  /\ position[m].step \in {"unresolved", "send", "accepted", "refused", "logged"} =>
       position[m].channel \in Channels
  /\ position[m].channel = "slack" => m[1] \in Alerts /\ LoggedOn(m, "email")
  /\ position[m].step \in {"accepted", "logged"} => Sent(m, position[m].channel) \in reached
  /\ position[m].step = "logged" => Row(m, position[m].channel, "sent") \in log
  /\ position[m].step \in {"over", "done"} =>
       \A channel \in DueChannels(m) : LoggedOn(m, channel)

SaidFits(s) ==
  s \in reached /\ \E r \in log : r.of = s.of /\ r.channel = s.channel /\ r.status = "sent"

NoticesFit ==
  /\ \A m \in NoticeMessages : NoticeFits(m)
  /\ \A s \in said : SaidFits(s)

NoticesInv == NoticesTypeOK /\ NoticesFit

TrailFits == trail = [x \in DOMAIN trail |-> 1] /\ DOMAIN trail \subseteq Happened

BackOfficeInv == ScrapingInv /\ NoticesInv /\ TrailFits
-----------------------------------------------------------------------------
LEMMA ScrapingStarts == ScrapingInit => ScrapingInv
<1>. SUFFICES ASSUME ScrapingInit  PROVE ScrapingInv
  OBVIOUS
<1>1. ScrapingTypeOK
  BY ScrapingAssumption
     DEF ScrapingInit, ScrapingTypeOK, NoJob, JobRecords, JobStatuses, ScrapeStages
<1>2. ScrapesFit
  BY FS_EmptySet DEF ScrapingInit, ScrapesFit, ScrapeFits
<1>. QED  BY <1>1, <1>2 DEF ScrapingInv

\* Whose message is queued has a job.
LEMMA JobOfMessage ==
  ASSUME ScrapingInv, NEW m \in ScrapeMessages, stage[m] # "none"
  PROVE  JobOf(m) \in Jobs /\ m[1] \in ScrapeEvents
  BY DEF ScrapingInv, ScrapesFit, ScrapeFits, ScrapeMessages, JobOf

\* What a step leaves alone of dispatches, documents and outcomes.
LEMMA ScrapesKeep ==
  ASSUME ScrapingInv, UNCHANGED <<dispatch, documents, outcomes>>,
         \A m \in ScrapeMessages :
           \/ stage'[m] = stage[m] /\ copy'[m] = copy[m] /\ returns'[m] = returns[m]
           \/ stage'[m] \notin {"copied", "stored"} /\ (stage[m] = "none" => stage'[m] = "none")
           \/ stage'[m] = "copied" /\ copy'[m].status = "queued" /\ stage[m] # "none"
  PROVE  ScrapesFit'
<1>1. ASSUME NEW m \in ScrapeMessages  PROVE ScrapeFits(m)'
  BY DEF ScrapingInv, ScrapesFit, ScrapeFits, Pages, Run
<1>. QED  BY <1>1 DEF ScrapingInv, ScrapesFit

LEMMA CreateScrape ==
  ASSUME ScrapingInv, NEW j \in Jobs, CreateJob(j) \/ DispatchDue(j)
  PROVE  ScrapingInv'
<1>. DEFINE e == NewEvent
<1>1. PICK by \in {"request", "scan"} : NewDispatch(j, by)
  BY DEF CreateJob, DispatchDue
<1>2. /\ e \in ScrapeEvents
      /\ dispatch' = [dispatch EXCEPT ![e] = [job |-> j, by |-> by, at |-> "first"]]
  BY <1>1 DEF NewDispatch
<1>. HIDE DEF e
<1>3. UNCHANGED <<documents, recorded, stage, returns, copy, cancelling, outcomes>>
  BY DEF CreateJob, DispatchDue
<1>4. Queued \in JobRecords
  BY DEF Queued, JobRecords, JobStatuses
<1>5. jobs' \in [Jobs -> JobRecords]
  BY <1>4 DEF CreateJob, DispatchDue, ScrapingInv, ScrapingTypeOK
<1>6. scan' \in [left : SUBSET Jobs, ready : SUBSET Jobs, alive : BOOLEAN]
  BY DEF CreateJob, DispatchDue, ScrapingInv, ScrapingTypeOK
<1>7. ScrapingTypeOK'
  BY <1>2, <1>3, <1>5, <1>6 DEF ScrapingInv, ScrapingTypeOK
<1>8. ScrapesFit'
  <2>1. ASSUME NEW m \in ScrapeMessages  PROVE ScrapeFits(m)'
    <3>1. m[1] \in ScrapeEvents
      BY DEF ScrapeMessages
    <3>2. Pages(m)' = Pages(m)
      BY <1>3 DEF Pages, Run
    <3>3. dispatch[m[1]].at # "none" => dispatch'[m[1]].at # "none"
      BY <1>2, <3>1 DEF ScrapingInv, ScrapingTypeOK
    <3>. QED  BY <1>3, <3>2, <3>3 DEF ScrapingInv, ScrapesFit, ScrapeFits
  <2>. QED  BY <1>2, <1>3, <2>1 DEF ScrapingInv, ScrapingTypeOK, ScrapesFit
<1>. QED  BY <1>7, <1>8 DEF ScrapingInv

LEMMA SendScrape ==
  ASSUME ScrapingInv, NEW e \in ScrapeEvents, Send(e) \/ SendFails(e)
  PROVE  ScrapingInv'
<1>1. PICK at \in {"second", "sent", "lost"} : dispatch' = [dispatch EXCEPT ![e].at = at]
  BY DEF Send, SendFails
<1>2. dispatch[e].at # "none" /\ UNCHANGED <<jobs, documents, recorded, returns, copy,
                                             cancelling, outcomes>>
  BY DEF Send, SendFails
<1>3. \/ stage' = stage
      \/ \E k \in {1, 2} : stage' = [stage EXCEPT ![<<e, k>>] = "queued"]
  BY DEF Send, SendFails
<1>4. /\ dispatch'[e].at = at /\ dispatch'[e].job = dispatch[e].job
      /\ \A f \in ScrapeEvents \ {e} : dispatch'[f] = dispatch[f]
      /\ dispatch' \in [ScrapeEvents -> [job : Jobs \cup {NoOne}, by : {"request", "scan"},
                                         at : {"none", "first", "second", "sent", "lost"}]]
  BY <1>1 DEF ScrapingInv, ScrapingTypeOK
<1>5. /\ stage' \in [ScrapeMessages -> ScrapeStages]
      /\ \A m \in ScrapeMessages : stage'[m] = stage[m] \/ (stage'[m] = "queued" /\ m[1] = e)
  <2>1. /\ stage \in [ScrapeMessages -> ScrapeStages] /\ "queued" \in ScrapeStages
    BY DEF ScrapingInv, ScrapingTypeOK, ScrapeStages
  <2>2. ASSUME NEW k \in {1, 2}, stage' = [stage EXCEPT ![<<e, k>>] = "queued"]
        PROVE  /\ stage' \in [ScrapeMessages -> ScrapeStages]
               /\ \A m \in ScrapeMessages : stage'[m] = stage[m] \/ m = <<e, k>>
               /\ stage'[<<e, k>>] = "queued"
    <3>1. <<e, k>> \in ScrapeMessages
      BY DEF ScrapeMessages
    <3>. QED  BY <2>1, <2>2, <3>1
  <2>. QED  BY <1>3, <2>1, <2>2
<1>6. scan' \in [left : SUBSET Jobs, ready : SUBSET Jobs, alive : BOOLEAN]
  BY DEF Send, SendFails, ScrapingInv, ScrapingTypeOK
<1>7. ScrapingTypeOK'
  BY <1>2, <1>4, <1>5, <1>6 DEF ScrapingInv, ScrapingTypeOK
<1>8. ScrapesFit'
  <2>1. ASSUME NEW m \in ScrapeMessages  PROVE ScrapeFits(m)'
    <3>1. m[1] \in ScrapeEvents
      BY DEF ScrapeMessages
    <3>2. Pages(m)' = Pages(m)
      BY <1>2 DEF Pages, Run
    <3>. QED  BY <1>1, <1>2, <1>4, <1>5, <3>1, <3>2 DEF ScrapingInv, ScrapesFit, ScrapeFits
  <2>. QED  BY <1>1, <1>2, <1>4, <2>1 DEF ScrapingInv, ScrapesFit
<1>. QED  BY <1>7, <1>8 DEF ScrapingInv

\* Requests that cancel, the loop that finds and stores, and the intervals: they change jobs,
\* and nothing that a handler has.
LEMMA ChangeJobs ==
  ASSUME ScrapingInv, UNCHANGED <<documents, recorded, handlerVars, outcomes>>,
         jobs' \in [Jobs -> JobRecords], cancelling' \in [Cancels -> Jobs \cup {NoOne}],
         scan' \in [left : SUBSET Jobs, ready : SUBSET Jobs, alive : BOOLEAN]
  PROVE  ScrapingInv'
<1>1. ScrapingTypeOK'
  BY DEF ScrapingInv, ScrapingTypeOK, handlerVars
<1>2. ScrapesFit'
  BY ScrapesKeep DEF handlerVars
<1>. QED  BY <1>1, <1>2 DEF ScrapingInv

LEMMA RequestsAndScan ==
  ASSUME ScrapingInv,
         \/ \E j \in Jobs : NextRunIsDue(j) \/ StoreDue(j)
         \/ \E c \in Cancels : CancelJob(c) \/ \E j \in Jobs : ReadForCancel(c, j)
         \/ FindDue \/ ScanFails
  PROVE  ScrapingInv'
<1>. USE DEF ScrapingInv, ScrapingTypeOK
<1>1. Queued \in JobRecords
  BY DEF Queued, JobRecords, JobStatuses
<1>2. ASSUME NEW j \in Jobs, NextRunIsDue(j)  PROVE ScrapingInv'
  <2>1. jobs' \in [Jobs -> JobRecords]
    BY <1>2 DEF NextRunIsDue, JobRecords
  <2>. QED  BY <1>2, <2>1, ChangeJobs DEF NextRunIsDue
<1>3. ASSUME NEW j \in Jobs, StoreDue(j)  PROVE ScrapingInv'
  <2>1. jobs' \in [Jobs -> JobRecords]
    BY <1>1, <1>3 DEF StoreDue
  <2>2. scan' \in [left : SUBSET Jobs, ready : SUBSET Jobs, alive : BOOLEAN]
    BY <1>3 DEF StoreDue
  <2>. QED  BY <1>3, <2>1, <2>2, ChangeJobs DEF StoreDue
<1>4. ASSUME NEW c \in Cancels, CancelJob(c)  PROVE ScrapingInv'
  <2>1. [status |-> "cancelled", next |-> "none"] \in JobRecords
    BY DEF JobRecords, JobStatuses
  <2>2. jobs' \in [Jobs -> JobRecords] /\ cancelling' \in [Cancels -> Jobs \cup {NoOne}]
    BY <1>4, <2>1 DEF CancelJob
  <2>. QED  BY <1>4, <2>2, ChangeJobs DEF CancelJob
<1>5. ASSUME NEW c \in Cancels, NEW j \in Jobs, ReadForCancel(c, j)  PROVE ScrapingInv'
  <2>1. cancelling' \in [Cancels -> Jobs \cup {NoOne}]
    BY <1>5 DEF ReadForCancel
  <2>. QED  BY <1>5, <2>1, ChangeJobs DEF ReadForCancel
<1>6. CASE FindDue \/ ScanFails
  <2>1. {j \in Recurring : Due(jobs[j])} \in SUBSET Jobs
    BY ScrapingAssumption
  <2>2. scan' \in [left : SUBSET Jobs, ready : SUBSET Jobs, alive : BOOLEAN]
    BY <1>6, <2>1 DEF FindDue, ScanFails
  <2>. QED  BY <1>6, <2>2, ChangeJobs DEF FindDue, ScanFails
<1>. QED  BY <1>2, <1>3, <1>4, <1>5, <1>6

\* One handler goes on; what the others have is as it was.
LEMMA DeliverAndRead ==
  ASSUME ScrapingInv, NEW m \in ScrapeMessages, DeliverRequest(m) \/ ReadJob(m)
  PROVE  ScrapingInv'
<1>. USE DEF ScrapingInv, ScrapingTypeOK
<1>1. PICK at \in {"done", "begun", "copied", "over"} : stage' = [stage EXCEPT ![m] = at]
  BY DEF DeliverRequest, ReadJob
<1>2. /\ UNCHANGED <<jobs, documents, recorded, dispatch, returns, cancelling, scan, outcomes>>
      /\ stage[m] # "none" /\ {"done", "begun", "copied", "over"} \subseteq ScrapeStages
  BY DEF DeliverRequest, ReadJob, ScrapeStages
<1>3. \/ copy' = copy /\ at # "copied"
      \/ copy' = [copy EXCEPT ![m] = jobs[JobOf(m)]] /\ jobs[JobOf(m)].status = "queued"
  <2>1. CASE DeliverRequest(m)
    BY <1>1, <2>1 DEF DeliverRequest
  <2>2. CASE ReadJob(m)
    BY <1>1, <2>2 DEF ReadJob, Runnable
  <2>. QED  BY <2>1, <2>2
<1>4. copy' \in [ScrapeMessages -> JobRecords]
  BY <1>2, <1>3, JobOfMessage
<1>5. ScrapingTypeOK'
  BY <1>1, <1>2, <1>4
<1>6. ScrapesFit'
  BY <1>1, <1>2, <1>3, ScrapesKeep
<1>. QED  BY <1>5, <1>6

LEMMA ReplaceFits ==
  ASSUME ScrapingInv, NEW m \in ScrapeMessages, NEW job \in JobRecords,
         NEW next \in {"running", "stored"}, ReplaceJob(m, job, next), stage[m] # "none",
         next = "stored" => job.status \in {"completed", "failed"},
         next = "stored" /\ job.status = "completed" => Pages(m) # {},
         UNCHANGED <<documents, recorded, dispatch, returns, cancelling, scan, outcomes>>
  PROVE  ScrapingInv'
<1>. USE DEF ScrapingInv, ScrapingTypeOK
<1>1. /\ copy' = [copy EXCEPT ![m] = job] /\ jobs' = [jobs EXCEPT ![JobOf(m)] = job]
      /\ stage' = [stage EXCEPT ![m] = next] /\ next \in ScrapeStages
  BY DEF ReplaceJob, ScrapeStages
<1>2. ScrapingTypeOK'
  BY <1>1
<1>3. ScrapesFit'
  <2>1. ASSUME NEW n \in ScrapeMessages  PROVE ScrapeFits(n)'
    <3>1. Pages(n)' = Pages(n)
      BY DEF Pages, Run
    <3>. QED  BY <1>1, <3>1 DEF ScrapesFit, ScrapeFits
  <2>. QED  BY <2>1 DEF ScrapesFit
<1>. QED  BY <1>2, <1>3

LEMMA StartScrape ==
  ASSUME ScrapingInv, NEW m \in ScrapeMessages, StartRun(m)
  PROVE  ScrapingInv'
<1>. DEFINE job == [copy[m] EXCEPT !.status = "running"]
<1>1. job \in JobRecords
  BY DEF ScrapingInv, ScrapingTypeOK, JobRecords, JobStatuses
<1>2. /\ ReplaceJob(m, job, "running") /\ stage[m] # "none"
      /\ UNCHANGED <<documents, recorded, dispatch, returns, cancelling, scan, outcomes>>
  BY DEF StartRun
<1>. HIDE DEF job
<1>. QED  BY <1>1, <1>2, ReplaceFits

LEMMA FinishScrape ==
  ASSUME ScrapingInv, NEW m \in ScrapeMessages, NEW status \in {"completed", "failed"},
         FinishRun(m, status)
  PROVE  ScrapingInv'
<1>. DEFINE job == [status |-> status, next |-> NextRun(JobOf(m), status)]
<1>1. job \in JobRecords /\ job.status = status
  BY DEF JobRecords, JobStatuses, NextRun
<1>2. /\ ReplaceJob(m, job, "stored") /\ stage[m] # "none"
      /\ status = "completed" => Pages(m) # {}
      /\ UNCHANGED <<documents, recorded, dispatch, returns, cancelling, scan, outcomes>>
  BY DEF FinishRun
<1>. HIDE DEF job
<1>. QED  BY <1>1, <1>2, ReplaceFits

LEMMA StoreDocument ==
  ASSUME ScrapingInv, NEW m \in ScrapeMessages, InsertDocument(m)
  PROVE  ScrapingInv'
<1>. USE DEF ScrapingInv, ScrapingTypeOK
<1>. DEFINE page == Cardinality(Pages(m)) + 1
            d == [job |-> JobOf(m), run |-> Run(m), page |-> page]
<1>1. /\ documents' = documents \cup {d} /\ page <= MaxPages /\ stage[m] = "running"
      /\ UNCHANGED <<jobs, recorded, dispatch, stage, returns, copy, cancelling, scan, outcomes>>
  BY DEF InsertDocument, handlerVars
<1>2. page \in 1..MaxPages
  <2>1. Pages(m) \in SUBSET documents /\ IsFiniteSet(documents)
    BY DEF Pages, ScrapesFit
  <2>2. Cardinality(Pages(m)) \in Nat
    BY <2>1, FS_Subset, FS_CardinalityType
  <2>. QED  BY <1>1, <2>2, ScrapingAssumption
<1>3. JobOf(m) \in Jobs /\ Run(m) \in Runs
  BY <1>1, JobOfMessage DEF Run, Runs
<1>. HIDE DEF page
<1>4. d \in [job : Jobs, run : Runs, page : 1..MaxPages]
  BY <1>2, <1>3
<1>. HIDE DEF d
<1>5. ScrapingTypeOK'
  <2>1. documents' \subseteq [job : Jobs, run : Runs, page : 1..MaxPages]
    BY <1>1, <1>4
  <2>2. \A o \in outcomes' : /\ o.job \in Jobs /\ o.run \in Runs /\ o.pages \subseteq documents'
                             /\ o.status \in {"completed", "failed"}
    BY <1>1
  <2>. QED  BY <1>1, <2>1, <2>2
<1>6. ScrapesFit'
  <2>1. ASSUME NEW n \in ScrapeMessages  PROVE ScrapeFits(n)'
    <3>1. Pages(n) \subseteq Pages(n)'
      BY <1>1 DEF Pages, Run
    <3>. QED  BY <1>1, <3>1 DEF ScrapesFit, ScrapeFits
  <2>2. IsFiniteSet(documents)'
    BY <1>1, FS_AddElement DEF ScrapesFit
  <2>. QED  BY <1>1, <2>1, <2>2 DEF ScrapesFit
<1>. QED  BY <1>5, <1>6

LEMMA TellOutcome ==
  ASSUME ScrapingInv, NEW m \in ScrapeMessages, Emit(m)
  PROVE  ScrapingInv'
<1>. USE DEF ScrapingInv, ScrapingTypeOK
<1>. DEFINE o == Outcome(m)
<1>1. /\ outcomes' = outcomes \cup {o} /\ stage[m] = "stored"
      /\ stage' = [stage EXCEPT ![m] = "over"] /\ "over" \in ScrapeStages
      /\ UNCHANGED <<jobs, documents, recorded, dispatch, returns, copy, cancelling, scan>>
  BY DEF Emit, ScrapeStages
<1>2. /\ JobOf(m) \in Jobs /\ Run(m) \in Runs /\ Pages(m) \subseteq documents
      /\ copy[m].status \in {"completed", "failed"}
      /\ copy[m].status = "completed" => Pages(m) # {}
  BY <1>1, JobOfMessage DEF Run, Runs, Pages, ScrapesFit, ScrapeFits
<1>3. /\ o.job \in Jobs /\ o.run \in Runs /\ o.pages \subseteq documents
      /\ o.status \in {"completed", "failed"}
      /\ (o.status = "completed") <=> (o.pages # {})
  BY <1>2 DEF Outcome
<1>. HIDE DEF o
<1>4. ScrapingTypeOK'
  <2>1. \A x \in outcomes' : /\ x.job \in Jobs /\ x.run \in Runs /\ x.pages \subseteq documents'
                             /\ x.status \in {"completed", "failed"}
    BY <1>1, <1>3
  <2>. QED  BY <1>1, <2>1
<1>5. ScrapesFit'
  <2>1. ASSUME NEW n \in ScrapeMessages  PROVE ScrapeFits(n)'
    <3>1. Pages(n)' = Pages(n)
      BY <1>1 DEF Pages, Run
    <3>. QED  BY <1>1, <3>1 DEF ScrapesFit, ScrapeFits
  <2>. QED  BY <1>1, <1>3, <2>1 DEF ScrapesFit
<1>. QED  BY <1>4, <1>5

LEMMA RecordScrape ==
  ASSUME ScrapingInv, NEW m \in ScrapeMessages, RecordRequest(m)
  PROVE  ScrapingInv'
<1>. USE DEF ScrapingInv, ScrapingTypeOK
<1>1. /\ recorded' = recorded \cup {m[1]} /\ stage[m] # "none"
      /\ stage' = [stage EXCEPT ![m] = "done"] /\ "done" \in ScrapeStages
      /\ UNCHANGED <<jobs, documents, dispatch, returns, copy, cancelling, scan, outcomes>>
  BY DEF RecordRequest, ScrapeStages
<1>2. ScrapingTypeOK'
  BY <1>1, JobOfMessage
<1>3. ScrapesFit'
  BY <1>1, ScrapesKeep
<1>. QED  BY <1>2, <1>3

LEMMA MessagesGoBack ==
  ASSUME ScrapingInv, NEW ms \in SUBSET ScrapeMessages, \A m \in ms : stage[m] \in Working,
         GoBack(ms)
  PROVE  /\ stage' \in [ScrapeMessages -> ScrapeStages]
         /\ returns' \in [ScrapeMessages -> 0..ScrapeLimit]
         /\ \A m \in ScrapeMessages :
              \/ stage'[m] = stage[m] /\ returns'[m] = returns[m]
              \/ stage'[m] \in {"queued", "dead"} /\ stage[m] # "none"
<1>1. {"queued", "dead"} \subseteq ScrapeStages /\ "none" \notin Working
  BY DEF ScrapeStages, Working
<1>2. ASSUME NEW m \in ScrapeMessages, returns[m] < ScrapeLimit
      PROVE  returns[m] + 1 \in 0..ScrapeLimit
  BY <1>2, ScrapingAssumption DEF ScrapingInv, ScrapingTypeOK
<1>3. /\ stage \in [ScrapeMessages -> ScrapeStages]
      /\ returns \in [ScrapeMessages -> 0..ScrapeLimit]
  BY DEF ScrapingInv, ScrapingTypeOK
<1>4. stage' = [m \in ScrapeMessages |-> IF m \notin ms THEN stage[m]
                                        ELSE IF returns[m] < ScrapeLimit THEN "queued" ELSE "dead"]
  BY DEF GoBack
<1>5. returns' = [m \in ScrapeMessages |->
                   IF m \in ms /\ returns[m] < ScrapeLimit THEN returns[m] + 1 ELSE returns[m]]
  BY DEF GoBack
<1>6. stage' \in [ScrapeMessages -> ScrapeStages]
  BY <1>1, <1>3, <1>4
<1>7. returns' \in [ScrapeMessages -> 0..ScrapeLimit]
  BY <1>2, <1>3, <1>5
<1>8. ASSUME NEW m \in ScrapeMessages
      PROVE  \/ stage'[m] = stage[m] /\ returns'[m] = returns[m]
             \/ stage'[m] \in {"queued", "dead"} /\ stage[m] # "none"
  <2>1. CASE m \notin ms
    BY <1>4, <1>5, <2>1
  <2>2. CASE m \in ms
    BY <1>1, <1>4, <2>2
  <2>. QED  BY <2>1, <2>2
<1>. QED  BY <1>6, <1>7, <1>8

LEMMA ReturnScrape ==
  ASSUME ScrapingInv, NEW m \in ScrapeMessages, ReturnRequest(m)
  PROVE  ScrapingInv'
<1>1. /\ {m} \in SUBSET ScrapeMessages /\ \A n \in {m} : stage[n] \in Working
      /\ GoBack({m})
      /\ UNCHANGED <<jobs, documents, recorded, dispatch, copy, cancelling, scan, outcomes>>
  BY DEF ReturnRequest
<1>2. /\ stage' \in [ScrapeMessages -> ScrapeStages]
      /\ returns' \in [ScrapeMessages -> 0..ScrapeLimit]
      /\ \A n \in ScrapeMessages :
           \/ stage'[n] = stage[n] /\ returns'[n] = returns[n]
           \/ stage'[n] \in {"queued", "dead"} /\ stage[n] # "none"
  BY <1>1, MessagesGoBack
<1>3. ScrapingTypeOK'
  BY <1>1, <1>2 DEF ScrapingInv, ScrapingTypeOK
<1>4. ScrapesFit'
  BY <1>1, <1>2, ScrapesKeep
<1>. QED  BY <1>3, <1>4 DEF ScrapingInv

LEMMA RestartScraping ==
  ASSUME ScrapingInv, WorkerRestarts
  PROVE  ScrapingInv'
<1>. DEFINE ms == {m \in ScrapeMessages : stage[m] \in Working}
<1>1. /\ ms \in SUBSET ScrapeMessages /\ \A n \in ms : stage[n] \in Working
      /\ GoBack(ms)
      /\ scan' = [left |-> {}, ready |-> {}, alive |-> TRUE]
      /\ UNCHANGED <<jobs, documents, recorded, copy, cancelling, outcomes>>
  BY DEF WorkerRestarts
<1>2. /\ stage' \in [ScrapeMessages -> ScrapeStages]
      /\ returns' \in [ScrapeMessages -> 0..ScrapeLimit]
      /\ \A n \in ScrapeMessages :
           \/ stage'[n] = stage[n] /\ returns'[n] = returns[n]
           \/ stage'[n] \in {"queued", "dead"} /\ stage[n] # "none"
  BY <1>1, MessagesGoBack
<1>3. /\ dispatch' \in [ScrapeEvents -> [job : Jobs \cup {NoOne}, by : {"request", "scan"},
                                         at : {"none", "first", "second", "sent", "lost"}]]
      /\ \A e \in ScrapeEvents : /\ dispatch'[e].job = dispatch[e].job
                                 /\ dispatch'[e].at = "none" <=> dispatch[e].at = "none"
  <2>. DEFINE Rows0 == [job : Jobs \cup {NoOne}, by : {"request", "scan"},
                       at : {"none", "first", "second", "sent", "lost"}]
              lose(r) == IF r.by = "scan" /\ r.at \in {"first", "second"}
                         THEN [r EXCEPT !.at = "lost"] ELSE r
  <2>1. ASSUME NEW r \in Rows0
        PROVE  lose(r) \in Rows0 /\ lose(r).job = r.job /\ (lose(r).at = "none" <=> r.at = "none")
    OBVIOUS
  <2>2. dispatch' = [e \in ScrapeEvents |-> lose(dispatch[e])] /\ dispatch \in [ScrapeEvents -> Rows0]
    BY DEF WorkerRestarts, ScrapingInv, ScrapingTypeOK
  <2>. HIDE DEF Rows0, lose
  <2>3. /\ dispatch' \in [ScrapeEvents -> Rows0]
        /\ \A e \in ScrapeEvents : /\ dispatch'[e].job = dispatch[e].job
                                   /\ dispatch'[e].at = "none" <=> dispatch[e].at = "none"
    BY <2>1, <2>2
  <2>. QED  BY <2>3 DEF Rows0
<1>4. ScrapingTypeOK'
  BY <1>1, <1>2, <1>3 DEF ScrapingInv, ScrapingTypeOK
<1>5. ScrapesFit'
  <2>1. ASSUME NEW n \in ScrapeMessages  PROVE ScrapeFits(n)'
    <3>1. n[1] \in ScrapeEvents
      BY DEF ScrapeMessages
    <3>2. CASE stage'[n] = stage[n] /\ returns'[n] = returns[n]
      <4>1. Pages(n)' = Pages(n)
        BY <1>1, <3>2 DEF Pages, Run
      <4>2. copy'[n] = copy[n]
        BY <1>1
      <4>. QED  BY <1>3, <3>1, <3>2, <4>1, <4>2 DEF ScrapingInv, ScrapesFit, ScrapeFits
    <3>3. CASE stage'[n] \in {"queued", "dead"} /\ stage[n] # "none"
      BY <1>1, <1>3, <3>1, <3>3 DEF ScrapingInv, ScrapesFit, ScrapeFits
    <3>. QED  BY <1>2, <3>2, <3>3
  <2>. QED  BY <1>1, <1>3, <2>1 DEF ScrapingInv, ScrapesFit
<1>. QED  BY <1>4, <1>5 DEF ScrapingInv

LEMMA ScrapingStep == ScrapingInv /\ [ScrapingNext]_scrapingVars => ScrapingInv'
<1>. SUFFICES ASSUME ScrapingInv, [ScrapingNext]_scrapingVars  PROVE ScrapingInv'
  OBVIOUS
<1>1. CASE UNCHANGED scrapingVars
  <2>1. ScrapingTypeOK'
    BY <1>1 DEF ScrapingInv, ScrapingTypeOK, scrapingVars
  <2>2. ScrapesFit'
    BY <1>1, ScrapesKeep DEF scrapingVars
  <2>. QED  BY <2>1, <2>2 DEF ScrapingInv
<1>2. ASSUME NEW m \in ScrapeMessages, HandleRequest(m)  PROVE ScrapingInv'
  BY <1>2, DeliverAndRead, StartScrape, FinishScrape, StoreDocument, TellOutcome, RecordScrape, ReturnScrape
     DEF HandleRequest
<1>. QED
  BY <1>1, <1>2, CreateScrape, SendScrape, RequestsAndScan, RestartScraping DEF ScrapingNext
-----------------------------------------------------------------------------
LEMMA NoticesStart == NoticesInit => NoticesInv
<1>. SUFFICES ASSUME NoticesInit  PROVE NoticesInv
  OBVIOUS
<1>1. NoticesTypeOK
  BY NoticesAssumption DEF NoticesInit, NoticesTypeOK, At, Steps
<1>2. NoticesFit
  BY DEF NoticesInit, NoticesFit, NoticeFits, At
<1>. QED  BY <1>1, <1>2 DEF NoticesInv

\* What a handler may do to the others: nothing but add rows and mails.
LEMMA NoticesMove ==
  ASSUME NoticesInv, NEW m \in NoticeMessages, NEW channel \in Channels \cup {"none"},
         NEW step \in Steps, position' = [position EXCEPT ![m] = At(channel, step)],
         redone' \in [NoticeMessages -> 0..NoticeLimit],
         \A n \in NoticeMessages : n # m => redone'[n] = redone[n],
         reached \subseteq reached', log \subseteq log',
         reached' \subseteq [of : Deliveries, channel : Channels],
         log' \subseteq [of : Deliveries, channel : Channels,
                         status : {"sent", "failed", "skipped"}],
         said' \subseteq [of : Deliveries, channel : Channels],
         noted' \subseteq Notices,
         \A s \in said' : s \in said \/ SaidFits(s),
         NoticeFits(m)'
  PROVE  NoticesInv'
<1>. USE DEF NoticesInv
<1>1. At(channel, step) \in [channel : Channels \cup {"none"}, step : Steps]
  BY DEF At
<1>2. NoticesTypeOK'
  BY <1>1 DEF NoticesTypeOK
<1>3. ASSUME NEW n \in NoticeMessages  PROVE NoticeFits(n)'
  <2>1. CASE n = m
    BY <2>1
  <2>2. CASE n # m
    <3>1. position'[n] = position[n] /\ redone'[n] = redone[n]
      BY <2>2 DEF NoticesTypeOK
    <3>2. \A c : LoggedOn(n, c) => LoggedOn(n, c)'
      BY DEF LoggedOn
    <3>3. \A c, status : /\ Sent(n, c)' = Sent(n, c)
                         /\ Row(n, c, status)' = Row(n, c, status)
      BY <3>1 DEF Sent, Row, Delivery
    <3>4. NoticeFits(n)
      BY DEF NoticesFit
    <3>. QED  BY <3>1, <3>2, <3>3, <3>4 DEF NoticeFits, DueChannels
  <2>. QED  BY <2>1, <2>2
<1>4. ASSUME NEW s \in said'  PROVE SaidFits(s)'
  BY DEF NoticesFit, SaidFits
<1>. QED  BY <1>2, <1>3, <1>4 DEF NoticesFit

\* A message that a handler has not begun with, or has resolved, needs nothing in the log.
LEMMA NoticeBegins ==
  ASSUME NoticesInv, NEW m \in NoticeMessages,
         PublishNotice(m) \/ BeginNotice(m) \/ (\E found \in BOOLEAN : ResolveRecipient(m, found))
  PROVE  NoticesInv'
<1>. USE DEF NoticesInv, NoticesTypeOK
<1>1. EventId(m) \notin noted
  BY NoticesAssumption DEF EventId
<1>2. PICK channel \in {"none", "email"}, step \in {"queued", "begun", "send", "unresolved"} :
        /\ position' = [position EXCEPT ![m] = At(channel, step)]
        /\ step \in {"send", "unresolved"} => channel = "email"
  BY <1>1 DEF PublishNotice, BeginNotice, ResolveRecipient, GoTo
<1>3. UNCHANGED <<redone, noted, reached, log, said>>
  BY DEF PublishNotice, BeginNotice, ResolveRecipient
<1>4. channel \in Channels \cup {"none"} /\ step \in Steps
  BY DEF Channels, Steps
<1>5. position'[m].channel = channel /\ position'[m].step = step
  BY <1>2 DEF At
<1>6. NoticeFits(m)'
  BY <1>2, <1>5 DEF NoticeFits, Channels
<1>. QED  BY <1>2, <1>3, <1>4, <1>6, NoticesMove

LEMMA NoticeSent ==
  ASSUME NoticesInv, NEW m \in NoticeMessages, Accepted(m) \/ Refused(m)
  PROVE  NoticesInv'
<1>. USE DEF NoticesInv, NoticesTypeOK
<1>. DEFINE channel == position[m].channel
<1>1. PICK step \in {"accepted", "refused"} :
        /\ position' = [position EXCEPT ![m] = At(channel, step)]
        /\ step = "accepted" => reached' = reached \cup {Sent(m, channel)}
        /\ step = "refused" => reached' = reached
  BY DEF Accepted, Refused, GoTo
<1>2. UNCHANGED <<redone, noted, log, said>> /\ position[m].step = "send"
  BY DEF Accepted, Refused
<1>3. /\ channel \in Channels /\ step \in Steps
      /\ channel = "slack" => m[1] \in Alerts /\ LoggedOn(m, "email")
  BY <1>2 DEF NoticesFit, NoticeFits, Steps
<1>4. Sent(m, channel) \in [of : Deliveries, channel : Channels]
  BY <1>3 DEF Sent, Delivery, Deliveries
<1>. HIDE DEF channel
<1>5. position'[m].channel = channel /\ position'[m].step = step
  BY <1>1 DEF At
<1>6. NoticeFits(m)'
  BY <1>1, <1>2, <1>3, <1>5 DEF NoticeFits, LoggedOn, Sent, Delivery
<1>7. reached' \subseteq [of : Deliveries, channel : Channels] /\ reached \subseteq reached'
  BY <1>1, <1>4
<1>. QED  BY <1>1, <1>2, <1>3, <1>6, <1>7, NoticesMove

\* After the last channel of a notice each of its channels is in the log.
LEMMA NoticeGoesOn ==
  ASSUME NoticesInv, NEW m \in NoticeMessages, position[m].channel \in Channels,
         position' = [position EXCEPT ![m] = After(m)],
         \E r \in log' : r.of[1][1] = m[1] /\ r.channel = position[m].channel,
         log \subseteq log',
         log' \subseteq [of : Deliveries, channel : Channels,
                         status : {"sent", "failed", "skipped"}],
         said' \subseteq [of : Deliveries, channel : Channels],
         \A s \in said' : s \in said \/ SaidFits(s),
         UNCHANGED <<redone, noted, reached>>
  PROVE  NoticesInv'
<1>. USE DEF NoticesInv, NoticesTypeOK
<1>1. position[m].channel = "slack" => m[1] \in Alerts /\ LoggedOn(m, "email")'
  BY DEF NoticesFit, NoticeFits, LoggedOn
<1>2. PICK c \in Channels : c = position[m].channel
  OBVIOUS
<1>3. LoggedOn(m, c)'
  BY <1>2 DEF LoggedOn
<1>4. CASE c = "email" /\ m[1] \in Alerts
  <2>1. position' = [position EXCEPT ![m] = At("slack", "send")]
    BY <1>2, <1>4 DEF After
  <2>2. "slack" \in Channels \cup {"none"} /\ "send" \in Steps
    BY DEF Channels, Steps
  <2>3. position'[m].channel = "slack" /\ position'[m].step = "send"
    BY <2>1 DEF At
  <2>4. NoticeFits(m)'
    BY <1>3, <1>4, <2>3 DEF NoticeFits, Channels
  <2>. QED  BY <2>1, <2>2, <2>4, NoticesMove
<1>5. CASE ~(c = "email" /\ m[1] \in Alerts)
  <2>1. position' = [position EXCEPT ![m] = At("none", "over")]
    BY <1>2, <1>5 DEF After
  <2>2. "none" \in Channels \cup {"none"} /\ "over" \in Steps
    BY DEF Steps
  <2>3. position'[m].channel = "none" /\ position'[m].step = "over"
    BY <2>1 DEF At
  <2>4. \A d \in DueChannels(m) : LoggedOn(m, d)'
    BY <1>1, <1>2, <1>3, <1>5 DEF DueChannels, Channels
  <2>5. NoticeFits(m)'
    BY <2>3, <2>4 DEF NoticeFits, DueChannels
  <2>. QED  BY <2>1, <2>2, <2>5, NoticesMove
<1>. QED  BY <1>4, <1>5

LEMMA NoticeRecorded ==
  ASSUME NoticesInv, NEW m \in NoticeMessages,
         RecordSkipped(m) \/ RecordFailed(m) \/ RecordSent(m)
  PROVE  NoticesInv'
<1>. USE DEF NoticesInv, NoticesTypeOK
<1>. DEFINE channel == position[m].channel
<1>1. PICK status \in {"sent", "failed", "skipped"} :
        log' = log \cup {Row(m, channel, status)}
  BY DEF RecordSkipped, RecordFailed, RecordSent, RecordRow
<1>2. UNCHANGED <<redone, noted, reached, said>>
  BY DEF RecordSkipped, RecordFailed, RecordSent, RecordRow
<1>3. channel \in Channels
  BY DEF RecordSkipped, RecordFailed, RecordSent, NoticesFit, NoticeFits
<1>4. Row(m, channel, status) \in [of : Deliveries, channel : Channels,
                                   status : {"sent", "failed", "skipped"}]
  BY <1>3 DEF Row, Delivery, Deliveries
<1>5. /\ Row(m, channel, status).of[1][1] = m[1]
      /\ Row(m, channel, status).channel = channel
  BY DEF Row, Delivery
<1>6. \A c : c = channel => LoggedOn(m, c)'
  BY <1>1, <1>5 DEF LoggedOn
<1>7. /\ log \subseteq log'
      /\ log' \subseteq [of : Deliveries, channel : Channels,
                         status : {"sent", "failed", "skipped"}]
  BY <1>1, <1>4
<1>8. CASE RecordSkipped(m) \/ RecordFailed(m)
  <2>1. position' = [position EXCEPT ![m] = After(m)]
    BY <1>8 DEF RecordSkipped, RecordFailed, RecordRow
  <2>2. \E r \in log' : r.of[1][1] = m[1] /\ r.channel = position[m].channel
    BY <1>1, <1>5
  <2>. QED  BY <1>2, <1>3, <1>7, <2>1, <2>2, NoticeGoesOn
<1>9. CASE RecordSent(m)
  <2>1. /\ position' = [position EXCEPT ![m] = At(channel, "logged")]
        /\ log' = log \cup {Row(m, channel, "sent")} /\ position[m].step = "accepted"
    BY <1>9 DEF RecordSent, RecordRow
  <2>2. /\ Sent(m, channel) \in reached /\ "logged" \in Steps
        /\ channel = "slack" => m[1] \in Alerts /\ LoggedOn(m, "email")
    BY <2>1 DEF NoticesFit, NoticeFits, Steps
  <2>. HIDE DEF channel
  <2>3. position'[m].channel = channel /\ position'[m].step = "logged"
    BY <2>1 DEF At
  <2>4. NoticeFits(m)'
    BY <1>2, <1>3, <2>1, <2>2, <2>3 DEF NoticeFits, LoggedOn, Sent, Row, Delivery
  <2>. QED  BY <1>2, <1>3, <1>7, <2>1, <2>2, <2>4, NoticesMove
<1>. QED  BY <1>8, <1>9

LEMMA NoticeTold ==
  ASSUME NoticesInv, NEW m \in NoticeMessages, EmitSent(m)
  PROVE  NoticesInv'
<1>. USE DEF NoticesInv, NoticesTypeOK
<1>. DEFINE channel == position[m].channel
<1>1. /\ position[m].step = "logged" /\ said' = said \cup {Sent(m, channel)}
      /\ position' = [position EXCEPT ![m] = After(m)]
      /\ UNCHANGED <<redone, noted, reached, log>>
  BY DEF EmitSent
<1>2. /\ channel \in Channels
      /\ Sent(m, channel) \in reached /\ Row(m, channel, "sent") \in log
  BY <1>1 DEF NoticesFit, NoticeFits
<1>3. SaidFits(Sent(m, channel))
  <2>1. /\ Row(m, channel, "sent").of = Sent(m, channel).of
        /\ Row(m, channel, "sent").channel = Sent(m, channel).channel
        /\ Row(m, channel, "sent").status = "sent"
    BY DEF Row, Sent
  <2>. QED  BY <1>2, <2>1 DEF SaidFits
<1>4. \E r \in log' : r.of[1][1] = m[1] /\ r.channel = position[m].channel
  <2>1. /\ Row(m, channel, "sent").of[1][1] = m[1]
        /\ Row(m, channel, "sent").channel = channel
    BY DEF Row, Delivery
  <2>. QED  BY <1>1, <1>2, <2>1
<1>5. said' \subseteq [of : Deliveries, channel : Channels]
  BY <1>1, <1>2
<1>. HIDE DEF channel
<1>6. \A s \in said' : s \in said \/ SaidFits(s)
  BY <1>1, <1>3
<1>. QED  BY <1>1, <1>2, <1>4, <1>5, <1>6, NoticeGoesOn DEF channel

LEMMA NoticeEnds ==
  ASSUME NoticesInv, NEW m \in NoticeMessages, NoteNotice(m) \/ ReturnNotice(m)
  PROVE  NoticesInv'
<1>. USE DEF NoticesInv, NoticesTypeOK
<1>1. CASE NoteNotice(m)
  <2>1. /\ position[m].step = "over" /\ noted' = noted
        /\ position' = [position EXCEPT ![m] = At("none", "done")]
        /\ UNCHANGED <<redone, reached, log, said>>
    BY <1>1 DEF NoteNotice, GoTo, EventId
  <2>2. position'[m].channel = "none" /\ position'[m].step = "done" /\ "done" \in Steps
    BY <2>1 DEF At, Steps
  <2>3. NoticeFits(m)'
    BY <2>1, <2>2 DEF NoticesFit, NoticeFits, LoggedOn, DueChannels
  <2>. QED  BY <2>1, <2>2, <2>3, NoticesMove
<1>2. CASE ReturnNotice(m)
  <2>1. PICK step \in {"queued", "dead"} :
          /\ position' = [position EXCEPT ![m] = At("none", step)]
          /\ step = "queued" => /\ redone[m] < NoticeLimit
                                /\ redone' = [redone EXCEPT ![m] = redone[m] + 1]
          /\ step = "dead" => redone' = redone
    BY <1>2 DEF ReturnNotice, GoTo
  <2>2. UNCHANGED <<noted, reached, log, said>> /\ step \in Steps
    BY <1>2 DEF ReturnNotice, Steps
  <2>3. redone[m] < NoticeLimit => redone[m] + 1 \in 0..NoticeLimit
    BY NoticesAssumption
  <2>4. /\ redone' \in [NoticeMessages -> 0..NoticeLimit]
        /\ \A n \in NoticeMessages : n # m => redone'[n] = redone[n]
    BY <2>1, <2>3
  <2>5. position'[m].channel = "none" /\ position'[m].step = step
    BY <2>1 DEF At
  <2>6. NoticeFits(m)'
    BY <2>5 DEF NoticeFits
  <2>. QED  BY <2>1, <2>2, <2>4, <2>6, NoticesMove
<1>. QED  BY <1>1, <1>2

LEMMA NoticesStep == NoticesInv /\ [NoticesNext]_noticeVars => NoticesInv'
<1>. SUFFICES ASSUME NoticesInv, [NoticesNext]_noticeVars  PROVE NoticesInv'
  OBVIOUS
<1>1. CASE UNCHANGED noticeVars
  BY <1>1 DEF noticeVars, NoticesInv, NoticesTypeOK, NoticesFit, NoticeFits, SaidFits, LoggedOn,
              Sent, Row, Delivery
<1>2. ASSUME NEW m \in NoticeMessages, HandleNotice(m)  PROVE NoticesInv'
  BY <1>2, NoticeBegins, NoticeSent, NoticeRecorded, NoticeTold, NoticeEnds DEF HandleNotice
<1>. QED  BY <1>1, <1>2, NoticeBegins, NoticeEnds DEF NoticesNext
-----------------------------------------------------------------------------
\* What has happened stays so, and the trail grows by one row of an event at a time.
LEMMA OnlyTold ==
  ASSUME [BackOfficeNext]_backOfficeVars
  PROVE  /\ [ScrapingNext]_scrapingVars
         /\ [NoticesNext]_noticeVars
         /\ outcomes \subseteq outcomes' /\ said \subseteq said'
<1>1. /\ [ScrapingNext]_scrapingVars
      /\ [NoticesNext]_noticeVars
  BY DEF BackOfficeNext, backOfficeVars, Audit
<1>2. outcomes \subseteq outcomes'
  BY <1>1 DEF ScrapingNext, scrapingVars, CreateJob, NextRunIsDue, StoreDue, DispatchDue,
     CancelJob, ReadForCancel, Send, SendFails, HandleRequest, FindDue, ScanFails, WorkerRestarts,
     DeliverRequest, ReadJob, StartRun, InsertDocument, Emit, RecordRequest, ReturnRequest,
     FinishRun
<1>3. said \subseteq said'
  BY <1>1 DEF NoticesNext, noticeVars, PublishNotice, HandleNotice, ReturnNotice, BeginNotice,
     RecordSkipped, Accepted, Refused, RecordSent, RecordFailed, EmitSent, NoteNotice,
     ResolveRecipient, RecordRow
<1>. QED  BY <1>1, <1>2, <1>3

LEMMA TrailStep ==
  ASSUME TrailFits, [BackOfficeNext]_backOfficeVars
  PROVE  TrailFits'
<1>1. Happened \subseteq Happened'
  BY OnlyTold DEF Happened
<1>2. CASE UNCHANGED trail
  BY <1>1, <1>2 DEF TrailFits
<1>3. ASSUME NEW event \in Happened, Audit(event)
      PROVE  TrailFits'
  <2>1. /\ event \notin DOMAIN trail
        /\ trail' = [x \in DOMAIN trail \cup {event} |->
                       (IF x \in DOMAIN trail THEN trail[x] ELSE 0)
                       + (IF x \in {event} THEN 1 ELSE 0)]
    BY <1>3 DEF Audit, Unaudited, BagIn, BagToSet, SetToBag, (+)
  <2>2. \A x \in DOMAIN trail : trail[x] = 1
    BY DEF TrailFits
  <2>3. DOMAIN trail' = DOMAIN trail \cup {event}
    BY <2>1
  <2>4. \A x \in DOMAIN trail' : trail'[x] = 1
    BY <2>1, <2>2, <2>3
  <2>5. trail' = [x \in DOMAIN trail' |-> 1]
    BY <2>1, <2>3, <2>4
  <2>. QED  BY <1>1, <2>3, <2>5 DEF TrailFits
<1>. QED  BY <1>2, <1>3 DEF BackOfficeNext, backOfficeVars

LEMMA BackOfficeHolds == BackOfficeSpec => []BackOfficeInv
<1>1. BackOfficeInit => BackOfficeInv
  <2>1. EmptyBag = [x \in {} |-> 1] /\ DOMAIN EmptyBag = {}
    BY DEF EmptyBag, SetToBag
  <2>. QED  BY <2>1, ScrapingStarts, NoticesStart DEF BackOfficeInit, BackOfficeInv, TrailFits
<1>2. BackOfficeInv /\ [BackOfficeNext]_backOfficeVars => BackOfficeInv'
  BY ScrapingStep, NoticesStep, TrailStep, OnlyTold DEF BackOfficeInv
<1>. QED  BY <1>1, <1>2, PTL DEF BackOfficeSpec

\* Jobs, handlers, notices and the trail keep their shape, for any jobs, recurrences, notices
\* and limits of deliveries.
THEOREM BackOfficeTypeCorrect == BackOfficeSpec => []BackOfficeTypeOK
<1>1. BackOfficeInv => BackOfficeTypeOK
  BY DEF BackOfficeInv, BackOfficeTypeOK, ScrapingInv, NoticesInv, TrailFits, BagToSet
<1>. QED  BY <1>1, BackOfficeHolds, PTL

\* The audit log of admin-service (AdminService.consume, uq_audit_log_event_id) is true of what
\* scraper-service and notification-service have stored: each event is in it once, a completed
\* scrape has its documents, a failed one names none, and what is noted as sent was accepted
\* and logged by the same delivery.
THEOREM AuditStaysTrue == BackOfficeSpec => []AuditIsTrue
<1>1. ASSUME BackOfficeInv  PROVE AuditIsTrue
  <2>. SUFFICES ASSUME NEW x \in DOMAIN trail
                PROVE  /\ trail[x] = 1
                       /\ x \in outcomes => /\ x.pages \subseteq documents
                                            /\ (x.status = "completed") <=> (x.pages # {})
                       /\ x \in said => SaidFits(x)
    BY DEF AuditIsTrue, BagToSet, SaidFits
  <2>1. trail[x] = 1
    BY <1>1 DEF BackOfficeInv, TrailFits
  <2>2. x \in outcomes => /\ x.pages \subseteq documents
                          /\ (x.status = "completed") <=> (x.pages # {})
    BY <1>1 DEF BackOfficeInv, ScrapingInv, ScrapingTypeOK, ScrapesFit
  <2>3. x \in said => SaidFits(x)
    BY <1>1 DEF BackOfficeInv, NoticesInv, NoticesFit
  <2>. QED  BY <2>1, <2>2, <2>3
<1>. QED  BY <1>1, BackOfficeHolds, PTL

\* No notice passes in silence: when NotificationService.consume is done with an event, the
\* notification log says what became of its mail, and of its alert if it has one, whatever
\* failed in between and however often the message came.
THEOREM EveryNoticeAccounted == BackOfficeSpec => []Accounted
<1>1. BackOfficeInv => Accounted
  BY DEF BackOfficeInv, NoticesInv, NoticesFit, NoticeFits, LoggedOn, DueChannels, Accounted
<1>. QED  BY <1>1, BackOfficeHolds, PTL

\* A job that is completed, failed or cancelled is opened again by the scan of recurring jobs
\* alone, though every writer of scraper-service replaces the whole document (replace_job) by a
\* copy that it read before.
THEOREM SettledJobsStay == BackOfficeSpec => SettledStays
<1>1. ASSUME BackOfficeInv, [BackOfficeNext]_backOfficeVars
      PROVE  [\A j \in Jobs :
                /\ jobs[j].status \in {"completed", "failed", "cancelled"}
                /\ ~HeldSinceQueued(j)
                /\ jobs'[j].status # jobs[j].status
                => j \in scan.left /\ jobs'[j] = Queued]_scrapingVars
  <2>. SUFFICES ASSUME ScrapingNext, NEW j \in Jobs,
                       jobs[j].status \in {"completed", "failed", "cancelled"},
                       ~HeldSinceQueued(j), jobs'[j].status # jobs[j].status
                PROVE  j \in scan.left /\ jobs'[j] = Queued
    BY <1>1, OnlyTold
  <2>1. jobs \in [Jobs -> JobRecords] /\ \A m \in ScrapeMessages : ScrapeFits(m)
    BY <1>1 DEF BackOfficeInv, ScrapingInv, ScrapingTypeOK, ScrapesFit
  <2>2. ASSUME NEW i \in Jobs, CreateJob(i)  PROVE FALSE
    BY <2>1, <2>2 DEF CreateJob, NoJob
  <2>3. ASSUME NEW i \in Jobs, NextRunIsDue(i)  PROVE FALSE
    BY <2>1, <2>3 DEF NextRunIsDue, JobRecords
  <2>4. ASSUME NEW i \in Jobs, StoreDue(i)  PROVE j \in scan.left /\ jobs'[j] = Queued
    BY <2>1, <2>4 DEF StoreDue
  <2>5. ASSUME NEW c \in Cancels, CancelJob(c)  PROVE FALSE
    BY <2>1, <2>5 DEF CancelJob, HeldSinceQueued
  <2>6. ASSUME NEW m \in ScrapeMessages, StartRun(m)  PROVE FALSE
    BY <2>1, <2>6 DEF StartRun, ReplaceJob, ScrapeFits, HeldSinceQueued
  <2>7. ASSUME NEW m \in ScrapeMessages, NEW status \in {"completed", "failed"},
               FinishRun(m, status)
        PROVE  FALSE
    BY <2>1, <2>7 DEF FinishRun, ReplaceJob, HeldSinceQueued
  <2>8. \/ UNCHANGED jobs
        \/ \E i \in Jobs : CreateJob(i) \/ NextRunIsDue(i) \/ StoreDue(i)
        \/ \E c \in Cancels : CancelJob(c)
        \/ \E m \in ScrapeMessages :
             StartRun(m) \/ (\E status \in {"completed", "failed"} : FinishRun(m, status))
    BY DEF ScrapingNext, HandleRequest, DispatchDue, ReadForCancel, Send, SendFails, FindDue,
       ScanFails, WorkerRestarts, DeliverRequest, ReadJob, InsertDocument, Emit, RecordRequest,
       ReturnRequest
  <2>. QED  BY <2>2, <2>3, <2>4, <2>5, <2>6, <2>7, <2>8
<1>. QED  BY <1>1, BackOfficeHolds, PTL DEF BackOfficeSpec, SettledStays
=============================================================================
