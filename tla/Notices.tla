------------------------------- MODULE Notices -------------------------------
(***************************************************************************)
(* notification-service: it turns events of the platform into mails and,   *)
(* for some, into Slack alerts, and keeps a log of both. Its handler takes *)
(* the same steps for each channel: send, write the log, publish           *)
(* notification.sent. Any step may fail or be the last before a crash, and *)
(* then the whole message comes again, mails that were sent included.      *)
(***************************************************************************)
EXTENDS Integers, FiniteSets

CONSTANTS
  Notices,      \* events of the types in _LABELS
  Alerts,       \* those with a Slack alert
  Unmailed,     \* those of a type without a mail (member.joined)
  NoticeCopies, \* bound: how often their publishers publish one
  NoticeLimit,  \* x-delivery-limit (5 in the code)
  NoId          \* event_id is None

ASSUME NoticesAssumption ==
  /\ Alerts \subseteq Notices /\ Unmailed \subseteq Notices
  /\ NoticeCopies \in Nat /\ NoticeLimit \in Nat
  /\ NoId \notin Notices

NoticeMessages == Notices \X (1..NoticeCopies)
Channels == {"email", "slack"}

VARIABLES
  position, \* where the handler of a message is: a channel and a step
  redone,   \* how often a message was returned
  noted,    \* processed_events
  reached,  \* what Resend, Gmail or Slack has accepted: notice, channel and delivery
  log,      \* notification_log: notice, channel, delivery and status
  said      \* notification.sent events published

noticeVars == <<position, redone, noted, reached, log, said>>

At(channel, step) == [channel |-> channel, step |-> step]
Waiting == At("none", "queued")
Steps == {"none", "queued", "begun", "resolved", "unresolved", "send", "accepted", "refused",
          "logged", "over", "done", "dead"}
AtWork == Steps \ {"none", "queued", "done", "dead"}

(* A row, a mail and an event belong to the delivery that made them. *)
Delivery(m) == <<m, redone[m]>>
Deliveries == NoticeMessages \X (0..NoticeLimit)
Sent(m, channel) == [of |-> Delivery(m), channel |-> channel]
Row(m, channel, status) == [of |-> Delivery(m), channel |-> channel, status |-> status]

NoticesTypeOK ==
  /\ position \in [NoticeMessages -> [channel : Channels \cup {"none"}, step : Steps]]
  /\ redone \in [NoticeMessages -> 0..NoticeLimit]
  /\ noted \subseteq Notices
  /\ reached \subseteq [of : Deliveries, channel : Channels]
  /\ log \subseteq [of : Deliveries, channel : Channels, status : {"sent", "failed", "skipped"}]
  /\ said \subseteq [of : Deliveries, channel : Channels]

NoticesInit ==
  /\ position = [m \in NoticeMessages |-> At("none", "none")]
  /\ redone = [m \in NoticeMessages |-> 0]
  /\ noted = {} /\ reached = {} /\ log = {} /\ said = {}

GoTo(m, channel, step) == position' = [position EXCEPT ![m] = At(channel, step)]

-----------------------------------------------------------------------------
(* A publisher that is not sure of its first attempt publishes again. *)
PublishNotice(m) ==
  /\ position[m].step = "none"
  /\ m[2] > 1 => position[<<m[1], m[2] - 1>>].step # "none"
  /\ GoTo(m, "none", "queued")
  /\ UNCHANGED <<redone, noted, reached, log, said>>

(* The consumer passes on type, payload and correlation id of an envelope, *)
(* and not its event_id.                                                   *)
EventId(m) == NoId

BeginNotice(m) ==
  /\ position[m] = Waiting
  /\ GoTo(m, "none", IF EventId(m) \in noted THEN "done" ELSE "begun")
  /\ UNCHANGED <<redone, noted, reached, log, said>>

(* The address is in the payload, or auth-service and tenant-service are   *)
(* asked for it; they may not know it.                                     *)
ResolveRecipient(m, found) ==
  /\ position[m].step = "begun"
  /\ found => m[1] \notin Unmailed
  /\ GoTo(m, "email", IF found THEN "send" ELSE "unresolved")
  /\ UNCHANGED <<redone, noted, reached, log, said>>

NothingMore(m) == At("none", "over")

(* After the mail comes the alert, if there is one. *)
After(m) == IF position[m].channel = "email" /\ m[1] \in Alerts THEN At("slack", "send")
            ELSE At("none", "over")

RecordRow(m, status, next) ==
  /\ log' = log \cup {Row(m, position[m].channel, status)}
  /\ position' = [position EXCEPT ![m] = next]
  /\ UNCHANGED <<redone, noted, reached, said>>

RecordSkipped(m) ==
  /\ position[m].step = "unresolved"
  /\ RecordRow(m, "skipped", After(m))

Accepted(m) ==
  /\ position[m].step = "send"
  /\ reached' = reached \cup {Sent(m, position[m].channel)}
  /\ GoTo(m, position[m].channel, "accepted")
  /\ UNCHANGED <<redone, noted, log, said>>

Refused(m) ==
  /\ position[m].step = "send"
  /\ GoTo(m, position[m].channel, "refused")
  /\ UNCHANGED <<redone, noted, reached, log, said>>

RecordSent(m) ==
  /\ position[m].step = "accepted"
  /\ RecordRow(m, "sent", At(position[m].channel, "logged"))

RecordFailed(m) ==
  /\ position[m].step = "refused"
  /\ RecordRow(m, "failed", After(m))

EmitSent(m) ==
  /\ position[m].step = "logged"
  /\ said' = said \cup {Sent(m, position[m].channel)}
  /\ position' = [position EXCEPT ![m] = After(m)]
  /\ UNCHANGED <<redone, noted, reached, log>>

NoteNotice(m) ==
  /\ position[m].step = "over"
  /\ noted' = noted \cup ({EventId(m)} \ {NoId})
  /\ GoTo(m, "none", "done")
  /\ UNCHANGED <<redone, reached, log, said>>

(* An exception other than NotificationError, a timeout whose mail went    *)
(* out all the same (Accepted, and then this), a crash: the message comes  *)
(* again.                                                                  *)
ReturnNotice(m) ==
  /\ position[m].step \in AtWork
  /\ IF redone[m] < NoticeLimit
     THEN GoTo(m, "none", "queued") /\ redone' = [redone EXCEPT ![m] = @ + 1]
     ELSE GoTo(m, "none", "dead") /\ redone' = redone
  /\ UNCHANGED <<noted, reached, log, said>>

HandleNotice(m) ==
  \/ BeginNotice(m) \/ RecordSkipped(m) \/ Accepted(m) \/ Refused(m) \/ RecordSent(m)
  \/ RecordFailed(m) \/ EmitSent(m) \/ NoteNotice(m)
  \/ \E found \in BOOLEAN : ResolveRecipient(m, found)

NoticesNext == \E m \in NoticeMessages : PublishNotice(m) \/ HandleNotice(m) \/ ReturnNotice(m)

-----------------------------------------------------------------------------
(* Nothing passes in silence: once a message of an event is acknowledged,  *)
(* the log has a row for its mail, and for its alert if it has one, that   *)
(* says what became of it.                                                 *)
Accounted ==
  \A m \in NoticeMessages : position[m].step = "done" =>
    \A channel \in (IF m[1] \in Alerts THEN Channels ELSE {"email"}) :
      \E r \in log : r.of[1][1] = m[1] /\ r.channel = channel

(* The docstring of ProcessedEvent (models.py:45): a message whose event    *)
(* has been handled already is a no-op, never re-sent. The code violates    *)
(* it, since EventId is NoId.                                               *)
NeverResent ==
  [][\A m, n \in NoticeMessages :
       m[1] = n[1] /\ position[n].step = "done" /\ position[m] = Waiting
       => position'[m].step \notin AtWork]_noticeVars
=============================================================================
