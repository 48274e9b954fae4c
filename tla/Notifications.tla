--------------------------- MODULE Notifications ---------------------------
(***************************************************************************)
(* Outbound WhatsApp messages.  Every send of NotificationService looks    *)
(* the event id up, inserts a pending row under the unique index on        *)
(* event_id, calls Meta's API and marks the row, all in one transaction of *)
(* the caller.  send_message, send_interactive, send_list and send_image   *)
(* raise when the call fails, so that the caller's transaction rolls the   *)
(* row back, but for the weekly report, which catches the failure and      *)
(* commits; send_image_url and send_video_url only log an error answer and *)
(* swallow the rest.  The callers (listeners, requests and the scheduler)  *)
(* may repeat a send with the same event id.                               *)
(***************************************************************************)
EXTENDS Naturals

CONSTANTS
    Keys,           \* event ids
    Kind,           \* the send of each event id
    Callers         \* tasks that send

VARIABLES
    row,            \* notifications.status, as committed
    call,           \* per caller: the send it is running
    deliveries,     \* per event id: messages that Meta delivered, 2 for more
    faulted         \* event ids of which a call timed out or a transaction was lost

vars == <<row, call, deliveries, faulted>>

Absent == "absent"
NotificationStatus == {"pending", "sent", "failed"}

\* What becomes of a failure: rolled back, caught by the weekly report, or swallowed by a
\* send of an image or a video by its URL.
Kinds == {"raising", "report", "by_url"}

ASSUME KindAssumption == Kind \in [Keys -> Kinds]
ASSUME KeysAssumption == Keys # {}

-----------------------------------------------------------------------------
\* Where a caller stands:
\*   idle      no send
\*   checked   get_by_event_id found no row
\*   inserted  the pending row is flushed
\*   accepted  the call to Meta is taken for a success
\*   raised    the call to Meta raised
\*   marked    the row's final status is flushed, the commit is left
Call == [step : {"idle", "checked", "inserted", "accepted", "raised", "marked"},
         key : Keys, status : NotificationStatus]

Idle == [step |-> "idle", key |-> CHOOSE k \in Keys : TRUE, status |-> "pending"]

\* The index entry of an uncommitted row is held until its transaction ends.
KeyLocked(k) ==
    \E c \in Callers : call[c].key = k /\ call[c].step \notin {"idle", "checked"}

Go(c, step) == call' = [call EXCEPT ![c].step = step]

EndCall(c) == call' = [call EXCEPT ![c] = Idle]

Delivered(k) ==
    deliveries' = [deliveries EXCEPT ![k] = IF deliveries[k] < 2 THEN deliveries[k] + 1 ELSE 2]

Init ==
    /\ row = [k \in Keys |-> Absent]
    /\ call = [c \in Callers |-> Idle]
    /\ deliveries = [k \in Keys |-> 0]
    /\ faulted = {}

-----------------------------------------------------------------------------
\* The send begins and finds no row with the event id; with one it returns.
BeginSend(c, k) ==
    /\ call[c].step = "idle"
    /\ row[k] = Absent
    /\ call' = [call EXCEPT ![c] = [step |-> "checked", key |-> k, status |-> "pending"]]
    /\ UNCHANGED <<row, deliveries, faulted>>

\* Mutant: event_id is not unique.
InsertRowUnchecked(c) ==
    /\ call[c].step = "checked"
    /\ Go(c, "inserted")
    /\ UNCHANGED <<row, deliveries, faulted>>

\* repository.create flushes the INSERT: it waits for an uncommitted row with the
\* same event id, and raises IntegrityError out of the send if there is one by now.
InsertRow(c) ==
    /\ call[c].step = "checked"
    /\ ~ KeyLocked(call[c].key)
    /\ IF row[call[c].key] = Absent THEN Go(c, "inserted") ELSE EndCall(c)
    /\ UNCHANGED <<row, deliveries, faulted>>

\* Meta answers 2xx.
DispatchAccepted(c) ==
    /\ call[c].step = "inserted"
    /\ Delivered(call[c].key)
    /\ Go(c, "accepted")
    /\ UNCHANGED <<row, faulted>>

\* Mutant: an error answer of Meta does not raise.
DispatchIgnored(c) ==
    /\ call[c].step = "inserted"
    /\ Go(c, "accepted")
    /\ UNCHANGED <<row, deliveries, faulted>>

\* Meta answers with an error, or no channel is connected: the dispatch raises.
AnswerRaises(c) ==
    /\ call[c].step = "inserted"
    /\ Kind[call[c].key] # "by_url"
    /\ Go(c, "raised")
    /\ UNCHANGED <<row, deliveries, faulted>>

\* The same of an image or a video by its URL: the answer is only logged.
AnswerIgnored(c) ==
    /\ call[c].step = "inserted"
    /\ Kind[call[c].key] = "by_url"
    /\ Go(c, "accepted")
    /\ UNCHANGED <<row, deliveries, faulted>>

\* Meta cannot be reached.
DispatchUnreachable(c) ==
    /\ call[c].step = "inserted"
    /\ Go(c, "raised")
    /\ UNCHANGED <<row, deliveries, faulted>>

\* The call times out after Meta has taken the message.
DispatchTimedOut(c) ==
    /\ call[c].step = "inserted"
    /\ Delivered(call[c].key)
    /\ Go(c, "raised")
    /\ faulted' = faulted \cup {call[c].key}
    /\ UNCHANGED row

\* update_status(SENT).
MarkSent(c) ==
    /\ call[c].step = "accepted"
    /\ call' = [call EXCEPT ![c] = [@ EXCEPT !.step = "marked", !.status = "sent"]]
    /\ UNCHANGED <<row, deliveries, faulted>>

\* update_status(FAILED), then raise: begin() of the caller rolls back.
RollBackFailed(c) ==
    /\ call[c].step = "raised"
    /\ Kind[call[c].key] = "raising"
    /\ EndCall(c)
    /\ UNCHANGED <<row, deliveries, faulted>>

\* update_status(FAILED), and the caller goes on.
KeepFailed(c) ==
    /\ call[c].step = "raised"
    /\ Kind[call[c].key] # "raising"
    /\ call' = [call EXCEPT ![c] = [@ EXCEPT !.step = "marked", !.status = "failed"]]
    /\ UNCHANGED <<row, deliveries, faulted>>

\* The caller's transaction commits.
CommitSend(c) ==
    /\ call[c].step = "marked"
    /\ row' = [row EXCEPT ![call[c].key] = call[c].status]
    /\ EndCall(c)
    /\ UNCHANGED <<deliveries, faulted>>

\* A statement or the commit fails, or the process dies: the row is rolled back.
AbortSend(c) ==
    /\ call[c].step # "idle"
    /\ EndCall(c)
    /\ faulted' = faulted \cup {call[c].key}
    /\ UNCHANGED <<row, deliveries>>

-----------------------------------------------------------------------------
SendStep(c) ==
    \/ InsertRow(c)
    \/ DispatchAccepted(c)
    \/ AnswerRaises(c)
    \/ AnswerIgnored(c)
    \/ DispatchUnreachable(c)
    \/ DispatchTimedOut(c)
    \/ MarkSent(c)
    \/ RollBackFailed(c)
    \/ KeepFailed(c)
    \/ CommitSend(c)
    \/ AbortSend(c)

Next == \E c \in Callers : SendStep(c) \/ \E k \in Keys : BeginSend(c, k)

Spec == Init /\ [][Next]_vars

-----------------------------------------------------------------------------
(* Properties.                                                             *)

\* Every variable of the notifications has its type.
TypeOK ==
    /\ row \in [Keys -> {Absent, "sent", "failed"}]
    /\ call \in [Callers -> Call]
    /\ deliveries \in [Keys -> 0..2]
    /\ faulted \subseteq Keys

\* Whatever sends with one event id overlap and whatever Meta refuses, the message
\* is delivered at most once as long as none of its calls times out and none of its
\* transactions is lost: the unique index makes the second sender wait before it
\* calls Meta.
DeliveredOnce == \A k \in Keys \ faulted : deliveries[k] <= 1

\* Once a notification row is committed, its message is never sent again, even
\* after timeouts and crashes.
RecordedIsNotResent ==
    [][\A k \in Keys : row[k] # Absent =>
            deliveries'[k] = deliveries[k] /\ row'[k] = row[k]]_vars

\* A row that says sent stands for a delivered message, but for images and videos by
\* URL, whose row says so whatever Meta answers: update_status(SENT) follows the answer.
SentWasDelivered ==
    \A k \in Keys : row[k] = "sent" /\ Kind[k] # "by_url" => deliveries[k] > 0

\* The row and what Meta delivered agree: sent means delivered, and without faults there
\* is one delivery per event id, whoever repeats it (get_by_event_id, update_status).
DeliveredAsRecorded == SentWasDelivered /\ DeliveredOnce

\* No two callers hold the index entry of one event id.
KeyLock ==
    \A c, d \in Callers :
        /\ c # d
        /\ call[c].step \notin {"idle", "checked"}
        /\ call[d].step \notin {"idle", "checked"}
        => call[c].key # call[d].key

\* What a caller knows at each step of the send.
CallInv(c) ==
    LET k == call[c].key IN
    /\ call[c].step \notin {"idle", "checked"} => row[k] = Absent
    /\ call[c].step = "accepted" \/ (call[c].step = "marked" /\ call[c].status = "sent") =>
           Kind[k] = "by_url" \/ deliveries[k] > 0
    /\ call[c].step = "marked" => call[c].status \in {"sent", "failed"}
    /\ k \notin faulted /\ call[c].step \in {"inserted", "raised"} => deliveries[k] = 0

\* Without faults a message is delivered only by a call under way that goes on to
\* record it, or by one that did.
DeliveryIsRecorded ==
    \A k \in Keys \ faulted : deliveries[k] > 0 =>
        \/ row[k] # Absent
        \/ \E c \in Callers : call[c].key = k /\ call[c].step \in {"accepted", "marked"}

\* The inductive invariant of the sends.
IInv ==
    /\ TypeOK
    /\ KeyLock
    /\ \A c \in Callers : CallInv(c)
    /\ DeliveredOnce
    /\ DeliveryIsRecorded
    /\ SentWasDelivered
=============================================================================
