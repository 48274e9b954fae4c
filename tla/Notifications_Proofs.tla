------------------------ MODULE Notifications_Proofs ------------------------
(***************************************************************************)
(* Proofs about Notifications, for every set of event ids and callers.     *)
(***************************************************************************)
EXTENDS Notifications, TLAPS

\* The record of a caller that sends nothing is one of the records.
LEMMA IdleType == Idle \in Call /\ Idle.step = "idle"
  BY KeysAssumption DEF Idle, Call, NotificationStatus

\* Every step of a send keeps the types.
LEMMA TypeStep == IInv /\ [Next]_vars => TypeOK'
<1> SUFFICES ASSUME IInv, [Next]_vars
             PROVE  TypeOK'
  OBVIOUS
<1> USE DEF TypeOK, Call, NotificationStatus, Absent
<1>0. TypeOK
  BY DEF IInv
<1>1. ASSUME NEW c \in Callers, NEW k \in Keys, BeginSend(c, k)
      PROVE  TypeOK'
  BY <1>0, <1>1 DEF BeginSend
<1>2. ASSUME NEW c \in Callers, SendStep(c)
      PROVE  TypeOK'
  <2>1. CASE InsertRow(c) \/ AbortSend(c)
    BY <1>0, <2>1, IdleType DEF InsertRow, AbortSend, Go, EndCall
  <2>2. CASE DispatchAccepted(c) \/ DispatchTimedOut(c)
    BY <1>0, <2>2 DEF DispatchAccepted, DispatchTimedOut, Go, Delivered
  <2>3. CASE AnswerRaises(c) \/ AnswerIgnored(c) \/ DispatchUnreachable(c)
    BY <1>0, <2>3 DEF AnswerRaises, AnswerIgnored, DispatchUnreachable, Go
  <2>4. CASE MarkSent(c)
    BY <1>0, <2>4 DEF MarkSent
  <2>5. CASE RollBackFailed(c) \/ KeepFailed(c)
    <3>1. CASE RollBackFailed(c)
      BY <1>0, <3>1, IdleType DEF RollBackFailed, EndCall
    <3>2. CASE KeepFailed(c)
      <4>1. [call[c] EXCEPT !.step = "marked", !.status = "failed"] \in Call
        BY <1>0
      <4> QED BY <1>0, <3>2, <4>1 DEF KeepFailed
    <3> QED BY <2>5, <3>1, <3>2
  <2>6. CASE CommitSend(c)
    <3>1. call[c].status \in {"sent", "failed"} /\ call[c].key \in Keys
      BY <1>0, <2>6 DEF CommitSend, IInv, CallInv
    <3> QED BY <1>0, <2>6, <3>1, IdleType DEF CommitSend, EndCall
  <2> QED BY <1>2, <2>1, <2>2, <2>3, <2>4, <2>5, <2>6 DEF SendStep
<1>3. CASE UNCHANGED vars
  BY <1>0, <1>3 DEF vars
<1> QED BY <1>1, <1>2, <1>3 DEF Next

\* A caller that begins or ends a send, or goes on in one whose index entry it
\* holds, leaves the index entries of the others alone.
LEMMA LockKept ==
    ASSUME TypeOK, KeyLock, NEW c \in Callers, NEW r,
           call' = [call EXCEPT ![c] = r],
           \/ r.step \in {"idle", "checked"}
           \/ r.key = call[c].key /\ call[c].step \notin {"idle", "checked"}
    PROVE  KeyLock'
<1>1. \A d \in Callers : call'[d] = IF d = c THEN r ELSE call[d]
  BY DEF TypeOK
<1> QED BY <1>1 DEF KeyLock

\* The unique index: no two callers come to hold the entry of one event id.
LEMMA LockStep == IInv /\ [Next]_vars => KeyLock'
<1> SUFFICES ASSUME IInv, [Next]_vars
             PROVE  KeyLock'
  OBVIOUS
<1>0. TypeOK /\ KeyLock
  BY DEF IInv
<1>1. ASSUME NEW c \in Callers, NEW k \in Keys, BeginSend(c, k)
      PROVE  KeyLock'
  BY <1>0, <1>1, LockKept DEF BeginSend
<1>2. ASSUME NEW c \in Callers, SendStep(c)
      PROVE  KeyLock'
  <2>0. call[c] \in Call
    BY <1>0 DEF TypeOK
  <2>1. CASE InsertRow(c)
    <3>1. ASSUME NEW d \in Callers, d # c, call[d].step \notin {"idle", "checked"}
          PROVE  call[d].key # call[c].key
      BY <2>1, <3>1 DEF InsertRow, KeyLocked
    <3> QED BY <1>0, <2>1, <3>1, IdleType DEF InsertRow, KeyLock, TypeOK, Call, Go, EndCall
  <2>2. ASSUME NEW step, call[c].step \notin {"idle", "checked"}, Go(c, step)
        PROVE  KeyLock'
    <3>1. [call[c] EXCEPT !.step = step].key = call[c].key
      BY <2>0 DEF Call
    <3> QED BY <1>0, <2>2, <3>1, LockKept DEF Go
  <2>3. CASE \/ DispatchAccepted(c) \/ DispatchTimedOut(c)
             \/ AnswerRaises(c) \/ AnswerIgnored(c) \/ DispatchUnreachable(c)
    BY <2>2, <2>3 DEF DispatchAccepted, DispatchTimedOut, AnswerRaises, AnswerIgnored,
                      DispatchUnreachable
  <2>4. CASE EndCall(c)
    BY <1>0, <2>4, LockKept, IdleType DEF EndCall
  <2>5. ASSUME NEW final, call[c].step \notin {"idle", "checked"},
               call' = [call EXCEPT ![c] = [@ EXCEPT !.step = "marked", !.status = final]]
        PROVE  KeyLock'
    <3>1. [call[c] EXCEPT !.step = "marked", !.status = final].key = call[c].key
      BY <2>0 DEF Call
    <3> QED BY <1>0, <2>5, <3>1, LockKept
  <2>6. CASE MarkSent(c) \/ RollBackFailed(c) \/ KeepFailed(c)
    BY <2>4, <2>5, <2>6 DEF MarkSent, RollBackFailed, KeepFailed
  <2>7. CASE CommitSend(c) \/ AbortSend(c)
    BY <2>4, <2>7 DEF CommitSend, AbortSend
  <2> QED BY <1>2, <2>1, <2>3, <2>6, <2>7 DEF SendStep
<1>3. CASE UNCHANGED vars
  BY <1>0, <1>3 DEF vars, KeyLock
<1> QED BY <1>1, <1>2, <1>3 DEF Next

-----------------------------------------------------------------------------
\* What the callers know at each step stays true, and so does what the rows say of
\* the deliveries.
LEMMA KnowledgeStep ==
    IInv /\ [Next]_vars =>
        /\ \A c \in Callers : CallInv(c)'
        /\ DeliveredOnce'
        /\ DeliveryIsRecorded'
        /\ SentWasDelivered'
<1> SUFFICES ASSUME IInv, [Next]_vars
             PROVE  /\ \A c \in Callers : CallInv(c)'
                    /\ DeliveredOnce'
                    /\ DeliveryIsRecorded'
                    /\ SentWasDelivered'
  OBVIOUS
<1> DEFINE Goal == /\ \A c \in Callers : CallInv(c)'
                   /\ DeliveredOnce'
                   /\ DeliveryIsRecorded'
                   /\ SentWasDelivered'
<1>0. /\ TypeOK /\ KeyLock /\ DeliveredOnce /\ DeliveryIsRecorded /\ SentWasDelivered
      /\ \A c \in Callers : CallInv(c)
  BY DEF IInv
<1> USE DEF CallInv, DeliveredOnce, DeliveryIsRecorded, SentWasDelivered, TypeOK, Call,
            NotificationStatus, Absent
<1>1. ASSUME NEW c \in Callers, NEW k \in Keys, BeginSend(c, k)
      PROVE  Goal
  BY <1>0, <1>1 DEF BeginSend
<1>2. ASSUME NEW c \in Callers, SendStep(c)
      PROVE  Goal
  <2>0. call[c].key \in Keys
    BY <1>0
  <2>1. CASE InsertRow(c)
    <3>1. ASSUME NEW d \in Callers, call[d].step \notin {"idle", "checked"}
          PROVE  call[d].key # call[c].key
      BY <2>1, <3>1 DEF InsertRow, KeyLocked
    <3>2. CASE row[call[c].key] = Absent
      BY <1>0, <2>0, <2>1, <3>1, <3>2 DEF InsertRow, Go
    <3>3. CASE row[call[c].key] # Absent
      BY <1>0, <2>1, <3>3, IdleType DEF InsertRow, EndCall
    <3> QED BY <3>2, <3>3
  <2>2. CASE DispatchAccepted(c)
    BY <1>0, <2>0, <2>2 DEF DispatchAccepted, Go, Delivered, KeyLock
  <2>3. CASE DispatchTimedOut(c)
    BY <1>0, <2>0, <2>3 DEF DispatchTimedOut, Go, Delivered, KeyLock
  <2>4. CASE AnswerRaises(c) \/ AnswerIgnored(c) \/ DispatchUnreachable(c)
    BY <1>0, <2>0, <2>4 DEF AnswerRaises, AnswerIgnored, DispatchUnreachable, Go
  <2>5. CASE MarkSent(c)
    BY <1>0, <2>0, <2>5 DEF MarkSent
  <2>6. CASE RollBackFailed(c) \/ KeepFailed(c)
    <3>1. CASE RollBackFailed(c)
      BY <1>0, <2>0, <3>1, IdleType DEF RollBackFailed, EndCall
    <3>2. CASE KeepFailed(c)
      <4>1. call' = [call EXCEPT ![c] = [call[c] EXCEPT !.step = "marked", !.status = "failed"]]
        BY <3>2 DEF KeepFailed
      <4>2. call[c].step = "raised" /\ UNCHANGED <<row, deliveries, faulted>>
        BY <3>2 DEF KeepFailed
      <4> QED BY <1>0, <2>0, <4>1, <4>2
    <3> QED BY <2>6, <3>1, <3>2
  <2>7. CASE CommitSend(c)
    BY <1>0, <2>0, <2>7, IdleType DEF CommitSend, EndCall, KeyLock
  <2>8. CASE AbortSend(c)
    BY <1>0, <2>0, <2>8, IdleType DEF AbortSend, EndCall
  <2> QED BY <1>2, <2>1, <2>2, <2>3, <2>4, <2>5, <2>6, <2>7, <2>8 DEF SendStep
<1>3. CASE UNCHANGED vars
  BY <1>0, <1>3 DEF vars
<1> QED BY <1>1, <1>2, <1>3 DEF Next

\* The invariant of the sends: who holds the index entry of an event id, what that
\* caller knows, and that a delivery without faults is recorded or about to be.
THEOREM Invariance == Spec => []IInv
<1>1. Init => IInv
  BY IdleType DEF Init, IInv, TypeOK, KeyLock, CallInv, DeliveredOnce, DeliveryIsRecorded,
                  SentWasDelivered, Absent, Call, NotificationStatus
<1>2. IInv /\ [Next]_vars => IInv'
  BY TypeStep, LockStep, KnowledgeStep DEF IInv
<1> QED BY <1>1, <1>2, PTL DEF Spec

\* The types of the notifications are invariant.
THEOREM TypeCorrectness == Spec => []TypeOK
<1>1. IInv => TypeOK
  BY DEF IInv
<1> QED BY <1>1, Invariance, PTL

\* Without timeouts and lost transactions no message is delivered twice, for any
\* number of callers that repeat an event id.
THEOREM AtMostOnceWithoutFaults == Spec => []DeliveredOnce
<1>1. IInv => DeliveredOnce
  BY DEF IInv
<1> QED BY <1>1, Invariance, PTL

\* A sent row stands for a delivered message, faults or not, but for
\* images and videos by URL.
THEOREM SentMeansDelivered == Spec => []SentWasDelivered
<1>1. IInv => SentWasDelivered
  BY DEF IInv
<1> QED BY <1>1, Invariance, PTL

\* A committed row ends all sends under its event id.
THEOREM RecordedEndsSending == Spec => RecordedIsNotResent
<1>1. IInv /\ [Next]_vars =>
        [\A k \in Keys : row[k] # Absent =>
            deliveries'[k] = deliveries[k] /\ row'[k] = row[k]]_vars
  <2> SUFFICES ASSUME IInv, Next, NEW k \in Keys, row[k] # Absent
               PROVE  deliveries'[k] = deliveries[k] /\ row'[k] = row[k]
    OBVIOUS
  <2>0. TypeOK /\ \A c \in Callers : CallInv(c)
    BY DEF IInv
  <2>1. PICK c \in Callers : SendStep(c) \/ \E j \in Keys : BeginSend(c, j)
    BY DEF Next
  <2>2. call[c].step \notin {"idle", "checked"} => call[c].key # k
    BY <2>0 DEF CallInv
  <2>3. CASE UNCHANGED <<row, deliveries>>
    BY <2>3
  <2>4. CASE DispatchAccepted(c) \/ DispatchTimedOut(c)
    BY <2>0, <2>2, <2>4 DEF DispatchAccepted, DispatchTimedOut, Delivered, TypeOK
  <2>5. CASE CommitSend(c)
    BY <2>0, <2>2, <2>5 DEF CommitSend, TypeOK
  <2> QED BY <2>1, <2>3, <2>4, <2>5 DEF SendStep, BeginSend, InsertRow, AnswerRaises,
                                       AnswerIgnored, DispatchUnreachable, MarkSent,
                                       RollBackFailed, KeepFailed, AbortSend
<1> QED BY <1>1, Invariance, PTL DEF Spec, RecordedIsNotResent

\* Row and delivery agree, for any number of callers and event ids.
THEOREM RecordsAgree == Spec => []DeliveredAsRecorded
<1>1. IInv => DeliveredAsRecorded
  BY DEF IInv, DeliveredAsRecorded
<1> QED BY <1>1, Invariance, PTL
=============================================================================
