-------------------------- MODULE Payments_Proofs --------------------------
(***************************************************************************)
(* Proofs about Payments, for every set of orders, payments and requests.  *)
(***************************************************************************)
EXTENDS Payments, TLAPS

\* The record of a handler without a request is one of the records.
LEMMA IdleType == Idle \in Req /\ Idle.step = "idle"
  BY PaymentsAssumption DEF Idle, Req, PaymentStatus

\* Every step keeps the types.
LEMMA TypeStep == TypeOK /\ [Next]_vars => TypeOK'
<1> SUFFICES ASSUME TypeOK, [Next]_vars
             PROVE  TypeOK'
  OBVIOUS
<1> USE DEF TypeOK, Req, PaymentStatus, Absent, OSM!Absent, OSM!OrderState
<1>1. ASSUME NEW o \in Orders, NEW to \in OSM!OrderState, MoveOrder(o, to)
      PROVE  TypeOK'
  BY <1>1 DEF MoveOrder, OSM!Transition
<1>2. ASSUME NEW r \in Requests, NEW p \in Payments, CheckNewPayment(r, p)
      PROVE  TypeOK'
  BY <1>2 DEF CheckNewPayment
<1>3. ASSUME NEW r \in Requests, NEW p \in Payments, NEW to \in {"success", "failed"},
             ReceiveWebhook(r, p, to)
      PROVE  TypeOK'
  BY <1>3 DEF ReceiveWebhook
<1>4. ASSUME NEW p \in Payments, CustomerPays(p)
      PROVE  TypeOK'
  BY <1>4 DEF CustomerPays
<1>5. ASSUME NEW r \in Requests, RequestStep(r) \/ AbortRequest(r)
      PROVE  TypeOK'
  <2>0. req[r].payment \in Payments /\ req[r].to \in PaymentStatus
    OBVIOUS
  <2>1. CASE InsertPayment(r)
    BY <2>0, <2>1, IdleType DEF InsertPayment
  <2>5. CASE AbortRequest(r)
    <3>1. faulted' \in BOOLEAN
      BY <2>5, Zenon DEF AbortRequest
    <3> QED BY <2>0, <2>5, <3>1, IdleType DEF AbortRequest
  <2>2. CASE UpdateStatus(r)
    BY <2>2 DEF UpdateStatus
  <2>3. CASE PublishConfirmed(r)
    <3>1. /\ req' \in [Requests -> Req]
          /\ UNCHANGED <<state, status, charged, acked, listener, paidOnline, faulted>>
      BY <2>3 DEF PublishConfirmed
    <3>2. queue' \in Seq(Payments)
      <4>1. queue' = Append(queue, req[r].payment) \/ queue' = queue
        BY <2>3, Zenon DEF PublishConfirmed
      <4> QED BY <2>0, <4>1
    <3>3. published' \subseteq Payments
      <4>1. published' = published \cup {req[r].payment} \/ published' = published
        BY <2>3, Zenon DEF PublishConfirmed
      <4> QED BY <2>0, <4>1
    <3> QED BY <3>1, <3>2, <3>3
  <2>4. CASE CommitWebhook(r)
    BY <2>0, <2>4, IdleType DEF CommitWebhook
  <2> QED BY <1>5, <2>1, <2>2, <2>3, <2>4, <2>5 DEF RequestStep
<1>6. CASE HandlePaymentConfirmed
  <2>1. OrderOf[Head(queue)] \in Orders /\ Tail(queue) \in Seq(Payments)
    BY <1>6, OrderOfAssumption DEF HandlePaymentConfirmed
  <2> QED BY <1>6, <2>1 DEF HandlePaymentConfirmed
<1>7. CASE DropConfirmed \/ Subscribe
  <2>1. queue' \in Seq(Payments)
    BY <1>7 DEF DropConfirmed, Subscribe
  <2>2. faulted' \in BOOLEAN
    BY <1>7, Zenon DEF DropConfirmed, Subscribe
  <2> QED BY <1>7, <2>1, <2>2 DEF DropConfirmed, Subscribe
<1>8. CASE Restart \/ LoseConnection
  <2>0. queue' = <<>> /\ faulted' = TRUE /\ listener' \in {"starting", "subscribed", "dead"}
    BY <1>8 DEF Restart, LoseConnection
  <2>1. queue' \in Seq(Payments) /\ faulted' \in BOOLEAN
    <3>1. <<>> \in Seq(Payments)
      OBVIOUS
    <3> QED BY <2>0, <3>1
  <2>2. req' \in [Requests -> Req]
    BY <1>8, IdleType DEF Restart, LoseConnection
  <2> QED BY <1>8, <2>0, <2>1, <2>2 DEF Restart, LoseConnection
<1>9. CASE UNCHANGED vars
  BY <1>9 DEF vars
<1> QED BY <1>1, <1>2, <1>3, <1>4, <1>5, <1>6, <1>7, <1>8, <1>9 DEF Next

\* The initial state is well typed.
LEMMA TypeInit == Init => TypeOK
<1>1. Init => faulted \in BOOLEAN
  BY Zenon DEF Init
<1>2. Init => published \subseteq Payments /\ charged \subseteq Payments /\ acked \subseteq Payments
              /\ paidOnline \subseteq Orders
  BY DEF Init
<1> QED BY <1>1, <1>2, IdleType
           DEF Init, TypeOK, PaymentStatus, Absent, OSM!Absent, OSM!OrderState

\* Every reachable state of the checkout is well typed.
THEOREM TypeCorrect == Spec => []TypeOK
  BY TypeInit, TypeStep, PTL DEF Spec

-----------------------------------------------------------------------------
\* A step that takes no money back, withdraws no event and starts or advances no
\* request keeps what the requests know.
LEMMA KnowledgeStep ==
    IInv /\ [Next]_vars =>
        /\ \A r \in Requests : WebhookInv(r)'
        /\ QueuedWasCharged'
        /\ PaidOnlineWasCharged'
        /\ SuccessWasPublished'
<1> DEFINE Goal == /\ \A r \in Requests : WebhookInv(r)'
                   /\ QueuedWasCharged'
                   /\ PaidOnlineWasCharged'
                   /\ SuccessWasPublished'
<1> SUFFICES ASSUME IInv, [Next]_vars
             PROVE  Goal
  OBVIOUS
<1>0. /\ TypeOK /\ QueuedWasCharged /\ PaidOnlineWasCharged /\ SuccessWasPublished
      /\ \A r \in Requests : WebhookInv(r)
  BY DEF IInv
<1> USE DEF TypeOK, Req, PaymentStatus, Absent, OSM!Absent, WebhookInv, QueuedWasCharged,
            PaidOnlineWasCharged, SuccessWasPublished
<1>1. ASSUME NEW o \in Orders, NEW to \in OSM!OrderState, MoveOrder(o, to)
      PROVE  Goal
  BY <1>0, <1>1 DEF MoveOrder
<1>2. ASSUME NEW r \in Requests, NEW p \in Payments, CheckNewPayment(r, p)
      PROVE  Goal
  BY <1>0, <1>2 DEF CheckNewPayment
<1>3. ASSUME NEW r \in Requests, NEW p \in Payments, NEW to \in {"success", "failed"},
             ReceiveWebhook(r, p, to)
      PROVE  Goal
  BY <1>0, <1>3 DEF ReceiveWebhook
<1>4. ASSUME NEW p \in Payments, CustomerPays(p)
      PROVE  Goal
  BY <1>0, <1>4 DEF CustomerPays
<1>5. ASSUME NEW r \in Requests, RequestStep(r) \/ AbortRequest(r)
      PROVE  Goal
  <2>0. req[r].payment \in Payments /\ req[r].to \in PaymentStatus
    BY <1>0
  <2>1. CASE InsertPayment(r) \/ AbortRequest(r)
    BY <1>0, <2>0, <2>1, IdleType DEF InsertPayment, AbortRequest
  <2>2. CASE UpdateStatus(r)
    BY <1>0, <2>2 DEF UpdateStatus
  <2>3. CASE PublishConfirmed(r)
    <3>1. CASE req[r].to = "success"
      <4>1. /\ req[r].payment \in charged
            /\ UNCHANGED <<state, status, charged, acked, listener, paidOnline, faulted>>
            /\ req' = [req EXCEPT ![r].step = "ready"]
        BY <1>0, <2>3, <3>1 DEF PublishConfirmed
      <4>2. published' = published \cup {req[r].payment}
        BY <1>0, <2>0, <2>3, <3>1 DEF PublishConfirmed
      <4>3. QueuedWasCharged'
        <5>1. CASE queue' = Append(queue, req[r].payment)
          <6>1. DOMAIN queue' = 1..(Len(queue) + 1)
            BY <1>0, <2>0, <5>1
          <6>2. \A i \in 1..Len(queue) : queue'[i] = queue[i]
            BY <1>0, <2>0, <5>1
          <6>3. queue'[Len(queue) + 1] = req[r].payment
            BY <1>0, <2>0, <5>1
          <6> QED BY <1>0, <4>1, <6>1, <6>2, <6>3
        <5>2. CASE queue' = queue
          BY <1>0, <4>1, <5>2
        <5> QED BY <2>3, <3>1, <5>1, <5>2 DEF PublishConfirmed
      <4>4. \A q \in Requests : WebhookInv(q)'
        BY <1>0, <2>0, <4>1, <4>2
      <4> QED BY <1>0, <4>1, <4>2, <4>3, <4>4
    <3>2. CASE req[r].to # "success"
      BY <1>0, <2>0, <2>3, <3>2 DEF PublishConfirmed
    <3> QED BY <3>1, <3>2
  <2>4. CASE CommitWebhook(r)
    BY <1>0, <2>0, <2>4, IdleType DEF CommitWebhook
  <2> QED BY <1>5, <2>1, <2>2, <2>3, <2>4 DEF RequestStep
<1>6. ASSUME queue # <<>>, queue' = Tail(queue), UNCHANGED charged
      PROVE  QueuedWasCharged' /\ Head(queue) \in charged
  BY <1>0, <1>6
<1>7. CASE HandlePaymentConfirmed
  <2>1. \A o \in paidOnline' : o \in paidOnline \/ o = OrderOf[Head(queue)]
    BY <1>7 DEF HandlePaymentConfirmed
  <2> QED BY <1>0, <1>6, <1>7, <2>1 DEF HandlePaymentConfirmed
<1>8. CASE DropConfirmed \/ Subscribe
  BY <1>0, <1>6, <1>8 DEF DropConfirmed, Subscribe
<1>9. CASE Restart \/ LoseConnection
  BY <1>0, <1>9, IdleType DEF Restart, LoseConnection
<1>10. CASE UNCHANGED vars
  BY <1>0, <1>10 DEF vars
<1> QED BY <1>1, <1>2, <1>3, <1>4, <1>5, <1>7, <1>8, <1>9, <1>10 DEF Next

\* The invariant of the checkout: a success on its way to the database or to the
\* listener is the provider's word.
THEOREM Invariance == Spec => []IInv
<1>1. Init => IInv
  BY TypeInit, IdleType DEF Init, IInv, WebhookInv, QueuedWasCharged,
     PaidOnlineWasCharged, SuccessWasPublished, Absent, OSM!Absent
<1>2. IInv /\ [Next]_vars => IInv'
  BY TypeStep, KnowledgeStep DEF IInv
<1> QED BY <1>1, <1>2, PTL DEF Spec

\* The listener moves no order to paid without a charge, through rollbacks after
\* the publish, lost events and restarts.
THEOREM NoGoodsWithoutCharge == Spec => []PaidOnlineWasCharged
<1>1. IInv => PaidOnlineWasCharged
  BY DEF IInv
<1> QED BY <1>1, Invariance, PTL

\* No committed success is silent: its event was published first.
THEOREM SuccessIsAnnounced == Spec => []SuccessWasPublished
<1>1. IInv => SuccessWasPublished
  BY DEF IInv
<1> QED BY <1>1, Invariance, PTL

\* Orders paid online and payments that are success are backed by charges, and every
\* success was published.
THEOREM StateIsBacked == Spec => []MoneyBacksState
<1>1. IInv => MoneyBacksState
  BY DEF IInv, MoneyBacksState
<1> QED BY <1>1, Invariance, PTL
=============================================================================
