------------------------------ MODULE Payments ------------------------------
(***************************************************************************)
(* Checkout: payment rows, the provider's webhooks, the payment.confirmed  *)
(* event on Redis pub/sub and the listener task that moves the order to    *)
(* paid.  Requests interleave between their statements; the order itself   *)
(* is moved in one step (OrderTransactions opens that step up).            *)
(***************************************************************************)
EXTENDS Naturals, Sequences

CONSTANTS
    Orders,
    Payments,       \* payment ids; a payment's reference is its id
    OrderOf,        \* the order a payment is for
    Requests,       \* handlers of POST /payments and POST /payments/webhook
    Priced,         \* the orders whose amount is set
    MaxQueue        \* bound: no webhook arrives while so many events wait

VARIABLES
    state,          \* orders.state, as committed
    status,         \* payments.status, as committed
    charged,        \* payments the provider has taken the money for
    acked,          \* those whose charge.success was answered with 200
    req,            \* per request: the transaction it is running
    queue,          \* payment.confirmed events the listener has received, not handled
    listener,       \* of payment.confirmed: starting, listener, or dead
    published,      \* payments for which payment.confirmed was published
    paidOnline,     \* orders the listener moved to paid
    faulted         \* has a request, a handler or the process failed?

vars == <<state, status, charged, acked, req, queue, listener, published,
          paidOnline, faulted>>

OSM == INSTANCE OrderStateMachine

ASSUME OrderOfAssumption == OrderOf \in [Payments -> Orders]
ASSUME PaymentsAssumption == Payments # {}
ASSUME PricedAssumption == Priced \subseteq Orders
ASSUME QueueAssumption == MaxQueue \in Nat

PaymentStatus == {"pending", "success", "failed"}
Absent == OSM!Absent

\* _ACTIVE_STATUSES: the payment is still relevant, not replaceable.
ActiveStatuses == {"pending", "success"}

\* Where a request stands:
\*   idle       no request
\*   checked    create_payment_for_order found no active payment
\*   loaded     handle_webhook read the payment
\*   updated    the UPDATE of the payment is flushed
\*   ready      only the commit is left
Req == [step : {"idle", "checked", "loaded", "updated", "ready"},
        payment : Payments, seen : PaymentStatus, to : PaymentStatus]

Idle == [step |-> "idle", payment |-> CHOOSE p \in Payments : TRUE,
         seen |-> "pending", to |-> "pending"]

\* The session emits an UPDATE only for a status that differs from the one it
\* loaded.
Writes(r) == req[r].seen # req[r].to

\* Another request holds the lock of the payment's row until its commit.
PaymentLocked(p) ==
    \E r \in Requests :
        req[r].payment = p /\ req[r].step \in {"updated", "ready"} /\ Writes(r)

Init ==
    /\ state = [o \in Orders |-> "inquiry"]
    /\ status = [p \in Payments |-> Absent]
    /\ charged = {}
    /\ acked = {}
    /\ req = [r \in Requests |-> Idle]
    /\ queue = <<>>
    /\ listener = "subscribed"
    /\ published = {}
    /\ paidOnline = {}
    /\ faulted = FALSE

-----------------------------------------------------------------------------
\* Any other operation moves the order along the table: the trader's commands,
\* the dashboard, the customer.
MoveOrder(o, to) ==
    /\ OSM!Transition(o, to)
    /\ UNCHANGED <<status, charged, acked, req, queue, listener, published,
                   paidOnline, faulted>>

\* create_payment_for_order: the order is confirmed, has an amount and no active
\* payment.  The payment gets a fresh id.
CheckNewPayment(r, p) ==
    /\ req[r].step = "idle"
    /\ status[p] = Absent
    /\ \A q \in Requests : req[q].step # "idle" => req[q].payment # p
    /\ state[OrderOf[p]] = "confirmed"
    /\ OrderOf[p] \in Priced
    /\ \A q \in Payments : OrderOf[q] = OrderOf[p] => status[q] \notin ActiveStatuses
    /\ req' = [req EXCEPT ![r] = [step |-> "checked", payment |-> p,
                                  seen |-> "pending", to |-> "pending"]]
    /\ UNCHANGED <<state, status, charged, acked, queue, listener, published,
                   paidOnline, faulted>>

\* create_payment_for_order: INSERT, payment.created (nobody but the dashboard
\* listens to it) and the commit.
InsertPayment(r) ==
    /\ req[r].step = "checked"
    /\ status' = [status EXCEPT ![req[r].payment] = "pending"]
    /\ req' = [req EXCEPT ![r] = Idle]
    /\ UNCHANGED <<state, charged, acked, queue, listener, published, paidOnline,
                   faulted>>

\* External: the customer pays behind the link, which stays valid.
CustomerPays(p) ==
    /\ status[p] # Absent
    /\ p \notin charged
    /\ charged' = charged \cup {p}
    /\ UNCHANGED <<state, status, acked, req, queue, listener, published,
                   paidOnline, faulted>>

\* Mutant: a payment that failed once is final.
ReceiveWebhookOnce(r, p, to) ==
    /\ req[r].step = "idle"
    /\ Len(queue) < MaxQueue
    /\ to = "success" => p \in charged
    /\ status[p] = "pending"
    /\ req' = [req EXCEPT ![r] = [step |-> "loaded", payment |-> p,
                                  seen |-> status[p], to |-> to]]
    /\ UNCHANGED <<state, status, charged, acked, queue, listener, published,
                   paidOnline, faulted>>

\* The provider calls the webhook: charge.success for a charged payment, as
\* often as it likes; any other event that carries the reference counts as a
\* failure.  A payment already success is acknowledged and left alone.
ReceiveWebhook(r, p, to) ==
    /\ req[r].step = "idle"
    /\ Len(queue) < MaxQueue
    /\ to = "success" => p \in charged
    /\ status[p] \notin {Absent, "success"}
    /\ req' = [req EXCEPT ![r] = [step |-> "loaded", payment |-> p,
                                  seen |-> status[p], to |-> to]]
    /\ UNCHANGED <<state, status, charged, acked, queue, listener, published,
                   paidOnline, faulted>>

\* update_status: the UPDATE waits for the row lock and names the id only.
UpdateStatus(r) ==
    /\ req[r].step = "loaded"
    /\ Writes(r) => ~ PaymentLocked(req[r].payment)
    /\ req' = [req EXCEPT ![r].step = "updated"]
    /\ UNCHANGED <<state, status, charged, acked, queue, listener, published,
                   paidOnline, faulted>>

\* Mutant: payment.confirmed is published for a failure too.
PublishConfirmedAlways(r) ==
    /\ req[r].step = "updated"
    /\ req' = [req EXCEPT ![r].step = "ready"]
    /\ queue' = IF listener = "subscribed" THEN Append(queue, req[r].payment) ELSE queue
    /\ UNCHANGED <<state, status, charged, acked, listener, published,
                   paidOnline, faulted>>

\* Mutant: nothing is published.
PublishConfirmedNever(r) ==
    /\ req[r].step = "updated"
    /\ req' = [req EXCEPT ![r].step = "ready"]
    /\ UNCHANGED <<state, status, charged, acked, queue, listener, published,
                   paidOnline, faulted>>

\* handle_webhook publishes payment.confirmed for a success, before the commit.
\* Redis drops what no subscriber receives.
PublishConfirmed(r) ==
    /\ req[r].step = "updated"
    /\ req' = [req EXCEPT ![r].step = "ready"]
    /\ IF req[r].to = "success"
       THEN /\ queue' = IF listener = "subscribed" THEN Append(queue, req[r].payment) ELSE queue
            /\ published' = published \cup {req[r].payment}
       ELSE UNCHANGED <<queue, published>>
    /\ UNCHANGED <<state, status, charged, acked, listener, paidOnline, faulted>>

\* The commit of handle_webhook's session, and the 200.
CommitWebhook(r) ==
    /\ req[r].step = "ready"
    /\ status' = IF Writes(r) THEN [status EXCEPT ![req[r].payment] = req[r].to]
                 ELSE status
    /\ req' = [req EXCEPT ![r] = Idle]
    /\ acked' = IF req[r].to = "success" THEN acked \cup {req[r].payment} ELSE acked
    /\ UNCHANGED <<state, charged, queue, listener, published, paidOnline, faulted>>

\* The listener handles the oldest event: a confirmed order becomes paid, a paid
\* one is left alone, and any other is logged and skipped.
HandlePaymentConfirmed ==
    /\ queue # <<>>
    /\ LET o == OrderOf[Head(queue)] IN
       IF OSM!ValidTransition(state[o], "paid")
       THEN /\ state' = [state EXCEPT ![o] = "paid"]
            /\ paidOnline' = paidOnline \cup {o}
       ELSE UNCHANGED <<state, paidOnline>>
    /\ queue' = Tail(queue)
    /\ UNCHANGED <<status, charged, acked, req, listener, published, faulted>>

-----------------------------------------------------------------------------
(* Failures.                                                               *)

\* A statement, a publish or the commit of a request raises: get_db rolls back.
AbortRequest(r) ==
    /\ req[r].step # "idle"
    /\ req' = [req EXCEPT ![r] = Idle]
    /\ faulted' = TRUE
    /\ UNCHANGED <<state, status, charged, acked, queue, listener, published, paidOnline>>

\* The listener's handler raises: create_global_listener_task logs it and goes on
\* with the next event.
DropConfirmed ==
    /\ queue # <<>>
    /\ queue' = Tail(queue)
    /\ faulted' = TRUE
    /\ UNCHANGED <<state, status, charged, acked, req, listener, published, paidOnline>>

\* The process restarts: open transactions are rolled back, received events and
\* the subscription are gone, and HTTP may be served before it is back.
Restart ==
    /\ req' = [r \in Requests |-> Idle]
    /\ queue' = <<>>
    /\ listener' = "starting"
    /\ faulted' = TRUE
    /\ UNCHANGED <<state, status, charged, acked, published, paidOnline>>

\* The listener task's PSUBSCRIBE goes through.
Subscribe ==
    /\ listener = "starting"
    /\ listener' = "subscribed"
    /\ UNCHANGED <<state, status, charged, acked, req, queue, published,
                   paidOnline, faulted>>

\* The connection of the listener breaks: the exception leaves the loop around the
\* handler, and the task is over until the process restarts.
LoseConnection ==
    /\ listener # "dead"
    /\ listener' = "dead"
    /\ queue' = <<>>
    /\ faulted' = TRUE
    /\ UNCHANGED <<state, status, charged, acked, req, published, paidOnline>>

-----------------------------------------------------------------------------
RequestStep(r) ==
    InsertPayment(r) \/ UpdateStatus(r) \/ PublishConfirmed(r) \/ CommitWebhook(r)

ReportSuccess(p) == p \notin acked /\ \E r \in Requests : ReceiveWebhook(r, p, "success")

Next ==
    \/ \E o \in Orders, to \in OSM!OrderState : MoveOrder(o, to)
    \/ \E r \in Requests, p \in Payments :
           CheckNewPayment(r, p) \/ \E to \in {"success", "failed"} : ReceiveWebhook(r, p, to)
    \/ \E p \in Payments : CustomerPays(p)
    \/ \E r \in Requests : RequestStep(r) \/ AbortRequest(r)
    \/ HandlePaymentConfirmed \/ DropConfirmed
    \/ Restart \/ Subscribe \/ LoseConnection

Spec == Init /\ [][Next]_vars

\* The server and the listener go on with what they have begun, and the provider
\* repeats charge.success until it is acknowledged.  Requests is a bound of the
\* model: the server has a handler for every call, hence the strong fairness.
Fairness ==
    /\ \A r \in Requests : WF_vars(RequestStep(r))
    /\ WF_vars(HandlePaymentConfirmed)
    /\ WF_vars(Subscribe)
    /\ \A p \in Payments : SF_vars(ReportSuccess(p))

FairSpec == Spec /\ Fairness

-----------------------------------------------------------------------------
(* Properties.                                                             *)

\* Every variable of the checkout has its type.
TypeOK ==
    /\ state \in [Orders -> OSM!OrderState]
    /\ status \in [Payments -> PaymentStatus \cup {Absent}]
    /\ charged \subseteq Payments
    /\ acked \subseteq Payments
    /\ req \in [Requests -> Req]
    /\ queue \in Seq(Payments)
    /\ listener \in {"starting", "subscribed", "dead"}
    /\ published \subseteq Payments
    /\ paidOnline \subseteq Orders
    /\ faulted \in BOOLEAN

\* The listener never gives goods away: an order it moved to paid has a payment
\* that the provider charged, whatever was lost, duplicated or rolled back after
\* handle_webhook published.
PaidOnlineWasCharged ==
    \A o \in paidOnline : \E p \in charged : OrderOf[p] = o

\* A payment is success only when the provider charged it and payment.confirmed
\* was published for it: no committed success is silent.
SuccessWasPublished ==
    \A p \in Payments : status[p] = "success" => p \in charged \cap published

\* Whatever is lost, repeated or rolled back, the database says no more than the provider
\* did: neither an order paid online nor a payment that is success lacks its charge, and
\* a success is never silent (handle_webhook, handle_payment_confirmed).
MoneyBacksState == PaidOnlineWasCharged /\ SuccessWasPublished

\* What a webhook request knows: a success is the provider's word, and before the
\* commit the event is out.
WebhookInv(r) ==
    /\ req[r].step \in {"loaded", "updated", "ready"} /\ req[r].to = "success" =>
           req[r].payment \in charged
    /\ req[r].step = "ready" /\ req[r].to = "success" => req[r].payment \in published

\* Every payment.confirmed on its way is about money that was taken.
QueuedWasCharged == \A i \in DOMAIN queue : queue[i] \in charged

\* The inductive invariant of the checkout.
IInv ==
    /\ TypeOK
    /\ \A r \in Requests : WebhookInv(r)
    /\ QueuedWasCharged
    /\ PaidOnlineWasCharged
    /\ SuccessWasPublished

\* As long as nothing fails, a charged payment of a confirmed order ends in an order
\* that is paid, unless somebody cancels it first.
ChargedOrderIsSettled ==
    \A p \in Payments :
        p \in charged /\ state[OrderOf[p]] = "confirmed"
            ~> state[OrderOf[p]] \in OSM!Terminal \/ faulted
=============================================================================
