------------------------- MODULE OrderTransactions -------------------------
(***************************************************************************)
(* The database transactions that move an order through its life.  Every   *)
(* operation of OrderService loads the order, validates the move against   *)
(* the state it loaded, flushes the UPDATE (which takes the row lock),     *)
(* publishes order.state_changed and only then commits; a move to paid     *)
(* also books the sale in the trader's customer list and advances the      *)
(* trader's referral before the commit.  Postgres runs the transactions at *)
(* READ COMMITTED and the rows carry no version number.                    *)
(*                                                                         *)
(* The sessions are the HTTP requests of the dashboard, any number of      *)
(* which are in flight, and the three listener tasks that touch orders,    *)
(* each of which handles one event at a time.  The model has one trader:   *)
(* rows of different traders never meet.                                   *)
(***************************************************************************)
EXTENDS Naturals, FiniteSets

CONSTANTS
    Orders,         \* order ids
    Customers,      \* entries of the trader's customer list
    CustomerOf,     \* the customer each order belongs to
    HttpRequests,   \* request handlers of the dashboard API
    Faults,         \* BOOLEAN: may statements, publishes and the process fail?
    MaxTxns         \* bound: transactions started in a behaviour

VARIABLES
    state,          \* orders.state, as committed
    total,          \* customer_list.total_orders, as committed; 0: no entry
    referral,       \* referrals.status of the trader, as committed
    txn,            \* per session: the transaction it is running
    events,         \* order events published so far
    started,        \* number of transactions started, at most MaxTxns
    \* History variables, which no action reads:
    history,        \* <<order, from, to>>: the changes of state committed so far
    sales,          \* number of sales committed, per customer
    overlapped,     \* orders on which two transactions were open at a time
    crossed         \* customers of whom a sale was committed while another
                    \* session had read their entry and not written it yet

vars == <<state, total, referral, txn, events, history, started, sales,
          overlapped, crossed>>

OSM == INSTANCE OrderStateMachine

Absent == OSM!Absent
OrderState == OSM!OrderState
Terminal == OSM!Terminal

\* Mutant: the table lets an inquiry become paid.
ValidTransitionUnconfirmed(from, to) ==
    OSM!ValidTransition(from, to) \/ (from = "inquiry" /\ to = "paid")

\* Mutant: a move to the state the order is in passes.
ValidTransitionRepeated(from, to) == OSM!ValidTransition(from, to) \/ from = to

ValidTransition(from, to) == OSM!ValidTransition(from, to)

Listeners == {"order_intent", "payment_confirmed", "credit_sale"}
Sessions == HttpRequests \cup Listeners

ASSUME CustomerAssumption == CustomerOf \in [Orders -> Customers]
ASSUME OrdersAssumption == Orders # {}
ASSUME FaultsAssumption == Faults \in BOOLEAN
ASSUME MaxTxnsAssumption == MaxTxns \in Nat

-----------------------------------------------------------------------------
(* A session's transaction.                                                *)

\* Where a session stands:
\*   idle       no transaction
\*   loaded     the order was read, nothing is written
\*   updated    the UPDATE of the order is flushed
\*   announced  order.state_changed is published, the sale is to be booked
\*   counting   the customer list entry was read
\*   listed     the customer list entry is flushed
\*   referred   the referral is advanced
\*   doomed     a flush failed: the session accepts nothing but a rollback
\*   ready      only the commit is left
Steps == {"idle", "loaded", "updated", "announced", "counting", "listed",
          "referred", "doomed", "ready"}

\* order, seen and target: the move from the loaded state; count: the value
\* of total_orders the session read, then the one it wrote; advanced: the
\* session wrote the referral row.
Txn == [step : Steps, order : Orders, seen : OrderState \cup {Absent},
        target : OrderState, count : Nat, advanced : BOOLEAN]

\* Steps at which the session holds the lock of the order's row, and of the
\* customer list entry: Postgres keeps a lock until the transaction ends.
HoldsOrder == {"updated", "announced", "counting", "listed", "referred", "ready"}
HoldsEntry == {"listed", "referred"}

OrderLocked(o) ==
    \E s \in Sessions : txn[s].order = o /\ txn[s].step \in HoldsOrder

BooksSale(t) == t.step \in HoldsEntry \/ (t.step = "ready" /\ t.target = "paid")

EntryLocked(c) ==
    \E s \in Sessions : BooksSale(txn[s]) /\ CustomerOf[txn[s].order] = c

ReferralLocked == \E s \in Sessions : txn[s].step # "idle" /\ txn[s].advanced

Go(s, step) == txn' = [txn EXCEPT ![s].step = step]

Idle == [step |-> "idle", order |-> CHOOSE o \in Orders : TRUE, seen |-> Absent,
         target |-> "inquiry", count |-> 0, advanced |-> FALSE]

EndTxn(s) == txn' = [txn EXCEPT ![s] = Idle]

-----------------------------------------------------------------------------
Init ==
    /\ state = [o \in Orders |-> Absent]
    /\ total = [c \in Customers |-> 0]
    /\ referral = "signed_up"
    /\ txn = [s \in Sessions |-> Idle]
    /\ events = {}
    /\ history = {}
    /\ started = 0
    /\ sales = [c \in Customers |-> 0]
    /\ overlapped = {}
    /\ crossed = {}

\* A session has a transaction on the order.
InUse(o) == \E s \in Sessions : txn[s].step # "idle" /\ txn[s].order = o

\* A session opens a transaction that aims to move order o to target.  Nothing in
\* the code keeps two transactions on one order apart.
Begin(s, o, step, target) ==
    /\ txn[s].step = "idle"
    /\ started < MaxTxns
    /\ started' = started + 1
    /\ overlapped' = IF InUse(o) THEN overlapped \cup {o} ELSE overlapped
    /\ txn' = [txn EXCEPT ![s] = [step |-> step, order |-> o, seen |-> state[o],
                                  target |-> target, count |-> 0,
                                  advanced |-> FALSE]]

\* get_by_id or get_by_ref_prefix finds the order and the handler goes on to
\* move it to target.
Load(s, o, target) ==
    /\ state[o] # Absent
    /\ Begin(s, o, "loaded", target)
    /\ UNCHANGED <<state, total, referral, events, history, sales, crossed>>

-----------------------------------------------------------------------------
(* Operations: who starts which move.                                      *)

\* A fresh UUID: no row, committed or not, and no event carries it.
FreshId(o) ==
    /\ state[o] = Absent
    /\ ~ OrderLocked(o)
    /\ \A e \in events : e.order # o

\* POST /orders without an open order in the conversation: INSERT, then
\* order.created; the commit is left.
CreateOrder(s, o) ==
    /\ s \in HttpRequests
    /\ FreshId(o)
    /\ Begin(s, o, "ready", "inquiry")
    /\ events' = events \cup {[order |-> o, from |-> Absent, to |-> "inquiry"]}
    /\ UNCHANGED <<state, total, referral, history, sales, crossed>>

\* The customer's message is an order: the INSERT of the chat flow, which
\* publishes nothing.
CreateChatOrder(o) ==
    /\ FreshId(o)
    /\ Begin("order_intent", o, "ready", "inquiry")
    /\ UNCHANGED <<state, total, referral, events, history, sales, crossed>>

\* POST /orders/{id}/confirm, and the trader's CONFIRM command.
ConfirmOrder(s, o) ==
    /\ s \in HttpRequests \cup {"order_intent"}
    /\ Load(s, o, "confirmed")

\* POST /orders/{id}/pay and /complete, and the trader's PAID command.
MarkOrderPaid(s, o) ==
    /\ s \in HttpRequests \cup {"order_intent"}
    /\ Load(s, o, "paid")

\* The trader taps "payment received" under the customer's claim.
PaymentReceivedTap(o) ==
    /\ state[o] = "confirmed"
    /\ Load("order_intent", o, "paid")

\* POST /orders/{id}/fail, and the trader's CANCEL command.
FailOrder(s, o) ==
    /\ s \in HttpRequests \cup {"order_intent"}
    /\ Load(s, o, "failed")

\* The customer answers the order summary with NO: only an inquiry is
\* cancelled.
CustomerCancel(o) ==
    /\ state[o] = "inquiry"
    /\ Load("order_intent", o, "failed")

\* The payment.confirmed listener; an order already paid is left alone.
HandlePaymentConfirmed(o) ==
    /\ state[o] # "paid"
    /\ Load("payment_confirmed", o, "paid")

\* The credit_sale.status_changed listener, for a settled or written off
\* sale; an order in a terminal state is left alone.
HandleCreditSaleResolved(o) ==
    /\ state[o] \notin Terminal
    /\ Load("credit_sale", o, "paid")

-----------------------------------------------------------------------------
(* The steps of a transaction.                                             *)

\* validate_transition raises on the loaded state: ConflictError, nothing is
\* written and the transaction ends.
RejectTransition(s) ==
    /\ txn[s].step = "loaded"
    /\ ~ ValidTransition(txn[s].seen, txn[s].target)
    /\ EndTxn(s)
    /\ UNCHANGED <<state, total, referral, events, history, started, sales,
                   overlapped, crossed>>

\* Mutant: order.state_changed is not published.
UpdateStateSilent(s) ==
    /\ txn[s].step = "loaded"
    /\ ValidTransition(txn[s].seen, txn[s].target)
    /\ ~ OrderLocked(txn[s].order)
    /\ Go(s, IF txn[s].target = "paid" THEN "announced" ELSE "ready")
    /\ UNCHANGED <<state, total, referral, events, history, started, sales,
                   overlapped, crossed>>

\* update_state: the UPDATE waits for the row lock.  Its WHERE clause names the
\* id only, so it overwrites whatever was committed since the load.
UpdateState(s) ==
    /\ txn[s].step = "loaded"
    /\ ValidTransition(txn[s].seen, txn[s].target)
    /\ ~ OrderLocked(txn[s].order)
    /\ Go(s, "updated")
    /\ UNCHANGED <<state, total, referral, events, history, started, sales,
                   overlapped, crossed>>

\* Mutant: a sale is not booked.
PublishStateChangedOnly(s) ==
    /\ txn[s].step = "updated"
    /\ events' = events \cup {[order |-> txn[s].order, from |-> txn[s].seen,
                               to |-> txn[s].target]}
    /\ Go(s, "ready")
    /\ UNCHANGED <<state, total, referral, history, started, sales,
                   overlapped, crossed>>

\* _transition publishes order.state_changed; only a sale has more to do.
PublishStateChanged(s) ==
    /\ txn[s].step = "updated"
    /\ events' = events \cup {[order |-> txn[s].order, from |-> txn[s].seen,
                               to |-> txn[s].target]}
    /\ Go(s, IF txn[s].target = "paid" THEN "announced" ELSE "ready")
    /\ UNCHANGED <<state, total, referral, history, started, sales,
                   overlapped, crossed>>

\* upsert_customer reads the entry of the order's customer.
ReadCustomer(s) ==
    /\ txn[s].step = "announced"
    /\ txn' = [txn EXCEPT ![s] = [@ EXCEPT !.step = "counting",
                                           !.count = total[CustomerOf[txn[s].order]]]]
    /\ UNCHANGED <<state, total, referral, events, history, started, sales,
                   overlapped, crossed>>

\* Mutant: the upsert also locks the customer's other orders.
UpsertCustomerLockingOrders(s) ==
    LET c == CustomerOf[txn[s].order] IN
    /\ txn[s].step = "counting"
    /\ ~ EntryLocked(c)
    /\ \A t \in Sessions \ {s} :
           ~ (txn[t].step \in HoldsOrder /\ CustomerOf[txn[t].order] = c)
    /\ txn' = [txn EXCEPT ![s] = [@ EXCEPT !.step = "listed",
                                           !.count = txn[s].count + 1]]
    /\ UNCHANGED <<state, total, referral, events, history, started, sales,
                   overlapped, crossed>>

\* Mutant: total_orders of an entry that exists is left as it is.
UpsertCustomerListedOnly(s) ==
    LET c == CustomerOf[txn[s].order] IN
    /\ txn[s].step = "counting"
    /\ ~ EntryLocked(c)
    /\ IF txn[s].count = 0 /\ total[c] # 0
       THEN Go(s, "doomed")
       ELSE txn' = [txn EXCEPT ![s] = [@ EXCEPT !.step = "listed",
                                   !.count = IF @ = 0 THEN 1 ELSE @]]
    /\ UNCHANGED <<state, total, referral, events, history, started, sales,
                   overlapped, crossed>>

\* upsert_customer flushes the entry: total_orders of what was read plus one,
\* or a new entry.  Either waits for the writer of the same entry.  A new entry
\* that has meanwhile been committed by another violates
\* uq_customer_list_trader_customer.
UpsertCustomer(s) ==
    LET c == CustomerOf[txn[s].order] IN
    /\ txn[s].step = "counting"
    /\ ~ EntryLocked(c)
    /\ IF txn[s].count = 0 /\ total[c] # 0
       THEN Go(s, "doomed")
       ELSE txn' = [txn EXCEPT ![s] = [@ EXCEPT !.step = "listed",
                                                !.count = txn[s].count + 1]]
    /\ UNCHANGED <<state, total, referral, events, history, started, sales,
                   overlapped, crossed>>

\* _do_paid_transition swallows the failed upsert, but the session has already
\* rolled back: its next use of the order raises and nothing is committed.
RaisePendingRollback(s) ==
    /\ txn[s].step = "doomed"
    /\ EndTxn(s)
    /\ UNCHANGED <<state, total, referral, events, history, started, sales,
                   overlapped, crossed>>

\* advance_referral_to_first_order: the UPDATE matches a signed_up row only, and
\* re-reads the row when it had to wait for it.
AdvanceReferral(s) ==
    /\ txn[s].step = "listed"
    /\ referral = "signed_up" => ~ ReferralLocked
    /\ txn' = [txn EXCEPT ![s] = [@ EXCEPT !.step = "referred",
                                           !.advanced = (referral = "signed_up")]]
    /\ UNCHANGED <<state, total, referral, events, history, started, sales,
                   overlapped, crossed>>

\* _do_paid_transition publishes order.paid.
PublishPaid(s) ==
    /\ txn[s].step = "referred"
    /\ Go(s, "ready")
    /\ UNCHANGED <<state, total, referral, events, history, started, sales,
                   overlapped, crossed>>

\* Another session has read the customer's entry to count on from it.
EntryRead(s, c) ==
    \E t \in Sessions \ {s} : txn[t].step = "counting" /\ CustomerOf[txn[t].order] = c

\* The commit makes every flushed row visible and releases the locks.
Commit(s) ==
    LET t == txn[s]
        c == CustomerOf[t.order]
    IN
    /\ t.step = "ready"
    /\ state' = [state EXCEPT ![t.order] = t.target]
    /\ history' = history \cup {<<t.order, state[t.order], t.target>>}
    /\ IF BooksSale(t)
       THEN /\ total' = [total EXCEPT ![c] = t.count]
            /\ sales' = [sales EXCEPT ![c] = @ + 1]
            /\ crossed' = IF EntryRead(s, c) THEN crossed \cup {c} ELSE crossed
       ELSE UNCHANGED <<total, sales, crossed>>
    /\ referral' = IF t.advanced THEN "first_order" ELSE referral
    /\ EndTxn(s)
    /\ UNCHANGED <<events, started, overlapped>>

\* A statement or a publish fails, a statement waits longer than
\* statement_timeout, or the process dies: the transaction is rolled back.  What
\* it published stays published.
Abort(s) ==
    /\ Faults
    /\ txn[s].step # "idle"
    /\ EndTxn(s)
    /\ UNCHANGED <<state, total, referral, events, history, started, sales,
                   overlapped, crossed>>

-----------------------------------------------------------------------------
Operation(s, o) ==
    \/ CreateOrder(s, o)
    \/ ConfirmOrder(s, o)
    \/ MarkOrderPaid(s, o)
    \/ FailOrder(s, o)

ListenerOperation(o) ==
    \/ CreateChatOrder(o)
    \/ PaymentReceivedTap(o)
    \/ CustomerCancel(o)
    \/ HandlePaymentConfirmed(o)
    \/ HandleCreditSaleResolved(o)

Step(s) ==
    \/ RejectTransition(s)
    \/ UpdateState(s)
    \/ PublishStateChanged(s)
    \/ ReadCustomer(s)
    \/ UpsertCustomer(s)
    \/ RaisePendingRollback(s)
    \/ AdvanceReferral(s)
    \/ PublishPaid(s)
    \/ Commit(s)

Next ==
    \/ \E s \in Sessions, o \in Orders : Operation(s, o)
    \/ \E o \in Orders : ListenerOperation(o)
    \/ \E s \in Sessions : Step(s) \/ Abort(s)

Spec == Init /\ [][Next]_vars

\* The event loop runs every coroutine that can go on, and Postgres wakes the
\* statement that waits for a released row lock.
Fairness == \A s \in Sessions : WF_vars(Step(s))

FairSpec == Spec /\ Fairness

-----------------------------------------------------------------------------
(* Properties.                                                             *)

Event == [order : Orders, from : OrderState \cup {Absent}, to : OrderState]

\* Every variable of the transactions has its type.
TypeOK ==
    /\ state \in [Orders -> OrderState \cup {Absent}]
    /\ total \in [Customers -> Nat]
    /\ referral \in {"signed_up", "first_order"}
    /\ txn \in [Sessions -> Txn]
    /\ events \subseteq Event
    /\ history \subseteq Orders \X (OrderState \cup {Absent}) \X OrderState
    /\ started \in 0..MaxTxns
    /\ sales \in [Customers -> Nat]
    /\ overlapped \subseteq Orders
    /\ crossed \subseteq Customers

\* A confirmation of the order was committed.
WasConfirmed(o) ==
    \E from \in OrderState \cup {Absent} : <<o, from, "confirmed">> \in history

\* Whatever transactions overlap, an order that is paid had been confirmed in a
\* committed state before: no race lets _do_paid_transition skip the trader's
\* confirmation.
PaidWasConfirmed ==
    \A o \in Orders : state[o] = "paid" => WasConfirmed(o)

\* The paid state, the customer list entry and the referral are one transaction
\* of _do_paid_transition: no reader sees an order paid whose customer is not
\* listed or whose trader's referral has not advanced.
PaidIsBooked ==
    \A o \in Orders : state[o] = "paid" =>
        /\ total[CustomerOf[o]] > 0
        /\ referral = "first_order"

\* However transactions overlap and fail, a sale that a reader sees came about in order:
\* confirmed first, and booked with the trader (_do_paid_transition).
PaidIsEarned == PaidWasConfirmed /\ PaidIsBooked

\* An event that names the move of the order to the state was published.
Announced(o, to) == \E e \in events : e.order = o /\ e.to = to

\* _transition publishes before the caller commits: a state other than inquiry
\* is never visible before an order.state_changed event named it.
VisibleWasAnnounced ==
    \A o \in Orders : state[o] \in OrderState \ {"inquiry"} => Announced(o, state[o])

\* Even a lost update of orders.state never takes an order back to inquiry or
\* out of the table, and none is overwritten by a stale confirmation unless it
\* had once been an inquiry.
NeverBackToInquiry ==
    [][\A o \in Orders : state[o] \in OrderState =>
            /\ state'[o] \in OrderState
            /\ state'[o] = "inquiry" => state[o] = "inquiry"]_state

\* The inductive invariant behind the properties above: what a session knows at
\* each step of its transaction.  A stale read is still a state that was
\* committed, so the move it validates had its precondition met once; the row
\* lock and the commit order give the rest.
TxnInv(s) ==
    LET t == txn[s] IN
    /\ t.step # "idle" /\ t.seen = "confirmed" => WasConfirmed(t.order)
    /\ t.step \notin {"idle", "loaded"} /\ t.target # "inquiry" =>
           ValidTransition(t.seen, t.target)
    /\ t.step # "idle" /\ t.target # "inquiry" => state[t.order] # Absent
    /\ t.target = "inquiry" => t.step \in {"idle", "ready"}
    /\ t.step = "ready" /\ t.target = "inquiry" =>
           state[t.order] = Absent /\ t.seen = Absent
    /\ t.step \in {"announced", "counting", "doomed", "listed", "referred"} =>
           t.target = "paid"
    /\ t.step \in {"announced", "counting", "listed", "referred", "ready"}
           /\ t.target # "inquiry" => Announced(t.order, t.target)
    /\ BooksSale(t) => t.count > 0
    /\ t.step \in {"referred", "ready"} /\ t.target = "paid" =>
           t.advanced \/ referral = "first_order"

\* No two sessions hold the lock of one order's row.
RowLock ==
    \A s, t \in Sessions :
        /\ s # t
        /\ txn[s].step \in HoldsOrder
        /\ txn[t].step \in HoldsOrder
        => txn[s].order # txn[t].order

ConfirmedInHistory == \A o \in Orders : state[o] = "confirmed" => WasConfirmed(o)

IInv ==
    /\ TypeOK
    /\ RowLock
    /\ \A s \in Sessions : TxnInv(s)
    /\ ConfirmedInHistory
    /\ PaidWasConfirmed
    /\ PaidIsBooked
    /\ VisibleWasAnnounced

\* An order on which transactions never overlapped has one open transaction at most,
\* and what that one loaded is what is committed until it ends.
SerialInv ==
    \A s \in Sessions : txn[s].step # "idle" /\ txn[s].order \notin overlapped =>
        /\ state[txn[s].order] = txn[s].seen
        /\ \A t \in Sessions \ {s} : txn[t].step # "idle" => txn[t].order # txn[s].order

\* The states that the open transactions on an order loaded.
ViewsOf(o) == {txn[s].seen : s \in {r \in Sessions : txn[r].step # "idle" /\ txn[r].order = o}}

Views == [o \in Orders |-> ViewsOf(o)]

SO == INSTANCE SharedOrders WITH views <- Views

\* The committed states follow the transition table while transactions on an order do
\* not overlap; where they do, each still moves the order as the table allows from a state
\* that was committed while one of them was open (validate_transition is given the loaded
\* state, the UPDATE names the id only).
ImplementsSharedOrders == SO!SharedSpec

\* The paid orders of a customer.
PaidOf(c) == {o \in Orders : CustomerOf[o] = c /\ state[o] = "paid"}

\* total_orders of a customer never exceeds the sales committed, and falls short of them
\* only if a sale was committed between the read of the entry and its write by another
\* (upsert_customer); a sale is a paid order, each booked once, unless transactions
\* overlapped on an order of the customer.
TotalsAreSales ==
    \A c \in Customers :
        /\ total[c] <= sales[c]
        /\ c \notin crossed => total[c] = sales[c]
        /\ (\A o \in overlapped : CustomerOf[o] # c) => sales[c] = Cardinality(PaidOf(c))

\* Every transaction ends: the row locks are taken in the order orders,
\* customer_list, referrals by every session, so none waits in a cycle.
EveryTxnEnds == \A s \in Sessions : txn[s].step # "idle" ~> txn[s].step = "idle"
=============================================================================
