---------------------------- MODULE CreditSales ----------------------------
(***************************************************************************)
(* The debt book: credit sales created by the dashboard, by the trader's   *)
(* CREDIT command on an order and by the DEBT command; their settlement by *)
(* the dashboard, by a button tap and by customer name; the                *)
(* credit_sale.status_changed event and the listener that completes the    *)
(* linked order.  The status change is committed before the event is       *)
(* published.  The order itself moves in one step (OrderTransactions opens *)
(* that step up).                                                          *)
(***************************************************************************)
EXTENDS Naturals, Sequences, FiniteSets

CONSTANTS
    Orders,
    NoOrder,        \* the order_id of a debt that is not linked to an order
    Sales,          \* credit sale ids
    OrderOf,        \* the order a sale is linked to, or NoOrder
    HttpRequests,   \* request handlers of the dashboard API
    Naira,          \* kobo in a naira
    Debt,           \* the amount of an order or a debt, in kobo
    MaxDebts,       \* bound: orders with a sale, and debts without an order
    MaxQueue        \* bound: no status changes while so many events wait

VARIABLES
    state,          \* orders.state, as committed
    isCredit,       \* orders.is_credit, as committed
    status,         \* credit_sales.status, as committed
    amount,         \* credit_sales.amount, as committed
    repaid,         \* per sale: what the customer paid back in parts, in kobo
    txn,            \* per session: what it is doing
    queue,          \* credit_sale.status_changed events the listener has received
    resolved,       \* sales that were ever committed settled or written off
    completed,      \* orders the listener moved to paid
    lost            \* sales of which a failure or a restart swallowed an event

vars == <<state, isCredit, status, amount, repaid, txn, queue, resolved,
          completed, lost>>

OSM == INSTANCE OrderStateMachine

Absent == OSM!Absent
CreditSaleStatus == {"active", "settled", "disputed", "written_off"}

\* _RESOLVING_STATUSES of the listener.
Resolving == {"settled", "written_off"}

Sessions == HttpRequests \cup {"order_intent"}

ASSUME NoOrderAssumption == NoOrder \notin Orders
ASSUME OrderOfAssumption == OrderOf \in [Sales -> Orders \cup {NoOrder}]
ASSUME SalesAssumption == Sales # {}
ASSUME NairaAssumption == Naira \in Nat \ {0}
ASSUME DebtAssumption == Debt \in Nat /\ Debt >= Naira
ASSUME BoundsAssumption == MaxQueue \in Nat /\ MaxDebts \in Nat

-----------------------------------------------------------------------------
\* Where a session stands:
\*   idle        no transaction
\*   creating    the checks before the INSERT of a sale passed
\*   flagging    the sale of a CREDIT command is committed, is_credit is to be set
\*   loaded      the sale was read
\*   updated     the UPDATE of the sale is flushed
\*   committed   the change is committed, the event is to be published
Steps == {"idle", "creating", "flagging", "loaded", "updated", "committed"}

\* sale, seen and to: the status read and the one to write; pays: a partial
\* payment, in naira; rest: the amount in naira that was read; after: what
\* follows the commit.
Txn == [step : Steps, sale : Sales, seen : CreditSaleStatus, to : CreditSaleStatus,
        pays : Nat, rest : Nat, after : {"nothing", "flag", "publish"}]

Idle == [step |-> "idle", sale |-> CHOOSE x \in Sales : TRUE, seen |-> "active",
         to |-> "active", pays |-> 0, rest |-> 0, after |-> "nothing"]

Go(s, step) == txn' = [txn EXCEPT ![s].step = step]

EndTxn(s) == txn' = [txn EXCEPT ![s] = Idle]

\* The session emits an UPDATE only for a column that changes.
Writes(t) == t.seen # t.to \/ t.pays > 0

SaleLocked(x) ==
    \E s \in Sessions : txn[s].sale = x /\ txn[s].step = "updated" /\ Writes(txn[s])

\* uq_credit_sales_order_id; NULLs do not clash.
OrderTaken(x) ==
    OrderOf[x] # NoOrder /\ \E y \in Sales : OrderOf[y] = OrderOf[x] /\ status[y] # Absent

\* Sales in the book, and those about to be.
Used ==
    {x \in Sales : status[x] # Absent}
        \cup {txn[s].sale : s \in {t \in Sessions : txn[t].step = "creating"}}

\* A fresh UUID.
FreshSale(x) ==
    /\ x \notin Used
    /\ Cardinality({OrderOf[y] : y \in Used \cup {x}}) <= MaxDebts

Init ==
    /\ state = [o \in Orders |-> "inquiry"]
    /\ isCredit = [o \in Orders |-> FALSE]
    /\ status = [x \in Sales |-> Absent]
    /\ amount = [x \in Sales |-> 0]
    /\ repaid = [x \in Sales |-> 0]
    /\ txn = [s \in Sessions |-> Idle]
    /\ queue = <<>>
    /\ resolved = {}
    /\ completed = {}
    /\ lost = {}

-----------------------------------------------------------------------------
\* Any other operation moves the order along the table; the trader's PAID command
\* is one of them and leaves the credit sale alone.
MoveOrder(o, to) ==
    /\ OSM!Transition(o, to)
    /\ UNCHANGED <<isCredit, status, amount, repaid, txn, queue, resolved,
                   completed, lost>>

(* Creation.                                                               *)

Start(s, x, step, to, pays, after) ==
    /\ txn[s].step = "idle"
    /\ Len(queue) < MaxQueue
    /\ txn' = [txn EXCEPT ![s] =
                  [step |-> step, sale |-> x,
                   seen |-> IF status[x] = Absent THEN "active" ELSE status[x],
                   to |-> to, pays |-> pays, rest |-> amount[x] \div Naira,
                   after |-> after]]
    /\ UNCHANGED <<state, isCredit, status, amount, repaid, queue, resolved,
                   completed, lost>>

\* POST /credit-sales: get_by_order_id found no sale of the order.
CreateCreditSale(s, x) ==
    /\ s \in HttpRequests
    /\ OrderOf[x] \in Orders
    /\ FreshSale(x)
    /\ ~ OrderTaken(x)
    /\ Start(s, x, "creating", "active", 0, "nothing")

\* Mutant: CREDIT sets the flag first and does not wait for the sale.
CreditCommandFlagFirst(x) ==
    /\ OrderOf[x] \in Orders
    /\ FreshSale(x)
    /\ ~ isCredit[OrderOf[x]]
    /\ Start("order_intent", x, "flagging", "active", 0, "flag")

\* The trader's CREDIT command: in whatever state the order is, its is_credit is
\* not set.
CreditCommand(x) ==
    /\ OrderOf[x] \in Orders
    /\ FreshSale(x)
    /\ ~ isCredit[OrderOf[x]]
    /\ Start("order_intent", x, "creating", "active", 0, "flag")

\* The DEBT command: a debt without an order.
CreateDebt(x) ==
    /\ OrderOf[x] = NoOrder
    /\ FreshSale(x)
    /\ Start("order_intent", x, "creating", "active", 0, "nothing")

\* The WhatsApp commands create debts of whole naira, CREDIT by dropping the kobo
\* of the order's amount; the dashboard takes any amount.
NewAmount(t) ==
    IF t.after = "flag" \/ OrderOf[t.sale] = NoOrder
    THEN (Debt \div Naira) * Naira
    ELSE Debt

\* Mutant: the table has no uq_credit_sales_order_id.
InsertSaleUnchecked(s) ==
    LET x == txn[s].sale IN
    /\ txn[s].step = "creating"
    /\ status' = [status EXCEPT ![x] = "active"]
    /\ amount' = [amount EXCEPT ![x] = NewAmount(txn[s])]
    /\ IF txn[s].after = "flag" THEN Go(s, "flagging") ELSE EndTxn(s)
    /\ UNCHANGED <<state, isCredit, repaid, queue, resolved, completed, lost>>

\* The INSERT and its commit, or the IntegrityError of a second sale of the
\* order, which ends the operation.
InsertSale(s) ==
    LET x == txn[s].sale IN
    /\ txn[s].step = "creating"
    /\ IF OrderTaken(x)
       THEN EndTxn(s) /\ UNCHANGED <<status, amount>>
       ELSE /\ status' = [status EXCEPT ![x] = "active"]
            /\ amount' = [amount EXCEPT ![x] = NewAmount(txn[s])]
            /\ IF txn[s].after = "flag" THEN Go(s, "flagging") ELSE EndTxn(s)
    /\ UNCHANGED <<state, isCredit, repaid, queue, resolved, completed, lost>>

\* CREDIT goes on to set is_credit, in the order's own session.
FlagOrder(s) ==
    /\ txn[s].step = "flagging"
    /\ isCredit' = [isCredit EXCEPT ![OrderOf[txn[s].sale]] = TRUE]
    /\ EndTxn(s)
    /\ UNCHANGED <<state, status, amount, repaid, queue, resolved, completed, lost>>

-----------------------------------------------------------------------------
(* Settlement.                                                             *)

\* POST /credit-sales/{id}/settle, /dispute and /write-off: whatever the status.
ChangeStatus(s, x, to) ==
    /\ s \in HttpRequests
    /\ status[x] # Absent
    /\ to # "active"
    /\ Start(s, x, "loaded", to, 0, "publish")

\* _handle_debt_settle: the trader taps an active debt.
DebtSettleTap(x) ==
    /\ status[x] = "active"
    /\ Start("order_intent", x, "loaded", "settled", 0, "publish")

\* Mutant: a payment of exactly the debt counts as a partial one.
SettleDebtStrict(x, paid) ==
    /\ status[x] = "active"
    /\ paid > 0
    /\ IF paid > amount[x] \div Naira
       THEN Start("order_intent", x, "loaded", "settled", 0, "nothing")
       ELSE Start("order_intent", x, "loaded", status[x], paid, "nothing")

\* _do_settle_debt: the one active debt under the customer's name (names differ in
\* the model); a payment that does not cover the whole naira of the debt reduces
\* it.  Nothing is published.
SettleDebt(x, paid) ==
    /\ status[x] = "active"
    /\ paid > 0
    /\ IF paid >= amount[x] \div Naira
       THEN Start("order_intent", x, "loaded", "settled", 0, "nothing")
       ELSE Start("order_intent", x, "loaded", status[x], paid, "nothing")

\* Mutant: the event is published before the commit.
UpdateSalePublishing(s) ==
    /\ txn[s].step = "loaded"
    /\ Writes(txn[s]) => ~ SaleLocked(txn[s].sale)
    /\ Go(s, "updated")
    /\ queue' = Append(queue, [sale |-> txn[s].sale, to |-> txn[s].to])
    /\ UNCHANGED <<state, isCredit, status, amount, repaid, resolved, completed, lost>>

\* The flush waits for the row lock; the UPDATE names the id only.
UpdateSale(s) ==
    /\ txn[s].step = "loaded"
    /\ Writes(txn[s]) => ~ SaleLocked(txn[s].sale)
    /\ Go(s, "updated")
    /\ UNCHANGED <<state, isCredit, status, amount, repaid, queue, resolved,
                   completed, lost>>

\* The commit: the columns that changed become visible.
CommitSale(s) ==
    LET t == txn[s]
        x == t.sale IN
    /\ t.step = "updated"
    /\ status' = IF t.seen # t.to THEN [status EXCEPT ![x] = t.to] ELSE status
    /\ amount' = IF t.pays > 0 THEN [amount EXCEPT ![x] = (t.rest - t.pays) * Naira]
                 ELSE amount
    /\ repaid' = [repaid EXCEPT ![x] = repaid[x] + t.pays * Naira]
    /\ resolved' = IF t.to \in Resolving THEN resolved \cup {x} ELSE resolved
    /\ IF t.after = "publish" THEN Go(s, "committed") ELSE EndTxn(s)
    /\ UNCHANGED <<state, isCredit, queue, completed, lost>>

\* _publish_status_changed, after the commit.
PublishStatusChanged(s) ==
    /\ txn[s].step = "committed"
    /\ queue' = Append(queue, [sale |-> txn[s].sale, to |-> txn[s].to])
    /\ EndTxn(s)
    /\ UNCHANGED <<state, isCredit, status, amount, repaid, resolved, completed, lost>>

\* Mutant: a write-off does not complete the order.
HandleStatusChangedSettled ==
    /\ queue # <<>>
    /\ LET e == Head(queue)
           o == OrderOf[e.sale] IN
       IF /\ e.to = "settled"
          /\ o # NoOrder
          /\ OSM!ValidTransition(state[o], "paid")
       THEN /\ state' = [state EXCEPT ![o] = "paid"]
            /\ completed' = completed \cup {o}
       ELSE UNCHANGED <<state, completed>>
    /\ queue' = Tail(queue)
    /\ UNCHANGED <<isCredit, status, amount, repaid, txn, resolved, lost>>

\* The listener handles the oldest event: a resolved sale completes its order if
\* the table allows; anything else is skipped.
HandleStatusChanged ==
    /\ queue # <<>>
    /\ LET e == Head(queue)
           o == OrderOf[e.sale] IN
       IF /\ e.to \in Resolving
          /\ o # NoOrder
          /\ OSM!ValidTransition(state[o], "paid")
       THEN /\ state' = [state EXCEPT ![o] = "paid"]
            /\ completed' = completed \cup {o}
       ELSE UNCHANGED <<state, completed>>
    /\ queue' = Tail(queue)
    /\ UNCHANGED <<isCredit, status, amount, repaid, txn, resolved, lost>>

-----------------------------------------------------------------------------
(* Failures.                                                               *)

\* A statement, a commit or the publish raises, and the session goes no further.
AbortTxn(s) ==
    /\ txn[s].step # "idle"
    /\ EndTxn(s)
    /\ lost' = IF txn[s].step = "committed" THEN lost \cup {txn[s].sale} ELSE lost
    /\ UNCHANGED <<state, isCredit, status, amount, repaid, queue, resolved, completed>>

\* The listener's handler raises: the error is logged and the event is gone.
DropStatusChanged ==
    /\ queue # <<>>
    /\ lost' = lost \cup {Head(queue).sale}
    /\ queue' = Tail(queue)
    /\ UNCHANGED <<state, isCredit, status, amount, repaid, txn, resolved, completed>>

\* The process restarts: sessions and received events are gone.
Restart ==
    /\ lost' = lost \cup {queue[i].sale : i \in DOMAIN queue}
                    \cup {txn[s].sale : s \in {t \in Sessions : txn[t].step = "committed"}}
    /\ txn' = [s \in Sessions |-> Idle]
    /\ queue' = <<>>
    /\ UNCHANGED <<state, isCredit, status, amount, repaid, resolved, completed>>

-----------------------------------------------------------------------------
Create(x) ==
    \/ \E s \in HttpRequests : CreateCreditSale(s, x)
    \/ CreditCommand(x)
    \/ CreateDebt(x)

Settle(x) ==
    \/ \E s \in HttpRequests, to \in CreditSaleStatus : ChangeStatus(s, x, to)
    \/ DebtSettleTap(x)
    \/ \E paid \in 1..(Debt \div Naira) : SettleDebt(x, paid)

Step(s) ==
    \/ InsertSale(s)
    \/ FlagOrder(s)
    \/ UpdateSale(s)
    \/ CommitSale(s)
    \/ PublishStatusChanged(s)

Next ==
    \/ \E o \in Orders, to \in OSM!OrderState : MoveOrder(o, to)
    \/ \E x \in Sales : Create(x) \/ Settle(x)
    \/ \E s \in Sessions : Step(s) \/ AbortTxn(s)
    \/ HandleStatusChanged
    \/ DropStatusChanged
    \/ Restart

Spec == Init /\ [][Next]_vars

\* The event loop runs every coroutine that can go on, the listener included.
Fairness == WF_vars(HandleStatusChanged) /\ \A s \in Sessions : WF_vars(Step(s))

FairSpec == Spec /\ Fairness

-----------------------------------------------------------------------------
(* Properties.                                                             *)

\* Every variable of the debt book has its type.
TypeOK ==
    /\ state \in [Orders -> OSM!OrderState]
    /\ isCredit \in [Orders -> BOOLEAN]
    /\ status \in [Sales -> CreditSaleStatus \cup {Absent}]
    /\ amount \in [Sales -> Nat]
    /\ repaid \in [Sales -> Nat]
    /\ txn \in [Sessions -> Txn]
    /\ queue \in Seq([sale : Sales, to : CreditSaleStatus])
    /\ resolved \subseteq Sales
    /\ completed \subseteq Orders
    /\ lost \subseteq Sales

\* models.py: one credit sale per order, whatever creations overlap.
OneSalePerOrder ==
    \A x, y \in Sales :
        /\ OrderOf[x] = OrderOf[y] /\ OrderOf[x] # NoOrder
        /\ status[x] # Absent /\ status[y] # Absent
        => x = y

\* The CREDIT command writes the sale and the order's flag in two transactions,
\* in the order that leaves no order marked credit without its debt.
CreditFlagHasSale ==
    \A o \in Orders : isCredit[o] => \E x \in Sales : OrderOf[x] = o /\ status[x] # Absent

\* The debt book and the orders agree, wherever the dashboard's and the trader's ways to
\* sell on credit overlap or stop.
BookMatchesOrders == OneSalePerOrder /\ CreditFlagHasSale

\* The event follows the commit, so that the listener completes no order whose
\* sale was not resolved in a committed state.
CompletedWasResolved ==
    \A o \in completed : \E x \in resolved : OrderOf[x] = o

\* What a session knows: the sale it works on is in the book, a partial payment is
\* less than the debt, and the event follows the commit.
TxnInv(s) ==
    LET t == txn[s] IN
    /\ t.step \in {"flagging", "loaded", "updated", "committed"} => status[t.sale] # Absent
    /\ (t.step = "creating" /\ t.after = "flag") \/ t.step = "flagging" =>
           OrderOf[t.sale] # NoOrder
    /\ t.step \in {"loaded", "updated"} /\ t.pays > 0 => t.pays < t.rest
    /\ t.step = "committed" /\ t.to \in Resolving => t.sale \in resolved

\* Every resolution that the listener has received was committed.
QueuedWasResolved ==
    \A i \in DOMAIN queue : queue[i].to \in Resolving => queue[i].sale \in resolved

\* The inductive invariant of the debt book.
IInv ==
    /\ TypeOK
    /\ \A s \in Sessions : TxnInv(s)
    /\ QueuedWasResolved
    /\ OneSalePerOrder
    /\ CreditFlagHasSale
    /\ CompletedWasResolved

\* _do_settle_debt reads the amount and writes it back reduced: the payments in
\* parts and the rest make up the debt but for the kobo that int() drops, and no
\* partial payment empties a debt.
PartsMakeUpTheDebt ==
    \A x \in Sales : status[x] # Absent =>
        /\ amount[x] + repaid[x] \in (Debt - Naira + 1)..Debt
        /\ amount[x] > 0

\* A resolution of a confirmed order's sale that is going to be published completes
\* the order, unless it is cancelled first or a failure swallows the event.
PublishedResolutionCompletes ==
    \A s \in Sessions, x \in Sales :
        (/\ txn[s].step = "committed" /\ txn[s].sale = x /\ txn[s].to \in Resolving
         /\ OrderOf[x] # NoOrder
         /\ state[OrderOf[x]] = "confirmed")
        ~> (x \in lost \/ (OrderOf[x] # NoOrder /\ state[OrderOf[x]] \in OSM!Terminal))
=============================================================================
