---------------------------- MODULE CustomerChat ----------------------------
(***************************************************************************)
(* One customer and one trader on WhatsApp: the customer's order session   *)
(* in Redis, the orders it refers to, and bargaining over their price.     *)
(* All their messages pass through one listener task, which handles one    *)
(* after the other; the dashboard works on the same orders meanwhile,      *)
(* sessions expire, and a handler may raise or die between any two writes. *)
(* Quiet mode is left out: a message that it drops has no effect, like one *)
(* that was never sent.                                                    *)
(***************************************************************************)
EXTENDS Naturals, FiniteSets

CONSTANTS
    MaxOrders,      \* bound: orders in a behaviour
    MaxTrouble,     \* bound: faults, timeouts and edits, one of a kind per order
    ListPrice,      \* catalogue price of the product
    Quantities,     \* quantities a customer may choose
    Offers          \* prices named while bargaining

VARIABLES
    state,          \* orders.state, as committed
    amount,         \* orders.amount, as committed; 0 without items
    placed,         \* number of orders created
    session,        \* order:session of the customer
    neg,            \* the pending negotiation
    bargained,      \* the trader has the buttons that answer an offer
    job,            \* the message that the listener is handling
    asked,          \* totals at which the trader was asked to confirm an order
    recorded,       \* orders with a notification row order.trader_notify.{id}
    accepted,       \* prices the trader accepted or named for an order
    cancelled,      \* orders that the customer cancelled
    edited,         \* orders whose items the dashboard changed
    faulted,        \* orders whose handler raised or died
    unsure          \* orders of which Meta took the request and the call timed out

redis == <<session, neg>>
book == <<state, amount, placed>>
past == <<bargained, asked, recorded, accepted, cancelled, edited, faulted, unsure>>
vars == <<book, redis, job, past>>

OSM == INSTANCE OrderStateMachine WITH Orders <- 1..MaxOrders

Absent == OSM!Absent
Orders == 1..MaxOrders
NoOrder == 0
None == [order |-> NoOrder, offered |-> 0, original |-> 0]
NoSession == [kind |-> "none", order |-> NoOrder, total |-> 0]

ASSUME MaxOrdersAssumption == MaxOrders \in Nat
ASSUME MaxTroubleAssumption == MaxTrouble \in Nat
ASSUME ListPriceAssumption == ListPrice \in Nat \ {0}
ASSUME QuantitiesAssumption == Quantities \subseteq Nat \ {0}
ASSUME OffersAssumption == Offers \subseteq Nat \ {0}

-----------------------------------------------------------------------------
\* What the listener does next with the message at hand:
\*   insert    create the order             open      store the session that asks
\*   ask       ask the trader to confirm                for YES or NO
\*   close     delete the session           commit    commit the new quantity
\*   cancel    the customer's NO: fail it   resume    restore the clarification or
\*   fail      the trader's CANCEL                      delete the session
\*   escalate  send the trader the offer    offer     store the negotiation
Steps == {"idle", "insert", "open", "ask", "close", "commit", "cancel", "resume", "fail",
          "escalate", "offer"}

\* total: the price in the session; due: the amount that is flushed and not committed,
\* 0 for none.
Job == [step : Steps, order : Orders \cup {NoOrder}, total : Nat, due : Nat, offered : Nat]

Idle == [step |-> "idle", order |-> NoOrder, total |-> 0, due |-> 0, offered |-> 0]

Totals == {n * ListPrice : n \in Quantities}

\* The listener takes the next message when it is done with the last one.
Handle(j) ==
    /\ job.step = "idle"
    /\ job' = j
    /\ UNCHANGED <<book, redis, past>>

Go(step) == job' = [job EXCEPT !.step = step]

Done == job' = Idle

\* A flushed UPDATE of the order holds its row lock.
Locked(o) == job.order = o /\ job.due > 0

Trouble(e, f, u) == Cardinality(e) + Cardinality(f) + Cardinality(u)

\* get_open_order_for_conversation, get_open_order_by_customer_phone.
LatestOpen(o) ==
    /\ state[o] \in {"inquiry", "confirmed"}
    /\ \A p \in Orders : p > o => state[p] \notin {"inquiry", "confirmed"}

Init ==
    /\ state = [o \in Orders |-> Absent]
    /\ amount = [o \in Orders |-> 0]
    /\ placed = 0
    /\ session = NoSession
    /\ neg = None
    /\ bargained = FALSE
    /\ job = Idle
    /\ asked = {}
    /\ recorded = {}
    /\ accepted = {}
    /\ cancelled = {}
    /\ edited = {}
    /\ faulted = {}
    /\ unsure = {}

-----------------------------------------------------------------------------
(* Messages that place an order.                                           *)

NewOrder(total) == [Idle EXCEPT !.step = "insert", !.order = placed + 1, !.total = total]

\* A cart of the store page, a photo that matches the catalogue, or the trader's
\* price for a photo: whatever session there is.
Place(total) ==
    /\ placed < MaxOrders
    /\ Handle(NewOrder(total))

\* handle_cart_order.
CartOrder(total) == Place(total)

\* A photo is a payment receipt while the latest open order is confirmed.
PhotoMatched ==
    /\ \A o \in Orders : LatestOpen(o) => state[o] # "confirmed"
    /\ Place(ListPrice)

\* _handle_image_inquiry_reply: the trader's price for a photo that was forwarded.
\* The pending inquiry itself is left out: it has no say in the order.
PriceReply == Place(ListPrice)

\* Free text that is an order, or the number of an item of the list.  The first thing
\* any such message does to a clarification is to delete it.
TextOrder(total) ==
    /\ job.step = "idle"
    /\ session.kind # "confirming"
    /\ placed < MaxOrders
    /\ session' = NoSession
    /\ job' = NewOrder(total)
    /\ UNCHANGED <<book, neg, past>>

\* YES or NO to a clarifying question is no answer to the guards of a missing
\* session: it falls through to an order without items.
EmptyOrder ==
    /\ session.kind = "clarifying"
    /\ TextOrder(0)

\* The assistant asks back.
Question ==
    /\ job.step = "idle"
    /\ session.kind # "confirming"
    /\ session' = [NoSession EXCEPT !.kind = "clarifying"]
    /\ UNCHANGED <<book, neg, job, past>>

\* Chat, a general complaint about the price, a payment notice: an answer, and the
\* end of a clarification.
Chat ==
    /\ job.step = "idle"
    /\ session.kind = "clarifying"
    /\ session' = NoSession
    /\ UNCHANGED <<book, neg, job, past>>

-----------------------------------------------------------------------------
(* Messages that answer the order summary.                                 *)

\* Prices are positive, so an order with items has an amount.
HasItems(o) == amount[o] > 0

OpenInquiry(o) == o # NoOrder /\ state[o] = "inquiry"

EndSession == [Idle EXCEPT !.step = "close"]

AskTraderFor(o, total, due) ==
    [Idle EXCEPT !.step = "ask", !.order = o, !.total = total, !.due = due]

\* Mutant: YES does not look at the order's state.
YesUnchecked ==
    /\ session.kind = "confirming"
    /\ session.order # NoOrder
    /\ Handle(AskTraderFor(session.order, session.total, 0))

\* YES: the order must still be an inquiry.
Yes ==
    /\ session.kind = "confirming"
    /\ Handle(IF OpenInquiry(session.order)
              THEN AskTraderFor(session.order, session.total, 0)
              ELSE EndSession)

\* A quantity sets the first item and the amount, and counts as YES.
Quantity(n) ==
    /\ session.kind = "confirming"
    /\ Handle(IF ~ OpenInquiry(session.order) THEN EndSession
              ELSE IF HasItems(session.order)
              THEN AskTraderFor(session.order, n * ListPrice, n * ListPrice)
              ELSE AskTraderFor(session.order, session.total, 0))

\* NO fails an order that is still an inquiry.
No ==
    /\ session.kind = "confirming"
    /\ Handle([Idle EXCEPT !.step = IF OpenInquiry(session.order) THEN "cancel" ELSE "resume",
                           !.order = session.order])

\* Bargaining ends the session; a price goes to the trader.  (A number up to 1000
\* in the message makes it a quantity instead.)
Bargain(offer) ==
    /\ job.step = "idle"
    /\ session.kind = "confirming"
    /\ session' = NoSession
    /\ job' = IF offer > 0 /\ session.total > 0
              THEN [Idle EXCEPT !.step = "escalate", !.order = session.order,
                                !.total = session.total, !.offered = offer]
              ELSE Idle
    /\ UNCHANGED <<book, neg, past>>

-----------------------------------------------------------------------------
(* Messages of the trader.                                                 *)

\* The answer to an offer deletes the negotiation and opens the session again.
Answer(price) ==
    /\ job.step = "idle"
    /\ bargained
    /\ neg' = None
    /\ job' = [Idle EXCEPT !.step = "open", !.order = neg.order, !.total = price]
    /\ UNCHANGED <<book, session, bargained, asked, recorded, cancelled, edited,
                   faulted, unsure>>

\* The trader takes or names the price: it is agreed from here on.
Agree(price) ==
    accepted' = IF neg.order = NoOrder THEN accepted ELSE accepted \cup {<<neg.order, price>>}

Accept ==
    /\ neg # None
    /\ Answer(neg.offered)
    /\ Agree(neg.offered)

\* Mutant: the price that the trader declined goes back to the customer.
DeclineOffered ==
    /\ neg # None
    /\ Answer(neg.offered)
    /\ UNCHANGED accepted

\* The customer is offered the price from before.
Decline ==
    /\ neg # None
    /\ Answer(neg.original)
    /\ UNCHANGED accepted

\* A price typed after a tap on "counter": the negotiation may be gone by then, and
\* the session is stored all the same, without an order.
Counter(price) ==
    /\ Answer(price)
    /\ Agree(price)

\* CANCEL by the trader ends the customer's session, whichever order it is about.
TraderCancel(o) ==
    /\ OSM!ValidTransition(state[o], "failed")
    /\ Handle([Idle EXCEPT !.step = "fail", !.order = o])

-----------------------------------------------------------------------------
(* The steps of the listener.                                              *)

At(step) == job.step = step

\* Mutant: the order is flushed and not committed before the session is stored.
InsertUncommitted ==
    /\ At("insert")
    /\ Go("open")
    /\ UNCHANGED <<book, redis, past>>

\* The order and its items are committed together.
Insert ==
    /\ At("insert")
    /\ state' = [state EXCEPT ![job.order] = "inquiry"]
    /\ amount' = [amount EXCEPT ![job.order] = job.total]
    /\ placed' = job.order
    /\ Go("open")
    /\ UNCHANGED <<redis, past>>

Open ==
    /\ At("open")
    /\ session' = [kind |-> "confirming", order |-> job.order, total |-> job.total]
    /\ Done
    /\ UNCHANGED <<book, neg, past>>

\* Mutant: the notification has no event id to be recognised by.
AskTraderAgain ==
    /\ At("ask")
    /\ asked' = asked \cup {<<job.order, job.total>>}
    /\ recorded' = recorded \cup {job.order}
    /\ Go("close")
    /\ UNCHANGED <<book, redis, bargained, accepted, cancelled, edited, faulted, unsure>>

\* _reply_interactive: an event id that has a row is not sent again; the row is
\* written once Meta took the message.
AskTrader ==
    /\ At("ask")
    /\ asked' = IF job.order \in recorded THEN asked ELSE asked \cup {<<job.order, job.total>>}
    /\ recorded' = recorded \cup {job.order}
    /\ Go("close")
    /\ UNCHANGED <<book, redis, bargained, accepted, cancelled, edited, faulted, unsure>>

\* Meta refuses: the error is swallowed and the customer is told that the trader
\* will confirm.
AskFails ==
    /\ At("ask")
    /\ job.order \notin recorded
    /\ Go("close")
    /\ UNCHANGED <<book, redis, past>>

\* Meta takes the message and the call times out: swallowed too, without a row.
AskTimesOut ==
    /\ At("ask")
    /\ job.order \notin recorded
    /\ asked' = asked \cup {<<job.order, job.total>>}
    /\ unsure' = unsure \cup {job.order}
    /\ Trouble(edited, faulted, unsure') <= MaxTrouble
    /\ Go("close")
    /\ UNCHANGED <<book, redis, bargained, recorded, accepted, cancelled, edited, faulted>>

Close ==
    /\ At("close")
    /\ session' = NoSession
    /\ IF job.due > 0 THEN Go("commit") ELSE Done
    /\ UNCHANGED <<book, neg, past>>

\* The end of the listener's begin() block.
Commit ==
    /\ At("commit")
    /\ amount' = [amount EXCEPT ![job.order] = job.due]
    /\ Done
    /\ UNCHANGED <<state, placed, redis, past>>

\* The state that was read with the order decides; the UPDATE looks at no state.
Cancel ==
    /\ At("cancel")
    /\ state' = [state EXCEPT ![job.order] = "failed"]
    /\ cancelled' = cancelled \cup {job.order}
    /\ Go("resume")
    /\ UNCHANGED <<amount, placed, redis, bargained, asked, recorded, accepted,
                   edited, faulted, unsure>>

\* The last numbered list is kept for ten minutes beside the session; whether it is
\* still there is left open.
Resume(list) ==
    /\ At("resume")
    /\ session' = IF list THEN [NoSession EXCEPT !.kind = "clarifying"] ELSE NoSession
    /\ Done
    /\ UNCHANGED <<book, neg, past>>

Fail ==
    /\ At("fail")
    /\ state' = [state EXCEPT ![job.order] = "failed"]
    /\ Go("close")
    /\ UNCHANGED <<amount, placed, redis, past>>

\* A failed send is swallowed, and the negotiation stored all the same.
Escalate(delivered) ==
    /\ At("escalate")
    /\ bargained' = (bargained \/ delivered)
    /\ Go("offer")
    /\ UNCHANGED <<book, redis, asked, recorded, accepted, cancelled, edited, faulted, unsure>>

Offer ==
    /\ At("offer")
    /\ neg' = [order |-> job.order, offered |-> job.offered, original |-> job.total]
    /\ Done
    /\ UNCHANGED <<book, session, past>>

\* A call to Redis or PostgreSQL raises, or the process dies: what is flushed is
\* rolled back, what is done stays done, and the message does not come again.
Abort ==
    /\ ~ At("idle")
    /\ faulted' = faulted \cup ({job.order} \ {NoOrder})
    /\ Trouble(edited, faulted', unsure) <= MaxTrouble
    /\ Done
    /\ UNCHANGED <<book, redis, bargained, asked, recorded, accepted, cancelled, edited, unsure>>

-----------------------------------------------------------------------------
(* The dashboard, and time.                                                *)

\* Any transition that the state machine allows, by the dashboard or by CONFIRM
\* and PAID of the trader.
MoveOrder(o) ==
    /\ ~ Locked(o)
    /\ \E to \in OSM!OrderState : OSM!Transition(o, to)
    /\ UNCHANGED <<amount, placed, redis, job, past>>

SetItems(o, n) ==
    /\ ~ Locked(o)
    /\ amount' = [amount EXCEPT ![o] = n * ListPrice]
    /\ edited' = edited \cup {o}
    /\ Trouble(edited', faulted, unsure) <= MaxTrouble
    /\ UNCHANGED <<state, placed, redis, job, bargained, asked, recorded, accepted, cancelled,
                   faulted, unsure>>

\* add_items: the amount is that of the new items alone.
AddItems(o, n) ==
    /\ state[o] \in {"inquiry", "confirmed"}
    /\ SetItems(o, n)

\* create_order upserts the latest open order, possibly without items.
ReplaceItems(o, n) ==
    /\ LatestOpen(o)
    /\ SetItems(o, n)

SessionExpires ==
    /\ session # NoSession
    /\ session' = NoSession
    /\ UNCHANGED <<book, neg, job, past>>

NegotiationExpires ==
    /\ neg # None
    /\ neg' = None
    /\ UNCHANGED <<book, session, job, past>>

-----------------------------------------------------------------------------
CustomerSays ==
    \/ \E total \in Totals : CartOrder(total) \/ TextOrder(total)
    \/ PhotoMatched
    \/ EmptyOrder
    \/ Question
    \/ Chat
    \/ Yes
    \/ \E n \in Quantities : Quantity(n)
    \/ No
    \/ \E offer \in Offers \cup {0} : Bargain(offer)

TraderSays ==
    \/ PriceReply
    \/ Accept
    \/ Decline
    \/ \E price \in Offers : Counter(price)
    \/ \E o \in Orders : TraderCancel(o)

Listener ==
    \/ Insert \/ Open \/ AskTrader \/ AskFails \/ AskTimesOut \/ Close \/ Commit
    \/ Cancel \/ Fail
    \/ \E list \in BOOLEAN : Resume(list)
    \/ \E delivered \in BOOLEAN : Escalate(delivered)
    \/ Offer \/ Abort

Dashboard ==
    \E o \in Orders :
        \/ MoveOrder(o)
        \/ \E n \in Quantities : AddItems(o, n)
        \/ \E n \in Quantities \cup {0} : ReplaceItems(o, n)

Expiry == SessionExpires \/ NegotiationExpires

Next == CustomerSays \/ TraderSays \/ Listener \/ Dashboard \/ Expiry

Spec == Init /\ [][Next]_vars

-----------------------------------------------------------------------------
\* Type correctness.  The session is none, a clarification or an order summary, and
\* only a summary names an order and a total.
TypeOK ==
    /\ state \in [Orders -> OSM!OrderState \cup {Absent}]
    /\ amount \in [Orders -> Nat]
    /\ placed \in 0..MaxOrders
    /\ session \in [kind : {"confirming"}, order : Orders \cup {NoOrder}, total : Nat]
                  \cup {NoSession, [NoSession EXCEPT !.kind = "clarifying"]}
    /\ neg \in [order : Orders \cup {NoOrder}, offered : Nat, original : Nat]
    /\ bargained \in BOOLEAN
    /\ job \in Job
    /\ asked \subseteq Orders \X Nat
    /\ recorded \subseteq Orders
    /\ accepted \subseteq Orders \X Nat
    /\ cancelled \subseteq Orders
    /\ edited \subseteq Orders
    /\ faulted \subseteq Orders
    /\ unsure \subseteq Orders

\* An order summary or a pending negotiation is about an order that is in the
\* database, whichever write was the last one before a fault (the exception is the
\* summary without an order after a negotiation expired).
SessionOrderIsStored ==
    /\ session.order # NoOrder => state[session.order] # Absent
    /\ neg.order # NoOrder => state[neg.order] # Absent

\* The trader is asked to confirm an order at one total only, through any number of
\* YES, quantities, rounds of bargaining and faults, unless a call to Meta timed out.
AskedOnce ==
    \A p, q \in asked : p[1] = q[1] /\ p[1] \notin unsure => p = q

\* The total at which the trader was asked is the order's amount or a price that the
\* trader took or named, once the listener is done with the order, unless the
\* dashboard changed its items or its handler faulted.
AskedIsAgreed ==
    \A p \in asked :
        \/ p[2] = amount[p[1]]
        \/ p \in accepted
        \/ p[1] \in edited \cup faulted
        \/ job.order = p[1]

\* The trader is never asked to confirm an order that the customer has cancelled,
\* even when the session outlived the cancellation.
CancelledIsNotAsked ==
    [][\A p \in asked' \ asked : p[1] \notin cancelled]_vars

-----------------------------------------------------------------------------
(* The inductive invariant behind SessionOrderIsStored and                 *)
(* CancelledIsNotAsked.                                                    *)

\* What a handler knows of its order.
JobOK(j) ==
    /\ j.step \in {"ask", "cancel"} => j.order \in Orders \ cancelled
    /\ j.step = "fail" => j.order \in Orders
    /\ IF j.step = "insert" THEN j.order = placed + 1 /\ j.order \in Orders
       ELSE j.order # NoOrder => state[j.order] # Absent

\* Orders are created in turn, and what the customer cancelled stays failed.
BookInv ==
    /\ \A o \in Orders : o > placed => state[o] = Absent
    /\ \A o \in cancelled : state[o] = "failed"

IInv == TypeOK /\ SessionOrderIsStored /\ BookInv /\ JobOK(job)

\* An order that the trader was asked about has a row, unless the call timed out.
AskedInv ==
    /\ AskedOnce
    /\ \A p \in asked : p[1] \in recorded \cup unsure

=============================================================================
