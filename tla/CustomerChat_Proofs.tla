------------------------ MODULE CustomerChat_Proofs ------------------------
(***************************************************************************)
(* Proofs about CustomerChat, for any number of orders, faults and edits,  *)
(* and for all prices and quantities.                                      *)
(***************************************************************************)
EXTENDS CustomerChat, TLAPS

\* The idle listener's record, and what a handler makes of it.
LEMMA IdleIsJob == Idle \in Job
  BY DEF Idle, Job, Steps, NoOrder

\* A quantity times the price is a natural number.
LEMMA TotalsAreNatural == \A n \in Quantities \cup {0} : n * ListPrice \in Nat
<1>1. ListPrice \in Nat /\ \A n \in Quantities \cup {0} : n \in Nat
  BY ListPriceAssumption, QuantitiesAssumption
<1> QED BY <1>1

\* A handler that has only begun keeps the invariant if its record is right.
LEMMA HandleStep ==
    ASSUME IInv, NEW j \in Job, JobOK(j), job' = j, UNCHANGED <<book, redis, past>>
    PROVE  IInv'
<1>1. TypeOK'
  BY Zenon DEF IInv, TypeOK, book, redis, past
<1>2. SessionOrderIsStored' /\ BookInv'
  BY DEF IInv, SessionOrderIsStored, BookInv, book, redis, past
<1>3. JobOK(job)'
  BY DEF JobOK, book, past
<1> QED BY <1>1, <1>2, <1>3 DEF IInv

\* The record of a handler that creates an order.
LEMMA NewOrderStep ==
    ASSUME IInv, placed < MaxOrders, NEW total \in Nat
    PROVE  NewOrder(total) \in Job /\ JobOK(NewOrder(total)) /\ NewOrder(total).step = "insert"
<1>1. placed \in 0..MaxOrders
  BY DEF IInv, TypeOK
<1>2. placed + 1 \in Orders
  BY <1>1, MaxOrdersAssumption DEF Orders
<1>3. NewOrder(total) \in Job
  BY <1>2 DEF NewOrder, Idle, Job, Steps
<1>4. JobOK(NewOrder(total)) /\ NewOrder(total).step = "insert"
  BY <1>2 DEF NewOrder, Idle, JobOK
<1> QED BY <1>3, <1>4

\* A message that places an order.
LEMMA PlaceStep == ASSUME IInv, NEW total \in Nat, Place(total) PROVE IInv'
  BY NewOrderStep, HandleStep DEF Place, Handle

\* The customer's answers to a summary.
LEMMA AnswerStep ==
    ASSUME IInv, Yes \/ (\E n \in Quantities : Quantity(n)) \/ No
    PROVE  IInv'
<1> DEFINE o == session.order
           t == session.total
<1>1. o \in Orders \cup {NoOrder} /\ t \in Nat /\ (o # NoOrder => state[o] # Absent)
  BY DEF IInv, TypeOK, SessionOrderIsStored, NoSession, NoOrder
<1>2. OpenInquiry(o) => o \in Orders \ cancelled
  BY <1>1 DEF OpenInquiry, IInv, BookInv
<1>3. ASSUME NEW total \in Nat, NEW due \in Nat, OpenInquiry(o)
      PROVE  AskTraderFor(o, total, due) \in Job /\ JobOK(AskTraderFor(o, total, due))
  BY <1>1, <1>2, <1>3 DEF AskTraderFor, Idle, Job, Steps, JobOK, NoOrder
<1>4. EndSession \in Job /\ JobOK(EndSession)
  BY DEF EndSession, Idle, Job, Steps, JobOK, NoOrder
<1>5. CASE Yes
  BY <1>1, <1>3, <1>4, <1>5, HandleStep DEF Yes, Handle
<1>6. ASSUME NEW n \in Quantities, Quantity(n) PROVE IInv'
  <2>1. n * ListPrice \in Nat
    BY TotalsAreNatural
  <2> QED BY <1>1, <1>3, <1>4, <1>6, <2>1, HandleStep DEF Quantity, Handle
<1>7. CASE No
  <2> DEFINE j == [Idle EXCEPT !.step = IF OpenInquiry(o) THEN "cancel" ELSE "resume", !.order = o]
  <2>1. j \in Job /\ JobOK(j)
    BY <1>1, <1>2 DEF Idle, Job, Steps, JobOK, NoOrder
  <2>2. job' = j /\ UNCHANGED <<book, redis, past>>
    BY <1>7 DEF No, Handle
  <2> QED BY <2>1, <2>2, HandleStep
<1> QED BY <1>5, <1>6, <1>7

\* What only changes sessions and history leaves the orders as they are.
LEMMA BookStep == ASSUME BookInv, UNCHANGED <<state, placed, cancelled>> PROVE BookInv'
  BY DEF BookInv

\* The next step of the same handler, with the same order.
LEMMA GoStep ==
    ASSUME IInv, NEW s \in Steps \ {"ask", "cancel", "insert", "fail"}, job.step # "insert", Go(s)
    PROVE  job' \in Job /\ JobOK(job') /\ job'.step = s
<1>1. job' \in Job /\ job'.step = s /\ job'.order = job.order
  BY DEF IInv, TypeOK, Go, Job
<1> QED BY <1>1 DEF IInv, JobOK

\* Steps that write to Redis or history, and leave the orders alone.
LEMMA SessionStep ==
    ASSUME IInv, NEW j \in Job, job' = j, JobOK(j), TypeOK', SessionOrderIsStored',
           UNCHANGED <<state, placed, cancelled>>
    PROVE  IInv'
<1>1. BookInv'
  BY BookStep DEF IInv
<1>2. JobOK(job)'
  BY DEF JobOK
<1> QED BY <1>1, <1>2 DEF IInv

\* A listener without a message.
LEMMA IdleOK == JobOK(Idle)
  BY DEF Idle, JobOK, NoOrder

\* The sessions that are stored.
LEMMA SessionTypes ==
    ASSUME TypeOK
    PROVE  /\ session.order \in Orders \cup {NoOrder}
           /\ session.total \in Nat
           /\ session.kind = "none" => session = NoSession
  BY DEF TypeOK, NoSession, NoOrder

\* The session is replaced, everything else that is typed stays or is as before.
LEMMA SessionTyped ==
    ASSUME IInv, job' \in Job, UNCHANGED <<book, neg, past>>,
           \/ session' = NoSession
           \/ session' = [NoSession EXCEPT !.kind = "clarifying"]
           \/ session' \in [kind : {"confirming"}, order : Orders \cup {NoOrder}, total : Nat]
    PROVE  TypeOK'
  BY Zenon DEF IInv, TypeOK, book, past

\* Closing a session, or turning it into a clarification.
LEMMA CloseStep ==
    ASSUME IInv, NEW j \in Job, job' = j, JobOK(j), UNCHANGED <<book, neg, past>>,
           session' \in {NoSession, [NoSession EXCEPT !.kind = "clarifying"]}
    PROVE  IInv'
<1>1. TypeOK'
  BY SessionTyped
<1>2. session'.order = NoOrder
  BY DEF NoSession
<1>3. SessionOrderIsStored'
  BY <1>2 DEF IInv, SessionOrderIsStored, book
<1> QED BY <1>1, <1>3, SessionStep DEF book, past

\* set_order_session at the end of a handler: the order is in the database.
LEMMA OpenStep == ASSUME IInv, Open PROVE IInv'
<1>1. job.order \in Orders \cup {NoOrder} /\ job.total \in Nat
  BY DEF IInv, TypeOK, Job
<1>2. job.order # NoOrder => state[job.order] # Absent
  BY DEF Open, At, IInv, JobOK
<1>3. TypeOK'
  BY <1>1, SessionTyped, IdleIsJob DEF Open, Done
<1>4. SessionOrderIsStored'
  BY <1>2 DEF Open, IInv, SessionOrderIsStored, book
<1> QED BY <1>3, <1>4, SessionStep, IdleIsJob, IdleOK DEF Open, Done, book, past

\* The commit of a new order.
LEMMA InsertStep == ASSUME IInv, Insert PROVE IInv'
<1>1. job.order \in Orders /\ job.order = placed + 1 /\ job.total \in Nat
  BY DEF Insert, At, IInv, TypeOK, Job, JobOK
<1>2. placed' \in 0..MaxOrders /\ placed' = placed + 1 /\ placed \in Nat
  BY <1>1, MaxOrdersAssumption DEF Insert, Orders, IInv, TypeOK
<1>3. /\ state' = [state EXCEPT ![job.order] = "inquiry"]
      /\ state \in [Orders -> OSM!OrderState \cup {Absent}]
  BY DEF Insert, IInv, TypeOK
<1>4. job' \in Job /\ job'.step = "open" /\ job'.order = job.order
  BY DEF Insert, Go, IInv, TypeOK, Job, Steps
<1>5. TypeOK'
  <2>1. state' \in [Orders -> OSM!OrderState \cup {Absent}]
    BY <1>3 DEF OSM!OrderState
  <2>2. amount' \in [Orders -> Nat]
    BY <1>1 DEF Insert, IInv, TypeOK
  <2> QED BY <1>2, <1>4, <2>1, <2>2, Zenon DEF Insert, IInv, TypeOK, redis, past
<1>6. \A o \in Orders : state'[o] # state[o] =>
          o = job.order /\ state[o] = Absent /\ state'[o] = "inquiry"
  BY <1>1, <1>2, <1>3 DEF IInv, BookInv, Orders
<1>7. "inquiry" # Absent
  BY DEF Absent, OSM!Absent
<1>8. SessionOrderIsStored'
  <2>1. session.order \in Orders \cup {NoOrder} /\ neg.order \in Orders \cup {NoOrder}
    BY SessionTypes DEF IInv, TypeOK
  <2> QED BY <1>6, <1>7, <2>1 DEF Insert, redis, IInv, SessionOrderIsStored
<1>9. BookInv'
  <2>1. \A o \in Orders : o > placed' => state'[o] = Absent
    BY <1>1, <1>2, <1>3 DEF IInv, BookInv, Orders
  <2>2. \A o \in cancelled : o \in Orders /\ state[o] = "failed"
    BY DEF IInv, BookInv, TypeOK
  <2>3. "failed" # Absent
    BY DEF Absent, OSM!Absent
  <2> QED BY <1>6, <2>1, <2>2, <2>3 DEF BookInv, Insert, past
<1>10. JobOK(job)'
  <2>1. state'[job'.order] # Absent
    BY <1>1, <1>3, <1>4, <1>7
  <2> QED BY <1>4, <2>1 DEF JobOK, IInv, Insert, At
<1> QED BY <1>5, <1>8, <1>9, <1>10 DEF IInv

\* An order moves on, by the listener or beside it.
LEMMA MoveStep ==
    ASSUME IInv, NEW o \in Orders, NEW to \in OSM!OrderState, state[o] # Absent,
           state' = [state EXCEPT ![o] = to], UNCHANGED <<amount, placed, redis>>,
           UNCHANGED <<bargained, asked, recorded, accepted, edited, faulted, unsure>>,
           \/ cancelled' = cancelled /\ (to = "failed" \/ o \notin cancelled)
           \/ cancelled' = cancelled \cup {o} /\ to = "failed",
           NEW j \in Job, job' = j, JobOK(j),
           cancelled' = cancelled \/ j.step \notin {"ask", "cancel"}
    PROVE  IInv'
<1>1. state \in [Orders -> OSM!OrderState \cup {Absent}] /\ cancelled \subseteq Orders
  BY DEF IInv, TypeOK
<1>2. Absent \notin OSM!OrderState
  BY DEF Absent, OSM!Absent, OSM!OrderState
<1>3. \A p \in Orders : state'[p] = Absent <=> state[p] = Absent
  BY <1>1, <1>2
<1>4. TypeOK'
  <2>1. state' \in [Orders -> OSM!OrderState \cup {Absent}] /\ cancelled' \subseteq Orders
    BY <1>1
  <2> QED BY <2>1, Zenon DEF IInv, TypeOK, redis
<1>5. SessionOrderIsStored'
  <2>1. session.order \in Orders \cup {NoOrder} /\ neg.order \in Orders \cup {NoOrder}
    BY SessionTypes DEF IInv, TypeOK
  <2> QED BY <1>3, <2>1 DEF IInv, SessionOrderIsStored, redis
<1>6. BookInv'
  BY <1>1, <1>3 DEF IInv, BookInv
<1>7. JobOK(job)'
  <2>1. j.order \in Orders \cup {NoOrder}
    BY DEF Job
  <2> QED BY <1>3, <2>1 DEF JobOK
<1> QED BY <1>4, <1>5, <1>6, <1>7 DEF IInv

\* The trader is asked: the order is one that the customer has not cancelled.
LEMMA AskStep == ASSUME IInv, AskTrader \/ AskFails \/ AskTimesOut PROVE IInv'
<1>1. /\ job.order \in Orders /\ job.total \in Nat /\ job.step = "ask"
      /\ state[job.order] # Absent
  BY DEF AskTrader, AskFails, AskTimesOut, At, IInv, TypeOK, Job, JobOK, Orders, NoOrder
<1>2. job' \in Job /\ JobOK(job')
  <2>1. Go("close")
    BY DEF AskTrader, AskFails, AskTimesOut
  <2> QED BY <1>1, <2>1, GoStep DEF Steps
<1>3. asked' \subseteq Orders \X Nat /\ recorded' \subseteq Orders /\ unsure' \subseteq Orders
  BY <1>1 DEF AskTrader, AskFails, AskTimesOut, IInv, TypeOK, past
<1>4. UNCHANGED <<book, redis, bargained, accepted, cancelled, edited, faulted>>
  BY DEF AskTrader, AskFails, AskTimesOut, past
<1>5. TypeOK'
  BY <1>2, <1>3, <1>4, Zenon DEF IInv, TypeOK, book, redis
<1>6. SessionOrderIsStored'
  BY <1>4 DEF IInv, SessionOrderIsStored, book, redis
<1> QED BY <1>2, <1>4, <1>5, <1>6, SessionStep DEF book

\* The steps of the listener that end a session or restore a clarification.
LEMMA CloseSteps == ASSUME IInv, Close \/ \E list \in BOOLEAN : Resume(list) PROVE IInv'
<1>1. /\ session' \in {NoSession, [NoSession EXCEPT !.kind = "clarifying"]}
      /\ UNCHANGED <<book, neg, past>>
  BY DEF Close, Resume
<1>2. CASE job' = Idle
  BY <1>1, <1>2, CloseStep, IdleIsJob, IdleOK
<1>3. CASE Close /\ Go("commit")
  BY <1>1, <1>3, CloseStep, GoStep DEF Close, At, Steps
<1> QED BY <1>2, <1>3 DEF Close, Resume, Done

\* NO and CANCEL: the order is failed.
LEMMA FailSteps == ASSUME IInv, Cancel \/ Fail PROVE IInv'
<1>1. job.order \in Orders /\ state[job.order] # Absent /\ job.step # "insert"
  BY DEF Cancel, Fail, At, IInv, JobOK, Orders, NoOrder
<1>2. "failed" \in OSM!OrderState
  BY DEF OSM!OrderState
<1>3. CASE Cancel
  <2>1. job' \in Job /\ JobOK(job') /\ job'.step = "resume"
    BY <1>1, <1>3, GoStep DEF Cancel, Steps
  <2> QED BY <1>1, <1>2, <1>3, <2>1, MoveStep DEF Cancel
<1>4. CASE Fail
  <2>1. job' \in Job /\ JobOK(job') /\ job'.step = "close"
    BY <1>1, <1>4, GoStep DEF Fail, Steps
  <2> QED BY <1>1, <1>2, <1>4, <2>1, MoveStep DEF Fail, past
<1> QED BY <1>3, <1>4

\* Writes to the other keys of Redis and to the amount.
LEMMA OtherSteps ==
    ASSUME IInv, Offer \/ Commit \/ (\E d \in BOOLEAN : Escalate(d)) \/ Abort
    PROVE  IInv'
<1>1. job \in Job /\ job.order \in Orders \cup {NoOrder} /\ job.total \in Nat /\ job.due \in Nat
      /\ job.offered \in Nat
  BY DEF IInv, TypeOK, Job
<1>2. CASE Offer
  <2>1. TypeOK'
    <3>1. neg' \in [order : Orders \cup {NoOrder}, offered : Nat, original : Nat]
      BY <1>1, <1>2 DEF Offer
    <3> QED BY <1>2, <3>1, IdleIsJob, Zenon DEF Offer, Done, IInv, TypeOK, book, past
  <2>2. job.order # NoOrder => state[job.order] # Absent
    BY <1>2 DEF Offer, At, IInv, JobOK
  <2>3. SessionOrderIsStored'
    BY <1>2, <2>2 DEF Offer, IInv, SessionOrderIsStored, book
  <2> QED BY <1>2, <2>1, <2>3, IdleIsJob, IdleOK, SessionStep DEF Offer, Done, book, past
<1>3. CASE Commit
  <2>1. TypeOK'
    <3>1. amount' \in [Orders -> Nat]
      BY <1>1, <1>3 DEF Commit, IInv, TypeOK
    <3> QED BY <1>3, <3>1, IdleIsJob, Zenon DEF Commit, Done, IInv, TypeOK, redis, past
  <2>2. SessionOrderIsStored'
    BY <1>3 DEF Commit, IInv, SessionOrderIsStored, redis
  <2> QED BY <1>3, <2>1, <2>2, IdleIsJob, IdleOK, SessionStep DEF Commit, Done, past
<1>4. ASSUME NEW d \in BOOLEAN, Escalate(d) PROVE IInv'
  <2>1. job' \in Job /\ JobOK(job')
    BY <1>4, GoStep DEF Escalate, At, Steps
  <2>2. TypeOK'
    <3>1. bargained' \in BOOLEAN
      BY <1>4 DEF Escalate
    <3> QED BY <1>4, <2>1, <3>1, Zenon DEF Escalate, IInv, TypeOK, book, redis
  <2>3. SessionOrderIsStored'
    BY <1>4 DEF Escalate, IInv, SessionOrderIsStored, book, redis
  <2> QED BY <1>4, <2>1, <2>2, <2>3, SessionStep DEF Escalate, book
<1>5. CASE Abort
  <2>1. TypeOK'
    <3>1. faulted' \subseteq Orders
      BY <1>1, <1>5 DEF Abort, IInv, TypeOK
    <3> QED BY <1>5, <3>1, IdleIsJob, Zenon DEF Abort, Done, IInv, TypeOK, book, redis
  <2>2. SessionOrderIsStored'
    BY <1>5 DEF Abort, IInv, SessionOrderIsStored, book, redis
  <2> QED BY <1>5, <2>1, <2>2, IdleIsJob, IdleOK, SessionStep DEF Abort, Done, book
<1> QED BY <1>2, <1>3, <1>4, <1>5

\* Bargaining closes the session, and the offer is about a stored order.
LEMMA BargainStep == ASSUME IInv, NEW offer \in Nat, Bargain(offer) PROVE IInv'
<1> DEFINE j == [Idle EXCEPT !.step = "escalate", !.order = session.order,
                             !.total = session.total, !.offered = offer]
<1>1. j \in Job /\ JobOK(j)
  <2>1. session.order \in Orders \cup {NoOrder} /\ session.total \in Nat
    BY SessionTypes DEF IInv
  <2> QED BY <2>1 DEF IInv, SessionOrderIsStored, Idle, Job, Steps, JobOK
<1>2. /\ job' = j \/ job' = Idle
      /\ session' = NoSession /\ UNCHANGED <<book, neg, past>>
  BY DEF Bargain
<1> QED BY <1>1, <1>2, CloseStep, IdleIsJob, IdleOK

\* The trader's answer deletes the negotiation, and its order is stored.
LEMMA NegotiationStep ==
    ASSUME IInv, NEW price \in Nat, Answer(price),
           accepted' = accepted \/ Agree(price)
    PROVE  IInv'
<1> DEFINE j == [Idle EXCEPT !.step = "open", !.order = neg.order, !.total = price]
<1>1. neg.order \in Orders \cup {NoOrder} /\ (neg.order # NoOrder => state[neg.order] # Absent)
  BY DEF IInv, TypeOK, SessionOrderIsStored
<1>2. j \in Job /\ JobOK(j)
  BY <1>1 DEF Idle, Job, Steps, JobOK
<1>3. accepted' \subseteq Orders \X Nat
  BY <1>1 DEF Agree, IInv, TypeOK
<1>4. TypeOK'
  <2>1. neg' \in [order : Orders \cup {NoOrder}, offered : Nat, original : Nat]
    BY DEF Answer, None
  <2>2. job' \in Job
    BY <1>2 DEF Answer
  <2> QED BY <1>3, <2>1, <2>2, Zenon DEF Answer, IInv, TypeOK, book
<1>5. SessionOrderIsStored'
  BY DEF Answer, None, IInv, SessionOrderIsStored, book
<1> QED BY <1>2, <1>4, <1>5, SessionStep DEF Answer, book

\* The dashboard, and keys that expire, beside whatever the listener is doing.
LEMMA OutsideSteps == ASSUME IInv, Dashboard \/ Expiry PROVE IInv'
<1>1. job \in Job /\ JobOK(job)
  BY DEF IInv, TypeOK
<1>2. ASSUME NEW o \in Orders, MoveOrder(o) PROVE IInv'
  <2>1. PICK to \in OSM!OrderState : OSM!Transition(o, to)
    BY <1>2 DEF MoveOrder
  <2>2. state[o] \in OSM!OrderState \ {"failed"} /\ state' = [state EXCEPT ![o] = to]
    BY <2>1 DEF OSM!Transition, OSM!ValidTransition, OSM!ValidTransitions, OSM!OrderState
  <2>3. state[o] # Absent /\ o \notin cancelled
    BY <2>2 DEF Absent, OSM!Absent, OSM!OrderState, IInv, BookInv
  <2> QED BY <1>1, <1>2, <2>2, <2>3, MoveStep DEF MoveOrder, past
<1>3. ASSUME NEW o \in Orders, NEW n \in Quantities \cup {0}, SetItems(o, n) PROVE IInv'
  <2>1. n * ListPrice \in Nat
    BY TotalsAreNatural
  <2>2. amount' \in [Orders -> Nat] /\ edited' \subseteq Orders
    BY <1>3, <2>1 DEF SetItems, IInv, TypeOK
  <2>3. TypeOK'
    BY <1>3, <2>2, Zenon DEF SetItems, IInv, TypeOK, redis
  <2>4. SessionOrderIsStored'
    BY <1>3 DEF SetItems, IInv, SessionOrderIsStored, redis
  <2> QED BY <1>1, <1>3, <2>3, <2>4, SessionStep DEF SetItems
<1>4. CASE SessionExpires
  BY <1>1, <1>4, CloseStep DEF SessionExpires
<1>5. CASE NegotiationExpires
  <2>1. TypeOK'
    <3>1. neg' \in [order : Orders \cup {NoOrder}, offered : Nat, original : Nat]
      BY <1>5 DEF NegotiationExpires, None
    <3> QED BY <1>5, <3>1, Zenon DEF NegotiationExpires, IInv, TypeOK, book, past
  <2>2. SessionOrderIsStored'
    BY <1>5 DEF NegotiationExpires, None, IInv, SessionOrderIsStored, book
  <2> QED BY <1>1, <1>5, <2>1, <2>2, SessionStep DEF NegotiationExpires, book, past
<1> QED BY <1>2, <1>3, <1>4, <1>5
        DEF Dashboard, AddItems, ReplaceItems, Expiry

\* What the customer writes.
LEMMA CustomerSteps == ASSUME IInv, CustomerSays PROVE IInv'
<1>1. \A total \in Totals : total \in Nat
  BY TotalsAreNatural DEF Totals
<1>2. ListPrice \in Nat /\ \A offer \in Offers \cup {0} : offer \in Nat
  BY ListPriceAssumption, OffersAssumption
<1>3. ASSUME NEW total \in Nat, TextOrder(total) PROVE IInv'
  BY <1>3, NewOrderStep, CloseStep DEF TextOrder
<1>4. CASE EmptyOrder
  BY <1>3, <1>4 DEF EmptyOrder
<1>5. CASE Question \/ Chat
  <2>1. job \in Job /\ JobOK(job)
    BY DEF IInv, TypeOK
  <2> QED BY <1>5, <2>1, CloseStep DEF Question, Chat
<1> QED BY <1>1, <1>2, <1>3, <1>4, <1>5, PlaceStep, AnswerStep, BargainStep
        DEF CustomerSays, CartOrder, PhotoMatched

\* What the trader writes.
LEMMA TraderSteps == ASSUME IInv, TraderSays PROVE IInv'
<1>1. ListPrice \in Nat /\ \A offer \in Offers : offer \in Nat
  BY ListPriceAssumption, OffersAssumption
<1>2. neg.offered \in Nat /\ neg.original \in Nat
  BY DEF IInv, TypeOK
<1>3. CASE Accept \/ Decline \/ \E price \in Offers : Counter(price)
  BY <1>1, <1>2, <1>3, NegotiationStep DEF Accept, Decline, Counter
<1>4. ASSUME NEW o \in Orders, TraderCancel(o) PROVE IInv'
  <2> DEFINE j == [Idle EXCEPT !.step = "fail", !.order = o]
  <2>1. state[o] # Absent
    BY <1>4 DEF TraderCancel, OSM!ValidTransition, Absent, OSM!Absent, OSM!OrderState
  <2>2. j \in Job /\ JobOK(j)
    BY <2>1 DEF Idle, Job, Steps, JobOK
  <2> QED BY <1>4, <2>2, HandleStep DEF TraderCancel, Handle
<1> QED BY <1>1, <1>3, <1>4, PlaceStep DEF TraderSays, PriceReply

\* Every step keeps the invariant.
LEMMA InvStep == IInv /\ [Next]_vars => IInv'
<1> SUFFICES ASSUME IInv, [Next]_vars
             PROVE  IInv'
  OBVIOUS
<1>1. CASE CustomerSays
  BY <1>1, CustomerSteps
<1>2. CASE TraderSays
  BY <1>2, TraderSteps
<1>3. CASE Listener
  BY <1>3, InsertStep, OpenStep, AskStep, CloseSteps, FailSteps, OtherSteps DEF Listener
<1>4. CASE Dashboard \/ Expiry
  BY <1>4, OutsideSteps
<1>5. CASE UNCHANGED vars
  <2>1. job \in Job /\ JobOK(job)
    BY DEF IInv, TypeOK
  <2> QED BY <1>5, <2>1, HandleStep DEF vars
<1> QED BY <1>1, <1>2, <1>3, <1>4, <1>5 DEF Next

\* The empty chat.
LEMMA InvInit == Init => IInv
<1> SUFFICES ASSUME Init
             PROVE  IInv
  OBVIOUS
<1>1. TypeOK
  <2>1. /\ state \in [Orders -> OSM!OrderState \cup {Absent}] /\ amount \in [Orders -> Nat]
        /\ placed \in 0..MaxOrders
    BY MaxOrdersAssumption DEF Init
  <2>2. neg \in [order : Orders \cup {NoOrder}, offered : Nat, original : Nat]
    BY DEF Init, None
  <2>3. job \in Job
    BY IdleIsJob DEF Init
  <2>4. bargained \in BOOLEAN
    BY DEF Init
  <2> QED BY <2>1, <2>2, <2>3, <2>4, Zenon DEF Init, TypeOK
<1>2. SessionOrderIsStored
  BY DEF Init, SessionOrderIsStored, NoSession, None
<1>3. BookInv
  BY DEF Init, BookInv
<1> QED BY <1>1, <1>2, <1>3, IdleOK DEF IInv, Init

\* Sessions, orders and handlers keep to the inductive invariant.
THEOREM Invariance == Spec => []IInv
  BY InvInit, InvStep, PTL DEF Spec

\* Type correctness: handle_inbound_customer_message and the trader's commands leave
\* sessions of the three kinds only.
THEOREM TypeCorrect == Spec => []TypeOK
<1>1. IInv => TypeOK
  BY DEF IInv
<1> QED BY <1>1, Invariance, PTL

\* Every summary and every negotiation in Redis is about an order that was committed,
\* wherever a handler raised or died: set_order_session comes after the commit.
THEOREM SessionsNameStoredOrders == Spec => []SessionOrderIsStored
<1>1. IInv => SessionOrderIsStored
  BY DEF IInv
<1> QED BY <1>1, Invariance, PTL

\* Nothing else sends the trader a request to confirm.
LEMMA OnlyAsksAsk ==
    ASSUME Next, ~ (AskTrader \/ AskTimesOut)
    PROVE  UNCHANGED <<asked, recorded, unsure>>
<1>1. CASE CustomerSays
  BY <1>1 DEF CustomerSays, CartOrder, TextOrder, PhotoMatched, Place, EmptyOrder,
              Question, Chat, Yes, Quantity, No, Bargain, Handle, past
<1>2. CASE TraderSays
  BY <1>2 DEF TraderSays, PriceReply, Place, Accept, Decline, Counter, Answer,
              TraderCancel, Handle, past
<1>3. CASE Listener
  BY <1>3 DEF Listener, Insert, Open, AskFails, Close, Commit, Cancel, Resume,
              Fail, Escalate, Offer, Abort, past
<1>4. CASE Dashboard \/ Expiry
  BY <1>4 DEF Dashboard, MoveOrder, AddItems, ReplaceItems, SetItems, Expiry,
              SessionExpires, NegotiationExpires, past
<1> QED BY <1>1, <1>2, <1>3, <1>4 DEF Next

\* YES never asks the trader about an order that the customer cancelled, although
\* the session may outlive the cancellation: the order's state is read again.
THEOREM CancelledStaysCancelled == Spec => CancelledIsNotAsked
<1>1. IInv /\ [Next]_vars => [\A p \in asked' \ asked : p[1] \notin cancelled]_vars
  <2> SUFFICES ASSUME IInv, Next
               PROVE  \A p \in asked' \ asked : p[1] \notin cancelled
    OBVIOUS
  <2>1. CASE AskTrader \/ AskTimesOut
    <3>1. job.order \notin cancelled
      BY <2>1 DEF AskTrader, AskTimesOut, At, IInv, JobOK
    <3>2. \A p \in asked' \ asked : p = <<job.order, job.total>>
      BY <2>1 DEF AskTrader, AskTimesOut
    <3> QED BY <3>1, <3>2
  <2>2. CASE ~ (AskTrader \/ AskTimesOut)
    BY <2>2, OnlyAsksAsk
  <2> QED BY <2>1, <2>2
<1> QED BY <1>1, Invariance, PTL DEF Spec, CancelledIsNotAsked

\* The event id order.trader_notify.{id} makes every further request about an order
\* void, however often YES comes again, unless a call to Meta timed out.
THEOREM OneRequestPerOrder == Spec => []AskedOnce
<1>1. Init => AskedInv
  BY DEF Init, AskedInv, AskedOnce
<1>2. AskedInv /\ [Next]_vars => AskedInv'
  <2> SUFFICES ASSUME AskedInv, [Next]_vars
               PROVE  AskedInv'
    OBVIOUS
  <2>1. CASE AskTrader
    <3>1. unsure' = unsure /\ recorded' = recorded \cup {job.order}
      BY <2>1 DEF AskTrader
    <3>2. CASE job.order \in recorded
      BY <2>1, <3>1, <3>2 DEF AskTrader, AskedInv, AskedOnce
    <3>3. CASE job.order \notin recorded
      <4>1. asked' = asked \cup {<<job.order, job.total>>}
        BY <2>1, <3>3 DEF AskTrader
      <4>2. \A p \in asked : p[1] = job.order => p[1] \in unsure
        BY <3>3 DEF AskedInv
      <4> QED BY <3>1, <4>1, <4>2 DEF AskedInv, AskedOnce
    <3> QED BY <3>2, <3>3
  <2>2. CASE AskTimesOut
    <3>1. /\ asked' = asked \cup {<<job.order, job.total>>}
          /\ unsure' = unsure \cup {job.order} /\ recorded' = recorded
      BY <2>2 DEF AskTimesOut
    <3> QED BY <3>1 DEF AskedInv, AskedOnce
  <2>3. CASE Next /\ ~ (AskTrader \/ AskTimesOut)
    BY <2>3, OnlyAsksAsk DEF AskedInv, AskedOnce
  <2>4. CASE UNCHANGED vars
    BY <2>4 DEF AskedInv, AskedOnce, vars, past
  <2> QED BY <2>1, <2>2, <2>3, <2>4
<1>3. AskedInv => AskedOnce
  BY DEF AskedInv
<1> QED BY <1>1, <1>2, <1>3, PTL DEF Spec

-----------------------------------------------------------------------------
(* The price that the trader is asked to confirm.                          *)

\* The total is the order's amount or a price that the trader took or named, unless the
\* dashboard changed the items or a handler of the order faulted.
Agreed(o, t) == t = amount[o] \/ <<o, t>> \in accepted \/ o \in edited \cup faulted

\* Whoever holds a total of an order holds one that is agreed; a new quantity is its own
\* total and becomes the amount when the handler commits.
PriceInv ==
    /\ session.order # NoOrder => Agreed(session.order, session.total)
    /\ neg.order # NoOrder => Agreed(neg.order, neg.original)
    /\ job.order # NoOrder /\ job.step \in {"open", "escalate", "offer"} =>
           Agreed(job.order, job.total)
    /\ job.step = "ask" =>
           IF job.due > 0 THEN job.total = job.due ELSE Agreed(job.order, job.total)
    /\ \A p \in asked :
           IF job.order = p[1] /\ job.due > 0
           THEN p[2] = job.due \/ p \in accepted \/ p[1] \in edited \cup faulted
           ELSE Agreed(p[1], p[2])

IsAsked(o) == \E p \in asked : p[1] = o

\* An order that no handler faulted on is in one place: in the session, in the negotiation
\* or with the handler.  Once the trader was asked, it is in none of them again, so that
\* no answer and no quantity can change its amount.
Token(o) ==
    /\ session.order = o => neg.order # o
    /\ job.order = o /\ job.step \in {"open", "escalate", "offer", "commit"} =>
           session.order # o /\ neg.order # o
    /\ job.order = o /\ job.step = "ask" => neg.order # o
    /\ job.order = o /\ job.step = "close" /\ job.due > 0 => neg.order # o
    /\ IsAsked(o) =>
           /\ neg.order # o
           /\ session.order = o => job.order = o /\ job.step = "close"
           /\ job.order = o => job.step \in {"close", "commit", "fail"}

\* Only YES with a quantity has an amount to commit, from the question to the commit.
DueOK(j) ==
    /\ j.step \notin {"ask", "close", "commit"} => j.due = 0
    /\ j.step = "commit" => j.due > 0

AgreedInv ==
    /\ job.step = "idle" => job.order = NoOrder
    /\ DueOK(job)
    /\ \A p \in asked : state[p[1]] # Absent
    /\ PriceInv
    /\ \A o \in Orders \ faulted : Token(o)

\* The types that the steps below rest on.
LEMMA ChatTypes ==
    ASSUME IInv
    PROVE  /\ session.order \in Orders \cup {NoOrder} /\ session.total \in Nat
           /\ neg.order \in Orders \cup {NoOrder} /\ neg.original \in Nat
           /\ job.order \in Orders \cup {NoOrder} /\ job.total \in Nat /\ job.due \in Nat
           /\ NoOrder \notin Orders
           /\ \A p \in asked : p[1] \in Orders /\ p[2] \in Nat /\ p = <<p[1], p[2]>>
<1>1. session.order \in Orders \cup {NoOrder} /\ session.total \in Nat
  BY SessionTypes DEF IInv
<1>2. neg.order \in Orders \cup {NoOrder} /\ neg.original \in Nat
  BY DEF IInv, TypeOK
<1>3. job.order \in Orders \cup {NoOrder} /\ job.total \in Nat /\ job.due \in Nat
  BY DEF IInv, TypeOK, Job
<1>4. NoOrder \notin Orders
  BY DEF Orders, NoOrder
<1>5. \A p \in asked : p[1] \in Orders /\ p[2] \in Nat /\ p = <<p[1], p[2]>>
  BY DEF IInv, TypeOK
<1> QED BY <1>1, <1>2, <1>3, <1>4, <1>5

\* The listener takes a message, and perhaps ends the session with it.
LEMMA AgreedHandle ==
    ASSUME IInv, AgreedInv, job.step = "idle", UNCHANGED <<book, neg, past>>,
           session' = session \/ session'.order = NoOrder,
           NEW j, job' = j,
           \/ j.step = "idle" /\ j.order = NoOrder /\ j.due = 0
           \/ j.step = "insert" /\ state[j.order] = Absent /\ j.due = 0
           \/ /\ j.step = "ask" /\ j.order = session.order /\ j.order # NoOrder
              /\ j.due \in Nat
              /\ IF j.due > 0 THEN j.total = j.due ELSE j.total = session.total
           \/ j.step = "close" /\ j.order = NoOrder
           \/ j.step \in {"cancel", "resume"} /\ j.order = session.order /\ j.due = 0
           \/ j.step = "fail" /\ j.due = 0
           \/ /\ j.step = "escalate" /\ j.order = session.order /\ j.total = session.total
              /\ j.due = 0 /\ session'.order = NoOrder
    PROVE  AgreedInv'
<1>0. /\ job.order = NoOrder /\ NoOrder \notin Orders
      /\ session.order \in Orders \cup {NoOrder}
      /\ \A p \in asked : p[1] \in Orders /\ p = <<p[1], p[2]>>
      /\ UNCHANGED <<state, amount, neg, asked, accepted, edited, faulted>>
  BY ChatTypes DEF AgreedInv, book, past
<1>1. \A o \in Orders \ faulted : Token(o)
  BY DEF AgreedInv
<1>2. \A p \in asked : Agreed(p[1], p[2])
  BY <1>0 DEF AgreedInv, PriceInv
<1>3. \A o \in Orders \ faulted : session.order = o => ~ IsAsked(o)
  BY <1>0, <1>1 DEF Token
<1>4. \A p \in asked : state[p[1]] # Absent
  BY DEF AgreedInv
<1>5. PriceInv'
  <2>1. session'.order # NoOrder => Agreed(session'.order, session'.total)
    BY DEF AgreedInv, PriceInv
  <2>2. neg.order # NoOrder => Agreed(neg.order, neg.original)
    BY DEF AgreedInv, PriceInv
  <2>3. /\ j.order # NoOrder /\ j.step \in {"open", "escalate", "offer"} =>
              Agreed(j.order, j.total)
        /\ j.step = "ask" => IF j.due > 0 THEN j.total = j.due ELSE Agreed(j.order, j.total)
    BY DEF AgreedInv, PriceInv
  <2>4. ASSUME NEW p \in asked, j.order = p[1], j.due > 0
        PROVE  p[1] \in edited \cup faulted
    <3>1. j.step = "ask" /\ j.order = session.order
      BY <1>0, <2>4
    <3>2. IsAsked(j.order)
      BY <2>4 DEF IsAsked
    <3> QED BY <1>0, <1>3, <2>4, <3>1, <3>2
  <2> QED BY <1>0, <1>2, <2>1, <2>2, <2>3, <2>4 DEF PriceInv, Agreed
<1>6. ASSUME NEW o \in Orders \ faulted'
      PROVE  Token(o)'
  <2>1. Token(o) /\ (IsAsked(o)' <=> IsAsked(o)) /\ o # NoOrder
    BY <1>0, <1>1 DEF IsAsked
  <2>2. IsAsked(o) => state[o] # Absent /\ session.order # o /\ neg.order # o
    BY <1>0, <1>3, <1>4, <2>1 DEF IsAsked, Token
  <2> QED BY <1>0, <2>1, <2>2 DEF Token
<1>7. DueOK(j)
  BY DEF DueOK
<1> QED BY <1>0, <1>4, <1>5, <1>6, <1>7 DEF AgreedInv, DueOK

\* What was agreed stays so while the amount of the order stays.
LEMMA AgreedKeeps ==
    ASSUME NEW o, NEW t, Agreed(o, t), amount'[o] = amount[o] \/ o \in edited' \cup faulted',
           accepted \subseteq accepted', edited \subseteq edited', faulted \subseteq faulted'
    PROVE  Agreed(o, t)'
  BY DEF Agreed

\* The keys expire, and the dashboard moves orders and changes items.
LEMMA AgreedOutside ==
    ASSUME IInv, AgreedInv, Dashboard \/ Expiry
    PROVE  AgreedInv'
<1>0. /\ UNCHANGED <<job, asked, accepted, faulted>> /\ edited \subseteq edited'
      /\ session' = session \/ session'.order = NoOrder
      /\ neg' = neg \/ neg'.order = NoOrder
  BY DEF Dashboard, MoveOrder, AddItems, ReplaceItems, SetItems, Expiry, SessionExpires,
         NegotiationExpires, redis, past, book, NoSession, None
<1>1. \A o \in Orders : state[o] # Absent => state'[o] # Absent
  <2>1. ASSUME NEW o \in Orders, MoveOrder(o)
        PROVE  \A p \in Orders : state[p] # Absent => state'[p] # Absent
    BY <2>1 DEF MoveOrder, OSM!Transition, OSM!OrderState, Absent, OSM!Absent, IInv, TypeOK
  <2>2. ~ (\E o \in Orders : MoveOrder(o)) => UNCHANGED state
    BY DEF Dashboard, AddItems, ReplaceItems, SetItems, Expiry, SessionExpires,
           NegotiationExpires, book
  <2> QED BY <2>1, <2>2
<1>2. \A o \in Orders : amount'[o] = amount[o] \/ o \in edited'
  <2>1. ASSUME NEW o \in Orders, NEW n, SetItems(o, n)
        PROVE  \A p \in Orders : amount'[p] = amount[p] \/ p \in edited'
    BY <2>1 DEF SetItems, IInv, TypeOK
  <2> QED BY <2>1 DEF Dashboard, MoveOrder, AddItems, ReplaceItems, Expiry, SessionExpires,
                      NegotiationExpires, book
<1>3. \A o \in Orders : \A t : Agreed(o, t) => Agreed(o, t)'
  BY <1>0, <1>2, AgreedKeeps
<1>4. PriceInv'
  <2>0. /\ PriceInv /\ (job.step = "ask" => job.order \in Orders)
        /\ session.order \in Orders \cup {NoOrder} /\ neg.order \in Orders \cup {NoOrder}
        /\ job.order \in Orders \cup {NoOrder} /\ \A p \in asked : p[1] \in Orders
    BY ChatTypes DEF AgreedInv, IInv, JobOK
  <2>1. (session.order # NoOrder => Agreed(session.order, session.total))'
    BY <1>0, <1>3, <2>0 DEF PriceInv, Agreed
  <2>2. (neg.order # NoOrder => Agreed(neg.order, neg.original))'
    BY <1>0, <1>3, <2>0 DEF PriceInv, Agreed
  <2>3. (/\ job.order # NoOrder /\ job.step \in {"open", "escalate", "offer"} =>
               Agreed(job.order, job.total)
         /\ job.step = "ask" =>
               IF job.due > 0 THEN job.total = job.due ELSE Agreed(job.order, job.total))'
    BY <1>0, <1>3, <2>0 DEF PriceInv, Agreed
  <2>4. ASSUME NEW p \in asked
        PROVE  IF job'.order = p[1] /\ job'.due > 0
               THEN p[2] = job'.due \/ p \in accepted' \/ p[1] \in edited' \cup faulted'
               ELSE Agreed(p[1], p[2])'
    BY <1>0, <1>3, <2>0 DEF PriceInv
  <2> QED BY <1>0, <2>1, <2>2, <2>3, <2>4 DEF PriceInv
<1>5. ASSUME NEW o \in Orders \ faulted'
      PROVE  Token(o)'
  <2>1. Token(o) /\ (IsAsked(o)' <=> IsAsked(o)) /\ o # NoOrder
    BY <1>0, ChatTypes DEF AgreedInv, IsAsked
  <2> QED BY <1>0, <2>1 DEF Token
<1> QED BY <1>0, <1>1, <1>4, <1>5, ChatTypes DEF AgreedInv, DueOK

\* The handler goes on with the order, and the amounts stay.
LEMMA AgreedStep ==
    ASSUME IInv, AgreedInv, UNCHANGED amount,
           accepted \subseteq accepted', edited' = edited, faulted \subseteq faulted',
           \A p \in asked' : state'[p[1]] # Absent,
           job'.step = "idle" => job'.order = NoOrder, DueOK(job'),
           PriceInv', \A o \in Orders \ faulted' : Token(o)'
    PROVE  AgreedInv'
  BY DEF AgreedInv, DueOK

\* The trader's answer takes the order out of the negotiation.
LEMMA AgreedAnswer ==
    ASSUME IInv, AgreedInv, Accept \/ Decline \/ \E price \in Offers : Counter(price)
    PROVE  AgreedInv'
<1> PICK price : /\ Answer(price)
                 /\ \/ price = neg.original /\ UNCHANGED accepted
                    \/ Agree(price)
  BY DEF Accept, Decline, Counter
<1>0. /\ job.step = "idle" /\ job.order = NoOrder /\ NoOrder \notin Orders
      /\ neg.order \in Orders \cup {NoOrder} /\ neg'.order = NoOrder
      /\ session.order \in Orders \cup {NoOrder}
      /\ UNCHANGED <<state, amount, session, asked, edited, faulted>>
      /\ accepted \subseteq accepted'
      /\ job'.step = "open" /\ job'.order = neg.order /\ job'.total = price /\ job'.due = 0
  BY ChatTypes DEF AgreedInv, Answer, Agree, book, None, Idle
<1>1. \A o, t : Agreed(o, t) => Agreed(o, t)'
  BY <1>0, AgreedKeeps
<1> PICK q : q = neg.order
  OBVIOUS
<1>2. q # NoOrder => Agreed(q, price)'
  <2>1. CASE price = neg.original /\ UNCHANGED accepted
    BY <1>1, <2>1 DEF AgreedInv, PriceInv
  <2>2. CASE Agree(price)
    BY <1>0, <2>2 DEF Agree, Agreed
  <2> QED BY <2>1, <2>2
<1>3. \A p \in asked : Agreed(p[1], p[2])
  BY <1>0, ChatTypes DEF AgreedInv, PriceInv
<1>4. PriceInv'
  <2>1. job'.order # NoOrder => job'.order = q /\ job'.total = price /\ Agreed(q, price)'
    BY <1>0, <1>2
  <2>2. session.order # NoOrder => Agreed(session.order, session.total)
    BY DEF AgreedInv, PriceInv
  <2> QED BY <1>0, <1>1, <1>3, <2>1, <2>2 DEF PriceInv, Agreed
<1>5. ASSUME NEW o \in Orders \ faulted'
      PROVE  Token(o)'
  <2>1. Token(o) /\ (IsAsked(o)' <=> IsAsked(o)) /\ o # NoOrder
    BY <1>0 DEF AgreedInv, IsAsked
  <2> QED BY <1>0, <2>1 DEF Token
<1> QED BY <1>0, <1>4, <1>5, AgreedStep DEF AgreedInv, DueOK

\* The handler goes on, and neither the amounts nor what was asked changes.
LEMMA AgreedGoesOn ==
    ASSUME IInv, AgreedInv, UNCHANGED <<amount, accepted, edited, asked>>,
           faulted \subseteq faulted',
           \A o \in Orders : state[o] # Absent => state'[o] # Absent,
           NEW j, job' = j, NEW ses, session' = ses, NEW n, neg' = n,
           j.step = "idle" => j.order = NoOrder, j.step # "ask", DueOK(j),
           ses.order # NoOrder => Agreed(ses.order, ses.total),
           n.order # NoOrder => Agreed(n.order, n.original),
           j.order # NoOrder /\ j.step \in {"open", "escalate", "offer"} =>
               Agreed(j.order, j.total),
           \A p \in asked :
               IF j.order = p[1] /\ j.due > 0
               THEN p[2] = j.due \/ p \in accepted \/ p[1] \in edited \cup faulted'
               ELSE Agreed(p[1], p[2])',
           \A o \in Orders \ faulted' : Token(o)'
    PROVE  AgreedInv'
<1>1. \A o, t : Agreed(o, t) => Agreed(o, t)'
  BY AgreedKeeps
<1>2. PriceInv'
  BY <1>1 DEF PriceInv, Agreed
<1>3. \A p \in asked' : state'[p[1]] # Absent
  BY ChatTypes DEF AgreedInv
<1> QED BY <1>2, <1>3 DEF AgreedInv, DueOK

\* The steps that keep the order with the handler or store it in Redis.
LEMMA AgreedStores ==
    ASSUME IInv, AgreedInv,
           Open \/ Offer \/ (\E d \in BOOLEAN : Escalate(d)) \/ Cancel
           \/ (\E list \in BOOLEAN : Resume(list))
    PROVE  AgreedInv'
<1> PICK q : q = job.order
  OBVIOUS
<1>0. /\ UNCHANGED <<amount, accepted, edited, asked, faulted>>
      /\ q \in Orders \cup {NoOrder} /\ NoOrder \notin Orders
      /\ job.step \in {"open", "offer", "escalate", "cancel", "resume"}
  BY ChatTypes DEF Open, Offer, Escalate, Cancel, Resume, At, book, past
<1>1. PriceInv /\ DueOK(job) /\ \A o \in Orders \ faulted : Token(o)
  BY DEF AgreedInv
<1>2. \A o \in Orders \ faulted : o = q => ~ IsAsked(o)
  BY <1>0, <1>1 DEF Token
<1>3. \A p \in asked : p[1] # q \/ p[1] \in faulted
  BY <1>2, ChatTypes DEF IsAsked
<1>4. \A p \in asked : Agreed(p[1], p[2])
  BY <1>1, <1>3 DEF PriceInv, Agreed
<1>5. \A p \in asked : Agreed(p[1], p[2])'
  BY <1>0, <1>4, AgreedKeeps
<1>6. \A o \in Orders : state[o] # Absent => state'[o] # Absent
  <2>1. "failed" # Absent
    BY DEF Absent, OSM!Absent
  <2> QED BY <2>1 DEF Open, Offer, Escalate, Cancel, Resume, book, IInv, TypeOK
<1>7. ASSUME NEW o \in Orders \ faulted'
      PROVE  Token(o) /\ (IsAsked(o)' <=> IsAsked(o)) /\ o # NoOrder
  BY <1>0, <1>1 DEF IsAsked
<1>8. CASE Open
  <2>1. /\ job'.order = NoOrder /\ job'.step = "idle" /\ job'.due = 0 /\ neg' = neg
        /\ session'.order = q /\ session'.total = job.total
    BY <1>8 DEF Open, Done, Idle
  <2>2. \A o \in Orders \ faulted' : Token(o)'
    BY <1>2, <1>7, <1>8, <2>1 DEF Token, Open, At
  <2>3. q # NoOrder => Agreed(session'.order, session'.total)
    BY <1>1, <1>8, <2>1 DEF PriceInv, Open, At
  <2> QED BY <1>0, <1>1, <1>5, <1>6, <2>1, <2>2, <2>3, AgreedGoesOn DEF PriceInv, DueOK
<1>9. CASE Offer
  <2>1. /\ job'.order = NoOrder /\ job'.step = "idle" /\ job'.due = 0 /\ session' = session
        /\ neg'.order = q /\ neg'.original = job.total
    BY <1>9 DEF Offer, Done, Idle
  <2>2. \A o \in Orders \ faulted' : Token(o)'
    BY <1>2, <1>7, <1>9, <2>1 DEF Token, Offer, At
  <2>3. q # NoOrder => Agreed(neg'.order, neg'.original)
    BY <1>1, <1>9, <2>1 DEF PriceInv, Offer, At
  <2> QED BY <1>0, <1>1, <1>5, <1>6, <2>1, <2>2, <2>3, AgreedGoesOn DEF PriceInv, DueOK
<1>10. CASE \E d \in BOOLEAN : Escalate(d)
  <2>1. /\ job'.order = q /\ job'.step = "offer" /\ job'.due = job.due
        /\ job'.total = job.total /\ session' = session /\ neg' = neg /\ job.step = "escalate"
    BY <1>10 DEF Escalate, Go, At, redis, IInv, TypeOK, Job
  <2>2. \A o \in Orders \ faulted' : Token(o)'
    BY <1>7, <2>1 DEF Token
  <2>3. q # NoOrder => Agreed(job'.order, job'.total)
    BY <1>1, <2>1 DEF PriceInv
  <2> QED BY <1>0, <1>1, <1>3, <1>5, <1>6, <2>1, <2>2, <2>3, AgreedGoesOn DEF PriceInv, DueOK
<1>11. CASE Cancel
  <2>1. /\ job'.order = q /\ job'.step = "resume" /\ job'.due = job.due
        /\ session' = session /\ neg' = neg /\ job.step = "cancel"
    BY <1>11 DEF Cancel, Go, At, redis, IInv, TypeOK, Job
  <2>2. \A o \in Orders \ faulted' : Token(o)'
    BY <1>2, <1>7, <2>1 DEF Token
  <2> QED BY <1>0, <1>1, <1>3, <1>5, <1>6, <2>1, <2>2, AgreedGoesOn DEF PriceInv, DueOK
<1>12. CASE \E list \in BOOLEAN : Resume(list)
  <2>1. /\ job'.order = NoOrder /\ job'.step = "idle" /\ job'.due = 0
        /\ session'.order = NoOrder /\ neg' = neg
    BY <1>12 DEF Resume, Done, Idle, NoSession
  <2>2. \A o \in Orders \ faulted' : Token(o)'
    BY <1>7, <2>1 DEF Token
  <2> QED BY <1>0, <1>1, <1>5, <1>6, <2>1, <2>2, AgreedGoesOn DEF PriceInv, DueOK
<1> QED BY <1>8, <1>9, <1>10, <1>11, <1>12

\* The steps after the trader was asked or the order failed.
LEMMA AgreedEnds ==
    ASSUME IInv, AgreedInv, AskFails \/ Close \/ Fail \/ Abort
    PROVE  AgreedInv'
<1> PICK q : q = job.order
  OBVIOUS
<1>0. /\ UNCHANGED <<amount, accepted, edited, asked, neg>> /\ faulted \subseteq faulted'
      /\ q \in Orders \cup {NoOrder} /\ NoOrder \notin Orders /\ job.due \in Nat
  BY ChatTypes DEF AskFails, Close, Fail, Abort, At, book, redis, past
<1>1. PriceInv /\ \A o \in Orders \ faulted : Token(o)
  BY DEF AgreedInv
<1>2. \A o, t : Agreed(o, t) => Agreed(o, t)'
  BY <1>0, AgreedKeeps
<1>3. \A o \in Orders : state[o] # Absent => state'[o] # Absent
  <2>1. "failed" # Absent
    BY DEF Absent, OSM!Absent
  <2> QED BY <2>1 DEF AskFails, Close, Fail, Abort, book, past, IInv, TypeOK
<1>4. ASSUME NEW o \in Orders \ faulted'
      PROVE  Token(o) /\ (IsAsked(o)' <=> IsAsked(o)) /\ o # NoOrder
  BY <1>0, <1>1 DEF IsAsked
<1>5. CASE AskFails \/ Fail
  <2>1. /\ job'.order = q /\ job'.step = "close" /\ job'.due = job.due
        /\ session' = session /\ job.step \in {"ask", "fail"} /\ faulted' = faulted
    BY <1>5 DEF AskFails, Fail, Go, At, redis, past, IInv, TypeOK, Job
  <2>2. job.step = "fail" => job.due = 0
    BY DEF AgreedInv, DueOK
  <2>3. \A o \in Orders \ faulted' : Token(o)'
    BY <1>0, <1>4, <2>1, <2>2 DEF Token
  <2>4. \A p \in asked :
            IF job'.order = p[1] /\ job'.due > 0
            THEN p[2] = job'.due \/ p \in accepted \/ p[1] \in edited \cup faulted'
            ELSE Agreed(p[1], p[2])'
    BY <1>1, <1>2, <2>1 DEF PriceInv
  <2> QED BY <1>0, <1>1, <1>3, <2>1, <2>3, <2>4, AgreedGoesOn DEF PriceInv, DueOK
<1>6. CASE Close
  <2>1. session'.order = NoOrder /\ job.step = "close" /\ faulted' = faulted
    BY <1>6 DEF Close, At, NoSession, past
  <2>2. CASE job.due > 0
    <3>1. job'.order = q /\ job'.step = "commit" /\ job'.due = job.due
      BY <1>6, <2>2 DEF Close, Go, IInv, TypeOK, Job
    <3>2. \A o \in Orders \ faulted' : Token(o)'
      BY <1>0, <1>4, <2>1, <2>2, <3>1 DEF Token
    <3>3. \A p \in asked :
              IF job'.order = p[1] /\ job'.due > 0
              THEN p[2] = job'.due \/ p \in accepted \/ p[1] \in edited \cup faulted'
              ELSE Agreed(p[1], p[2])'
      BY <1>1, <1>2, <2>1, <3>1 DEF PriceInv
    <3> QED BY <1>0, <1>1, <1>3, <2>1, <2>2, <3>1, <3>2, <3>3, AgreedGoesOn DEF PriceInv, DueOK
  <2>3. CASE ~ (job.due > 0)
    <3>1. job'.order = NoOrder /\ job'.step = "idle" /\ job'.due = 0
      BY <1>6, <2>3 DEF Close, Done, Idle
    <3>2. \A o \in Orders \ faulted' : Token(o)'
      BY <1>0, <1>4, <2>1, <3>1 DEF Token
    <3>3. \A p \in asked : Agreed(p[1], p[2])'
      BY <1>1, <1>2, <2>3 DEF PriceInv
    <3> QED BY <1>0, <1>1, <1>3, <2>1, <3>1, <3>2, <3>3, AgreedGoesOn DEF PriceInv, DueOK
  <2> QED BY <2>2, <2>3
<1>7. CASE Abort
  <2>1. /\ job'.order = NoOrder /\ job'.step = "idle" /\ job'.due = 0 /\ session' = session
        /\ q # NoOrder => q \in faulted'
    BY <1>7 DEF Abort, Done, Idle, redis
  <2>2. \A o \in Orders \ faulted' : Token(o)'
    BY <1>0, <1>4, <2>1 DEF Token
  <2>3. \A p \in asked : Agreed(p[1], p[2])'
    <3>1. \A p \in asked : p[1] = q => p[1] \in faulted'
      BY <1>0, <2>1, ChatTypes
    <3> QED BY <1>1, <1>2, <3>1 DEF PriceInv, Agreed
  <2> QED BY <1>0, <1>1, <1>3, <2>1, <2>2, <2>3, AgreedGoesOn DEF PriceInv, DueOK
<1> QED BY <1>5, <1>6, <1>7

\* The trader is asked about an order for the first time, at a total that is agreed.
LEMMA AgreedAsk ==
    ASSUME IInv, AgreedInv, AskTrader \/ AskTimesOut
    PROVE  AgreedInv'
<1> PICK q, t : q = job.order /\ t = job.total
  OBVIOUS
<1>0. /\ UNCHANGED <<state, amount, accepted, edited, faulted, session, neg>>
      /\ q \in Orders /\ NoOrder \notin Orders /\ job.due \in Nat
      /\ job.step = "ask" /\ job'.step = "close" /\ job'.order = q /\ job'.due = job.due
      /\ asked' = asked \/ asked' = asked \cup {<<q, t>>}
      /\ state[q] # Absent
  BY ChatTypes DEF AskTrader, AskTimesOut, At, Go, book, redis, IInv, TypeOK, Job, JobOK
<1>1. PriceInv /\ \A o \in Orders \ faulted : Token(o)
  BY DEF AgreedInv
<1>2. \A o, u : Agreed(o, u) => Agreed(o, u)'
  BY <1>0, AgreedKeeps
<1>3. q \in faulted \/ ~ IsAsked(q)
  BY <1>0, <1>1 DEF Token
<1>4. ASSUME NEW p \in asked'
      PROVE  IF job'.order = p[1] /\ job'.due > 0
             THEN p[2] = job'.due \/ p \in accepted' \/ p[1] \in edited' \cup faulted'
             ELSE Agreed(p[1], p[2])'
  <2>1. CASE p \in asked
    BY <1>0, <1>1, <1>2, <2>1 DEF PriceInv
  <2>2. CASE p = <<q, t>>
    <3>1. p[1] = q /\ p[2] = t
      BY <2>2
    <3>2. IF job.due > 0 THEN t = job.due ELSE Agreed(q, t)
      BY <1>0, <1>1 DEF PriceInv
    <3> QED BY <1>0, <1>2, <3>1, <3>2
  <2> QED BY <1>0, <2>1, <2>2
<1>5. PriceInv'
  <2>1. (session.order # NoOrder => Agreed(session.order, session.total))'
    BY <1>0, <1>1 DEF PriceInv, Agreed
  <2>2. (neg.order # NoOrder => Agreed(neg.order, neg.original))'
    BY <1>0, <1>1 DEF PriceInv, Agreed
  <2> QED BY <1>0, <1>4, <2>1, <2>2 DEF PriceInv
<1>6. ASSUME NEW o \in Orders \ faulted'
      PROVE  Token(o)'
  <2>1. Token(o) /\ (IsAsked(o)' => IsAsked(o) \/ o = q)
    BY <1>0, <1>1 DEF IsAsked
  <2> QED BY <1>0, <1>3, <2>1 DEF Token
<1>7. \A p \in asked' : state'[p[1]] # Absent
  BY <1>0 DEF AgreedInv
<1> QED BY <1>0, <1>5, <1>6, <1>7 DEF AgreedInv, DueOK

\* The amount of an order is written: by the commit of a new order, which nothing names
\* yet, and by the commit of a quantity, at which the trader was asked.
LEMMA AgreedWrites ==
    ASSUME IInv, AgreedInv, Insert \/ Commit
    PROVE  AgreedInv'
<1> PICK q : q = job.order
  OBVIOUS
<1>0. /\ UNCHANGED <<accepted, edited, faulted, asked, session, neg>>
      /\ q \in Orders \cup {NoOrder} /\ NoOrder \notin Orders /\ job.due \in Nat
      /\ \A o \in Orders : o # q => amount'[o] = amount[o]
      /\ \A p \in asked : p[1] \in Orders
      /\ session.order \in Orders \cup {NoOrder} /\ neg.order \in Orders \cup {NoOrder}
  BY ChatTypes DEF Insert, Commit, redis, past, IInv, TypeOK
<1>1. PriceInv /\ \A o \in Orders \ faulted : Token(o)
  BY DEF AgreedInv
<1>2. \A o \in Orders : \A t : Agreed(o, t) => Agreed(o, t)' \/ o = q
  BY <1>0 DEF Agreed
<1>3. ASSUME NEW o \in Orders \ faulted'
      PROVE  Token(o) /\ (IsAsked(o)' <=> IsAsked(o)) /\ o # NoOrder
  BY <1>0, <1>1 DEF IsAsked
<1>4. q \in faulted \/ (session.order # q /\ neg.order # q) \/ q = NoOrder
  <2>1. CASE Insert
    <3>1. state[q] = Absent
      BY <2>1 DEF Insert, At, IInv, JobOK, BookInv, TypeOK, Orders
    <3> QED BY <1>0, <3>1 DEF IInv, SessionOrderIsStored
  <2>2. CASE Commit
    BY <1>0, <1>1, <2>2 DEF Commit, At, Token
  <2> QED BY <2>1, <2>2
<1>5. /\ session.order # NoOrder => Agreed(session.order, session.total)
      /\ neg.order # NoOrder => Agreed(neg.order, neg.original)
  BY <1>1 DEF PriceInv
<1>6. /\ (session.order # NoOrder => Agreed(session.order, session.total))'
      /\ (neg.order # NoOrder => Agreed(neg.order, neg.original))'
  BY <1>0, <1>4, <1>5 DEF Agreed
<1>7. CASE Insert
  <2>1. /\ job'.order = q /\ job'.step = "open" /\ job'.due = job.due
        /\ job'.total = job.total /\ job.step = "insert" /\ q \in Orders /\ state[q] = Absent
    BY <1>7 DEF Insert, Go, At, IInv, TypeOK, Job, JobOK, BookInv, Orders
  <2>2. \A p \in asked : p[1] # q /\ state[p[1]] # Absent
    BY <2>1 DEF AgreedInv
  <2>3. amount'[q] = job.total /\ \A o \in Orders : state[o] # Absent => state'[o] = state[o]
    BY <1>7, <2>1 DEF Insert, IInv, TypeOK
  <2>4. \A p \in asked : Agreed(p[1], p[2])'
    BY <1>0, <1>1, <1>2, <2>2 DEF PriceInv
  <2>5. PriceInv'
    BY <1>0, <1>6, <2>1, <2>2, <2>3, <2>4 DEF PriceInv, Agreed
  <2>6. ~ IsAsked(q) /\ session.order # q /\ neg.order # q
    BY <1>0, <2>1, <2>2 DEF IsAsked, IInv, SessionOrderIsStored
  <2>7. \A o \in Orders \ faulted' : Token(o)'
    BY <1>0, <1>3, <2>1, <2>6 DEF Token
  <2>8. \A p \in asked' : state'[p[1]] # Absent
    BY <1>0, <2>2, <2>3
  <2> QED BY <2>1, <2>5, <2>7, <2>8 DEF AgreedInv, DueOK
<1>8. CASE Commit
  <2>1. /\ job'.order = NoOrder /\ job'.step = "idle" /\ job'.due = 0 /\ state' = state
        /\ job.step = "commit" /\ (q \in Orders => amount'[q] = job.due)
    BY <1>8 DEF Commit, Done, Idle, At, IInv, TypeOK
  <2>2. ASSUME NEW p \in asked
        PROVE  Agreed(p[1], p[2])'
    <3>1. CASE p[1] # q
      BY <1>0, <1>1, <1>2, <3>1 DEF PriceInv
    <3>2. CASE p[1] = q
      <4>1. CASE job.due > 0
        <5>1. p[2] = job.due \/ p \in accepted \/ p[1] \in edited \cup faulted
          BY <1>1, <3>2, <4>1 DEF PriceInv
        <5>2. p = <<p[1], p[2]>>
          BY ChatTypes
        <5> QED BY <1>0, <2>1, <3>2, <5>1, <5>2 DEF Agreed
      <4>2. CASE ~ (job.due > 0)
        BY <2>1, <4>2 DEF AgreedInv, DueOK
      <4> QED BY <4>1, <4>2
    <3> QED BY <3>1, <3>2
  <2>3. PriceInv'
    BY <1>0, <1>6, <2>1, <2>2 DEF PriceInv
  <2>4. \A o \in Orders \ faulted' : Token(o)'
    BY <1>0, <1>3, <2>1 DEF Token
  <2> QED BY <1>0, <2>1, <2>3, <2>4 DEF AgreedInv, DueOK
<1> QED BY <1>7, <1>8

\* The messages of the customer.
LEMMA AgreedCustomer ==
    ASSUME IInv, AgreedInv, CustomerSays
    PROVE  AgreedInv'
<1>0. /\ session.order \in Orders \cup {NoOrder} /\ NoOrder \notin Orders
      /\ job.step = "idle" => job.order = NoOrder /\ job.due = 0
  BY ChatTypes DEF AgreedInv, DueOK
<1>1. ASSUME NEW total, placed < MaxOrders, job.step = "idle", job' = NewOrder(total),
             UNCHANGED <<book, neg, past>>, session' = session \/ session' = NoSession
      PROVE  AgreedInv'
  <2>1. placed + 1 \in Orders /\ placed + 1 > placed
    BY <1>1, MaxOrdersAssumption DEF IInv, TypeOK, Orders
  <2>2. state[placed + 1] = Absent
    BY <2>1 DEF IInv, BookInv
  <2>3. /\ job'.step = "insert" /\ job'.order = placed + 1 /\ job'.due = 0
        /\ session' = session \/ session'.order = NoOrder
    BY <1>1 DEF NewOrder, Idle, NoSession
  <2>4. PICK j : j = job'
    OBVIOUS
  <2> QED BY <1>1, <2>2, <2>3, <2>4, AgreedHandle
<1>2. ASSUME NEW total, CartOrder(total) \/ TextOrder(total) PROVE AgreedInv'
  BY <1>1, <1>2 DEF CartOrder, TextOrder, Place, Handle, redis
<1>3. CASE PhotoMatched
  BY <1>1, <1>3 DEF PhotoMatched, Place, Handle, redis
<1>4. CASE EmptyOrder
  BY <1>2, <1>4 DEF EmptyOrder
<1>5. CASE Question \/ Chat
  <2>1. /\ job.step = "idle" /\ UNCHANGED <<book, neg, past, job>> /\ session'.order = NoOrder
    BY <1>5 DEF Question, Chat, NoSession
  <2>2. PICK j : j = job'
    OBVIOUS
  <2>3. j.step = "idle" /\ j.order = NoOrder /\ j.due = 0
    BY <1>0, <2>1, <2>2
  <2> QED BY <2>1, <2>2, <2>3, AgreedHandle
<1>6. CASE Yes \/ \E n \in Quantities : Quantity(n)
  <2>1. job.step = "idle" /\ UNCHANGED <<book, neg, past>> /\ session' = session
    BY <1>6 DEF Yes, Quantity, Handle, redis
  <2>2. PICK j : j = job'
    OBVIOUS
  <2>3. \/ j.step = "close" /\ j.order = NoOrder
        \/ /\ j.step = "ask" /\ j.order = session.order /\ j.order # NoOrder /\ j.due \in Nat
           /\ IF j.due > 0 THEN j.total = j.due ELSE j.total = session.total
    <3>1. EndSession.step = "close" /\ EndSession.order = NoOrder
      BY DEF EndSession, Idle
    <3>2. ASSUME NEW t, NEW d PROVE
             /\ AskTraderFor(session.order, t, d).step = "ask"
             /\ AskTraderFor(session.order, t, d).order = session.order
             /\ AskTraderFor(session.order, t, d).total = t
             /\ AskTraderFor(session.order, t, d).due = d
      BY DEF AskTraderFor, Idle
    <3>3. CASE Yes
      BY <2>2, <3>1, <3>2, <3>3 DEF Yes, Handle, OpenInquiry
    <3>4. ASSUME NEW n \in Quantities, Quantity(n)
          PROVE  \/ j.step = "close" /\ j.order = NoOrder
                 \/ /\ j.step = "ask" /\ j.order = session.order /\ j.order # NoOrder
                    /\ j.due \in Nat
                    /\ IF j.due > 0 THEN j.total = j.due ELSE j.total = session.total
      <4>1. n * ListPrice \in Nat /\ n * ListPrice > 0
        <5>1. n \in Nat \ {0} /\ ListPrice \in Nat \ {0}
          BY QuantitiesAssumption, ListPriceAssumption
        <5> QED BY <5>1, SMTT(30)
      <4>2. \/ j = EndSession
            \/ /\ session.order # NoOrder
               /\ \/ j = AskTraderFor(session.order, n * ListPrice, n * ListPrice)
                  \/ j = AskTraderFor(session.order, session.total, 0)
        BY <2>2, <3>4 DEF Quantity, Handle, OpenInquiry
      <4> QED BY <3>1, <3>2, <4>1, <4>2
    <3> QED BY <1>6, <3>3, <3>4
  <2> QED BY <2>1, <2>2, <2>3, AgreedHandle
<1>7. CASE No
  <2>1. job.step = "idle" /\ UNCHANGED <<book, neg, past>> /\ session' = session
    BY <1>7 DEF No, Handle, redis
  <2>2. PICK j : j = job'
    OBVIOUS
  <2>3. j.step \in {"cancel", "resume"} /\ j.order = session.order /\ j.due = 0
    BY <1>7, <2>2 DEF No, Handle, Idle
  <2> QED BY <2>1, <2>2, <2>3, AgreedHandle
<1>8. ASSUME NEW offer, Bargain(offer) PROVE AgreedInv'
  <2>1. job.step = "idle" /\ UNCHANGED <<book, neg, past>> /\ session'.order = NoOrder
    BY <1>8 DEF Bargain, NoSession
  <2>2. PICK j : j = job'
    OBVIOUS
  <2>3. \/ j.step = "idle" /\ j.order = NoOrder /\ j.due = 0
        \/ /\ j.step = "escalate" /\ j.order = session.order /\ j.total = session.total
           /\ j.due = 0
    BY <1>8, <2>2 DEF Bargain, Idle
  <2> QED BY <2>1, <2>2, <2>3, AgreedHandle
<1> QED BY <1>2, <1>3, <1>4, <1>5, <1>6, <1>7, <1>8 DEF CustomerSays

\* The messages of the trader.
LEMMA AgreedTrader ==
    ASSUME IInv, AgreedInv, TraderSays
    PROVE  AgreedInv'
<1>1. CASE PriceReply
  <2>1. /\ placed < MaxOrders /\ job.step = "idle" /\ job' = NewOrder(ListPrice)
        /\ UNCHANGED <<book, neg, past>> /\ session' = session
    BY <1>1 DEF PriceReply, Place, Handle, redis
  <2>2. placed + 1 \in Orders /\ placed + 1 > placed
    BY <2>1, MaxOrdersAssumption DEF IInv, TypeOK, Orders
  <2>3. state[placed + 1] = Absent
    BY <2>2 DEF IInv, BookInv
  <2>4. PICK j : j = job'
    OBVIOUS
  <2>5. j.step = "insert" /\ j.order = placed + 1 /\ j.due = 0
    BY <2>1, <2>4 DEF NewOrder, Idle
  <2> QED BY <2>1, <2>3, <2>4, <2>5, AgreedHandle
<1>2. ASSUME NEW o \in Orders, TraderCancel(o) PROVE AgreedInv'
  <2>1. job.step = "idle" /\ UNCHANGED <<book, neg, past>> /\ session' = session
    BY <1>2 DEF TraderCancel, Handle, redis
  <2>2. PICK j : j = job'
    OBVIOUS
  <2>3. j.step = "fail" /\ j.due = 0
    BY <1>2, <2>2 DEF TraderCancel, Handle, Idle
  <2> QED BY <2>1, <2>2, <2>3, AgreedHandle
<1> QED BY <1>1, <1>2, AgreedAnswer DEF TraderSays

\* Every step keeps what the prices in the sessions and with the trader rest on.
LEMMA AgreedNext ==
    ASSUME IInv, AgreedInv, [Next]_vars
    PROVE  AgreedInv'
<1>1. CASE Listener
  BY <1>1, AgreedStores, AgreedEnds, AgreedAsk, AgreedWrites DEF Listener
<1>2. CASE UNCHANGED vars
  <2>1. UNCHANGED <<state, amount, session, neg, job, asked, accepted, edited, faulted>>
    BY <1>2 DEF vars, book, redis, past
  <2>2. PriceInv'
    BY <2>1 DEF AgreedInv, PriceInv, Agreed
  <2>3. \A o \in Orders \ faulted' : Token(o)'
    BY <2>1 DEF AgreedInv, Token, IsAsked
  <2> QED BY <2>1, <2>2, <2>3 DEF AgreedInv, DueOK
<1> QED BY <1>1, <1>2, AgreedCustomer, AgreedTrader, AgreedOutside DEF Next

\* The trader is asked to confirm an order at its amount or at a price that the trader
\* took or named (the YES and quantity branches of the confirmation handler, the answers
\* to an offer): for any number of orders, prices, rounds of bargaining and faults.
THEOREM TraderIsAskedTheAgreedPrice == Spec => []AskedIsAgreed
<1>1. Init => AgreedInv
  <2>1. Init => PriceInv
    BY DEF Init, PriceInv, NoSession, None, Idle
  <2>2. Init => \A o \in Orders \ faulted : Token(o)
    BY DEF Init, Token, IsAsked, NoSession, None, Idle, Orders, NoOrder
  <2> QED BY <2>1, <2>2 DEF Init, AgreedInv, DueOK, Idle
<1>2. IInv /\ AgreedInv /\ [Next]_vars => AgreedInv'
  BY AgreedNext
<1>3. IInv /\ AgreedInv => AskedIsAgreed
  <2> SUFFICES ASSUME IInv, AgreedInv, NEW p \in asked, job.order # p[1]
               PROVE  p[2] = amount[p[1]] \/ p \in accepted \/ p[1] \in edited \cup faulted
    BY DEF AskedIsAgreed
  <2>1. Agreed(p[1], p[2])
    BY DEF AgreedInv, PriceInv
  <2>2. p = <<p[1], p[2]>>
    BY ChatTypes
  <2> QED BY <2>1, <2>2 DEF Agreed
<1> QED BY <1>1, <1>2, <1>3, Invariance, PTL DEF Spec
=============================================================================
