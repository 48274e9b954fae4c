---------------------- MODULE OrderTransactions_Proofs ----------------------
(***************************************************************************)
(* Proofs about OrderTransactions, for every set of orders, customers and  *)
(* HTTP requests and every bound on the transactions.                      *)
(***************************************************************************)
EXTENDS OrderTransactions, FiniteSetTheorems, TLAPS

\* What the transition table allows (state_machine.py _VALID_TRANSITIONS): only
\* an inquiry is confirmed and only a confirmed order is paid.
LEMMA TableFacts ==
    ASSUME NEW from, NEW to, ValidTransition(from, to)
    PROVE  /\ from \in {"inquiry", "confirmed"}
           /\ to \in {"confirmed", "paid", "failed"}
           /\ to = "paid" => from = "confirmed"
  BY DEF ValidTransition, OSM!ValidTransition, OSM!ValidTransitions,
         OSM!OrderState

\* The record of a session without a transaction is one of the records.
LEMMA IdleType == Idle \in Txn
  BY OrdersAssumption DEF Idle, Txn, Steps, Absent, OrderState, OSM!Absent,
                          OSM!OrderState

\* Every step of a session and every operation keeps the types.
LEMMA TypeStep == TypeOK /\ [Next]_vars => TypeOK'
<1> SUFFICES ASSUME TypeOK, [Next]_vars
             PROVE  TypeOK'
  OBVIOUS
<1> USE DEF TypeOK, Txn, Steps, Event, Absent, OrderState, OSM!Absent, OSM!OrderState
<1>1. ASSUME NEW s \in Sessions, NEW o \in Orders, NEW step \in Steps,
             NEW target \in OrderState, Begin(s, o, step, target)
      PROVE  /\ txn' \in [Sessions -> Txn] /\ started' \in 0..MaxTxns
             /\ overlapped' \subseteq Orders
  BY <1>1, MaxTxnsAssumption DEF Begin
<1>2. ASSUME NEW s \in Sessions, NEW o \in Orders, NEW target \in OrderState,
             Load(s, o, target)
      PROVE  TypeOK'
  <2>1. Begin(s, o, "loaded", target)
    BY <1>2 DEF Load
  <2>2. UNCHANGED <<state, total, referral, events, history, sales, crossed>>
    BY <1>2 DEF Load
  <2> QED BY <1>1, <2>1, <2>2
<1>3. ASSUME NEW s \in Sessions, NEW o \in Orders, Operation(s, o)
      PROVE  TypeOK'
  <2>1. CASE CreateOrder(s, o)
    BY <1>1, <2>1 DEF CreateOrder
  <2>2. CASE ConfirmOrder(s, o) \/ MarkOrderPaid(s, o) \/ FailOrder(s, o)
    BY <1>2, <2>2 DEF ConfirmOrder, MarkOrderPaid, FailOrder
  <2> QED BY <1>3, <2>1, <2>2 DEF Operation
<1>4. ASSUME NEW o \in Orders, ListenerOperation(o)
      PROVE  TypeOK'
  <2> Listeners \subseteq Sessions
    BY DEF Sessions
  <2>1. CASE CreateChatOrder(o)
    BY <1>1, <2>1 DEF CreateChatOrder, Listeners
  <2>2. CASE \/ PaymentReceivedTap(o) \/ CustomerCancel(o)
             \/ HandlePaymentConfirmed(o) \/ HandleCreditSaleResolved(o)
    BY <1>2, <2>2 DEF PaymentReceivedTap, CustomerCancel, HandlePaymentConfirmed,
                      HandleCreditSaleResolved, Listeners
  <2> QED BY <1>4, <2>1, <2>2 DEF ListenerOperation
<1>5. ASSUME NEW s \in Sessions, Step(s) \/ Abort(s)
      PROVE  TypeOK'
  <2>1. CASE RejectTransition(s) \/ RaisePendingRollback(s) \/ Abort(s)
    BY <2>1, IdleType DEF RejectTransition, RaisePendingRollback, Abort, EndTxn
  <2>2. CASE UpdateState(s) \/ PublishStateChanged(s) \/ PublishPaid(s)
    BY <2>2 DEF UpdateState, PublishStateChanged, PublishPaid, Go
  <2>3. CASE ReadCustomer(s)
    <3>1. total[CustomerOf[txn[s].order]] \in Nat
      BY CustomerAssumption
    <3>2. ASSUME NEW n \in Nat
          PROVE  [txn[s] EXCEPT !.step = "counting", !.count = n] \in Txn
      OBVIOUS
    <3>3. ASSUME NEW r \in Txn
          PROVE  [txn EXCEPT ![s] = r] \in [Sessions -> Txn]
      OBVIOUS
    <3>4. txn' \in [Sessions -> Txn]
      BY <2>3, <3>1, <3>2, <3>3 DEF ReadCustomer
    <3> QED BY <2>3, <3>4 DEF ReadCustomer
  <2>4. CASE UpsertCustomer(s)
    <3>1. txn[s].count + 1 \in Nat
      OBVIOUS
    <3>2. ASSUME NEW n \in Nat
          PROVE  [txn[s] EXCEPT !.step = "listed", !.count = n] \in Txn
      OBVIOUS
    <3>3. CASE txn' = [txn EXCEPT ![s] = [@ EXCEPT !.step = "listed",
                                                   !.count = txn[s].count + 1]]
      <4>1. txn' \in [Sessions -> Txn]
        BY <3>1, <3>2, <3>3
      <4> QED BY <2>4, <4>1 DEF UpsertCustomer
    <3>4. CASE Go(s, "doomed")
      BY <2>4, <3>4 DEF UpsertCustomer, Go
    <3> QED BY <2>4, <3>3, <3>4 DEF UpsertCustomer
  <2>5. CASE AdvanceReferral(s)
    <3>1. PICK b \in BOOLEAN :
              txn' = [txn EXCEPT ![s] = [@ EXCEPT !.step = "referred", !.advanced = b]]
      BY <2>5 DEF AdvanceReferral
    <3>2. [txn[s] EXCEPT !.step = "referred", !.advanced = b] \in Txn
      OBVIOUS
    <3>3. txn' \in [Sessions -> Txn]
      BY <3>1, <3>2
    <3> QED BY <2>5, <3>3 DEF AdvanceReferral
  <2>6. CASE Commit(s)
    <3>1. txn[s].order \in Orders /\ txn[s].target \in OrderState /\ txn[s].count \in Nat
      OBVIOUS
    <3>2. txn' \in [Sessions -> Txn] /\ UNCHANGED <<events, started, overlapped>>
      BY <2>6, IdleType DEF Commit, EndTxn
    <3>3. state' \in [Orders -> OrderState \cup {Absent}]
      BY <2>6, <3>1 DEF Commit
    <3>4. history' \subseteq Orders \X (OrderState \cup {Absent}) \X OrderState
      BY <2>6, <3>1 DEF Commit
    <3>5. total' \in [Customers -> Nat]
      BY <2>6, <3>1, CustomerAssumption DEF Commit
    <3>6. referral' \in {"signed_up", "first_order"}
      BY <2>6 DEF Commit
    <3>7. CustomerOf[txn[s].order] \in Customers
      BY <3>1, CustomerAssumption
    <3>8. sales' \in [Customers -> Nat]
      BY <2>6, <3>7 DEF Commit
    <3>9. crossed' \subseteq Customers
      BY <2>6, <3>7 DEF Commit
    <3> QED BY <3>2, <3>3, <3>4, <3>5, <3>6, <3>8, <3>9
  <2> QED BY <1>5, <2>1, <2>2, <2>3, <2>4, <2>5, <2>6 DEF Step
<1>6. CASE UNCHANGED vars
  BY <1>6 DEF vars
<1> QED BY <1>3, <1>4, <1>5, <1>6 DEF Next

\* Every reachable state of the transactions is well typed.
THEOREM TypeCorrect == Spec => []TypeOK
<1>1. Init => TypeOK
  BY IdleType, MaxTxnsAssumption
     DEF Init, TypeOK, Absent, OrderState, OSM!Absent, OSM!OrderState
<1> QED BY <1>1, TypeStep, PTL DEF Spec

-----------------------------------------------------------------------------
(* The inductive invariant.                                                *)

\* Published events and committed changes are never taken back, so what was
\* confirmed or announced stays so.
LEMMA Monotone ==
    ASSUME history \subseteq history', events \subseteq events'
    PROVE  /\ \A o : WasConfirmed(o) => WasConfirmed(o)'
           /\ \A o, to : Announced(o, to) => Announced(o, to)'
  BY DEF WasConfirmed, Announced

\* A step of session s that commits nothing keeps the invariant, provided the
\* session's own conjunct holds afterwards and it holds no lock of another.
LEMMA LocalStep ==
    ASSUME IInv, TypeOK', NEW s \in Sessions,
           UNCHANGED <<state, total, referral, history>>,
           events \subseteq events',
           \A t \in Sessions \ {s} : txn'[t] = txn[t],
           TxnInv(s)',
           txn'[s].step \in HoldsOrder =>
               \A t \in Sessions \ {s} :
                   txn[t].step \in HoldsOrder => txn[t].order # txn'[s].order
    PROVE  IInv'
<1>1. /\ \A o : WasConfirmed(o) => WasConfirmed(o)'
      /\ \A o, to : Announced(o, to) => Announced(o, to)'
  BY Monotone
<1>2. RowLock'
  BY DEF IInv, RowLock
<1>3. ASSUME NEW t \in Sessions
      PROVE  TxnInv(t)'
  <2>1. CASE t = s
    BY <2>1
  <2>2. CASE t # s
    <3>1. TxnInv(t) /\ txn'[t] = txn[t]
      BY <2>2 DEF IInv
    <3> QED BY <1>1, <3>1 DEF TxnInv, BooksSale
  <2> QED BY <2>1, <2>2
<1>4. ConfirmedInHistory' /\ PaidWasConfirmed'
  BY <1>1 DEF IInv, ConfirmedInHistory, PaidWasConfirmed
<1>5. PaidIsBooked'
  BY DEF IInv, PaidIsBooked
<1>6. VisibleWasAnnounced'
  BY <1>1 DEF IInv, VisibleWasAnnounced
<1> QED BY <1>2, <1>3, <1>4, <1>5, <1>6 DEF IInv

\* Opening a transaction keeps the invariant.
LEMMA BeginStep ==
    ASSUME IInv, TypeOK', NEW s \in Sessions, NEW o \in Orders,
           NEW target \in OrderState, Load(s, o, target), target # "inquiry"
    PROVE  IInv'
<1>1. txn'[s] = [step |-> "loaded", order |-> o, seen |-> state[o],
                 target |-> target, count |-> 0, advanced |-> FALSE]
  BY DEF Load, Begin, IInv, TypeOK
<1>2. \A t \in Sessions \ {s} : txn'[t] = txn[t]
  BY DEF Load, Begin, IInv, TypeOK
<1>3. UNCHANGED <<state, total, referral, events, history>>
  BY DEF Load
<1>4. TxnInv(s)'
  BY <1>1, <1>3 DEF TxnInv, Load, IInv, ConfirmedInHistory, WasConfirmed, BooksSale,
                    HoldsEntry
<1> QED BY <1>1, <1>2, <1>3, <1>4, LocalStep DEF HoldsOrder

\* The INSERT of a new order keeps the invariant.
LEMMA CreateStep ==
    ASSUME IInv, TypeOK', NEW s \in Sessions, NEW o \in Orders, FreshId(o),
           Begin(s, o, "ready", "inquiry"), events \subseteq events',
           UNCHANGED <<state, total, referral, history>>
    PROVE  IInv'
<1>1. txn'[s] = [step |-> "ready", order |-> o, seen |-> state[o],
                 target |-> "inquiry", count |-> 0, advanced |-> FALSE]
  BY DEF Begin, IInv, TypeOK
<1>2. \A t \in Sessions \ {s} : txn'[t] = txn[t]
  BY DEF Begin, IInv, TypeOK
<1>3. TxnInv(s)'
  BY <1>1 DEF TxnInv, FreshId, BooksSale, HoldsEntry, Absent, OSM!Absent
<1>4. \A t \in Sessions \ {s} :
          txn[t].step \in HoldsOrder => txn[t].order # txn'[s].order
  BY <1>1 DEF FreshId, OrderLocked
<1> QED BY <1>1, <1>2, <1>3, <1>4, LocalStep

\* Ending a transaction without a commit keeps the invariant.
LEMMA EndStep ==
    ASSUME IInv, TypeOK', NEW s \in Sessions, EndTxn(s),
           UNCHANGED <<state, total, referral, events, history>>
    PROVE  IInv'
<1>1. txn'[s] = Idle /\ \A t \in Sessions \ {s} : txn'[t] = txn[t]
  BY DEF EndTxn, IInv, TypeOK
<1>2. TxnInv(s)'
  BY <1>1 DEF TxnInv, Idle, BooksSale, HoldsEntry
<1> QED BY <1>1, <1>2, LocalStep DEF Idle, HoldsOrder

\* A step inside a transaction that writes, reads or publishes keeps the
\* invariant: each step establishes what the next one relies on.
LEMMA InnerStep ==
    ASSUME IInv, TypeOK', NEW s \in Sessions,
           \/ UpdateState(s) \/ PublishStateChanged(s) \/ ReadCustomer(s)
           \/ UpsertCustomer(s) \/ AdvanceReferral(s) \/ PublishPaid(s)
    PROVE  IInv'
<1>1. TxnInv(s) /\ TypeOK /\ RowLock /\ txn[s] \in Txn
  BY DEF IInv, TypeOK
<1>2. \A t \in Sessions \ {s} : txn'[t] = txn[t]
  BY <1>1 DEF TypeOK, UpdateState, PublishStateChanged, ReadCustomer,
              UpsertCustomer, AdvanceReferral, PublishPaid, Go
<1>3. UNCHANGED <<state, total, referral, history>> /\ events \subseteq events'
  BY DEF UpdateState, PublishStateChanged, ReadCustomer, UpsertCustomer,
         AdvanceReferral, PublishPaid
<1>4. /\ \A o : WasConfirmed(o) => WasConfirmed(o)'
      /\ \A o, to : Announced(o, to) => Announced(o, to)'
  BY <1>3, Monotone
<1>5. txn'[s].order = txn[s].order
  <2>1. CASE UpdateState(s) \/ PublishStateChanged(s) \/ PublishPaid(s)
    BY <2>1, <1>1 DEF TypeOK, Txn, UpdateState, PublishStateChanged, PublishPaid, Go
  <2>2. CASE UpsertCustomer(s)
    BY <2>2, <1>1 DEF TypeOK, Txn, UpsertCustomer, Go
  <2>3. CASE ReadCustomer(s)
    BY <2>3, <1>1 DEF TypeOK, Txn, ReadCustomer
  <2>4. CASE AdvanceReferral(s)
    BY <2>4, <1>1 DEF TypeOK, Txn, AdvanceReferral
  <2> QED BY <2>1, <2>2, <2>3, <2>4
<1>6. \A t \in Sessions \ {s} : txn'[s].step \in HoldsOrder /\ txn[t].step \in HoldsOrder
                              => txn[t].order # txn'[s].order
  <2>1. CASE UpdateState(s)
    BY <2>1, <1>5 DEF UpdateState, OrderLocked
  <2>2. CASE txn[s].step \in HoldsOrder
    BY <2>2, <1>1, <1>5 DEF RowLock
  <2> QED BY <2>1, <2>2 DEF PublishStateChanged, ReadCustomer, UpsertCustomer,
                            AdvanceReferral, PublishPaid, HoldsOrder
<1>7. TxnInv(s)'
  <2>1. CASE UpdateState(s)
    <3>1. txn'[s] = [txn[s] EXCEPT !.step = "updated"] /\ txn[s].step = "loaded"
      BY <2>1, <1>1 DEF UpdateState, Go, TypeOK
    <3>2. ValidTransition(txn[s].seen, txn[s].target)
      BY <2>1 DEF UpdateState
    <3> QED BY <1>1, <1>3, <1>4, <3>1, <3>2 DEF TxnInv, BooksSale, HoldsEntry, Txn
  <2>2. CASE PublishStateChanged(s)
    <3>1. CASE txn[s].target = "paid"
      <4>1. txn'[s] = [txn[s] EXCEPT !.step = "announced"] /\ txn[s].step = "updated"
        BY <2>2, <3>1, <1>1 DEF PublishStateChanged, Go, TypeOK
      <4>2. Announced(txn[s].order, txn[s].target)'
        <5> DEFINE e == [order |-> txn[s].order, from |-> txn[s].seen,
                         to |-> txn[s].target]
        <5>1. e \in events'
          BY <2>2 DEF PublishStateChanged
        <5>2. e.order = txn[s].order /\ e.to = txn[s].target
          OBVIOUS
        <5>3. txn'[s].order = txn[s].order /\ txn'[s].target = txn[s].target
          BY <4>1, <1>1 DEF Txn
        <5> QED BY <5>1, <5>2, <5>3 DEF Announced
      <4> QED BY <1>1, <1>3, <1>4, <4>1, <4>2, <3>1 DEF TxnInv, BooksSale, HoldsEntry, Txn
    <3>2. CASE txn[s].target # "paid"
      <4>1. txn'[s] = [txn[s] EXCEPT !.step = "ready"] /\ txn[s].step = "updated"
        BY <2>2, <3>2, <1>1 DEF PublishStateChanged, Go, TypeOK
      <4>2. Announced(txn[s].order, txn[s].target)'
        <5> DEFINE e == [order |-> txn[s].order, from |-> txn[s].seen,
                         to |-> txn[s].target]
        <5>1. e \in events'
          BY <2>2 DEF PublishStateChanged
        <5>2. e.order = txn[s].order /\ e.to = txn[s].target
          OBVIOUS
        <5>3. txn'[s].order = txn[s].order /\ txn'[s].target = txn[s].target
          BY <4>1, <1>1 DEF Txn
        <5> QED BY <5>1, <5>2, <5>3 DEF Announced
      <4> QED BY <1>1, <1>3, <1>4, <4>1, <4>2, <3>2 DEF TxnInv, BooksSale, HoldsEntry, Txn
    <3> QED BY <3>1, <3>2
  <2>3. CASE ReadCustomer(s)
    <3>1. PICK n : txn'[s] = [txn[s] EXCEPT !.step = "counting", !.count = n]
      BY <2>3, <1>1 DEF ReadCustomer, TypeOK
    <3>2. txn[s].step = "announced"
      BY <2>3 DEF ReadCustomer
    <3> QED BY <1>1, <1>3, <1>4, <3>1, <3>2 DEF TxnInv, BooksSale, HoldsEntry, Txn
  <2>4. CASE UpsertCustomer(s)
    <3>1. txn[s].step = "counting" /\ txn[s].count \in Nat
      BY <2>4, <1>1 DEF UpsertCustomer, Txn
    <3>2. CASE txn'[s] = [txn[s] EXCEPT !.step = "doomed"]
      BY <1>1, <1>3, <1>4, <3>1, <3>2 DEF TxnInv, BooksSale, HoldsEntry, Txn
    <3>3. CASE txn'[s] = [txn[s] EXCEPT !.step = "listed", !.count = txn[s].count + 1]
      BY <1>1, <1>3, <1>4, <3>1, <3>3 DEF TxnInv, BooksSale, HoldsEntry, Txn
    <3> QED BY <2>4, <1>1, <3>2, <3>3 DEF UpsertCustomer, Go, TypeOK
  <2>5. CASE AdvanceReferral(s)
    <3>1. txn[s].step = "listed"
      BY <2>5 DEF AdvanceReferral
    <3>2. CASE referral = "signed_up"
      <4>1. txn'[s] = [txn[s] EXCEPT !.step = "referred", !.advanced = TRUE]
        BY <2>5, <3>2, <1>1 DEF AdvanceReferral, TypeOK
      <4> QED BY <1>1, <1>3, <1>4, <3>1, <4>1 DEF TxnInv, BooksSale, HoldsEntry, Txn
    <3>3. CASE referral = "first_order"
      <4>1. txn'[s] = [txn[s] EXCEPT !.step = "referred", !.advanced = FALSE]
        BY <2>5, <3>3, <1>1 DEF AdvanceReferral, TypeOK
      <4> QED BY <1>1, <1>3, <1>4, <3>1, <3>3, <4>1 DEF TxnInv, BooksSale, HoldsEntry, Txn
    <3> QED BY <3>2, <3>3, <1>1 DEF TypeOK
  <2>6. CASE PublishPaid(s)
    <3>1. txn'[s] = [txn[s] EXCEPT !.step = "ready"] /\ txn[s].step = "referred"
      BY <2>6, <1>1 DEF PublishPaid, Go, TypeOK
    <3> QED BY <1>1, <1>3, <1>4, <3>1 DEF TxnInv, BooksSale, HoldsEntry, Txn
  <2> QED BY <2>1, <2>2, <2>3, <2>4, <2>5, <2>6
<1> QED BY <1>2, <1>3, <1>6, <1>7, LocalStep

\* A commit keeps the invariant.  The row lock separates it from the other
\* writers of the order; sessions that only read the order saw a state that is
\* in the history, and it stays there.
LEMMA CommitStep ==
    ASSUME IInv, TypeOK', NEW s \in Sessions, Commit(s)
    PROVE  IInv'
<1> DEFINE o == txn[s].order
<1>1. TxnInv(s) /\ TypeOK /\ RowLock /\ txn[s] \in Txn /\ txn[s].step = "ready"
  BY DEF IInv, TypeOK, Commit
<1>2. o \in Orders /\ txn[s].target \in OrderState /\ CustomerOf[o] \in Customers
  BY <1>1, CustomerAssumption DEF Txn
<1>3. /\ txn'[s] = Idle
      /\ \A t \in Sessions \ {s} : txn'[t] = txn[t]
      /\ events' = events
  BY <1>1 DEF Commit, EndTxn, TypeOK
<1>4. state' = [state EXCEPT ![o] = txn[s].target]
  BY DEF Commit
<1>5. <<o, state[o], txn[s].target>> \in history' /\ history \subseteq history'
  BY DEF Commit
<1>6. /\ \A p : WasConfirmed(p) => WasConfirmed(p)'
      /\ \A p, to : Announced(p, to) => Announced(p, to)'
  BY <1>3, <1>5, Monotone
<1>7. RowLock'
  BY <1>3 DEF IInv, RowLock, Idle, HoldsOrder
<1>8. referral = "first_order" => referral' = "first_order"
  BY DEF Commit
<1>9. \A c \in Customers : total[c] > 0 => total'[c] > 0
  <2>1. CASE BooksSale(txn[s])
    <3>1. txn[s].count > 0
      BY <2>1, <1>1 DEF TxnInv
    <3>2. total' = [total EXCEPT ![CustomerOf[o]] = txn[s].count]
      BY <2>1 DEF Commit
    <3> QED BY <3>1, <3>2, <1>1 DEF TypeOK
  <2>2. CASE ~ BooksSale(txn[s])
    BY <2>2 DEF Commit
  <2> QED BY <2>1, <2>2
<1>10. ASSUME NEW t \in Sessions
       PROVE  TxnInv(t)'
  <2>1. CASE t = s
    BY <2>1, <1>3 DEF TxnInv, Idle, BooksSale, HoldsEntry
  <2>2. CASE t # s
    <3>1. TxnInv(t) /\ txn'[t] = txn[t] /\ txn[t].order \in Orders
      BY <2>2, <1>1, <1>3 DEF IInv, TypeOK, Txn
    <3>2. state[txn[t].order] # Absent => state'[txn[t].order] # Absent
      BY <1>1, <1>2, <1>4, <3>1 DEF TypeOK, OrderState, Absent, OSM!OrderState, OSM!Absent
    <3>3. txn[t].step = "ready" => state'[txn[t].order] = state[txn[t].order]
      BY <2>2, <1>1, <1>4, <3>1 DEF RowLock, HoldsOrder, TypeOK
    <3> QED BY <3>1, <3>2, <3>3, <1>6, <1>8 DEF TxnInv, BooksSale
  <2> QED BY <2>1, <2>2
<1>11. ConfirmedInHistory'
  <2> SUFFICES ASSUME NEW p \in Orders, state'[p] = "confirmed"
               PROVE  WasConfirmed(p)'
    BY DEF ConfirmedInHistory
  <2>1. CASE p = o
    <3>1. txn[s].target = "confirmed"
      BY <2>1, <1>1, <1>4 DEF TypeOK
    <3>2. state[o] \in OrderState \cup {Absent}
      BY <1>1, <1>2 DEF TypeOK
    <3> QED BY <2>1, <3>1, <3>2, <1>5 DEF WasConfirmed, OrderState, Absent
  <2>2. CASE p # o
    BY <2>2, <1>1, <1>4, <1>6 DEF IInv, ConfirmedInHistory, TypeOK
  <2> QED BY <2>1, <2>2
<1>12. PaidWasConfirmed'
  <2> SUFFICES ASSUME NEW p \in Orders, state'[p] = "paid"
               PROVE  WasConfirmed(p)'
    BY DEF PaidWasConfirmed
  <2>1. CASE p = o
    <3>1. txn[s].target = "paid"
      BY <2>1, <1>1, <1>4 DEF TypeOK
    <3>2. txn[s].seen = "confirmed"
      BY <3>1, <1>1, TableFacts DEF TxnInv
    <3> QED BY <2>1, <3>2, <1>1, <1>6 DEF TxnInv
  <2>2. CASE p # o
    BY <2>2, <1>1, <1>4, <1>6 DEF IInv, PaidWasConfirmed, TypeOK
  <2> QED BY <2>1, <2>2
<1>13. PaidIsBooked'
  <2> SUFFICES ASSUME NEW p \in Orders, state'[p] = "paid"
               PROVE  total'[CustomerOf[p]] > 0 /\ referral' = "first_order"
    BY DEF PaidIsBooked
  <2>1. CASE p = o
    <3>1. txn[s].target = "paid"
      BY <2>1, <1>1, <1>4 DEF TypeOK
    <3>2. txn[s].count > 0 /\ BooksSale(txn[s])
      BY <3>1, <1>1 DEF TxnInv, BooksSale
    <3>3. total' = [total EXCEPT ![CustomerOf[o]] = txn[s].count]
      BY <3>2 DEF Commit
    <3>4. referral' = "first_order"
      BY <3>1, <1>1 DEF TxnInv, Commit
    <3> QED BY <2>1, <3>2, <3>3, <3>4, <1>1, <1>2 DEF TypeOK
  <2>2. CASE p # o
    <3>1. state[p] = "paid"
      BY <2>2, <1>1, <1>4 DEF TypeOK
    <3> QED BY <3>1, <1>8, <1>9, CustomerAssumption DEF IInv, PaidIsBooked
  <2> QED BY <2>1, <2>2
<1>14. VisibleWasAnnounced'
  <2> SUFFICES ASSUME NEW p \in Orders, state'[p] \in OrderState \ {"inquiry"}
               PROVE  \E e \in events : e.order = p /\ e.to = state'[p]
    BY <1>3 DEF VisibleWasAnnounced, Announced
  <2>1. CASE p = o
    <3>1. state'[p] = txn[s].target
      BY <2>1, <1>1, <1>4 DEF TypeOK
    <3> QED BY <2>1, <3>1, <1>1, <1>3 DEF TxnInv, Announced
  <2>2. CASE p # o
    <3>1. state'[p] = state[p]
      BY <2>2, <1>1, <1>4 DEF TypeOK
    <3> QED BY <3>1, <1>3 DEF IInv, VisibleWasAnnounced, Announced
  <2> QED BY <2>1, <2>2
<1> QED BY <1>7, <1>10, <1>11, <1>12, <1>13, <1>14 DEF IInv

\* The invariant is inductive.
LEMMA InvStep == IInv /\ [Next]_vars => IInv'
<1> SUFFICES ASSUME IInv, [Next]_vars
             PROVE  IInv'
  OBVIOUS
<1>1. TypeOK'
  BY TypeStep DEF IInv
<1>2. ASSUME NEW s \in Sessions, NEW o \in Orders, Operation(s, o)
      PROVE  IInv'
  <2>1. CASE CreateOrder(s, o)
    BY <1>1, <2>1, CreateStep DEF CreateOrder
  <2>2. CASE ConfirmOrder(s, o) \/ MarkOrderPaid(s, o) \/ FailOrder(s, o)
    BY <1>1, <2>2, BeginStep DEF ConfirmOrder, MarkOrderPaid, FailOrder,
                                 OrderState, OSM!OrderState
  <2> QED BY <1>2, <2>1, <2>2 DEF Operation
<1>3. ASSUME NEW o \in Orders, ListenerOperation(o)
      PROVE  IInv'
  <2>0. /\ "order_intent" \in Sessions /\ "payment_confirmed" \in Sessions
        /\ "credit_sale" \in Sessions
        /\ "paid" \in OrderState /\ "failed" \in OrderState
    BY DEF Sessions, Listeners, OrderState, OSM!OrderState
  <2>1. CASE CreateChatOrder(o)
    BY <1>1, <2>0, <2>1, CreateStep DEF CreateChatOrder
  <2>2. CASE \/ PaymentReceivedTap(o) \/ CustomerCancel(o)
             \/ HandlePaymentConfirmed(o) \/ HandleCreditSaleResolved(o)
    BY <1>1, <2>0, <2>2, BeginStep DEF PaymentReceivedTap, CustomerCancel,
                                 HandlePaymentConfirmed, HandleCreditSaleResolved
  <2> QED BY <1>3, <2>1, <2>2 DEF ListenerOperation
<1>4. ASSUME NEW s \in Sessions, Step(s) \/ Abort(s)
      PROVE  IInv'
  <2>1. CASE RejectTransition(s) \/ RaisePendingRollback(s) \/ Abort(s)
    BY <1>1, <2>1, EndStep DEF RejectTransition, RaisePendingRollback, Abort
  <2>2. CASE Commit(s)
    BY <1>1, <2>2, CommitStep
  <2> QED BY <1>1, <1>4, <2>1, <2>2, InnerStep DEF Step
<1>5. CASE UNCHANGED vars
  BY <1>5 DEF vars, IInv, TypeOK, RowLock, TxnInv, ConfirmedInHistory, BooksSale,
              PaidWasConfirmed, PaidIsBooked, VisibleWasAnnounced, WasConfirmed, Announced
<1> QED BY <1>2, <1>3, <1>4, <1>5 DEF Next

\* Every reachable state satisfies the inductive invariant.
THEOREM Invariance == Spec => []IInv
<1>1. Init => IInv
  <2> SUFFICES ASSUME Init
               PROVE  IInv
    OBVIOUS
  <2>1. TypeOK
    BY IdleType, MaxTxnsAssumption
       DEF Init, TypeOK, Absent, OrderState, OSM!Absent, OSM!OrderState
  <2>2. RowLock /\ \A s \in Sessions : TxnInv(s)
    BY DEF Init, RowLock, TxnInv, Idle, HoldsOrder, BooksSale, HoldsEntry
  <2>3. /\ ConfirmedInHistory /\ PaidWasConfirmed /\ PaidIsBooked
        /\ VisibleWasAnnounced
    BY DEF Init, ConfirmedInHistory, PaidWasConfirmed, PaidIsBooked,
           VisibleWasAnnounced, OrderState, Absent, OSM!OrderState, OSM!Absent
  <2> QED BY <2>1, <2>2, <2>3 DEF IInv
<1> QED BY <1>1, InvStep, PTL DEF Spec

\* No interleaving of transactions lets an order be paid that was never
\* confirmed (orders/service.py _do_paid_transition).
THEOREM PaidOnlyAfterConfirmed == Spec => []PaidWasConfirmed
<1>1. IInv => PaidWasConfirmed
  BY DEF IInv
<1> QED BY <1>1, Invariance, PTL

\* A paid order is booked in the customer list and the trader's referral is
\* advanced, in one transaction (orders/service.py _do_paid_transition).
THEOREM PaidOrdersAreBooked == Spec => []PaidIsBooked
<1>1. IInv => PaidIsBooked
  BY DEF IInv
<1> QED BY <1>1, Invariance, PTL

\* A state other than inquiry is announced before it is visible
\* (orders/service.py _transition publishes, the caller commits).
THEOREM AnnouncedBeforeVisible == Spec => []VisibleWasAnnounced
<1>1. IInv => VisibleWasAnnounced
  BY DEF IInv
<1> QED BY <1>1, Invariance, PTL

\* Only a commit changes a committed state, and it is the move of the session's
\* own order.
LEMMA StateChange ==
    ASSUME IInv, [Next]_vars, state' # state
    PROVE  \E s \in Sessions : Commit(s)
  BY DEF Next, Operation, ListenerOperation, Step, CreateOrder, ConfirmOrder,
         MarkOrderPaid, FailOrder, CreateChatOrder, PaymentReceivedTap,
         CustomerCancel, HandlePaymentConfirmed, HandleCreditSaleResolved, Load,
         RejectTransition, UpdateState, PublishStateChanged, ReadCustomer,
         UpsertCustomer, RaisePendingRollback, AdvanceReferral, PublishPaid,
         Abort, vars

\* However transactions overlap, no order goes back to inquiry or disappears.
THEOREM NoReturnToInquiry == Spec => NeverBackToInquiry
<1> DEFINE A == \A o \in Orders : state[o] \in OrderState =>
                    /\ state'[o] \in OrderState
                    /\ state'[o] = "inquiry" => state[o] = "inquiry"
<1>1. IInv /\ [Next]_vars => [A]_state
  <2> SUFFICES ASSUME IInv, [Next]_vars, state' # state, NEW o \in Orders,
                      state[o] \in OrderState
               PROVE  /\ state'[o] \in OrderState
                      /\ state'[o] = "inquiry" => state[o] = "inquiry"
    OBVIOUS
  <2>1. PICK s \in Sessions : Commit(s)
    BY StateChange
  <2>2. TxnInv(s) /\ txn[s] \in Txn /\ txn[s].step = "ready"
        /\ state \in [Orders -> OrderState \cup {Absent}]
    BY <2>1 DEF IInv, TypeOK, Commit
  <2>3. state' = [state EXCEPT ![txn[s].order] = txn[s].target]
    BY <2>1 DEF Commit
  <2>4. CASE o = txn[s].order
    <3>1. state'[o] = txn[s].target /\ txn[s].target \in OrderState
      BY <2>2, <2>3, <2>4 DEF Txn
    <3>2. txn[s].target # "inquiry"
      BY <2>2, <2>4 DEF TxnInv, Absent, OrderState, OSM!Absent, OSM!OrderState
    <3> QED BY <3>1, <3>2
  <2>5. CASE o # txn[s].order
    BY <2>2, <2>3, <2>5
  <2> QED BY <2>4, <2>5
<1> QED BY <1>1, Invariance, PTL DEF Spec, NeverBackToInquiry

-----------------------------------------------------------------------------
(* Refinement: the transactions implement SharedOrders, the abstract state *)
(* machine with moves from a view that others have overtaken.              *)

\* On an order where transactions never overlapped, a loaded state is the committed
\* one until the session ends.
LEMMA SerialStep ==
    ASSUME IInv, SerialInv, [Next]_vars
    PROVE  SerialInv'
<1> USE DEF SerialInv
<1>0. TypeOK /\ \A s \in Sessions : txn[s] \in Txn
  BY DEF IInv, TypeOK
<1>1. ASSUME NEW s \in Sessions, NEW o \in Orders, NEW step, NEW target,
             Begin(s, o, step, target), UNCHANGED state
      PROVE  SerialInv'
  <2>1. txn'[s] = [step |-> step, order |-> o, seen |-> state[o],
                   target |-> target, count |-> 0, advanced |-> FALSE]
    BY <1>0, <1>1 DEF Begin, TypeOK
  <2>2. \A t \in Sessions \ {s} : txn'[t] = txn[t]
    BY <1>0, <1>1 DEF Begin, TypeOK
  <2>3. /\ overlapped \subseteq overlapped'
        /\ \A t \in Sessions : txn[t].step # "idle" /\ txn[t].order = o => o \in overlapped'
        /\ txn[s].step = "idle"
    BY <1>1 DEF Begin, InUse
  <2> QED BY <1>1, <2>1, <2>2, <2>3
<1>2. ASSUME NEW s \in Sessions, EndTxn(s), UNCHANGED <<state, overlapped>>
      PROVE  SerialInv'
  BY <1>0, <1>2 DEF EndTxn, TypeOK, Idle
<1>3. ASSUME NEW s \in Sessions, txn[s].step # "idle", UNCHANGED <<state, overlapped>>,
             txn'[s].order = txn[s].order, txn'[s].seen = txn[s].seen,
             \A t \in Sessions \ {s} : txn'[t] = txn[t]
      PROVE  SerialInv'
  BY <1>3
<1>4. ASSUME NEW s \in Sessions, Step(s) \/ Abort(s)
      PROVE  SerialInv'
  <2>1. CASE RejectTransition(s) \/ RaisePendingRollback(s) \/ Abort(s)
    BY <1>2, <2>1 DEF RejectTransition, RaisePendingRollback, Abort
  <2>2. CASE UpdateState(s) \/ PublishStateChanged(s) \/ PublishPaid(s)
    <3>1. PICK step : txn' = [txn EXCEPT ![s].step = step]
      BY <2>2 DEF UpdateState, PublishStateChanged, PublishPaid, Go
    <3> QED BY <1>0, <1>3, <2>2, <3>1 DEF UpdateState, PublishStateChanged,
                                          PublishPaid, TypeOK, Txn
  <2>3. CASE ReadCustomer(s)
    <3>1. PICK n : txn' = [txn EXCEPT ![s] = [@ EXCEPT !.step = "counting", !.count = n]]
      BY <2>3 DEF ReadCustomer
    <3> QED BY <1>0, <1>3, <2>3, <3>1 DEF ReadCustomer, TypeOK, Txn
  <2>4. CASE UpsertCustomer(s)
    <3>1. CASE txn' = [txn EXCEPT ![s].step = "doomed"]
      BY <1>0, <1>3, <2>4, <3>1 DEF UpsertCustomer, TypeOK, Txn
    <3>2. CASE txn' = [txn EXCEPT ![s] = [@ EXCEPT !.step = "listed",
                                                   !.count = txn[s].count + 1]]
      <4>1. txn'[s].order = txn[s].order /\ txn'[s].seen = txn[s].seen
        BY <1>0, <3>2 DEF TypeOK, Txn
      <4> QED BY <1>0, <1>3, <2>4, <3>2, <4>1 DEF UpsertCustomer, TypeOK
    <3> QED BY <2>4, <3>1, <3>2 DEF UpsertCustomer, Go
  <2>5. CASE AdvanceReferral(s)
    <3>1. PICK b : txn' = [txn EXCEPT ![s] = [@ EXCEPT !.step = "referred", !.advanced = b]]
      BY <2>5 DEF AdvanceReferral
    <3> QED BY <1>0, <1>3, <2>5, <3>1 DEF AdvanceReferral, TypeOK, Txn
  <2>6. CASE Commit(s)
    <3>1. /\ txn'[s] = Idle
          /\ \A t \in Sessions \ {s} : txn'[t] = txn[t]
          /\ txn[s].step = "ready" /\ overlapped' = overlapped
          /\ state' = [state EXCEPT ![txn[s].order] = txn[s].target]
      BY <1>0, <2>6 DEF Commit, EndTxn, TypeOK
    <3>2. \A t \in Sessions \ {s} : txn[t].step # "idle" /\ txn[t].order \notin overlapped =>
              state'[txn[t].order] = state[txn[t].order]
      BY <1>0, <3>1 DEF TypeOK, Txn
    <3> QED BY <3>1, <3>2 DEF Idle
  <2> QED BY <1>4, <2>1, <2>2, <2>3, <2>4, <2>5, <2>6 DEF Step
<1>5. ASSUME NEW s \in Sessions, NEW o \in Orders, Operation(s, o)
      PROVE  SerialInv'
  BY <1>1, <1>5 DEF Operation, CreateOrder, ConfirmOrder, MarkOrderPaid, FailOrder, Load
<1>6. ASSUME NEW o \in Orders, ListenerOperation(o)
      PROVE  SerialInv'
  BY <1>1, <1>6 DEF ListenerOperation, CreateChatOrder, PaymentReceivedTap,
         CustomerCancel, HandlePaymentConfirmed, HandleCreditSaleResolved, Load,
         Sessions, Listeners
<1>7. CASE UNCHANGED vars
  BY <1>7 DEF vars
<1> QED BY <1>4, <1>5, <1>6, <1>7 DEF Next

\* The table of the abstract specification is the one the sessions validate with.
LEMMA SameTable ==
    /\ SO!Absent = Absent
    /\ SO!OrderState = OrderState
    /\ \A from, to : ValidTransition(from, to) => SO!ValidTransition(from, to)
  BY DEF Absent, OrderState, ValidTransition, OSM!Absent, OSM!OrderState, OSM!ValidTransition,
         OSM!ValidTransitions, SO!Absent, SO!OrderState, SO!ValidTransition, SO!ValidTransitions

\* A step of session s keeps the views of the orders that the session neither had nor has
\* open, and the view of every session that goes on.
LEMMA OtherViews ==
    ASSUME NEW s \in Sessions, \A t \in Sessions \ {s} : txn'[t] = txn[t], NEW o,
           txn[s].step = "idle" \/ txn[s].order # o,
           txn'[s].step = "idle" \/ txn'[s].order # o
    PROVE  ViewsOf(o)' = ViewsOf(o)
  BY DEF ViewsOf

\* A session that opens a transaction loads the committed state.
LEMMA BeginLoads ==
    ASSUME TypeOK, NEW s \in Sessions, NEW o \in Orders, NEW step, step # "idle", NEW target,
           Begin(s, o, step, target), UNCHANGED state
    PROVE  SO!Load(o)
<1>1. /\ txn[s].step = "idle"
      /\ txn'[s] = [step |-> step, order |-> o, seen |-> state[o],
                    target |-> target, count |-> 0, advanced |-> FALSE]
      /\ \A t \in Sessions \ {s} : txn'[t] = txn[t]
  BY DEF Begin, TypeOK
<1>2. \A p \in Orders \ {o} : ViewsOf(p)' = ViewsOf(p)
  BY <1>1, OtherViews
<1>3. ViewsOf(o)' = ViewsOf(o) \cup {state[o]}
  <2>1. ASSUME NEW v \in ViewsOf(o)' PROVE v \in ViewsOf(o) \cup {state[o]}
    BY <1>1 DEF ViewsOf
  <2>2. ASSUME NEW v \in ViewsOf(o) PROVE v \in ViewsOf(o)'
    BY <1>1 DEF ViewsOf
  <2>3. state[o] \in ViewsOf(o)'
    BY <1>1 DEF ViewsOf
  <2> QED BY <2>1, <2>2, <2>3
<1>4. InUse(o) <=> ViewsOf(o) # {}
  BY DEF InUse, ViewsOf
<1>5. Views' = [Views EXCEPT ![o] = @ \cup {state[o]}]
  BY <1>2, <1>3 DEF Views
<1>6. Views[o] = ViewsOf(o)
  BY DEF Views
<1> QED BY <1>4, <1>5, <1>6 DEF SO!Load, Begin

\* A session that ends its transaction gives up its view.
LEMMA EndCloses ==
    ASSUME TypeOK, NEW s \in Sessions, EndTxn(s), UNCHANGED overlapped
    PROVE  SO!Close(txn[s].order)
<1> PICK o \in Orders : o = txn[s].order
  BY DEF TypeOK, Txn
<1>1. txn'[s] = Idle /\ \A t \in Sessions \ {s} : txn'[t] = txn[t]
  BY DEF EndTxn, TypeOK, Txn
<1>2. txn'[s].step = "idle"
  BY <1>1 DEF Idle
<1>3. \A p \in Orders \ {o} : ViewsOf(p)' = ViewsOf(p)
  BY <1>1, <1>2, OtherViews
<1>4. ViewsOf(o)' \in SUBSET ViewsOf(o)
  BY <1>1, <1>2 DEF ViewsOf
<1>5. Views' = [Views EXCEPT ![o] = ViewsOf(o)']
  BY <1>3 DEF Views
<1>6. Views[o] = ViewsOf(o)
  BY <1>1 DEF Views
<1> QED BY <1>4, <1>5, <1>6 DEF SO!Close

\* A step inside a transaction keeps what every session loaded.
LEMMA InnerKeepsViews ==
    ASSUME TypeOK, NEW s \in Sessions, txn[s].step # "idle", txn'[s].step # "idle",
           txn'[s].order = txn[s].order, txn'[s].seen = txn[s].seen,
           \A t \in Sessions \ {s} : txn'[t] = txn[t]
    PROVE  Views' = Views
<1>1. \A t \in Sessions : /\ txn'[t].step = "idle" <=> txn[t].step = "idle"
                          /\ txn'[t].order = txn[t].order /\ txn'[t].seen = txn[t].seen
  OBVIOUS
<1>2. \A p \in Orders : ViewsOf(p)' = ViewsOf(p)
  BY <1>1 DEF ViewsOf
<1> QED BY <1>2 DEF Views

\* The commit of a session is the move of SharedOrders: from the committed state on an
\* order without overlaps, from the session's own view elsewhere.
LEMMA CommitMoves ==
    ASSUME IInv, SerialInv, NEW s \in Sessions, Commit(s)
    PROVE  SO!SharedNext
<1> DEFINE o == txn[s].order
<1>0. TypeOK /\ TxnInv(s) /\ txn[s] \in Txn /\ txn[s].step = "ready"
  BY DEF IInv, TypeOK, Commit
<1>1. /\ o \in Orders /\ txn[s].target \in SO!OrderState
      /\ state' = [state EXCEPT ![o] = txn[s].target]
  BY <1>0, SameTable DEF Txn, Commit
<1>2. SO!Close(o)
  BY <1>0, EndCloses DEF Commit
<1>3. txn[s].seen \in Views[o]
  BY <1>0, <1>1 DEF Views, ViewsOf
<1>4. CASE txn[s].target = "inquiry"
  <2>1. state[o] = SO!Absent /\ txn[s].seen = SO!Absent
    BY <1>0, <1>4, SameTable DEF TxnInv
  <2>2. SO!Create(o)
    BY <1>1, <1>4, <2>1 DEF SO!Create
  <2> QED BY <1>1, <1>2, <1>3, <2>1, <2>2 DEF SO!Move, SO!SharedNext
<1>5. CASE txn[s].target # "inquiry"
  <2>1. SO!ValidTransition(txn[s].seen, txn[s].target)
    BY <1>0, <1>5, SameTable DEF TxnInv
  <2>2. CASE o \notin overlapped
    <3>1. state[o] = txn[s].seen
      BY <1>0, <2>2 DEF SerialInv
    <3>2. SO!Transition(o, txn[s].target)
      BY <1>1, <2>1, <3>1 DEF SO!Transition
    <3> QED BY <1>1, <1>2, <1>3, <3>1, <3>2 DEF SO!Move, SO!SharedNext
  <2>3. CASE o \in overlapped
    <3>1. SO!StaleMove(o, txn[s].target)
      BY <1>1, <1>2, <1>3, <2>1, <2>3 DEF SO!StaleMove
    <3> QED BY <1>1, <3>1 DEF SO!SharedNext
  <2> QED BY <2>2, <2>3
<1> QED BY <1>4, <1>5

\* Every step of the transactions is a step of SharedOrders or a stutter.
LEMMA SharedStep ==
    ASSUME IInv, SerialInv, [Next]_vars
    PROVE  [SO!SharedNext]_<<state, Views, overlapped>>
<1>0. TypeOK /\ \A s \in Sessions : txn[s] \in Txn
  BY DEF IInv, TypeOK
<1>1. ASSUME NEW s \in Sessions, NEW o \in Orders, Operation(s, o)
      PROVE  SO!SharedNext
  <2>1. SO!Load(o)
    BY <1>0, <1>1, BeginLoads DEF Operation, CreateOrder, ConfirmOrder, MarkOrderPaid,
                                  FailOrder, Load
  <2> QED BY <2>1 DEF SO!SharedNext
<1>2. ASSUME NEW o \in Orders, ListenerOperation(o)
      PROVE  SO!SharedNext
  <2>1. SO!Load(o)
    BY <1>0, <1>2, BeginLoads DEF ListenerOperation, CreateChatOrder, PaymentReceivedTap,
           CustomerCancel, HandlePaymentConfirmed, HandleCreditSaleResolved, Load,
           Sessions, Listeners
  <2> QED BY <2>1 DEF SO!SharedNext
<1>3. ASSUME NEW s \in Sessions, Step(s) \/ Abort(s)
      PROVE  [SO!SharedNext]_<<state, Views, overlapped>>
  <2>0. ASSUME NEW step, step # "idle", txn[s].step # "idle", UNCHANGED <<state, overlapped>>,
               txn'[s].step = step, txn'[s].order = txn[s].order, txn'[s].seen = txn[s].seen,
               \A t \in Sessions \ {s} : txn'[t] = txn[t]
        PROVE  UNCHANGED <<state, Views, overlapped>>
    BY <1>0, <2>0, InnerKeepsViews
  <2>1. CASE RejectTransition(s) \/ RaisePendingRollback(s) \/ Abort(s)
    <3>1. EndTxn(s) /\ UNCHANGED <<state, overlapped>>
      BY <2>1 DEF RejectTransition, RaisePendingRollback, Abort
    <3>2. SO!Close(txn[s].order) /\ txn[s].order \in Orders
      BY <1>0, <3>1, EndCloses DEF Txn
    <3> QED BY <3>1, <3>2 DEF SO!SharedNext
  <2>2. CASE UpdateState(s) \/ PublishStateChanged(s) \/ PublishPaid(s)
    <3>1. PICK step : step # "idle" /\ txn' = [txn EXCEPT ![s].step = step]
      BY <2>2 DEF UpdateState, PublishStateChanged, PublishPaid, Go
    <3> QED BY <1>0, <2>0, <2>2, <3>1 DEF UpdateState, PublishStateChanged, PublishPaid,
                                          TypeOK, Txn
  <2>3. CASE ReadCustomer(s)
    <3>1. PICK n : txn' = [txn EXCEPT ![s] = [@ EXCEPT !.step = "counting", !.count = n]]
      BY <2>3 DEF ReadCustomer
    <3> QED BY <1>0, <2>0, <2>3, <3>1 DEF ReadCustomer, TypeOK, Txn
  <2>4. CASE UpsertCustomer(s)
    <3>1. CASE txn' = [txn EXCEPT ![s].step = "doomed"]
      BY <1>0, <2>0, <2>4, <3>1 DEF UpsertCustomer, TypeOK, Txn
    <3>2. CASE txn' = [txn EXCEPT ![s] = [@ EXCEPT !.step = "listed",
                                                   !.count = txn[s].count + 1]]
      <4>1. /\ txn'[s].order = txn[s].order /\ txn'[s].seen = txn[s].seen
            /\ txn'[s].step = "listed"
        BY <1>0, <3>2 DEF TypeOK, Txn
      <4> QED BY <1>0, <2>0, <2>4, <3>2, <4>1 DEF UpsertCustomer, TypeOK
    <3> QED BY <2>4, <3>1, <3>2 DEF UpsertCustomer, Go
  <2>5. CASE AdvanceReferral(s)
    <3>1. PICK b : txn' = [txn EXCEPT ![s] = [@ EXCEPT !.step = "referred", !.advanced = b]]
      BY <2>5 DEF AdvanceReferral
    <3> QED BY <1>0, <2>0, <2>5, <3>1 DEF AdvanceReferral, TypeOK, Txn
  <2>6. CASE Commit(s)
    BY <2>6, CommitMoves
  <2> QED BY <1>3, <2>1, <2>2, <2>3, <2>4, <2>5, <2>6 DEF Step
<1>4. CASE UNCHANGED vars
  <2>1. \A p : ViewsOf(p)' = ViewsOf(p)
    BY <1>4 DEF vars, ViewsOf
  <2> QED BY <1>4, <2>1 DEF vars, Views
<1> QED BY <1>1, <1>2, <1>3, <1>4 DEF Next

\* Nothing holds before the first transaction but that there is none.
LEMMA SerialInit == Init => SerialInv
  BY DEF Init, SerialInv, Idle

\* However transactions overlap and fail, the committed states of the orders follow
\* SharedOrders: the transition table where transactions on an order do not overlap, and
\* a move that was valid in a state loaded meanwhile where they do.
THEOREM SharedRefinement == Spec => ImplementsSharedOrders
<1>1. Init => SO!SharedInit
  <2> SUFFICES ASSUME Init PROVE SO!SharedInit
    OBVIOUS
  <2>1. \A o \in Orders : ViewsOf(o) = {}
    BY DEF Init, ViewsOf, Idle
  <2> QED BY <2>1, SameTable DEF Init, SO!SharedInit, SO!Init, Views
<1>2. IInv /\ SerialInv /\ [Next]_vars =>
          [SO!SharedNext]_<<state, Views, overlapped>>
  BY SharedStep
<1>3. IInv /\ SerialInv /\ [Next]_vars => SerialInv'
  BY SerialStep
<1> QED BY <1>1, <1>2, <1>3, SerialInit, Invariance, PTL
        DEF Spec, ImplementsSharedOrders, SO!SharedSpec

\* However transactions overlap and fail, an order that a reader sees paid was confirmed
\* before, and its sale is booked.
THEOREM PaidOrdersAreEarned == Spec => []PaidIsEarned
<1>1. IInv => PaidIsEarned
  BY DEF IInv, PaidIsEarned
<1> QED BY <1>1, Invariance, PTL

-----------------------------------------------------------------------------
(* The totals of the customer list.                                        *)

\* No transactions overlapped on an order of the customer.
Unshared(c) == \A o \in overlapped : CustomerOf[o] # c

\* A session counts no more sales than were committed, and its own once it has written;
\* exactly as many unless a sale was committed behind its read.
CountsRight(s) ==
    \A c \in Customers : c = CustomerOf[txn[s].order] =>
        /\ txn[s].step = "counting" => /\ txn[s].count <= sales[c]
                                       /\ c \notin crossed => txn[s].count = total[c]
        /\ BooksSale(txn[s]) => /\ txn[s].count <= sales[c] + 1
                                /\ c \notin crossed => txn[s].count = total[c] + 1

\* One session at a time has written a customer's entry.
EntryLock ==
    \A s, t \in Sessions :
        s # t /\ BooksSale(txn[s]) /\ BooksSale(txn[t])
        => CustomerOf[txn[s].order] # CustomerOf[txn[t].order]

\* What the totals rest on: the reads of the open sessions, the lock of the entry and, for
\* the paid orders, that a commit on an order without overlaps finds what it loaded.
CountInv ==
    /\ \A c \in Customers : /\ total[c] <= sales[c]
                            /\ c \notin crossed => total[c] = sales[c]
                            /\ Unshared(c) => /\ IsFiniteSet(PaidOf(c))
                                              /\ sales[c] = Cardinality(PaidOf(c))
    /\ EntryLock
    /\ \A s \in Sessions : CountsRight(s)

\* A step of session s that commits nothing keeps the totals right if it keeps the count
\* of the session right and does not write the entry beside another.
LEMMA CountLocal ==
    ASSUME CountInv, NEW s \in Sessions, UNCHANGED <<state, total, sales, crossed>>,
           overlapped \subseteq overlapped',
           \A t \in Sessions \ {s} : txn'[t] = txn[t],
           CountsRight(s)',
           BooksSale(txn'[s]) =>
               \A t \in Sessions \ {s} : BooksSale(txn[t]) =>
                   CustomerOf[txn[t].order] # CustomerOf[txn'[s].order]
    PROVE  CountInv'
<1>1. \A c : PaidOf(c)' = PaidOf(c) /\ (Unshared(c)' => Unshared(c))
  BY DEF PaidOf, Unshared
<1>2. ASSUME NEW t \in Sessions \ {s}
      PROVE  CountsRight(t)'
  BY DEF CountInv, CountsRight, BooksSale
<1>3. EntryLock'
  BY DEF CountInv, EntryLock, BooksSale
<1> QED BY <1>1, <1>2, <1>3 DEF CountInv

\* A transaction that begins has counted nothing.
LEMMA CountBegin ==
    ASSUME TypeOK, CountInv, NEW s \in Sessions, NEW o \in Orders, NEW step, NEW target,
           step = "loaded" \/ (step = "ready" /\ target # "paid"),
           Begin(s, o, step, target), UNCHANGED <<state, total, sales, crossed>>
    PROVE  CountInv'
<1>1. txn'[s] = [step |-> step, order |-> o, seen |-> state[o],
                 target |-> target, count |-> 0, advanced |-> FALSE]
  BY DEF Begin, TypeOK
<1>2. \A t \in Sessions \ {s} : txn'[t] = txn[t]
  BY DEF Begin, TypeOK
<1>3. CountsRight(s)' /\ ~ BooksSale(txn'[s])
  BY <1>1 DEF CountsRight, BooksSale, HoldsEntry
<1>4. overlapped \subseteq overlapped'
  BY DEF Begin
<1> QED BY <1>2, <1>3, <1>4, CountLocal

\* The commit of a sale adds one order to the paid ones of a customer whose orders are
\* not shared, and takes none away.
LEMMA CommitPays ==
    ASSUME IInv, SerialInv, CountInv, NEW s \in Sessions, Commit(s), NEW c \in Customers,
           Unshared(c)
    PROVE  /\ IsFiniteSet(PaidOf(c)')
           /\ sales'[c] = Cardinality(PaidOf(c)')
<1> PICK o \in Orders : o = txn[s].order
  BY DEF IInv, TypeOK, Txn
<1>0. TypeOK /\ TxnInv(s) /\ txn[s] \in Txn /\ txn[s].step = "ready"
  BY DEF IInv, TypeOK, Commit
<1>1. CASE CustomerOf[o] # c
  <2>1. PaidOf(c)' = PaidOf(c)
    BY <1>0, <1>1 DEF Commit, PaidOf, TypeOK
  <2>2. sales'[c] = sales[c]
    BY <1>0, <1>1 DEF Commit, TypeOK
  <2> QED BY <2>1, <2>2 DEF CountInv
<1>2. CASE CustomerOf[o] = c
  <2>1. state[o] # "paid"
    <3>1. state[o] = txn[s].seen
      BY <1>0, <1>2 DEF SerialInv, Unshared
    <3>2. CASE txn[s].target = "inquiry"
      BY <1>0, <3>2 DEF TxnInv, Absent, OSM!Absent
    <3>3. CASE txn[s].target # "inquiry"
      <4>1. ValidTransition(txn[s].seen, txn[s].target)
        BY <1>0, <3>3 DEF TxnInv
      <4> QED BY <3>1, <4>1, TableFacts
    <3> QED BY <3>2, <3>3
  <2>2. \A p \in Orders : state'[p] = IF p = o THEN txn[s].target ELSE state[p]
    BY <1>0 DEF Commit, TypeOK
  <2>3. IsFiniteSet(PaidOf(c)) /\ o \notin PaidOf(c) /\ sales[c] = Cardinality(PaidOf(c))
    BY <2>1 DEF CountInv, PaidOf
  <2>4. CASE txn[s].target = "paid"
    <3>1. PaidOf(c)' = PaidOf(c) \cup {o}
      BY <1>2, <2>2, <2>4 DEF PaidOf
    <3>2. /\ IsFiniteSet(PaidOf(c) \cup {o})
          /\ Cardinality(PaidOf(c) \cup {o}) = Cardinality(PaidOf(c)) + 1
      BY <2>3, FS_AddElement
    <3>3. sales'[c] = sales[c] + 1
      BY <1>0, <1>2, <2>4 DEF Commit, BooksSale, TypeOK
    <3> QED BY <2>3, <3>1, <3>2, <3>3
  <2>5. CASE txn[s].target # "paid"
    <3>1. PaidOf(c)' = PaidOf(c)
      BY <2>1, <2>2, <2>5 DEF PaidOf
    <3>2. sales' = sales
      BY <1>0, <2>5 DEF Commit, BooksSale, HoldsEntry
    <3> QED BY <2>3, <3>1, <3>2
  <2> QED BY <2>4, <2>5
<1> QED BY <1>1, <1>2

\* After a commit of session s, the totals are right if they are right for every customer
\* and every other session.
LEMMA CountCommitted ==
    ASSUME TypeOK, CountInv, NEW s \in Sessions, Commit(s),
           \A c \in Customers :
               /\ total'[c] <= sales'[c]
               /\ c \notin crossed' => total'[c] = sales'[c]
               /\ Unshared(c) => /\ IsFiniteSet(PaidOf(c)')
                                 /\ sales'[c] = Cardinality(PaidOf(c)'),
           \A t \in Sessions \ {s}, c \in Customers :
               c = CustomerOf[txn[t].order] =>
                   /\ txn[t].step = "counting" =>
                          /\ txn[t].count <= sales'[c]
                          /\ c \notin crossed' => txn[t].count = total'[c]
                   /\ BooksSale(txn[t]) =>
                          /\ txn[t].count <= sales'[c] + 1
                          /\ c \notin crossed' => txn[t].count = total'[c] + 1
    PROVE  CountInv'
<1>1. /\ txn'[s] = Idle
      /\ \A t \in Sessions \ {s} : txn'[t] = txn[t]
      /\ overlapped' = overlapped
  BY DEF Commit, EndTxn, TypeOK
<1>2. ~ BooksSale(txn'[s]) /\ CountsRight(s)'
  BY <1>1 DEF CountsRight, BooksSale, HoldsEntry, Idle
<1>3. ASSUME NEW t \in Sessions \ {s}
      PROVE  CountsRight(t)'
  BY <1>1 DEF CountsRight, BooksSale
<1>4. EntryLock'
  BY <1>1, <1>2 DEF CountInv, EntryLock, BooksSale
<1>5. \A c \in Customers : Unshared(c)' => Unshared(c)
  BY <1>1 DEF Unshared
<1> QED BY <1>2, <1>3, <1>4, <1>5 DEF CountInv

\* A commit keeps the totals right: the session that wrote the entry counts one more than
\* the entry, and a session that read it before is told by crossed.
LEMMA CountCommit ==
    ASSUME IInv, SerialInv, CountInv, NEW s \in Sessions, Commit(s)
    PROVE  CountInv'
<1> PICK o \in Orders : o = txn[s].order
  BY DEF IInv, TypeOK, Txn
<1> PICK k \in Customers : k = CustomerOf[o]
  BY CustomerAssumption
<1>0. /\ TypeOK /\ TxnInv(s) /\ txn[s] \in Txn /\ txn[s].step = "ready"
      /\ txn[s].count \in Nat /\ CountsRight(s)
      /\ \A c \in Customers : total[c] \in Nat /\ sales[c] \in Nat
  BY DEF IInv, TypeOK, Commit, Txn, CountInv
<1>1. /\ txn'[s] = Idle
      /\ \A t \in Sessions \ {s} : txn'[t] = txn[t]
      /\ overlapped' = overlapped
  BY <1>0 DEF Commit, EndTxn, TypeOK
<1>2. \A c \in Customers : c # k => /\ total'[c] = total[c] /\ sales'[c] = sales[c]
                                    /\ c \in crossed' <=> c \in crossed
  BY <1>0 DEF Commit, TypeOK
<1>3. CASE BooksSale(txn[s])
  <2>1. /\ total'[k] = txn[s].count /\ sales'[k] = sales[k] + 1
        /\ crossed \subseteq crossed'
        /\ k \notin crossed' => ~ EntryRead(s, k)
    BY <1>0, <1>3 DEF Commit, TypeOK
  <2>2. /\ txn[s].count <= sales[k] + 1
        /\ k \notin crossed => txn[s].count = total[k] + 1
    BY <1>0, <1>3 DEF CountsRight
  <2>3. ASSUME NEW c \in Customers
        PROVE  total'[c] <= sales'[c] /\ (c \notin crossed' => total'[c] = sales'[c])
    <3>1. total[c] <= sales[c] /\ (c \notin crossed => total[c] = sales[c])
      BY DEF CountInv
    <3>2. CASE c = k
      BY <1>0, <2>1, <2>2, <3>1, <3>2
    <3>3. CASE c # k
      BY <1>2, <3>1, <3>3
    <3> QED BY <3>2, <3>3
  <2>4. ASSUME NEW t \in Sessions \ {s}, NEW c \in Customers, c = CustomerOf[txn[t].order]
        PROVE  /\ txn[t].step = "counting" => /\ txn[t].count <= sales'[c]
                                              /\ c \notin crossed' => txn[t].count = total'[c]
               /\ BooksSale(txn[t]) => /\ txn[t].count <= sales'[c] + 1
                                       /\ c \notin crossed' => txn[t].count = total'[c] + 1
    <3>0. /\ txn[t].step = "counting" => /\ txn[t].count <= sales[c]
                                         /\ c \notin crossed => txn[t].count = total[c]
          /\ BooksSale(txn[t]) => /\ txn[t].count <= sales[c] + 1
                                  /\ c \notin crossed => txn[t].count = total[c] + 1
      BY <2>4 DEF CountInv, CountsRight
    <3>1. CASE c = k
      <4>1. txn[t].count \in Nat
        BY <1>0 DEF TypeOK, Txn
      <4>2. ~ BooksSale(txn[t])
        BY <1>3, <2>4, <3>1 DEF CountInv, EntryLock
      <4>3. txn[t].step = "counting" => EntryRead(s, k)
        BY <2>4, <3>1 DEF EntryRead
      <4> QED BY <1>0, <2>1, <3>0, <3>1, <4>1, <4>2, <4>3
    <3>2. CASE c # k
      BY <1>2, <3>0, <3>2
    <3> QED BY <3>1, <3>2
  <2>5. \A c \in Customers :
            /\ total'[c] <= sales'[c]
            /\ c \notin crossed' => total'[c] = sales'[c]
            /\ Unshared(c) => /\ IsFiniteSet(PaidOf(c)')
                              /\ sales'[c] = Cardinality(PaidOf(c)')
    BY <2>3, CommitPays
  <2> QED BY <1>0, <2>4, <2>5, CountCommitted
<1>4. CASE ~ BooksSale(txn[s])
  <2>1. UNCHANGED <<total, sales, crossed>>
    BY <1>4 DEF Commit
  <2>2. \A c \in Customers :
            /\ total'[c] <= sales'[c]
            /\ c \notin crossed' => total'[c] = sales'[c]
            /\ Unshared(c) => /\ IsFiniteSet(PaidOf(c)')
                              /\ sales'[c] = Cardinality(PaidOf(c)')
    BY <2>1, CommitPays DEF CountInv
  <2>3. \A t \in Sessions \ {s}, c \in Customers :
            c = CustomerOf[txn[t].order] =>
                /\ txn[t].step = "counting" =>
                       /\ txn[t].count <= sales'[c]
                       /\ c \notin crossed' => txn[t].count = total'[c]
                /\ BooksSale(txn[t]) =>
                       /\ txn[t].count <= sales'[c] + 1
                       /\ c \notin crossed' => txn[t].count = total'[c] + 1
    BY <2>1 DEF CountInv, CountsRight
  <2> QED BY <1>0, <2>2, <2>3, CountCommitted
<1> QED BY <1>3, <1>4

\* Every step keeps the totals right.
LEMMA CountStep ==
    ASSUME IInv, SerialInv, CountInv, [Next]_vars
    PROVE  CountInv'
<1>0. TypeOK /\ \A s \in Sessions : txn[s] \in Txn /\ TxnInv(s) /\ CountsRight(s)
  BY DEF IInv, TypeOK, CountInv
<1>1. ASSUME NEW s \in Sessions, EndTxn(s), UNCHANGED <<state, total, sales, crossed, overlapped>>
      PROVE  CountInv'
  <2>1. txn'[s] = Idle /\ \A t \in Sessions \ {s} : txn'[t] = txn[t]
    BY <1>0, <1>1 DEF EndTxn, TypeOK
  <2>2. CountsRight(s)' /\ ~ BooksSale(txn'[s])
    BY <2>1 DEF CountsRight, BooksSale, HoldsEntry, Idle
  <2> QED BY <1>1, <2>1, <2>2, CountLocal
<1>2. ASSUME NEW s \in Sessions, Step(s) \/ Abort(s)
      PROVE  CountInv'
  <2>1. CASE RejectTransition(s) \/ RaisePendingRollback(s) \/ Abort(s)
    BY <1>1, <2>1 DEF RejectTransition, RaisePendingRollback, Abort
  <2>2. CASE UpdateState(s) \/ PublishStateChanged(s) \/ PublishPaid(s)
    <3>1. PICK step \in Steps :
              /\ txn' = [txn EXCEPT ![s].step = step]
              /\ step \in {"updated", "announced"} \/ (step = "ready" /\ txn[s].target # "paid")
                 \/ (step = "ready" /\ txn[s].step = "referred")
      BY <2>2 DEF UpdateState, PublishStateChanged, PublishPaid, Go, Steps
    <3>2. /\ txn'[s].step = step /\ txn'[s].order = txn[s].order
          /\ txn'[s].count = txn[s].count /\ txn'[s].target = txn[s].target
          /\ \A t \in Sessions \ {s} : txn'[t] = txn[t]
      BY <1>0, <3>1 DEF TypeOK, Txn
    <3>3. UNCHANGED <<state, total, sales, crossed, overlapped>>
      BY <2>2 DEF UpdateState, PublishStateChanged, PublishPaid
    <3>4. CountsRight(s)' /\ (BooksSale(txn'[s]) => BooksSale(txn[s]))
      BY <1>0, <3>1, <3>2, <3>3 DEF CountsRight, BooksSale, HoldsEntry
    <3> QED BY <3>2, <3>3, <3>4, CountLocal DEF CountInv, EntryLock
  <2>3. CASE ReadCustomer(s)
    <3>1. /\ txn'[s].step = "counting" /\ txn'[s].order = txn[s].order
          /\ txn'[s].count = total[CustomerOf[txn[s].order]]
          /\ \A t \in Sessions \ {s} : txn'[t] = txn[t]
      BY <1>0, <2>3 DEF ReadCustomer, TypeOK, Txn
    <3>2. UNCHANGED <<state, total, sales, crossed, overlapped>>
      BY <2>3 DEF ReadCustomer
    <3>3. CountsRight(s)' /\ ~ BooksSale(txn'[s])
      BY <3>1, <3>2 DEF CountsRight, BooksSale, HoldsEntry, CountInv
    <3> QED BY <3>1, <3>2, <3>3, CountLocal
  <2>4. CASE UpsertCustomer(s)
    <3>1. UNCHANGED <<state, total, sales, crossed, overlapped>> /\ txn[s].step = "counting"
      BY <2>4 DEF UpsertCustomer
    <3>2. /\ txn'[s].order = txn[s].order
          /\ \/ txn'[s].step = "doomed"
             \/ txn'[s].step = "listed" /\ txn'[s].count = txn[s].count + 1
          /\ \A t \in Sessions \ {s} : txn'[t] = txn[t]
      <4>1. CASE Go(s, "doomed")
        BY <1>0, <4>1 DEF Go, TypeOK, Txn
      <4>2. CASE txn' = [txn EXCEPT ![s] = [@ EXCEPT !.step = "listed",
                                                     !.count = txn[s].count + 1]]
        BY <1>0, <4>2 DEF TypeOK, Txn
      <4> QED BY <2>4, <4>1, <4>2 DEF UpsertCustomer
    <3>3. CountsRight(s)'
      <4>1. ASSUME NEW c \in Customers, c = CustomerOf[txn[s].order]
            PROVE  /\ txn[s].count + 1 <= sales[c] + 1
                   /\ c \notin crossed => txn[s].count + 1 = total[c] + 1
        <5>1. /\ txn[s].count <= sales[c] /\ (c \notin crossed => txn[s].count = total[c])
              /\ txn[s].count \in Nat /\ sales[c] \in Nat
          BY <1>0, <3>1, <4>1 DEF CountsRight, Txn, TypeOK
        <5> QED BY <5>1
      <4> QED BY <3>1, <3>2, <4>1 DEF CountsRight, BooksSale, HoldsEntry
    <3>4. \A t \in Sessions \ {s} : BooksSale(txn[t]) =>
              CustomerOf[txn[t].order] # CustomerOf[txn'[s].order]
      BY <2>4, <3>2 DEF UpsertCustomer, EntryLocked
    <3> QED BY <3>1, <3>2, <3>3, <3>4, CountLocal
  <2>5. CASE AdvanceReferral(s)
    <3>1. PICK b \in BOOLEAN :
              txn' = [txn EXCEPT ![s] = [@ EXCEPT !.step = "referred", !.advanced = b]]
      BY <2>5 DEF AdvanceReferral
    <3>2. /\ txn'[s].step = "referred" /\ txn'[s].order = txn[s].order
          /\ txn'[s].count = txn[s].count
          /\ \A t \in Sessions \ {s} : txn'[t] = txn[t]
      BY <1>0, <3>1 DEF TypeOK, Txn
    <3>3. UNCHANGED <<state, total, sales, crossed, overlapped>> /\ BooksSale(txn[s])
      BY <2>5 DEF AdvanceReferral, BooksSale, HoldsEntry
    <3>4. CountsRight(s)'
      BY <1>0, <3>2, <3>3 DEF CountsRight, BooksSale, HoldsEntry
    <3> QED BY <3>2, <3>3, <3>4, CountLocal DEF CountInv, EntryLock
  <2>6. CASE Commit(s)
    BY <2>6, CountCommit
  <2> QED BY <1>2, <2>1, <2>2, <2>3, <2>4, <2>5, <2>6 DEF Step
<1>3. ASSUME NEW s \in Sessions, NEW o \in Orders, Operation(s, o)
      PROVE  CountInv'
  BY <1>0, <1>3, CountBegin
     DEF Operation, CreateOrder, ConfirmOrder, MarkOrderPaid, FailOrder, Load
<1>4. ASSUME NEW o \in Orders, ListenerOperation(o)
      PROVE  CountInv'
  BY <1>0, <1>4, CountBegin
     DEF ListenerOperation, CreateChatOrder, PaymentReceivedTap, CustomerCancel,
         HandlePaymentConfirmed, HandleCreditSaleResolved, Load, Sessions, Listeners
<1>5. CASE UNCHANGED vars
  BY <1>5 DEF vars, CountInv, CountsRight, PaidOf, BooksSale, EntryLock, Unshared
<1> QED BY <1>2, <1>3, <1>4, <1>5 DEF Next

\* However transactions overlap and fail, total_orders never counts more than the sales
\* committed, counts them all unless a sale was committed behind the read of another, and
\* the sales are the paid orders unless transactions shared an order.
THEOREM TotalsCountSales == Spec => []TotalsAreSales
<1>1. Init => CountInv
  <2> SUFFICES ASSUME Init PROVE CountInv
    OBVIOUS
  <2>1. \A c \in Customers : PaidOf(c) = {}
    BY DEF Init, PaidOf, Absent, OSM!Absent
  <2>2. EntryLock /\ \A s \in Sessions : CountsRight(s)
    BY DEF Init, CountsRight, EntryLock, Idle, BooksSale, HoldsEntry
  <2> QED BY <2>1, <2>2, FS_EmptySet DEF Init, CountInv
<1>2. CountInv => TotalsAreSales
  BY DEF CountInv, Unshared, TotalsAreSales
<1>3. IInv /\ SerialInv /\ [Next]_vars => SerialInv'
  BY SerialStep
<1>4. IInv /\ SerialInv /\ CountInv /\ [Next]_vars => CountInv'
  BY CountStep
<1> QED BY <1>1, <1>2, <1>3, <1>4, SerialInit, Invariance, PTL DEF Spec
=============================================================================
