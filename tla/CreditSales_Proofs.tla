------------------------- MODULE CreditSales_Proofs -------------------------
(***************************************************************************)
(* Proofs about CreditSales, for every set of orders, sales and dashboard  *)
(* requests, every debt and every size of the naira.                       *)
(***************************************************************************)
EXTENDS CreditSales, TLAPS

\* The record of a session without a transaction is one of the records.
LEMMA IdleType == Idle \in Txn /\ Idle.step = "idle"
  BY SalesAssumption DEF Idle, Txn, Steps, CreditSaleStatus

\* Amounts in naira and back stay natural numbers.
LEMMA NairaFacts ==
    /\ \A a \in Nat : a \div Naira \in Nat
    /\ \A n \in Nat : n * Naira \in Nat
<1>1. Naira \in Nat /\ Naira > 0
  BY NairaAssumption
<1>2. ASSUME NEW a \in Nat PROVE a \div Naira \in Nat
  BY <1>1, SMTT(30)
<1>3. ASSUME NEW n \in Nat PROVE n * Naira \in Nat
  BY <1>1, SMTT(30)
<1> QED BY <1>2, <1>3

\* Every operation that begins a transaction keeps the types.
LEMMA StartType ==
    ASSUME TypeOK, NEW s \in Sessions, NEW x \in Sales, NEW step \in Steps,
           NEW to \in CreditSaleStatus, NEW pays \in Nat,
           NEW after \in {"nothing", "flag", "publish"},
           Start(s, x, step, to, pays, after)
    PROVE  TypeOK'
<1>1. amount[x] \div Naira \in Nat
  BY NairaFacts DEF TypeOK
<1>2. ASSUME NEW n \in Nat, NEW seen \in CreditSaleStatus
      PROVE  [step |-> step, sale |-> x, seen |-> seen, to |-> to, pays |-> pays,
              rest |-> n, after |-> after] \in Txn
  BY DEF Txn
<1>3. (IF status[x] = Absent THEN "active" ELSE status[x]) \in CreditSaleStatus
  BY DEF TypeOK, CreditSaleStatus
<1>4. txn' \in [Sessions -> Txn]
  BY <1>1, <1>2, <1>3 DEF Start, TypeOK
<1> QED BY <1>4 DEF Start, TypeOK

\* Every step keeps the types.
LEMMA TypeStep == IInv /\ [Next]_vars => TypeOK'
<1> SUFFICES ASSUME IInv, [Next]_vars
             PROVE  TypeOK'
  OBVIOUS
<1>0. TypeOK
  BY DEF IInv
<1> HttpRequests \subseteq Sessions /\ "order_intent" \in Sessions
  BY DEF Sessions
<1>1. ASSUME NEW o \in Orders, NEW to \in OSM!OrderState, MoveOrder(o, to)
      PROVE  TypeOK'
  BY <1>0, <1>1 DEF MoveOrder, OSM!Transition, TypeOK
<1>2. ASSUME queue # <<>>, queue' = Tail(queue)
      PROVE  /\ Head(queue) \in [sale : Sales, to : CreditSaleStatus]
             /\ queue' \in Seq([sale : Sales, to : CreditSaleStatus])
  <2> DEFINE E == [sale : Sales, to : CreditSaleStatus]
  <2>1. queue \in Seq(E)
    BY <1>0 DEF TypeOK
  <2> HIDE DEF E
  <2>2. Head(queue) \in E /\ queue' \in Seq(E)
    BY <1>2, <2>1
  <2> QED BY <2>2 DEF E
<1>3. ASSUME NEW x \in Sales, Create(x)
      PROVE  TypeOK'
  <2>1. "creating" \in Steps /\ "active" \in CreditSaleStatus
    BY DEF Steps, CreditSaleStatus
  <2> QED BY <1>0, <1>3, <2>1, StartType
          DEF Create, CreateCreditSale, CreditCommand, CreateDebt
<1>4. ASSUME NEW x \in Sales, Settle(x)
      PROVE  TypeOK'
  <2>1. "loaded" \in Steps /\ "settled" \in CreditSaleStatus
    BY DEF Steps, CreditSaleStatus
  <2>2. ASSUME NEW s \in HttpRequests, NEW to \in CreditSaleStatus, ChangeStatus(s, x, to)
        PROVE  TypeOK'
    BY <1>0, <2>1, <2>2, StartType DEF ChangeStatus
  <2>3. CASE DebtSettleTap(x)
    BY <1>0, <2>1, <2>3, StartType DEF DebtSettleTap
  <2>4. ASSUME NEW paid \in 1..(Debt \div Naira), SettleDebt(x, paid)
        PROVE  TypeOK'
    <3>1. paid \in Nat
      BY NairaFacts, DebtAssumption
    <3>2. status[x] \in CreditSaleStatus
      BY <2>4 DEF SettleDebt, CreditSaleStatus
    <3> QED BY <1>0, <2>1, <2>4, <3>1, <3>2, StartType DEF SettleDebt
  <2> QED BY <1>4, <2>2, <2>3, <2>4 DEF Settle
<1>5. ASSUME NEW s \in Sessions, Step(s) \/ AbortTxn(s)
      PROVE  TypeOK'
  <2>0. /\ txn[s] \in Txn /\ txn[s].sale \in Sales /\ txn[s].to \in CreditSaleStatus
        /\ txn[s].pays \in Nat /\ txn[s].rest \in Nat
    BY <1>0 DEF TypeOK, Txn
  <2>1. ASSUME NEW step \in Steps, Go(s, step)
        PROVE  txn' \in [Sessions -> Txn]
    BY <1>0, <2>1 DEF TypeOK, Go, Txn
  <2>2. ASSUME EndTxn(s)
        PROVE  txn' \in [Sessions -> Txn]
    BY <1>0, <2>2, IdleType DEF TypeOK, EndTxn
  <2>3. {"flagging", "updated", "committed"} \subseteq Steps
    BY DEF Steps
  <2>4. CASE InsertSale(s)
    <3>1. txn' \in [Sessions -> Txn]
      BY <2>1, <2>2, <2>3, <2>4 DEF InsertSale
    <3>2. NewAmount(txn[s]) \in Nat
      BY NairaFacts, DebtAssumption DEF NewAmount
    <3>3. status' \in [Sales -> CreditSaleStatus \cup {Absent}]
      BY <1>0, <2>0, <2>4 DEF InsertSale, TypeOK, CreditSaleStatus
    <3>4. amount' \in [Sales -> Nat]
      BY <1>0, <2>0, <2>4, <3>2 DEF InsertSale, TypeOK
    <3> QED BY <1>0, <2>4, <3>1, <3>3, <3>4 DEF InsertSale, TypeOK
  <2>5. CASE FlagOrder(s)
    <3>1. txn' \in [Sessions -> Txn]
      BY <2>2, <2>5 DEF FlagOrder
    <3> QED BY <1>0, <2>5, <3>1 DEF FlagOrder, TypeOK
  <2>6. CASE UpdateSale(s)
    BY <1>0, <2>1, <2>3, <2>6 DEF UpdateSale, TypeOK
  <2>7. CASE CommitSale(s)
    <3>1. txn' \in [Sessions -> Txn]
      BY <2>1, <2>2, <2>3, <2>7 DEF CommitSale
    <3>2. status' \in [Sales -> CreditSaleStatus \cup {Absent}]
      BY <1>0, <2>0, <2>7 DEF CommitSale, TypeOK
    <3>3. amount' \in [Sales -> Nat]
      <4>1. CASE txn[s].pays > 0
        <5>1. txn[s].rest - txn[s].pays \in Nat
          BY <2>0, <2>7, <4>1 DEF CommitSale, IInv, TxnInv
        <5>2. (txn[s].rest - txn[s].pays) * Naira \in Nat
          BY <5>1, NairaFacts
        <5> QED BY <1>0, <2>0, <2>7, <4>1, <5>2 DEF CommitSale, TypeOK
      <4>2. CASE ~ (txn[s].pays > 0)
        BY <1>0, <2>7, <4>2 DEF CommitSale, TypeOK
      <4> QED BY <4>1, <4>2
    <3>4. repaid' \in [Sales -> Nat]
      <4>1. txn[s].pays * Naira \in Nat
        BY <2>0, NairaFacts
      <4>2. repaid[txn[s].sale] + txn[s].pays * Naira \in Nat
        BY <1>0, <2>0, <4>1 DEF TypeOK
      <4> QED BY <1>0, <2>0, <2>7, <4>2 DEF CommitSale, TypeOK
    <3>5. resolved' \subseteq Sales
      BY <1>0, <2>0, <2>7 DEF CommitSale, TypeOK
    <3> QED BY <1>0, <2>7, <3>1, <3>2, <3>3, <3>4, <3>5 DEF CommitSale, TypeOK
  <2>8. CASE PublishStatusChanged(s)
    <3>1. txn' \in [Sessions -> Txn]
      BY <2>2, <2>8 DEF PublishStatusChanged
    <3>2. queue' \in Seq([sale : Sales, to : CreditSaleStatus])
      BY <1>0, <2>0, <2>8 DEF PublishStatusChanged, TypeOK
    <3> QED BY <1>0, <2>8, <3>1, <3>2 DEF PublishStatusChanged, TypeOK
  <2>9. CASE AbortTxn(s)
    <3>1. lost' \subseteq Sales
      BY <1>0, <2>0, <2>9 DEF AbortTxn, TypeOK
    <3> QED BY <1>0, <2>2, <2>9, <3>1 DEF AbortTxn, TypeOK
  <2> QED BY <1>5, <2>4, <2>5, <2>6, <2>7, <2>8, <2>9 DEF Step
<1>6. CASE HandleStatusChanged
  <2>1. queue' \in Seq([sale : Sales, to : CreditSaleStatus])
    BY <1>2, <1>6 DEF HandleStatusChanged
  <2>2. Head(queue) \in [sale : Sales, to : CreditSaleStatus]
    BY <1>2, <1>6 DEF HandleStatusChanged
  <2>3. OrderOf[Head(queue).sale] \in Orders \cup {NoOrder}
    BY <2>2, OrderOfAssumption
  <2>4. state' \in [Orders -> OSM!OrderState] /\ completed' \subseteq Orders
    <3>1. \/ UNCHANGED <<state, completed>>
          \/ \E o \in Orders : /\ state' = [state EXCEPT ![o] = "paid"]
                               /\ completed' = completed \cup {o}
      BY <1>6, <2>3 DEF HandleStatusChanged
    <3> QED BY <1>0, <3>1 DEF TypeOK, OSM!OrderState
  <2> QED BY <1>0, <1>6, <2>1, <2>4 DEF HandleStatusChanged, TypeOK
<1>7. CASE Restart
  <2>1. queue' = <<>> /\ txn' \in [Sessions -> Txn]
    BY <1>7, IdleType DEF Restart
  <2>2. <<>> \in Seq([sale : Sales, to : CreditSaleStatus])
    OBVIOUS
  <2>3. \A i \in DOMAIN queue : queue[i].sale \in Sales
    <3>1. \A E : queue \in Seq(E) => \A i \in DOMAIN queue : queue[i] \in E
      OBVIOUS
    <3>2. \A i \in DOMAIN queue : queue[i] \in [sale : Sales, to : CreditSaleStatus]
      BY <1>0, <3>1 DEF TypeOK
    <3> QED BY <3>2
  <2>4. \A s \in Sessions : txn[s].sale \in Sales
    BY <1>0 DEF TypeOK, Txn
  <2>5. lost' \subseteq Sales
    BY <1>0, <1>7, <2>3, <2>4 DEF Restart, TypeOK
  <2> QED BY <1>0, <1>7, <2>1, <2>2, <2>5 DEF Restart, TypeOK
<1>8. CASE UNCHANGED vars
  BY <1>0, <1>8 DEF vars, TypeOK
<1>9. CASE DropStatusChanged
  <2>1. Head(queue).sale \in Sales
    BY <1>2, <1>9 DEF DropStatusChanged
  <2> QED BY <1>0, <1>2, <1>9, <2>1 DEF DropStatusChanged, TypeOK
<1> QED BY <1>1, <1>3, <1>4, <1>5, <1>6, <1>7, <1>8, <1>9 DEF Next

-----------------------------------------------------------------------------
\* The parts of the invariant beyond the types.
BookInv ==
    /\ \A s \in Sessions : TxnInv(s)
    /\ QueuedWasResolved
    /\ OneSalePerOrder
    /\ CreditFlagHasSale
    /\ CompletedWasResolved

\* An operation begins with a sale that is in the book, or creates one.
LEMMA StartInv ==
    ASSUME IInv, NEW s \in Sessions, NEW x \in Sales, NEW step, NEW to, NEW pays, NEW after,
           \/ step = "creating" /\ (after = "flag" => OrderOf[x] # NoOrder)
           \/ /\ step = "loaded" /\ status[x] # Absent
              /\ pays > 0 => pays < amount[x] \div Naira,
           Start(s, x, step, to, pays, after)
    PROVE  BookInv'
<1>0. TypeOK /\ BookInv
  BY DEF IInv, BookInv
<1>1. ASSUME NEW r \in Sessions
      PROVE  TxnInv(r)'
  <2>1. CASE r # s
    <3>1. txn'[r] = txn[r]
      BY <1>0, <2>1 DEF Start, TypeOK
    <3> QED BY <1>0, <3>1 DEF Start, TxnInv, BookInv
  <2>2. CASE r = s
    <3>1. txn'[s] = [step |-> step, sale |-> x,
                     seen |-> IF status[x] = Absent THEN "active" ELSE status[x],
                     to |-> to, pays |-> pays, rest |-> amount[x] \div Naira,
                     after |-> after]
      BY <1>0 DEF Start, TypeOK
    <3>2. /\ txn'[s].step = step /\ txn'[s].sale = x /\ txn'[s].pays = pays
          /\ txn'[s].rest = amount[x] \div Naira /\ txn'[s].after = after
      BY <3>1
    <3> QED BY <2>2, <3>2 DEF Start, TxnInv
  <2> QED BY <2>1, <2>2
<1>2. UNCHANGED <<state, isCredit, status, amount, repaid, queue, resolved, completed, lost>>
  BY DEF Start
<1> QED BY <1>0, <1>1, <1>2 DEF BookInv, QueuedWasResolved, OneSalePerOrder,
                                CreditFlagHasSale, CompletedWasResolved

\* A session that ends knows nothing, and the others know what they knew.
LEMMA OthersKnow ==
    ASSUME IInv, NEW s \in Sessions, NEW r,
           txn' = [txn EXCEPT ![s] = r],
           \A x \in Sales : status[x] # Absent => status'[x] # Absent,
           resolved \subseteq resolved',
           r.step = "idle" \/ TxnInv(s)'
    PROVE  \A q \in Sessions : TxnInv(q)'
<1> SUFFICES ASSUME NEW q \in Sessions
             PROVE  TxnInv(q)'
  OBVIOUS
<1>1. TypeOK /\ TxnInv(q)
  BY DEF IInv
<1>2. txn'[q] = IF q = s THEN r ELSE txn[q]
  BY <1>1 DEF TypeOK
<1>3. txn[q].sale \in Sales
  BY <1>1 DEF TypeOK, Txn
<1>4. CASE q = s
  BY <1>2, <1>4 DEF TxnInv
<1>5. CASE q # s
  BY <1>1, <1>2, <1>3, <1>5 DEF TxnInv
<1> QED BY <1>4, <1>5

\* Go moves a session to a step and leaves the rest of its record alone.
LEMMA GoKnows ==
    ASSUME IInv, NEW s \in Sessions, NEW step \in Steps, Go(s, step),
           \A x \in Sales : status[x] # Absent => status'[x] # Absent,
           resolved \subseteq resolved',
           step \in {"flagging", "updated", "committed"},
           status'[txn[s].sale] # Absent,
           step = "flagging" => OrderOf[txn[s].sale] # NoOrder,
           step = "updated" => txn[s].step = "loaded",
           step = "committed" /\ txn[s].to \in Resolving => txn[s].sale \in resolved'
    PROVE  \A q \in Sessions : TxnInv(q)'
<1>1. TypeOK /\ TxnInv(s)
  BY DEF IInv
<1> DEFINE r == [txn[s] EXCEPT !.step = step]
<1>2. txn' = [txn EXCEPT ![s] = r] /\ txn'[s] = r
  BY <1>1 DEF Go, TypeOK
<1>3. /\ r.step = step /\ r.sale = txn[s].sale /\ r.to = txn[s].to
      /\ r.pays = txn[s].pays /\ r.rest = txn[s].rest /\ r.after = txn[s].after
  BY <1>1 DEF TypeOK, Txn
<1>4. TxnInv(s)'
  BY <1>1, <1>2, <1>3 DEF TxnInv
<1> HIDE DEF r
<1> QED BY <1>2, <1>4, OthersKnow

\* Every step keeps the book in order.
LEMMA BookStep == IInv /\ [Next]_vars => BookInv'
<1> SUFFICES ASSUME IInv, [Next]_vars
             PROVE  BookInv'
  OBVIOUS
<1>0. TypeOK /\ BookInv
  BY DEF IInv, BookInv
<1> HttpRequests \subseteq Sessions /\ "order_intent" \in Sessions
  BY DEF Sessions
<1> USE DEF QueuedWasResolved, OneSalePerOrder, CreditFlagHasSale, CompletedWasResolved
<1>1. ASSUME NEW o \in Orders, NEW to \in OSM!OrderState, MoveOrder(o, to)
      PROVE  BookInv'
  BY <1>0, <1>1 DEF MoveOrder, BookInv, TxnInv
<1>2. ASSUME queue # <<>>, queue' = Tail(queue), UNCHANGED resolved
      PROVE  QueuedWasResolved'
  <2>1. \A i \in DOMAIN queue' : queue'[i] = queue[i + 1] /\ i + 1 \in DOMAIN queue
    BY <1>0, <1>2 DEF TypeOK
  <2> QED BY <1>0, <1>2, <2>1 DEF BookInv
<1>3. ASSUME NEW x \in Sales, Create(x)
      PROVE  BookInv'
  BY <1>3, StartInv, NoOrderAssumption
     DEF Create, CreateCreditSale, CreditCommand, CreateDebt
<1>4. ASSUME NEW x \in Sales, Settle(x)
      PROVE  BookInv'
  <2>1. CASE \E s \in HttpRequests, to \in CreditSaleStatus : ChangeStatus(s, x, to)
    BY <2>1, StartInv DEF ChangeStatus
  <2>2. CASE DebtSettleTap(x)
    BY <2>2, StartInv DEF DebtSettleTap, Absent, OSM!Absent
  <2>3. ASSUME NEW paid \in 1..(Debt \div Naira), SettleDebt(x, paid)
        PROVE  BookInv'
    <3>1. paid \in Nat /\ amount[x] \div Naira \in Nat
      BY <1>0, NairaFacts, DebtAssumption DEF TypeOK
    <3>2. status[x] # Absent
      BY <2>3 DEF SettleDebt, Absent, OSM!Absent
    <3>3. CASE paid >= amount[x] \div Naira
      BY <2>3, <3>2, <3>3, StartInv DEF SettleDebt
    <3>4. CASE ~ (paid >= amount[x] \div Naira)
      <4>1. paid < amount[x] \div Naira
        BY <3>1, <3>4
      <4> QED BY <2>3, <3>2, <3>4, <4>1, StartInv DEF SettleDebt
    <3> QED BY <3>3, <3>4
  <2> QED BY <1>4, <2>1, <2>2, <2>3 DEF Settle
<1>5. ASSUME NEW s \in Sessions, Step(s) \/ AbortTxn(s)
      PROVE  BookInv'
  <2>0. /\ txn[s] \in Txn /\ txn[s].sale \in Sales /\ txn[s].to \in CreditSaleStatus
        /\ TxnInv(s)
    BY <1>0 DEF TypeOK, Txn, BookInv
  <2>1. Absent \notin CreditSaleStatus /\ "active" \in CreditSaleStatus
    BY DEF Absent, OSM!Absent, CreditSaleStatus
  <2>2. ASSUME EndTxn(s),
               \A x \in Sales : status[x] # Absent => status'[x] # Absent,
               resolved \subseteq resolved'
        PROVE  \A q \in Sessions : TxnInv(q)'
    BY <2>2, OthersKnow, IdleType DEF EndTxn
  <2>4. CASE InsertSale(s)
    <3>1. CASE OrderTaken(txn[s].sale)
      <4>1. EndTxn(s) /\ UNCHANGED <<status, resolved, isCredit, queue, completed>>
        BY <2>4, <3>1 DEF InsertSale
      <4> QED BY <1>0, <2>2, <4>1 DEF BookInv
    <3>2. CASE ~ OrderTaken(txn[s].sale)
      <4>1. /\ status' = [status EXCEPT ![txn[s].sale] = "active"]
            /\ UNCHANGED <<resolved, isCredit, queue, completed>>
            /\ txn[s].step = "creating"
        BY <2>4, <3>2 DEF InsertSale
      <4>2. /\ \A x \in Sales : status'[x] = IF x = txn[s].sale THEN "active" ELSE status[x]
            /\ \A x \in Sales : status[x] # Absent => status'[x] # Absent
        BY <1>0, <2>0, <2>1, <4>1 DEF TypeOK
      <4>3. OneSalePerOrder'
        BY <1>0, <2>0, <3>2, <4>2 DEF BookInv, OrderTaken
      <4>4. CreditFlagHasSale'
        BY <1>0, <4>1, <4>2 DEF BookInv
      <4>5. \A q \in Sessions : TxnInv(q)'
        <5>1. CASE EndTxn(s)
          BY <2>2, <4>1, <4>2, <5>1
        <5>2. CASE Go(s, "flagging") /\ txn[s].after = "flag"
          <6>1. OrderOf[txn[s].sale] # NoOrder /\ status'[txn[s].sale] # Absent
            BY <2>0, <2>1, <4>1, <4>2, <5>2 DEF TxnInv
          <6> QED BY <4>1, <4>2, <5>2, <6>1, GoKnows DEF Steps
        <5> QED BY <2>4, <3>2, <5>1, <5>2 DEF InsertSale
      <4> QED BY <1>0, <4>1, <4>3, <4>4, <4>5 DEF BookInv
    <3> QED BY <3>1, <3>2
  <2>5. CASE FlagOrder(s)
    <3>1. EndTxn(s) /\ UNCHANGED <<status, resolved, queue, completed>>
      BY <2>5 DEF FlagOrder
    <3>2. status[txn[s].sale] # Absent
      BY <2>0, <2>5 DEF FlagOrder, TxnInv
    <3>3. CreditFlagHasSale'
      BY <1>0, <2>0, <2>5, <3>1, <3>2 DEF FlagOrder, BookInv, TypeOK
    <3> QED BY <1>0, <2>2, <3>1, <3>3 DEF BookInv
  <2>6. CASE UpdateSale(s)
    <3>1. /\ Go(s, "updated") /\ txn[s].step = "loaded"
          /\ UNCHANGED <<status, isCredit, resolved, queue, completed>>
      BY <2>6 DEF UpdateSale
    <3>2. status'[txn[s].sale] # Absent
      BY <2>0, <3>1 DEF TxnInv
    <3>3. \A q \in Sessions : TxnInv(q)'
      BY <3>1, <3>2, GoKnows DEF Steps
    <3> QED BY <1>0, <3>1, <3>3 DEF BookInv
  <2>7. CASE CommitSale(s)
    <3>1. /\ txn[s].step = "updated" /\ status[txn[s].sale] # Absent
          /\ UNCHANGED <<isCredit, queue, completed>>
      BY <2>0, <2>7 DEF CommitSale, TxnInv
    <3>2. \A x \in Sales : status[x] # Absent <=> status'[x] # Absent
      BY <1>0, <2>0, <2>1, <2>7, <3>1 DEF CommitSale, TypeOK
    <3>3. /\ resolved \subseteq resolved'
          /\ txn[s].to \in Resolving => txn[s].sale \in resolved'
      BY <2>7 DEF CommitSale
    <3>4. \A q \in Sessions : TxnInv(q)'
      <4>1. CASE EndTxn(s)
        BY <2>2, <3>2, <3>3, <4>1
      <4>2. CASE Go(s, "committed")
        BY <2>0, <3>1, <3>2, <3>3, <4>2, GoKnows DEF Steps
      <4> QED BY <2>7, <4>1, <4>2 DEF CommitSale
    <3> QED BY <1>0, <3>1, <3>2, <3>3, <3>4 DEF BookInv
  <2>8. CASE PublishStatusChanged(s)
    <3>1. /\ EndTxn(s) /\ UNCHANGED <<status, isCredit, resolved, completed>>
          /\ txn[s].to \in Resolving => txn[s].sale \in resolved
          /\ queue' = Append(queue, [sale |-> txn[s].sale, to |-> txn[s].to])
      BY <2>0, <2>8 DEF PublishStatusChanged, TxnInv
    <3>2. /\ DOMAIN queue' = 1..(Len(queue) + 1)
          /\ \A i \in 1..Len(queue) : queue'[i] = queue[i]
          /\ queue'[Len(queue) + 1] = [sale |-> txn[s].sale, to |-> txn[s].to]
      BY <1>0, <2>0, <3>1 DEF TypeOK
    <3>3. DOMAIN queue = 1..Len(queue) /\ Len(queue) \in Nat
      BY <1>0 DEF TypeOK
    <3>4. QueuedWasResolved'
      BY <1>0, <3>1, <3>2, <3>3 DEF BookInv
    <3> QED BY <1>0, <2>2, <3>1, <3>4 DEF BookInv
  <2>9. CASE AbortTxn(s)
    BY <1>0, <2>2, <2>9 DEF AbortTxn, BookInv
  <2> QED BY <1>5, <2>4, <2>5, <2>6, <2>7, <2>8, <2>9 DEF Step
<1>6. CASE HandleStatusChanged
  <2>1. Head(queue) = queue[1] /\ 1 \in DOMAIN queue
    BY <1>0, <1>6 DEF HandleStatusChanged, TypeOK
  <2>2. QueuedWasResolved'
    BY <1>2, <1>6 DEF HandleStatusChanged
  <2>3. \/ completed' = completed
        \/ /\ completed' = completed \cup {OrderOf[Head(queue).sale]}
           /\ Head(queue).sale \in resolved
    BY <1>0, <1>6, <2>1 DEF HandleStatusChanged, BookInv
  <2>4. UNCHANGED <<isCredit, status, txn, resolved>>
    BY <1>6 DEF HandleStatusChanged
  <2> QED BY <1>0, <2>2, <2>3, <2>4 DEF BookInv, TxnInv
<1>7. CASE Restart
  <2>1. /\ UNCHANGED <<isCredit, status, resolved, completed>>
        /\ \A s \in Sessions : txn'[s].step = "idle"
        /\ queue' = <<>>
    BY <1>7, IdleType DEF Restart
  <2> QED BY <1>0, <2>1 DEF BookInv, TxnInv
<1>8. CASE UNCHANGED vars
  BY <1>0, <1>8 DEF vars, BookInv, TxnInv
<1>9. CASE DropStatusChanged
  <2>1. QueuedWasResolved'
    BY <1>2, <1>9 DEF DropStatusChanged
  <2> QED BY <1>0, <1>9, <2>1 DEF DropStatusChanged, BookInv, TxnInv
<1> QED BY <1>1, <1>3, <1>4, <1>5, <1>6, <1>7, <1>8, <1>9 DEF Next

\* The invariant of the debt book: what the sessions know and what the listener
\* has received agree with what is committed.
THEOREM Invariance == Spec => []IInv
<1>1. Init => IInv
  <2> SUFFICES ASSUME Init PROVE IInv
    OBVIOUS
  <2>1. TypeOK
    <3>1. queue \in Seq([sale : Sales, to : CreditSaleStatus])
      BY DEF Init
    <3> QED BY <3>1, IdleType DEF Init, TypeOK, OSM!OrderState
  <2>2. \A s \in Sessions : TxnInv(s)
    BY IdleType DEF Init, TxnInv
  <2> QED BY <2>1, <2>2 DEF Init, IInv, QueuedWasResolved, OneSalePerOrder,
             CreditFlagHasSale, CompletedWasResolved
<1>2. IInv /\ [Next]_vars => IInv'
  BY TypeStep, BookStep DEF IInv, BookInv
<1> QED BY <1>1, <1>2, PTL DEF Spec

\* One credit sale per order, for any number of overlapping creations.
THEOREM NoDoubleDebt == Spec => []OneSalePerOrder
<1>1. IInv => OneSalePerOrder
  BY DEF IInv
<1> QED BY <1>1, Invariance, PTL

\* No order is marked credit without a debt, wherever CREDIT stops.
THEOREM FlagFollowsSale == Spec => []CreditFlagHasSale
<1>1. IInv => CreditFlagHasSale
  BY DEF IInv
<1> QED BY <1>1, Invariance, PTL

\* The listener completes only orders whose sale was resolved and committed.
THEOREM CompletionFollowsCommit == Spec => []CompletedWasResolved
<1>1. IInv => CompletedWasResolved
  BY DEF IInv
<1> QED BY <1>1, Invariance, PTL

\* Type correctness of the debt book.
THEOREM TypeCorrect == Spec => []TypeOK
<1>1. IInv => TypeOK
  BY DEF IInv
<1> QED BY <1>1, Invariance, PTL

\* One sale per order, and no order marked credit without it, for any number of sessions.
THEOREM BookAgreesWithOrders == Spec => []BookMatchesOrders
<1>1. IInv => BookMatchesOrders
  BY DEF IInv, BookMatchesOrders
<1> QED BY <1>1, Invariance, PTL

-----------------------------------------------------------------------------
(* The amounts.                                                            *)

\* What whole naira and kobo do to each other: int() drops less than a naira, and
\* nothing of whole naira.
LEMMA NairaRounds ==
    /\ \A a \in Nat : /\ (a \div Naira) * Naira <= a
                      /\ a < (a \div Naira) * Naira + Naira
    /\ \A k \in Nat : (k * Naira) \div Naira = k
<1>1. Naira \in Nat /\ Naira > 0
  BY NairaAssumption
<1>2. ASSUME NEW a \in Nat
      PROVE  (a \div Naira) * Naira <= a /\ a < (a \div Naira) * Naira + Naira
  BY <1>1, SMTT(30)
<1>3. ASSUME NEW k \in Nat
      PROVE  (k * Naira) \div Naira = k
  BY <1>1, SMTT(30)
<1> QED BY <1>2, <1>3

\* A debt is untouched, or of whole naira and together with its parts the whole naira
\* of what it was.
Made(x) ==
    \/ amount[x] = Debt /\ repaid[x] = 0
    \/ \E k \in Nat \ {0} :
           /\ amount[x] = k * Naira
           /\ amount[x] + repaid[x] = (Debt \div Naira) * Naira

\* Nobody but the sessions named here writes an amount.  A sale is inserted by the
\* one session that has its id, before it is in the book; a part is paid in the chat
\* alone, where one message is handled at a time, so that the amount which was read
\* is the amount that is there.
PartsInv ==
    /\ \A x \in Sales : IF status[x] = Absent THEN repaid[x] = 0 ELSE Made(x)
    /\ \A s \in Sessions : txn[s].step = "creating" =>
           /\ status[txn[s].sale] = Absent
           /\ \A r \in Sessions \ {s} : txn[r].step = "creating" => txn[r].sale # txn[s].sale
    /\ \A s \in Sessions : txn[s].pays > 0 =>
           /\ s = "order_intent"
           /\ txn[s].step \in {"loaded", "updated"} =>
                  txn[s].rest = amount[txn[s].sale] \div Naira

\* The invariant says what the property does: the kobo that are gone are less than a naira.
LEMMA PartsImply == TypeOK /\ PartsInv => PartsMakeUpTheDebt
<1> SUFFICES ASSUME TypeOK, PartsInv, NEW x \in Sales, status[x] # Absent
             PROVE  amount[x] + repaid[x] \in (Debt - Naira + 1)..Debt /\ amount[x] > 0
  BY DEF PartsMakeUpTheDebt
<1>1. /\ Naira \in Nat /\ Naira > 0 /\ Debt \in Nat /\ Debt >= Naira
      /\ amount[x] \in Nat /\ repaid[x] \in Nat
  BY NairaAssumption, DebtAssumption DEF TypeOK
<1>2. Made(x)
  BY DEF PartsInv
<1>3. CASE amount[x] = Debt /\ repaid[x] = 0
  BY <1>1, <1>3
<1>4. ASSUME NEW k \in Nat \ {0}, amount[x] = k * Naira,
             amount[x] + repaid[x] = (Debt \div Naira) * Naira
      PROVE  amount[x] + repaid[x] \in (Debt - Naira + 1)..Debt /\ amount[x] > 0
  <2>1. k * Naira > 0
    BY <1>1, SMTT(30)
  <2>2. /\ (Debt \div Naira) * Naira <= Debt
        /\ Debt < (Debt \div Naira) * Naira + Naira
    BY <1>1, NairaRounds
  <2>3. (Debt \div Naira) * Naira \in Nat
    BY <1>1, NairaFacts
  <2> DEFINE w == (Debt \div Naira) * Naira
  <2>4. w \in Nat /\ w <= Debt /\ Debt < w + Naira /\ amount[x] + repaid[x] = w
    BY <1>4, <2>2, <2>3
  <2> HIDE DEF w
  <2> QED BY <1>1, <1>4, <2>1, <2>4
<1> QED BY <1>2, <1>3, <1>4 DEF Made

\* A step that leaves the columns alone and lets a session end, or go on without
\* reading, keeps the amounts right.
LEMMA PartsLocal ==
    ASSUME TypeOK, PartsInv, NEW s \in Sessions, NEW r \in Txn,
           txn' = [txn EXCEPT ![s] = r],
           UNCHANGED <<status, amount, repaid>>,
           r.step # "creating",
           \/ r.pays = 0
           \/ /\ r.pays = txn[s].pays /\ r.rest = txn[s].rest /\ r.sale = txn[s].sale
              /\ r.step \in {"loaded", "updated"} => txn[s].step \in {"loaded", "updated"}
    PROVE  PartsInv'
<1>1. \A q \in Sessions : txn'[q] = IF q = s THEN r ELSE txn[q]
  BY DEF TypeOK
<1>2. \A x : Made(x) <=> Made(x)'
  BY DEF Made
<1>3. ASSUME NEW q \in Sessions, txn'[q].step = "creating"
      PROVE  /\ status'[txn'[q].sale] = Absent
             /\ \A p \in Sessions \ {q} : txn'[p].step = "creating" => txn'[p].sale # txn'[q].sale
  BY <1>1, <1>3 DEF PartsInv
<1>4. ASSUME NEW q \in Sessions, txn'[q].pays > 0
      PROVE  /\ q = "order_intent"
             /\ txn'[q].step \in {"loaded", "updated"} =>
                    txn'[q].rest = amount'[txn'[q].sale] \div Naira
  BY <1>1, <1>4 DEF PartsInv
<1> QED BY <1>2, <1>3, <1>4 DEF PartsInv

\* A transaction begins: a sale that is created has a fresh id, and a part is paid in
\* the chat.
LEMMA PartsStart ==
    ASSUME IInv, PartsInv, NEW s \in Sessions, NEW x \in Sales, NEW step, NEW to,
           NEW pays, NEW after,
           \/ step = "creating" /\ FreshSale(x) /\ pays = 0
           \/ step = "loaded" /\ (pays = 0 \/ s = "order_intent"),
           Start(s, x, step, to, pays, after)
    PROVE  PartsInv'
<1> DEFINE r == [step |-> step, sale |-> x,
                 seen |-> IF status[x] = Absent THEN "active" ELSE status[x],
                 to |-> to, pays |-> pays, rest |-> amount[x] \div Naira, after |-> after]
<1>0. TypeOK
  BY DEF IInv
<1>1. \A q \in Sessions : txn'[q] = IF q = s THEN r ELSE txn[q]
  BY <1>0 DEF Start, TypeOK
<1>2. UNCHANGED <<status, amount, repaid>>
  BY DEF Start
<1>3. /\ r.step = step /\ r.sale = x /\ r.pays = pays
      /\ r.rest = amount[x] \div Naira
  OBVIOUS
<1>4. step = "creating" =>
          status[x] = Absent /\ \A q \in Sessions : txn[q].step = "creating" => txn[q].sale # x
  BY DEF FreshSale, Used
<1> HIDE DEF r
<1>5. \A y : Made(y) <=> Made(y)'
  BY <1>2 DEF Made
<1>6. ASSUME NEW q \in Sessions, txn'[q].step = "creating"
      PROVE  /\ status'[txn'[q].sale] = Absent
             /\ \A p \in Sessions \ {q} : txn'[p].step = "creating" => txn'[p].sale # txn'[q].sale
  BY <1>1, <1>2, <1>3, <1>4, <1>6 DEF PartsInv
<1>7. ASSUME NEW q \in Sessions, txn'[q].pays > 0
      PROVE  /\ q = "order_intent"
             /\ txn'[q].step \in {"loaded", "updated"} =>
                    txn'[q].rest = amount'[txn'[q].sale] \div Naira
  BY <1>1, <1>2, <1>3, <1>7 DEF PartsInv
<1> QED BY <1>2, <1>5, <1>6, <1>7 DEF PartsInv

\* The INSERT writes the debt, in whole naira where the chat makes it.
LEMMA PartsInsert ==
    ASSUME IInv, PartsInv, NEW s \in Sessions, InsertSale(s), ~ OrderTaken(txn[s].sale)
    PROVE  PartsInv'
<1> PICK x \in Sales : x = txn[s].sale
  BY DEF IInv, TypeOK, Txn
<1>0. TypeOK /\ x \in Sales /\ txn[s].step = "creating"
  BY DEF IInv, InsertSale
<1>1. /\ status' = [status EXCEPT ![x] = "active"]
      /\ amount' = [amount EXCEPT ![x] = NewAmount(txn[s])]
      /\ UNCHANGED repaid
  BY DEF InsertSale
<1>2. status[x] = Absent /\ repaid[x] = 0
  BY <1>0 DEF PartsInv
<1>3. ASSUME NEW q \in Sessions
      PROVE  /\ q # s => txn'[q] = txn[q]
             /\ txn'[s].step # "creating"
             /\ txn'[s].pays > 0 => txn[s].pays > 0 /\ txn'[s].step = "flagging"
  <2>1. CASE EndTxn(s)
    BY <1>0, <2>1, IdleType DEF EndTxn, TypeOK, Idle
  <2>2. CASE Go(s, "flagging")
    BY <1>0, <2>2 DEF Go, TypeOK, Txn
  <2> QED BY <2>1, <2>2 DEF InsertSale
<1>4. NewAmount(txn[s]) \in {Debt, (Debt \div Naira) * Naira}
  BY DEF NewAmount
<1>5. Made(x)'
  <2>1. amount'[x] = NewAmount(txn[s]) /\ repaid'[x] = 0
    BY <1>0, <1>1, <1>2 DEF TypeOK
  <2>2. CASE NewAmount(txn[s]) = Debt
    BY <2>1, <2>2 DEF Made
  <2>3. CASE NewAmount(txn[s]) = (Debt \div Naira) * Naira
    <3>1. Debt \div Naira \in Nat /\ (Debt \div Naira) * Naira \in Nat
      BY NairaFacts, DebtAssumption
    <3>2. Debt \div Naira # 0
      <4>1. Naira \in Nat /\ Debt < (Debt \div Naira) * Naira + Naira /\ Debt >= Naira
        BY NairaRounds, DebtAssumption, NairaAssumption
      <4>2. Debt \div Naira = 0 => (Debt \div Naira) * Naira = 0
        BY <4>1
      <4> QED BY <4>1, <4>2, DebtAssumption
    <3> DEFINE k == Debt \div Naira
    <3>3. k \in Nat \ {0} /\ amount'[x] = k * Naira /\ k * Naira \in Nat
      BY <2>1, <2>3, <3>1, <3>2
    <3>4. amount'[x] + repaid'[x] = k * Naira
      <4> DEFINE w == k * Naira
      <4>1. w \in Nat /\ amount'[x] = w /\ repaid'[x] = 0
        BY <2>1, <3>3
      <4> HIDE DEF w
      <4>2. amount'[x] + repaid'[x] = w
        BY <4>1
      <4> QED BY <4>2 DEF w
    <3> QED BY <3>3, <3>4 DEF Made
  <2> QED BY <1>4, <2>2, <2>3
<1>6. \A y \in Sales : IF status'[y] = Absent THEN repaid'[y] = 0 ELSE Made(y)'
  <2> SUFFICES ASSUME NEW y \in Sales
               PROVE  IF status'[y] = Absent THEN repaid'[y] = 0 ELSE Made(y)'
    OBVIOUS
  <2>1. CASE y = x
    BY <1>0, <1>1, <1>2, <1>5, <2>1
  <2>2. CASE y # x
    <3>1. status'[y] = status[y] /\ amount'[y] = amount[y] /\ repaid'[y] = repaid[y]
      BY <1>0, <1>1, <2>2 DEF TypeOK
    <3> QED BY <3>1 DEF PartsInv, Made
  <2> QED BY <2>1, <2>2
<1>7. ASSUME NEW q \in Sessions, txn'[q].step = "creating"
      PROVE  /\ status'[txn'[q].sale] = Absent
             /\ \A p \in Sessions \ {q} : txn'[p].step = "creating" => txn'[p].sale # txn'[q].sale
  <2>1. q # s /\ txn'[q] = txn[q]
    BY <1>3, <1>7
  <2>2. txn[q].sale # x /\ txn[q].sale \in Sales /\ status[txn[q].sale] = Absent
    BY <1>0, <1>7, <2>1 DEF PartsInv, TypeOK, Txn
  <2>3. status'[txn'[q].sale] = Absent
    BY <1>0, <1>1, <2>1, <2>2 DEF TypeOK
  <2>4. ASSUME NEW p \in Sessions \ {q}, txn'[p].step = "creating"
        PROVE  txn'[p].sale # txn'[q].sale
    <3>1. p # s /\ txn'[p] = txn[p]
      BY <1>3, <2>4
    <3> QED BY <1>7, <2>1, <2>4, <3>1 DEF PartsInv
  <2> QED BY <2>3, <2>4
<1>8. ASSUME NEW q \in Sessions, txn'[q].pays > 0
      PROVE  /\ q = "order_intent"
             /\ txn'[q].step \in {"loaded", "updated"} =>
                    txn'[q].rest = amount'[txn'[q].sale] \div Naira
  <2>1. CASE q = s
    BY <1>3, <1>8, <2>1 DEF PartsInv
  <2>2. CASE q # s
    <3>1. txn'[q] = txn[q]
      BY <1>3, <2>2
    <3>2. txn[q].step \in {"loaded", "updated"} => txn[q].sale # x
      BY <1>2 DEF IInv, TxnInv
    <3>3. txn[q].sale \in Sales
      BY <1>0 DEF TypeOK, Txn
    <3> QED BY <1>0, <1>1, <1>8, <3>1, <3>2, <3>3 DEF PartsInv, TypeOK
  <2> QED BY <2>1, <2>2
<1> QED BY <1>6, <1>7, <1>8 DEF PartsInv

\* A part is paid: the whole naira of the debt move over to what is paid back.
LEMMA PartsCommit ==
    ASSUME IInv, PartsInv, NEW s \in Sessions, CommitSale(s)
    PROVE  PartsInv'
<1> PICK x \in Sales : x = txn[s].sale
  BY DEF IInv, TypeOK, Txn
<1> DEFINE t == txn[s]
<1>0. /\ TypeOK /\ x \in Sales /\ t.step = "updated" /\ t.pays \in Nat /\ t.rest \in Nat
      /\ amount[x] \in Nat /\ repaid[x] \in Nat /\ Naira \in Nat
  BY NairaAssumption DEF IInv, TypeOK, Txn, CommitSale
<1>1. status[x] # Absent
  BY <1>0 DEF IInv, TxnInv
<1>2. \A y \in Sales : status'[y] = Absent <=> status[y] = Absent
  <2>1. t.to # Absent
    BY <1>0 DEF TypeOK, Txn, CreditSaleStatus, Absent, OSM!Absent
  <2> QED BY <1>0, <1>1, <2>1 DEF CommitSale, TypeOK
<1>3. ASSUME NEW q \in Sessions
      PROVE  /\ q # s => txn'[q] = txn[q]
             /\ txn'[s].step \in {"idle", "committed"}
             /\ txn'[s].pays > 0 => t.pays > 0
  <2>1. CASE EndTxn(s)
    BY <1>0, <2>1, IdleType DEF EndTxn, TypeOK, Idle
  <2>2. CASE Go(s, "committed")
    BY <1>0, <2>2 DEF Go, TypeOK, Txn
  <2> QED BY <2>1, <2>2 DEF CommitSale
<1>4. \A y \in Sales : y # x => amount'[y] = amount[y] /\ repaid'[y] = repaid[y]
  BY <1>0 DEF CommitSale, TypeOK
<1>5. Made(x)'
  <2>0. Made(x)
    BY <1>0, <1>1 DEF PartsInv
  <2>1. CASE ~ (t.pays > 0)
    <3>1. t.pays = 0
      BY <1>0, <2>1
    <3>2. t.pays * Naira = 0
      BY <1>0, <3>1
    <3>3. repaid'[x] = repaid[x] + t.pays * Naira
      BY <1>0 DEF CommitSale, TypeOK
    <3>4. amount'[x] = amount[x] /\ repaid'[x] = repaid[x]
      BY <1>0, <2>1, <3>2, <3>3 DEF CommitSale
    <3> QED BY <2>0, <3>4 DEF Made
  <2>2. CASE t.pays > 0
    <3> DEFINE k == t.rest - t.pays
               p == t.pays * Naira
               w == t.rest * Naira
    <3>1. t.rest = amount[x] \div Naira /\ k \in Nat \ {0}
      BY <1>0, <2>2 DEF PartsInv, IInv, TxnInv
    <3>2. amount'[x] = k * Naira /\ repaid'[x] = repaid[x] + p
      BY <1>0, <2>2 DEF CommitSale, TypeOK
    <3>3. k * Naira + p = w
      <4>1. \A a, b, n \in Nat : a - b \in Nat => (a - b) * n + b * n = a * n
        BY SMTT(30)
      <4> QED BY <1>0, <3>1, <4>1
    <3>4. p \in Nat /\ w \in Nat /\ k * Naira \in Nat
      BY <1>0, <3>1, NairaFacts
    <3>5. w + repaid[x] = (Debt \div Naira) * Naira
      <4>1. CASE amount[x] = Debt /\ repaid[x] = 0
        BY <3>1, <3>4, <4>1
      <4>2. ASSUME NEW j \in Nat \ {0}, amount[x] = j * Naira,
                   amount[x] + repaid[x] = (Debt \div Naira) * Naira
            PROVE  w + repaid[x] = (Debt \div Naira) * Naira
        <5>1. t.rest = j
          BY <3>1, <4>2, NairaRounds
        <5> QED BY <4>2, <5>1
      <4> QED BY <2>0, <4>1, <4>2 DEF Made
    <3>6. amount'[x] + repaid'[x] = (Debt \div Naira) * Naira
      <4> DEFINE d == (Debt \div Naira) * Naira
                 a == k * Naira
      <4>1. /\ a \in Nat /\ p \in Nat /\ w \in Nat /\ a + p = w /\ w + repaid[x] = d
            /\ amount'[x] = a /\ repaid'[x] = repaid[x] + p
        BY <3>2, <3>3, <3>4, <3>5
      <4> HIDE DEF d, a, p, w
      <4>2. amount'[x] + repaid'[x] = d
        BY <1>0, <4>1
      <4> QED BY <4>2 DEF d
    <3> HIDE DEF k, p, w
    <3> QED BY <3>1, <3>2, <3>6 DEF Made
  <2> QED BY <2>1, <2>2
<1>6. \A y \in Sales : IF status'[y] = Absent THEN repaid'[y] = 0 ELSE Made(y)'
  BY <1>1, <1>2, <1>4, <1>5 DEF PartsInv, Made
<1>7. ASSUME NEW q \in Sessions, txn'[q].step = "creating"
      PROVE  /\ status'[txn'[q].sale] = Absent
             /\ \A p \in Sessions \ {q} : txn'[p].step = "creating" => txn'[p].sale # txn'[q].sale
  <2>1. q # s /\ txn'[q] = txn[q] /\ txn[q].sale \in Sales
    BY <1>0, <1>3, <1>7 DEF TypeOK, Txn
  <2> QED BY <1>2, <1>3, <1>7, <2>1 DEF PartsInv
<1>8. ASSUME NEW q \in Sessions, txn'[q].pays > 0
      PROVE  /\ q = "order_intent"
             /\ txn'[q].step \in {"loaded", "updated"} =>
                    txn'[q].rest = amount'[txn'[q].sale] \div Naira
  <2>1. CASE q = s
    BY <1>3, <1>8, <2>1 DEF PartsInv
  <2>2. CASE q # s
    <3>1. txn'[q] = txn[q] /\ q = "order_intent"
      BY <1>3, <1>8, <2>2 DEF PartsInv
    <3>2. ~ (t.pays > 0)
      BY <2>2, <3>1 DEF PartsInv
    <3>3. amount' = amount
      BY <3>2 DEF CommitSale
    <3> QED BY <1>8, <3>1, <3>3 DEF PartsInv
  <2> QED BY <2>1, <2>2
<1> QED BY <1>6, <1>7, <1>8 DEF PartsInv

\* Every step keeps the amounts right.
LEMMA PartsStep == IInv /\ PartsInv /\ [Next]_vars => PartsInv'
<1> SUFFICES ASSUME IInv, PartsInv, [Next]_vars
             PROVE  PartsInv'
  OBVIOUS
<1>0. TypeOK
  BY DEF IInv
<1> HttpRequests \subseteq Sessions /\ "order_intent" \in Sessions
  BY DEF Sessions
<1>1. ASSUME UNCHANGED <<status, amount, repaid, txn>>
      PROVE  PartsInv'
  BY <1>1 DEF PartsInv, Made
<1>2. ASSUME NEW x \in Sales, Create(x)
      PROVE  PartsInv'
  BY <1>2, PartsStart DEF Create, CreateCreditSale, CreditCommand, CreateDebt
<1>3. ASSUME NEW x \in Sales, Settle(x)
      PROVE  PartsInv'
  BY <1>3, PartsStart DEF Settle, ChangeStatus, DebtSettleTap, SettleDebt
<1>4. ASSUME NEW s \in Sessions, Step(s) \/ AbortTxn(s)
      PROVE  PartsInv'
  <2>1. ASSUME EndTxn(s), UNCHANGED <<status, amount, repaid>>
        PROVE  PartsInv'
    BY <1>0, <2>1, IdleType, PartsLocal DEF EndTxn, Idle
  <2>2. CASE InsertSale(s)
    <3>1. CASE OrderTaken(txn[s].sale)
      BY <2>1, <2>2, <3>1 DEF InsertSale
    <3> QED BY <2>2, <3>1, PartsInsert
  <2>3. CASE FlagOrder(s) \/ PublishStatusChanged(s) \/ AbortTxn(s)
    BY <2>1, <2>3 DEF FlagOrder, PublishStatusChanged, AbortTxn
  <2>4. CASE UpdateSale(s)
    <3> DEFINE r == [txn[s] EXCEPT !.step = "updated"]
    <3>1. /\ txn' = [txn EXCEPT ![s] = r] /\ r \in Txn
          /\ txn[s].step = "loaded" /\ UNCHANGED <<status, amount, repaid>>
      BY <1>0, <2>4 DEF UpdateSale, Go, TypeOK, Txn, Steps
    <3>2. /\ r.step = "updated" /\ r.pays = txn[s].pays /\ r.rest = txn[s].rest
          /\ r.sale = txn[s].sale
      BY <1>0 DEF TypeOK, Txn
    <3> HIDE DEF r
    <3> QED BY <1>0, <3>1, <3>2, PartsLocal
  <2> QED BY <1>4, <2>2, <2>3, <2>4, PartsCommit DEF Step
<1>5. CASE Restart
  <2>1. /\ UNCHANGED <<status, amount, repaid>>
        /\ \A s \in Sessions : txn'[s].step = "idle" /\ txn'[s].pays = 0
    BY <1>5, IdleType DEF Restart, Idle
  <2> QED BY <2>1 DEF PartsInv, Made
<1> QED BY <1>1, <1>2, <1>3, <1>4, <1>5
        DEF Next, MoveOrder, HandleStatusChanged, DropStatusChanged, vars

\* However the parts are paid and whatever stops in between, the parts and the rest make up
\* the debt to within a naira, for every debt and every size of the naira.
THEOREM PartsAddUp == Spec => []PartsMakeUpTheDebt
<1>1. Init => PartsInv
  BY IdleType DEF Init, PartsInv, Idle
<1>2. IInv /\ PartsInv => PartsMakeUpTheDebt
  BY PartsImply DEF IInv
<1> QED BY <1>1, <1>2, PartsStep, Invariance, PTL DEF Spec
=============================================================================
