---------------------------- MODULE Desk_Proofs ----------------------------
(***************************************************************************)
(* Theorems about TraderConsole, the trader's side of WhatsApp, and about  *)
(* Inbox, the dashboard that her team shares.                              *)
(***************************************************************************)
EXTENDS Inbox, TraderConsole, FiniteSetTheorems, TLAPS

-----------------------------------------------------------------------------
(* Edits of the catalogue, from chat and dashboard.                        *)

\* A session in Redis is the last question; it expires, the question stays open.
QuestionInv ==
    /\ session # NoSession => session = question
    /\ session.kind = "pricelist confirm" => session.product \in Products
    /\ job.step = "commit" /\ job.field = "bank" /\ ~job.blind =>
          job.answers.kind = "bank confirm" /\ job.new.bank = job.answers.account
    /\ job.step = "insert" =>
          job.answers.kind = "broadcast confirm" /\ job.preview = job.answers.count
    /\ job.answers.kind = "pricelist confirm" =>
          job.new.prices[job.answers.product] = job.answers.price

\* A cached record that becomes the row when an edit is put into it.
Behind(records, field, new) == \A r \in records : Put(r, field, new) = trader

PageBehind(records) == \A r \in records : [r EXCEPT !.prices = page.new] = trader

\* While chat and dashboard take turns: one of them is at rest, the row holds what was
\* asked for, the record at hand is the row, and a cached record is the row or lacks only
\* the edit whose writer is about to put it there.
SerialInv ==
    ~ disturbed =>
        /\ job.step = "idle" \/ page.step = "closed"
        /\ trader.prices = wanted
        /\ job.step \in {"fill", "act", "commit", "insert"} => job.held = trader
        /\ page.step = "open" => page.seen = trader.prices
        /\ IF job.step \in {"refresh", "store"} THEN Behind(cache, job.field, job.new)
           ELSE IF page.step \in {"refresh", "store"} THEN PageBehind(cache)
           ELSE cache \subseteq {trader}
        /\ job.step = "store" => Behind(job.copy, job.field, job.new)
        /\ page.step = "store" => PageBehind(page.copy)

ConsoleInv == ConsoleTypeOK /\ QuestionInv /\ SerialInv

\* The constants of the console have their types.
LEMMA ConsoleTypes ==
    /\ Blank \in Trader /\ Blank.prices \in Catalogue /\ NoSession \in Session
    /\ Idle \in Job /\ Closed \in Page
    /\ Idle.step = "idle" /\ Idle.answers = NoSession /\ Closed.step = "closed"
    /\ NoSession.kind = "none"
    /\ \A kind \in Kinds : Awaiting(kind) \in Session /\ Awaiting(kind).kind = kind
<1>1. Blank \in Trader /\ Blank.prices \in Catalogue
  BY DEF Blank, Trader, Catalogue
<1>2. NoSession \in Session /\ NoSession.kind = "none"
  BY DEF NoSession, Session
<1>3. Idle \in Job /\ Idle.step = "idle" /\ Idle.answers = NoSession
  BY <1>1, <1>2 DEF Idle, Job, Steps, Fields
<1>4. Closed \in Page /\ Closed.step = "closed"
  BY <1>1 DEF Closed, Page
<1>5. \A kind \in Kinds : Awaiting(kind) \in Session /\ Awaiting(kind).kind = kind
  BY <1>2 DEF Awaiting, Session, NoSession
<1> QED BY <1>1, <1>2, <1>3, <1>4, <1>5

\* A trader's row stays one when a field is written, and only that field changes.
LEMMA PutTypes ==
    \A r, new \in Trader, field \in Fields :
        /\ Put(r, field, new) \in Trader
        /\ field = "prices" => Put(r, field, new).prices = new.prices
        /\ field # "prices" => Put(r, field, new).prices = r.prices
        /\ field = "bank" => Put(r, field, new).bank = new.bank
  BY DEF Put, Trader, Fields

\* What is written is what is read back.
LEMMA PutOf ==
    \A r, new :
        /\ Put(r, "prices", new).prices = new.prices
        /\ Put(r, "bank", new).bank = new.bank
  BY DEF Put

-----------------------------------------------------------------------------
(* What a handler does with the session.                                   *)

Talks ==
    /\ session' \in Session /\ question' \in Session
    /\ session' # NoSession => session' = question'
    /\ session'.kind = "pricelist confirm" => session'.product \in Products

\* A handler that asks a question leaves the session with that question.
LEMMA AskTalks ==
    ASSUME NEW s \in Session, s.kind = "pricelist confirm" => s.product \in Products, Ask(s)
    PROVE  Talks
  BY DEF Ask, Talks

\* A handler that leaves the flow leaves no session.
LEMMA LeaveTalks == ASSUME Leave PROVE Talks
  BY ConsoleTypes DEF Leave, Talks

\* A handler that touches neither session nor question keeps them.
LEMMA StayTalks == ASSUME ConsoleInv, UNCHANGED <<session, question>> PROVE Talks
  BY DEF ConsoleInv, ConsoleTypeOK, QuestionInv, Talks

\* A handler is done, and wrote nothing but the session.
LEMMA HandlerFinishes ==
    ASSUME ConsoleInv, job.step = "act", Finish, UNCHANGED stored, previews' \in Nat, Talks
    PROVE  ConsoleInv'
<1>1. ConsoleTypeOK'
  BY ConsoleTypes DEF ConsoleInv, ConsoleTypeOK, Finish, stored, Talks
<1>2. QuestionInv'
  BY ConsoleTypes DEF QuestionInv, Finish, Talks
<1>3. SerialInv'
  BY ConsoleTypes DEF ConsoleInv, SerialInv, Finish, stored
<1> QED BY <1>1, <1>2, <1>3 DEF ConsoleInv

\* A handler has decided on an edit.
LEMMA HandlerSaves ==
    ASSUME ConsoleInv, job.step = "act", UNCHANGED <<stored, previews>>, Talks,
           NEW field \in Fields \ {"none"}, NEW new \in Trader, NEW answers \in Session,
           NEW blind \in BOOLEAN, Save(field, new, answers, blind),
           field = "bank" /\ ~ blind =>
               answers.kind = "bank confirm" /\ new.bank = answers.account,
           answers.kind = "pricelist confirm" =>
               field = "prices" /\ new.prices[answers.product] = answers.price
    PROVE  ConsoleInv'
<1>0. job \in Job /\ "commit" \in Steps /\ Put(Blank, field, new) \in Trader
  BY ConsoleTypes, PutTypes DEF ConsoleInv, ConsoleTypeOK, Steps
<1>1. /\ job' \in Job /\ job'.step = "commit" /\ job'.field = field /\ job'.held = job.held
      /\ job'.new = Put(Blank, field, new) /\ job'.answers = answers /\ job'.blind = blind
  BY <1>0 DEF Save, Job
<1>2. ConsoleTypeOK'
  BY <1>1 DEF ConsoleInv, ConsoleTypeOK, stored, Talks
<1>3. QuestionInv'
  <2>0. job'.new = Put(Blank, field, new)
    BY <1>1
  <2>1. ASSUME field = "bank" PROVE job'.new.bank = new.bank
    BY ONLY <2>0, <2>1, PutOf
  <2>2. ASSUME field = "prices" PROVE job'.new.prices = new.prices
    BY ONLY <2>0, <2>2, PutOf
  <2> QED BY <1>1, <2>1, <2>2 DEF QuestionInv, Talks
<1>4. SerialInv'
  BY <1>1 DEF ConsoleInv, SerialInv, stored
<1> QED BY <1>2, <1>3, <1>4 DEF ConsoleInv

-----------------------------------------------------------------------------
(* The handlers.                                                           *)

\* A price that a handler puts into the record at hand.
LEMMA PricedTypes ==
    ASSUME ConsoleInv
    PROVE  /\ job.held \in Trader
           /\ \A p \in Products, v \in Prices \cup {0} :
                 Priced(p, v) \in Trader /\ Priced(p, v).prices[p] = v
           /\ \A p, v : v \in Prices \cup {0} => Priced(p, v) \in Trader
<1>1. job.held \in Trader
  BY DEF ConsoleInv, ConsoleTypeOK, Job
<1> QED BY <1>1 DEF Priced, Trader, Catalogue

\* The steps of an open flow that end without an edit.
LEMMA FlowAnswers ==
    ASSUME ConsoleInv,
           \/ Escape \/ PickPhotoProduct \/ BankNo \/ CounterPrice \/ PricelistPhoto
           \/ PricelistText \/ PricelistDone \/ PricelistNo \/ Compose
    PROVE  ConsoleInv'
<1>0. session \in Session /\ previews \in Nat /\ \A n \in Nat : n + 1 \in Nat
  BY DEF ConsoleInv, ConsoleTypeOK
<1>1. job.step = "act" /\ Finish /\ UNCHANGED stored
  BY DEF Escape, PickPhotoProduct, BankNo, CounterPrice, PricelistPhoto, PricelistText,
         PricelistDone, PricelistNo, Compose, Acting
<1>2. previews' \in Nat
  BY <1>0 DEF Escape, PickPhotoProduct, BankNo, CounterPrice, PricelistPhoto, PricelistText,
         PricelistDone, PricelistNo, Compose
<1>3. Talks
  <2>1. CASE Leave
    BY <2>1, LeaveTalks
  <2>2. CASE Ask(session)
    BY <1>0, <2>2, AskTalks DEF ConsoleInv, QuestionInv
  <2>3. CASE BankNo
    <3>1. "bank details" \in Kinds
      BY DEF Kinds
    <3> QED BY <2>3, <3>1, ConsoleTypes, AskTalks DEF BankNo
  <2>4. CASE Ask([session EXCEPT !.count = @ + 1])
    <3>1. PICK s : s = [session EXCEPT !.count = @ + 1]
      OBVIOUS
    <3>2. s \in Session /\ s.kind = session.kind /\ s.product = session.product
      BY <1>0, <3>1 DEF Session
    <3> QED BY <2>4, <3>1, <3>2, AskTalks DEF ConsoleInv, QuestionInv
  <2>5. CASE ProcessPricelist
    <3>1. CASE Leave
      BY <3>1, LeaveTalks
    <3>2. CASE \E p \in Products, v \in Prices :
                  Ask([Awaiting("pricelist confirm") EXCEPT !.product = p, !.price = v])
      <4>1. PICK p \in Products, v \in Prices :
                Ask([Awaiting("pricelist confirm") EXCEPT !.product = p, !.price = v])
        BY <3>2
      <4>2. PICK s : s = [Awaiting("pricelist confirm") EXCEPT !.product = p, !.price = v]
        OBVIOUS
      <4>3. Awaiting("pricelist confirm") \in Session
        BY ConsoleTypes DEF Kinds
      <4>4. s \in Session /\ s.product \in Products
        BY <4>2, <4>3 DEF Session
      <4> QED BY <4>1, <4>2, <4>4, AskTalks
    <3> QED BY <2>5, <3>1, <3>2 DEF ProcessPricelist
  <2>6. CASE Compose
    <3>1. CASE Ask(session)
      BY <2>2, <3>1
    <3>2. CASE ~ Ask(session)
      <4>1. PICK s : s = [Awaiting("broadcast confirm") EXCEPT !.segment = session.segment,
                                                               !.count = previews + 1]
        OBVIOUS
      <4>2. Awaiting("broadcast confirm") \in Session /\ Awaiting("broadcast confirm").kind = "broadcast confirm"
        BY ConsoleTypes DEF Kinds
      <4>3. s \in Session /\ s.kind = "broadcast confirm"
        BY <1>0, <4>1, <4>2 DEF Session
      <4>4. Ask(s)
        BY <2>6, <3>2, <4>1 DEF Compose
      <4> QED BY <4>3, <4>4, AskTalks
    <3> QED BY <3>1, <3>2
  <2> QED BY <2>1, <2>2, <2>3, <2>4, <2>5, <2>6 DEF Escape, PickPhotoProduct, CounterPrice,
             PricelistPhoto, PricelistText, PricelistDone, PricelistNo
<1> QED BY <1>1, <1>2, <1>3, HandlerFinishes

\* The steps of an open flow that end with an edit, or with none.
LEMMA FlowEdits ==
    ASSUME ConsoleInv,
           \/ BankYes \/ PricelistYes
           \/ \E a \in Accounts : BankDetails(a)
           \/ \E p \in Products, v \in Prices : AddAnswer(p, v)
           \/ \E v \in Prices : PriceAnswer(v)
    PROVE  ConsoleInv'
<1>0. /\ session \in Session /\ question \in Session /\ previews \in Nat /\ job.held \in Trader
      /\ {"bank", "prices"} \subseteq Fields \ {"none"} /\ TRUE \in BOOLEAN /\ FALSE \in BOOLEAN
      /\ NoSession \in Session /\ NoSession.kind = "none"
  BY PricedTypes, ConsoleTypes DEF ConsoleInv, ConsoleTypeOK, Fields
<1>1. job.step = "act" /\ UNCHANGED <<stored, previews>>
  BY DEF BankYes, PricelistYes, BankDetails, AddAnswer, PriceAnswer, Acting
<1>2. CASE Finish
  <2>1. CASE Leave
    BY <1>0, <1>1, <1>2, <2>1, LeaveTalks, HandlerFinishes
  <2>2. CASE ~ Leave
    <3>1. PICK a \in Accounts : Ask([Awaiting("bank confirm") EXCEPT !.account = a])
      BY <2>2 DEF BankYes, PricelistYes, BankDetails, AddAnswer, PriceAnswer
    <3>2. PICK s : s = [Awaiting("bank confirm") EXCEPT !.account = a]
      OBVIOUS
    <3>3. Awaiting("bank confirm") \in Session /\ Awaiting("bank confirm").kind = "bank confirm"
      BY ConsoleTypes DEF Kinds
    <3>4. s \in Session /\ s.kind = "bank confirm"
      BY <3>2, <3>3 DEF Session
    <3>5. Talks
      BY <3>1, <3>2, <3>4, AskTalks
    <3> QED BY <1>0, <1>1, <1>2, <3>5, HandlerFinishes
  <2> QED BY <2>1, <2>2
<1>3. ASSUME Leave, NEW field \in {"bank", "prices"}, NEW new \in Trader,
             Save(field, new, NoSession, TRUE) \/ (field = "prices" /\ Save(field, new, NoSession, FALSE))
      PROVE  ConsoleInv'
  BY <1>0, <1>1, <1>3, LeaveTalks, HandlerSaves
<1>4. CASE BankYes
  <2>1. PICK new : new = [job.held EXCEPT !.bank = session.account]
    OBVIOUS
  <2>2. session.kind = "bank confirm" /\ session.account \in Accounts \cup {NoAccount}
    BY <1>0, <1>4 DEF BankYes, Acting, Session
  <2>3. question = session
    BY <1>0, <2>2 DEF ConsoleInv, QuestionInv
  <2>4. new \in Trader /\ new.bank = question.account
    BY <1>0, <2>1, <2>2, <2>3 DEF Trader
  <2>5. Leave /\ Save("bank", new, question, FALSE)
    BY <1>4, <2>1 DEF BankYes
  <2> QED BY <1>0, <1>1, <2>2, <2>3, <2>4, <2>5, LeaveTalks, HandlerSaves
<1>5. CASE PricelistYes
  <2>1. PICK new : new = Priced(session.product, session.price)
    OBVIOUS
  <2>2. session.kind = "pricelist confirm" /\ session.price \in Prices \cup {0}
    BY <1>0, <1>5 DEF PricelistYes, Acting, Session
  <2>3. question = session /\ session.product \in Products
    BY <1>0, <2>2 DEF ConsoleInv, QuestionInv
  <2>4. new \in Trader /\ new.prices[question.product] = question.price
    BY <2>1, <2>2, <2>3, PricedTypes
  <2>5. Leave /\ Save("prices", new, question, FALSE)
    BY <1>5, <2>1 DEF PricelistYes
  <2> QED BY <1>0, <1>1, <2>4, <2>5, LeaveTalks, HandlerSaves
<1>6. ASSUME NEW a \in Accounts, BankDetails(a), ~ Finish
      PROVE  ConsoleInv'
  <2>1. PICK new : new = [job.held EXCEPT !.bank = a]
    OBVIOUS
  <2>2. new \in Trader
    BY <1>0, <2>1 DEF Trader
  <2>3. Leave /\ Save("bank", new, NoSession, TRUE)
    BY <1>6, <2>1 DEF BankDetails
  <2> QED BY <1>3, <2>2, <2>3
<1>7. ASSUME NEW p, NEW v \in Prices, Leave, Save("prices", Priced(p, v), NoSession, FALSE)
      PROVE  ConsoleInv'
  <2>1. Priced(p, v) \in Trader
    BY PricedTypes
  <2> QED BY <1>3, <1>7, <2>1
<1>8. CASE ~ Finish /\ ((\E p \in Products, v \in Prices : AddAnswer(p, v)) \/ \E v \in Prices : PriceAnswer(v))
  BY <1>7, <1>8 DEF AddAnswer, PriceAnswer
<1> QED BY <1>2, <1>4, <1>5, <1>6, <1>8

\* Taps and typed commands.
LEMMA CommandsKeep ==
    ASSUME ConsoleInv, Commands
    PROVE  ConsoleInv'
<1>0. /\ session \in Session /\ question \in Session /\ previews \in Nat /\ job.held \in Trader
      /\ NoSession \in Session /\ NoSession.kind = "none"
  BY PricedTypes, ConsoleTypes DEF ConsoleInv, ConsoleTypeOK
<1>1. ASSUME Command \/ Acting({"broadcast wide", "broadcast confirm"}) PROVE job.step = "act"
  BY <1>1 DEF Command, Acting
<1>2. ASSUME NEW s \in Session, s.kind # "pricelist confirm", Ask(s), Finish,
             Command \/ Acting({"broadcast wide"}), UNCHANGED <<stored, previews>>
      PROVE  ConsoleInv'
  <2>1. job.step = "act"
    BY <1>2 DEF Command, Acting
  <2> QED BY <1>0, <1>2, <2>1, AskTalks, HandlerFinishes
<1>3. ASSUME NEW field \in {"prices", "category"}, NEW new \in Trader, Command,
             Save(field, new, NoSession, FALSE), UNCHANGED <<stored, session, question, previews>>
      PROVE  ConsoleInv'
  <2>1. FALSE \in BOOLEAN /\ field \in Fields \ {"none"}
    BY DEF Fields
  <2> QED BY <1>0, <1>1, <1>3, <2>1, StayTalks, HandlerSaves
<1>4. CASE Look
  BY <1>0, <1>1, <1>4, StayTalks, HandlerFinishes DEF Look
<1>5. ASSUME NEW kind \in Kinds, kind # "pricelist confirm", Command, Ask(Awaiting(kind)), Finish,
             UNCHANGED <<stored, previews>>
      PROVE  ConsoleInv'
  BY <1>2, <1>5, ConsoleTypes
<1>6. ASSUME NEW kind \in {"add", "bank details", "pricelist photo", "counter price"}, OpenFlow(kind)
      PROVE  ConsoleInv'
  BY <1>5, <1>6 DEF OpenFlow, Kinds
<1>7. CASE StartBroadcast
  BY <1>5, <1>7 DEF StartBroadcast, Kinds
<1>8. ASSUME NEW p \in Products, PickPrice(p)
      PROVE  ConsoleInv'
  <2>1. PICK s : s = [Awaiting("price value") EXCEPT !.product = p]
    OBVIOUS
  <2>2. Awaiting("price value") \in Session /\ Awaiting("price value").kind = "price value"
    BY ConsoleTypes DEF Kinds
  <2>3. s \in Session /\ s.kind = "price value"
    BY <2>1, <2>2 DEF Session
  <2> QED BY <1>2, <1>8, <2>1, <2>3 DEF PickPrice
<1>9. ASSUME NEW p \in Products, NEW v \in Prices \cup {0}, Command,
             Save("prices", Priced(p, v), NoSession, FALSE),
             UNCHANGED <<stored, session, question, previews>>
      PROVE  ConsoleInv'
  BY <1>3, <1>9, PricedTypes
<1>10. ASSUME NEW p \in Products, RemoveProduct(p) PROVE ConsoleInv'
  BY <1>9, <1>10 DEF RemoveProduct
<1>11. ASSUME NEW p \in Products, NEW v \in Prices, AddProduct(p, v) \/ UpdatePrice(p, v)
       PROVE  ConsoleInv'
  BY <1>9, <1>11 DEF AddProduct, UpdatePrice
<1>12. ASSUME NEW c \in Categories, ChangeCategory(c)
       PROVE  ConsoleInv'
  <2>1. PICK new : new = [job.held EXCEPT !.category = c]
    OBVIOUS
  <2>2. new \in Trader
    BY <1>0, <2>1 DEF Trader
  <2> QED BY <1>3, <1>12, <2>1, <2>2 DEF ChangeCategory
<1>13. CASE ProductPhoto
  <2>1. CASE Ask(Awaiting("photo product"))
    BY <1>5, <1>13, <2>1 DEF ProductPhoto, Kinds
  <2>2. CASE UNCHANGED <<session, question>>
    BY <1>0, <1>1, <1>13, <2>2, StayTalks, HandlerFinishes DEF ProductPhoto
  <2> QED BY <1>13, <2>1, <2>2 DEF ProductPhoto
<1>14. ASSUME NEW g \in Segments, SelectSegment(g)
       PROVE  ConsoleInv'
  <2>1. CASE Leave
    BY <1>0, <1>1, <1>14, <2>1, LeaveTalks, HandlerFinishes DEF SelectSegment
  <2>2. CASE ~ Leave
    <3>1. PICK kind \in {"broadcast wide", "broadcast message"} :
              Ask([Awaiting(kind) EXCEPT !.segment = g])
      BY <1>14, <2>2 DEF SelectSegment
    <3>2. PICK s : s = [Awaiting(kind) EXCEPT !.segment = g]
      OBVIOUS
    <3>3. Awaiting(kind) \in Session /\ Awaiting(kind).kind = kind
      BY ConsoleTypes DEF Kinds
    <3>4. s \in Session /\ s.kind = kind
      BY <3>2, <3>3 DEF Session
    <3> QED BY <1>2, <1>14, <3>1, <3>2, <3>4 DEF SelectSegment
  <2> QED BY <2>1, <2>2
<1>15. CASE WideYes
  <2>1. PICK s : s = [session EXCEPT !.kind = "broadcast message"]
    OBVIOUS
  <2>2. s \in Session /\ s.kind = "broadcast message"
    BY <1>0, <2>1 DEF Session, Kinds
  <2> QED BY <1>2, <1>15, <2>1, <2>2 DEF WideYes
<1>16. CASE BroadcastNo
  <2>1. job.step = "act"
    BY <1>16 DEF BroadcastNo, Acting
  <2> QED BY <1>0, <1>16, <2>1, LeaveTalks, HandlerFinishes DEF BroadcastNo
<1>17. CASE BroadcastYes
  <2>1. job.step = "act" /\ session.kind = "broadcast confirm" /\ UNCHANGED <<stored, previews>>
    BY <1>17 DEF BroadcastYes, Acting
  <2>2. question = session /\ session.count \in Nat
    BY <1>0, <2>1 DEF ConsoleInv, QuestionInv, Session
  <2>3. job \in Job /\ "insert" \in Steps
    BY DEF ConsoleInv, ConsoleTypeOK, Steps
  <2>4. /\ job' \in Job /\ job'.step = "insert" /\ job'.preview = question.count
        /\ job'.answers = question /\ job'.held = job.held
    BY <1>0, <1>17, <2>2, <2>3 DEF BroadcastYes, Job
  <2>5. Talks
    BY <1>17, LeaveTalks DEF BroadcastYes
  <2>6. ConsoleTypeOK'
    BY <2>1, <2>4, <2>5 DEF ConsoleInv, ConsoleTypeOK, stored, Talks
  <2>7. QuestionInv'
    BY <2>1, <2>2, <2>4, <2>5 DEF QuestionInv, Talks
  <2>8. SerialInv'
    BY <2>1, <2>4 DEF ConsoleInv, SerialInv, stored
  <2> QED BY <2>6, <2>7, <2>8 DEF ConsoleInv
<1> QED BY <1>4, <1>6, <1>7, <1>8, <1>10, <1>11, <1>12, <1>13, <1>14, <1>15, <1>16, <1>17
     DEF Commands, StoreMenuTap, SalesMenuTap, PickerTap, BargainTap, DebtTap, OrderTap,
         CatalogueCommand, CustomerCommand, OtherMessage

-----------------------------------------------------------------------------
(* The record: where it comes from, and where an edit goes.                *)

\* A message arrives.
LEMMA ReceiveKeeps ==
    ASSUME ConsoleInv, Receive
    PROVE  ConsoleInv'
<1>0. /\ job \in Job /\ trader \in Trader /\ cache \in SUBSET Trader /\ Idle \in Job
      /\ {"act", "fill"} \subseteq Steps /\ disturbed \in BOOLEAN
      /\ Idle.answers = NoSession /\ NoSession.kind = "none"
  BY ConsoleTypes DEF ConsoleInv, ConsoleTypeOK, Steps
<1>1. /\ UNCHANGED <<trader, session, page, broadcasts, previews, wanted, question>>
  BY DEF Receive, CacheHit, CacheMiss, FillCache
<1>2. CASE CacheHit \/ CacheMiss
  <2>1. /\ job.step = "idle" /\ UNCHANGED cache
        /\ disturbed' = (disturbed \/ page.step # "closed")
    BY <1>2 DEF CacheHit, CacheMiss, Overlaps
  <2>2. PICK step \in {"act", "fill"}, r \in Trader :
            /\ r \in cache \/ r = trader
            /\ job' = [Idle EXCEPT !.step = step, !.held = r]
    BY <1>0, <1>2 DEF CacheHit, CacheMiss
  <2>3. job' \in Job /\ job'.step = step /\ job'.held = r /\ job'.answers = NoSession
    BY <1>0, <2>2 DEF Job
  <2>4. disturbed' \in BOOLEAN
    BY <1>0, <2>1, Zenon
  <2>5. ConsoleTypeOK'
    BY <1>1, <2>1, <2>3, <2>4 DEF ConsoleInv, ConsoleTypeOK
  <2>6. QuestionInv'
    BY <1>0, <1>1, <2>3 DEF ConsoleInv, QuestionInv
  <2>7. SerialInv'
    <3> SUFFICES ASSUME ~ disturbed, page.step = "closed"
                 PROVE  trader.prices = wanted /\ r = trader /\ cache \subseteq {trader}
      BY <1>1, <2>1, <2>3 DEF SerialInv
    <3> QED BY <2>1, <2>2 DEF ConsoleInv, SerialInv
  <2> QED BY <2>5, <2>6, <2>7 DEF ConsoleInv
<1>3. CASE FillCache
  <2>1. job.step = "fill" /\ cache' = {job.held} /\ UNCHANGED disturbed
    BY <1>3 DEF FillCache
  <2>2. /\ job' \in Job /\ job'.step = "act" /\ job'.held = job.held
        /\ job'.answers = job.answers /\ job'.new = job.new /\ job.held \in Trader
    BY <1>0, <1>3 DEF FillCache, Job
  <2>3. ConsoleTypeOK'
    BY <1>1, <2>1, <2>2 DEF ConsoleInv, ConsoleTypeOK
  <2>4. QuestionInv'
    BY <1>1, <2>2 DEF ConsoleInv, QuestionInv
  <2>5. SerialInv'
    BY <1>1, <2>1, <2>2 DEF ConsoleInv, SerialInv
  <2> QED BY <2>3, <2>4, <2>5 DEF ConsoleInv
<1> QED BY <1>2, <1>3 DEF Receive

\* What an author wants is what she makes of what she saw.
LEMMA WishComesTrue ==
    ASSUME NEW seen \in Catalogue, NEW new \in Catalogue, wanted \in Catalogue, Wish(seen, new)
    PROVE  /\ wanted' \in Catalogue
           /\ ~ disturbed /\ wanted = seen => wanted' = new
<1>1. CASE disturbed
  BY <1>1, ConsoleTypes DEF Wish
<1>2. CASE ~ disturbed
  BY <1>2 DEF Wish, Catalogue
<1> QED BY <1>1, <1>2

\* The row is written; the cached record lacks the edit now.
LEMMA CommitKeeps ==
    ASSUME ConsoleInv, Commit
    PROVE  ConsoleInv'
<1> PICK new : new = IF job.field = "prices" THEN job.new.prices ELSE job.held.prices
  OBVIOUS
<1>0. /\ job \in Job /\ trader \in Trader /\ wanted \in Catalogue /\ "refresh" \in Steps
      /\ job.field \in Fields /\ job.new \in Trader /\ job.held \in Trader
      /\ Idle \in Job /\ Idle.answers = NoSession /\ NoSession.kind = "none"
  BY ConsoleTypes DEF ConsoleInv, ConsoleTypeOK, Job, Steps
<1>1. /\ job.step = "commit" /\ trader' = Put(trader, job.field, job.new)
      /\ UNCHANGED <<cache, session, page, broadcasts, previews, question, disturbed>>
      /\ Wish(job.held.prices, new)
  BY DEF Commit
<1>2. /\ job' \in Job /\ job'.step = "refresh" /\ job'.field = job.field /\ job'.new = job.new
      /\ job'.answers = NoSession
  BY <1>0 DEF Commit, Job
<1>3. new \in Catalogue /\ job.held.prices \in Catalogue
  BY <1>0 DEF Trader
<1>4. /\ wanted' \in Catalogue /\ trader' \in Trader
      /\ ~ disturbed /\ wanted = job.held.prices => wanted' = new
  BY <1>0, <1>1, <1>3, WishComesTrue, PutTypes
<1>5. ConsoleTypeOK'
  BY <1>1, <1>2, <1>4 DEF ConsoleInv, ConsoleTypeOK
<1>6. QuestionInv'
  BY <1>0, <1>1, <1>2 DEF ConsoleInv, QuestionInv
<1>7. SerialInv'
  <2> SUFFICES ASSUME ~ disturbed
               PROVE  /\ page.step = "closed" /\ trader'.prices = wanted'
                      /\ Behind(cache, job.field, job.new)'
    BY <1>1, <1>2 DEF SerialInv
  <2>1. page.step = "closed" /\ trader.prices = wanted /\ job.held = trader /\ cache \subseteq {trader}
    BY <1>1 DEF ConsoleInv, SerialInv
  <2>2. trader'.prices = new
    BY <1>0, <1>1, <2>1, PutTypes
  <2>3. Behind(cache, job.field, job.new)'
    BY <1>1, <1>2, <2>1 DEF Behind
  <2> QED BY <1>4, <2>1, <2>2, <2>3
<1> QED BY <1>5, <1>6, <1>7 DEF ConsoleInv

\* The edit reaches the cached record, the broadcast is stored, or the handler dies.
LEMMA ContinueKeeps ==
    ASSUME ConsoleInv, ReadCached \/ WriteCached \/ InsertBroadcast \/ Die
    PROVE  ConsoleInv'
<1>0. /\ job \in Job /\ cache \in SUBSET Trader /\ {"store"} \subseteq Steps /\ disturbed \in BOOLEAN
      /\ job.field \in Fields /\ job.new \in Trader /\ job.copy \in SUBSET Trader
      /\ job.preview \in Nat
      /\ Idle \in Job /\ Idle.step = "idle" /\ Idle.answers = NoSession /\ NoSession.kind = "none"
  BY ConsoleTypes DEF ConsoleInv, ConsoleTypeOK, Job, Steps
<1>1. UNCHANGED <<trader, session, page, previews, wanted, question>>
  BY DEF ReadCached, WriteCached, InsertBroadcast, Die
<1>2. ASSUME job' = Idle PROVE QuestionInv'
  BY <1>0, <1>1, <1>2 DEF ConsoleInv, QuestionInv
<1>3. CASE ReadCached
  <2>1. job.step = "refresh" /\ UNCHANGED <<cache, broadcasts, disturbed>>
    BY <1>3 DEF ReadCached
  <2>2. CASE cache = {}
    <3>1. job' = Idle
      BY <1>3, <2>2 DEF ReadCached
    <3>2. ConsoleTypeOK'
      BY <1>0, <1>1, <2>1, <3>1 DEF ConsoleInv, ConsoleTypeOK
    <3>3. SerialInv'
      BY <1>0, <1>1, <2>1, <2>2, <3>1 DEF ConsoleInv, SerialInv
    <3> QED BY <1>2, <3>1, <3>2, <3>3 DEF ConsoleInv
  <2>3. CASE cache # {}
    <3>1. job' = [job EXCEPT !.step = "store", !.copy = cache]
      BY <1>3, <2>3 DEF ReadCached
    <3>2. /\ job' \in Job /\ job'.step = "store" /\ job'.copy = cache /\ job'.field = job.field
          /\ job'.new = job.new /\ job'.answers = job.answers
      BY <1>0, <3>1 DEF Job
    <3>3. ConsoleTypeOK'
      BY <1>1, <2>1, <3>2 DEF ConsoleInv, ConsoleTypeOK
    <3>4. QuestionInv'
      BY <1>1, <2>1, <3>2 DEF ConsoleInv, QuestionInv
    <3>5. SerialInv'
      BY <1>1, <2>1, <3>2 DEF ConsoleInv, SerialInv, Behind
    <3> QED BY <3>3, <3>4, <3>5 DEF ConsoleInv
  <2> QED BY <2>2, <2>3
<1>4. CASE WriteCached
  <2>1. /\ job.step = "store" /\ UNCHANGED <<broadcasts, disturbed>> /\ job' = Idle
        /\ cache' = {Put(r, job.field, job.new) : r \in job.copy}
    BY <1>4 DEF WriteCached, Finish
  <2>2. cache' \in SUBSET Trader
    BY <1>0, <2>1, PutTypes
  <2>3. ConsoleTypeOK'
    BY <1>0, <1>1, <2>1, <2>2 DEF ConsoleInv, ConsoleTypeOK
  <2>4. SerialInv'
    <3> SUFFICES ASSUME ~ disturbed
                 PROVE  /\ page.step = "closed" /\ trader.prices = wanted
                        /\ cache' \subseteq {trader}
      BY <1>0, <1>1, <2>1 DEF SerialInv
    <3> QED BY <2>1 DEF ConsoleInv, SerialInv, Behind
  <2> QED BY <1>2, <2>1, <2>3, <2>4 DEF ConsoleInv
<1>5. CASE InsertBroadcast
  <2>1. /\ job.step = "insert" /\ UNCHANGED <<cache, disturbed>> /\ job' = Idle
        /\ broadcasts' = broadcasts \cup {job.preview}
    BY <1>5 DEF InsertBroadcast, Finish
  <2>2. ConsoleTypeOK'
    BY <1>0, <1>1, <2>1 DEF ConsoleInv, ConsoleTypeOK
  <2>3. SerialInv'
    BY <1>0, <1>1, <2>1 DEF ConsoleInv, SerialInv
  <2> QED BY <1>2, <2>1, <2>2, <2>3 DEF ConsoleInv
<1>6. CASE Die
  <2>1. /\ job.step # "idle" /\ UNCHANGED <<cache, broadcasts>> /\ job' = Idle
        /\ disturbed' = (disturbed \/ job.step \in {"refresh", "store"})
    BY <1>6 DEF Die, Finish
  <2>2. disturbed' \in BOOLEAN
    BY <1>0, <2>1, Zenon
  <2>3. ConsoleTypeOK'
    BY <1>0, <1>1, <2>1, <2>2 DEF ConsoleInv, ConsoleTypeOK
  <2>4. SerialInv'
    <3> SUFFICES ASSUME ~ disturbed, job.step \notin {"refresh", "store"}
                 PROVE  /\ page.step = "closed" /\ trader.prices = wanted
                        /\ cache \subseteq {trader}
      BY <1>0, <1>1, <2>1 DEF SerialInv
    <3> QED BY <2>1 DEF ConsoleInv, SerialInv
  <2> QED BY <1>2, <2>1, <2>3, <2>4 DEF ConsoleInv
<1> QED BY <1>3, <1>4, <1>5, <1>6

\* The dashboard's page is opened, left, or about to be written to the cache.
LEMMA PageKeeps ==
    ASSUME ConsoleInv, OpenPage \/ ClosePage \/ PageReadsCached \/ PageWritesCached
    PROVE  ConsoleInv'
<1>0. /\ trader \in Trader /\ trader.prices \in Catalogue /\ cache \in SUBSET Trader /\ page \in Page
      /\ page.new \in Catalogue /\ page.copy \in SUBSET Trader /\ disturbed \in BOOLEAN
      /\ Closed \in Page /\ Closed.step = "closed"
  BY ConsoleTypes DEF ConsoleInv, ConsoleTypeOK, Page, Trader
<1>1. UNCHANGED <<trader, session, job, broadcasts, previews, wanted, question>>
  BY DEF OpenPage, ClosePage, PageReadsCached, PageWritesCached
<1>2. QuestionInv'
  BY <1>1 DEF ConsoleInv, QuestionInv
<1>3. CASE OpenPage
  <2>1. /\ page.step = "closed" /\ UNCHANGED cache
        /\ disturbed' = (disturbed \/ job.step # "idle")
    BY <1>3 DEF OpenPage
  <2>2. page' \in Page /\ page'.step = "open" /\ page'.seen = trader.prices
    BY <1>0, <1>3 DEF OpenPage, Page
  <2>3. disturbed' \in BOOLEAN
    BY <1>0, <2>1, Zenon
  <2>4. ConsoleTypeOK'
    BY <1>1, <2>1, <2>2, <2>3 DEF ConsoleInv, ConsoleTypeOK
  <2>5. SerialInv'
    <3> SUFFICES ASSUME ~ disturbed, job.step = "idle"
                 PROVE  trader.prices = wanted /\ cache \subseteq {trader}
      BY <1>1, <2>1, <2>2 DEF SerialInv
    <3> QED BY <2>1 DEF ConsoleInv, SerialInv
  <2> QED BY <1>2, <2>4, <2>5 DEF ConsoleInv
<1>4. CASE ClosePage \/ (PageReadsCached /\ cache = {})
  <2>1. /\ page.step \in {"open", "refresh"} /\ UNCHANGED <<cache, disturbed>> /\ page' = Closed
        /\ page.step = "refresh" => cache = {}
    BY <1>4 DEF ClosePage, PageReadsCached
  <2>2. ConsoleTypeOK'
    BY <1>0, <1>1, <2>1 DEF ConsoleInv, ConsoleTypeOK
  <2>3. SerialInv'
    <3> SUFFICES ASSUME ~ disturbed
                 PROVE  job.step = "idle" /\ trader.prices = wanted /\ cache \subseteq {trader}
      BY <1>0, <1>1, <2>1 DEF SerialInv
    <3> QED BY <2>1 DEF ConsoleInv, SerialInv
  <2> QED BY <1>2, <2>2, <2>3 DEF ConsoleInv
<1>5. CASE PageReadsCached /\ cache # {}
  <2>1. /\ page.step = "refresh" /\ UNCHANGED <<cache, disturbed>>
        /\ page' = [page EXCEPT !.step = "store", !.copy = cache]
    BY <1>5 DEF PageReadsCached
  <2>2. page' \in Page /\ page'.step = "store" /\ page'.copy = cache /\ page'.new = page.new
    BY <1>0, <2>1 DEF Page
  <2>3. ConsoleTypeOK'
    BY <1>1, <2>1, <2>2 DEF ConsoleInv, ConsoleTypeOK
  <2>4. SerialInv'
    <3> SUFFICES ASSUME ~ disturbed
                 PROVE  job.step = "idle" /\ trader.prices = wanted /\ PageBehind(cache)'
      BY <1>1, <2>1, <2>2 DEF SerialInv
    <3>1. job.step = "idle" /\ trader.prices = wanted /\ PageBehind(cache)
      BY <2>1 DEF ConsoleInv, SerialInv
    <3> QED BY <1>1, <2>1, <2>2, <3>1 DEF PageBehind
  <2> QED BY <1>2, <2>3, <2>4 DEF ConsoleInv
<1>6. CASE PageWritesCached
  <2>1. /\ page.step = "store" /\ UNCHANGED disturbed /\ page' = Closed
        /\ cache' = {[r EXCEPT !.prices = page.new] : r \in page.copy}
    BY <1>6 DEF PageWritesCached
  <2>2. cache' \in SUBSET Trader
    BY <1>0, <2>1 DEF Trader
  <2>3. ConsoleTypeOK'
    BY <1>0, <1>1, <2>1, <2>2 DEF ConsoleInv, ConsoleTypeOK
  <2>4. SerialInv'
    <3> SUFFICES ASSUME ~ disturbed
                 PROVE  job.step = "idle" /\ trader.prices = wanted /\ cache' \subseteq {trader}
      BY <1>0, <1>1, <2>1 DEF SerialInv
    <3> QED BY <2>1 DEF ConsoleInv, SerialInv, PageBehind
  <2> QED BY <1>2, <2>3, <2>4 DEF ConsoleInv
<1> QED BY <1>3, <1>4, <1>5, <1>6

\* The dashboard writes the row.
LEMMA PutCatalogueKeeps ==
    ASSUME ConsoleInv, NEW p \in Products, NEW v \in Prices \cup {0}, PutCatalogue(p, v)
    PROVE  ConsoleInv'
<1> PICK new : new = [page.seen EXCEPT ![p] = v]
  OBVIOUS
<1>0. /\ trader \in Trader /\ page \in Page /\ page.seen \in Catalogue /\ wanted \in Catalogue
      /\ new \in Catalogue /\ Closed \in Page
  BY ConsoleTypes DEF ConsoleInv, ConsoleTypeOK, Page, Catalogue
<1>1. /\ UNCHANGED <<cache, session, job, broadcasts, previews, question, disturbed>>
      /\ page.step = "open" /\ trader' = [trader EXCEPT !.prices = new]
      /\ Wish(page.seen, new) /\ page' = [Closed EXCEPT !.step = "refresh", !.new = new]
  BY DEF PutCatalogue
<1>2. page' \in Page /\ page'.step = "refresh" /\ page'.new = new
  BY <1>0, <1>1 DEF Page
<1>3. trader' \in Trader /\ trader'.prices = new
  BY <1>0, <1>1 DEF Trader
<1>4. wanted' \in Catalogue /\ (~ disturbed /\ wanted = page.seen => wanted' = new)
  BY <1>0, <1>1, WishComesTrue
<1>5. ConsoleTypeOK'
  BY <1>1, <1>2, <1>3, <1>4 DEF ConsoleInv, ConsoleTypeOK
<1>6. QuestionInv'
  BY <1>1 DEF ConsoleInv, QuestionInv
<1>7. SerialInv'
  <2> SUFFICES ASSUME ~ disturbed
               PROVE  job.step = "idle" /\ trader'.prices = wanted' /\ PageBehind(cache)'
    BY <1>1, <1>2 DEF SerialInv
  <2>1. /\ job.step = "idle" /\ trader.prices = wanted /\ page.seen = trader.prices
        /\ cache \subseteq {trader}
    BY <1>1 DEF ConsoleInv, SerialInv
  <2> QED BY <1>1, <1>2, <1>3, <1>4, <2>1 DEF PageBehind
<1> QED BY <1>5, <1>6, <1>7 DEF ConsoleInv

\* A session or a cached record expires.
LEMMA ExpiryKeeps ==
    ASSUME ConsoleInv, SessionExpires \/ CacheExpires
    PROVE  ConsoleInv'
<1>1. CASE SessionExpires
  <2>1. session' = NoSession /\ UNCHANGED <<stored, job, question, previews>>
    BY <1>1 DEF SessionExpires
  <2>2. ConsoleTypeOK' /\ QuestionInv'
    BY <2>1, ConsoleTypes DEF ConsoleInv, ConsoleTypeOK, QuestionInv, stored
  <2>3. SerialInv'
    BY <2>1 DEF ConsoleInv, SerialInv, Behind, PageBehind, stored
  <2> QED BY <2>2, <2>3 DEF ConsoleInv
<1>2. CASE CacheExpires
  <2>1. /\ cache' = {}
        /\ UNCHANGED <<trader, session, job, page, broadcasts, previews, wanted, question, disturbed>>
    BY <1>2 DEF CacheExpires
  <2>2. ConsoleTypeOK' /\ QuestionInv'
    BY <2>1 DEF ConsoleInv, ConsoleTypeOK, QuestionInv
  <2>3. SerialInv'
    BY <2>1 DEF ConsoleInv, SerialInv, Behind, PageBehind
  <2> QED BY <2>2, <2>3 DEF ConsoleInv
<1> QED BY <1>1, <1>2

\* The console's invariant holds in every reachable state.
LEMMA ConsoleAlways == ConsoleSpec => []ConsoleInv
<1>1. ConsoleInit => ConsoleInv
  <2> SUFFICES ASSUME ConsoleInit PROVE ConsoleInv
    OBVIOUS
  <2>1. trader \in Trader
    BY DEF ConsoleInit, Trader
  <2>2. trader.prices \in Catalogue
    BY <2>1 DEF Trader
  <2>3. ConsoleTypeOK
    BY <2>1, <2>2, ConsoleTypes DEF ConsoleInit, ConsoleTypeOK
  <2>4. QuestionInv
    BY ConsoleTypes DEF ConsoleInit, QuestionInv
  <2>5. SerialInv
    BY ConsoleTypes DEF ConsoleInit, SerialInv
  <2> QED BY <2>3, <2>4, <2>5 DEF ConsoleInv
<1>2. ConsoleInv /\ [ConsoleNext]_consoleVars => ConsoleInv'
  <2> SUFFICES ASSUME ConsoleInv, [ConsoleNext]_consoleVars PROVE ConsoleInv'
    OBVIOUS
  <2>1. CASE Receive
    BY <2>1, ReceiveKeeps
  <2>2. CASE Flow
    BY <2>2, FlowAnswers, FlowEdits DEF Flow
  <2>3. CASE Commands
    BY <2>3, CommandsKeep
  <2>4. CASE Continue
    BY <2>4, CommitKeeps, ContinueKeeps DEF Continue
  <2>5. CASE Dashboard
    BY <2>5, PageKeeps, PutCatalogueKeeps DEF Dashboard
  <2>6. CASE SessionExpires \/ CacheExpires
    BY <2>6, ExpiryKeeps
  <2>7. CASE UNCHANGED consoleVars
    <3>1. UNCHANGED <<trader, cache, session, job, page, broadcasts, previews, wanted, question, disturbed>>
      BY <2>7 DEF consoleVars
    <3>2. ConsoleTypeOK' /\ QuestionInv'
      BY <3>1 DEF ConsoleInv, ConsoleTypeOK, QuestionInv
    <3>3. SerialInv'
      BY <3>1 DEF ConsoleInv, SerialInv, Behind, PageBehind
    <3> QED BY <3>2, <3>3 DEF ConsoleInv
  <2> QED BY <2>1, <2>2, <2>3, <2>4, <2>5, <2>6, <2>7 DEF ConsoleNext
<1> QED BY <1>1, <1>2, PTL DEF ConsoleSpec

\* While chat and dashboard take turns and no writer dies half-way, no edit of the
\* catalogue is lost, though every handler writes back the whole catalogue of a cached
\* record that may expire at any moment (_persist_catalogue, PUT /catalogue).
THEOREM NoEditIsLost == ConsoleSpec => []SerialEditsStick
<1>1. ConsoleInv => SerialEditsStick
  BY DEF ConsoleInv, SerialInv, SerialEditsStick
<1> QED BY <1>1, ConsoleAlways, PTL

\* A YES puts in force only what the last open question was about, though the session
\* that holds it may expire or be replaced by another flow (_handle_trader_session,
\* _handle_broadcast_confirm).
THEOREM YesIsForTheQuestion == ConsoleSpec => []YesAnswersTheQuestion
<1>1. ConsoleInv => YesAnswersTheQuestion
  BY DEF ConsoleInv, QuestionInv, YesAnswersTheQuestion
<1> QED BY <1>1, ConsoleAlways, PTL

-----------------------------------------------------------------------------
(* The inbox: what holds of requests, whatever they overlap with.          *)

Nothing == <<"nothing", 0>>

Ids == {c.id : c \in convs}

\* What a request is about, by its operation.
Shaped(q) ==
    /\ q.op = "none" => q = Free
    /\ q.op # "none" => q.step # "idle" /\ q.on # Nothing
    /\ q.op = "accept" => q.on \in {"invite"} \X Invites /\ q.who \in Newcomers
    /\ q.op = "signup" => q.on \in {"member"} \X Users /\ q.who \in Newcomers
    /\ q.op = "remove" => q.on \in {"member"} \X Users /\ q.who \in Users
    /\ q.op = "assign" => q.on \in {"conversation"} \X Ids
    /\ q.op = "react" => q.on = <<"reactions", 0>> /\ q.who \in Staff /\ q.word \in Emojis
    /\ q.op = "reply" => q.on \in {"thread"} \X Ids /\ q.word \in Exts \cup {None}
    /\ q.op \in {"start", "inbound"} => q.on \in {"customer"} \X Customers
    /\ q.op = "inbound" =>
          /\ q.word \in Wamids
          /\ q.row = 0 \/ \E v \in convs : v.id = q.row /\ v.customer = q.on[2]
    /\ q.op = "connect" => q.on = <<"channel", 0>> /\ q.word \in Phones

\* Two requests at once on one subject excuse it, and the listener takes one message at a
\* time.
RequestInv ==
    /\ \A r \in Requests : Shaped(req[r])
    /\ \A q, r \in Requests : req[q].on = req[r].on => q = r \/ req[r].on \in excused \cup {Nothing}
    /\ \A q, r \in Requests : req[q].op = "inbound" /\ req[r].op = "inbound" => q = r

Past(q) == q.step \notin {"idle", "read"}

\* Past the INSERT of an account.
Holder(r) == req[r].op \in {"accept", "signup"} /\ req[r].step \in {"lock", "commit"}

\* Whoever was let in has an account, which no open INSERT is about.
TeamInv ==
    /\ \A i \in Invites : admitted[i] \subseteq accounts /\ admitted[i] \cap founders = {}
    /\ \A i, j \in Invites : i # j => admitted[i] \cap admitted[j] = {}
    /\ \A r \in Requests : Holder(r) => req[r].who \notin accounts
    /\ \A q, r \in Requests : Holder(q) /\ Holder(r) /\ req[q].who = req[r].who => q = r
    /\ \A i \in Invites :
          \/ <<"invite", i>> \in excused
          \/ admitted[i] = {}
          \/ /\ invites[i] = "used"
             /\ \A m, n \in admitted[i] : m = n
             /\ \A r \in Requests : req[r].op = "accept" /\ req[r].on = <<"invite", i>> => ~ Past(req[r])

\* A request that found no conversation and will make one.
Creates(q) ==
    \/ q.op = "start" /\ q.step = "commit"
    \/ q.op = "inbound" /\ q.step \in {"write", "commit"} /\ q.row = 0

\* A customer has one conversation, and whoever will make one for her has found none.
ConvInv ==
    /\ \A v, w \in convs : v.id = w.id => v = w
    /\ \A c \in Customers :
          \/ <<"customer", c>> \in excused
          \/ /\ \A v, w \in convs : v.customer = c /\ w.customer = c => v = w
             /\ \A r \in Requests : req[r].on = <<"customer", c>> /\ Creates(req[r]) =>
                   \A v \in convs : v.customer # c

\* A conversation has an external id once, and whoever is about to store one has not
\* overlooked it.
MessageInv ==
    /\ \A m, n \in messages : m.id = n.id => m = n
    /\ \A m \in messages : m.conv \in Ids
    /\ \A m, n \in messages : m.conv = n.conv /\ m.ext = n.ext /\ m.ext # None => m = n
    /\ \A r \in Requests : At(r, "inbound", "commit") /\ ~ Repeats(req[r]) =>
          ~ Stored(req[r].row, req[r].word)
    /\ \A r \in Requests : At(r, "reply", "commit") => ~ Stored(req[r].on[2], req[r].word)
    /\ \A q, r \in Requests :
          (/\ At(q, "reply", "commit") /\ At(r, "reply", "commit")
           /\ req[q].on = req[r].on /\ req[q].word = req[r].word /\ req[r].word # None) => q = r

\* A reply that is stored and not sent has its request.
ReplyInv ==
    /\ \A m \in Rows : sends[m] > 0 => sends[m] = 1 /\ \E x \in messages : x.id = m /\ x.reply
    /\ \A m \in messages :
          \/ ~ m.reply \/ sends[m.id] = 1 \/ <<"sent", m.id>> \in excused
          \/ \E r \in Requests : At(r, "reply", "after") /\ req[r].row = m.id
    /\ \A r \in Requests : At(r, "reply", "after") =>
          sends[req[r].row] = 0 /\ \E x \in messages : x.id = req[r].row /\ x.reply
    /\ \A q, r \in Requests :
          At(q, "reply", "after") /\ At(r, "reply", "after") /\ req[q].row = req[r].row => q = r

ChannelInv ==
    \/ <<"channel", 0>> \in excused
    \/ /\ channel.registered => channel.phone \in subscribed
       /\ \A r \in Requests :
             /\ req[r].op = "connect" /\ Past(req[r]) /\ req[r].plan = "mark" =>
                   req[r].step = "commit" /\ req[r].word \in subscribed
             /\ req[r].op = "connect" /\ Past(req[r]) /\ req[r].plan = "update" =>
                   ~ channel.registered

\* Of a row that is owed, the pages so far have it if and only if it is not after the
\* cursor.
PageInv ==
    /\ pager.state = "closed" => pager.owed = {}
    /\ \A x \in pager.owed : \E k \in Keys(pager.of) : k[2] = x
    /\ pager.state = "first" => \A x \in pager.owed : pager.seen[x] = 0
    /\ pager.state = "next" => \A k \in Keys(pager.of) :
          k[2] \in pager.owed =>
             pager.seen[k[2]] = IF Comes(pager.of, pager.cursor, k) THEN 0 ELSE 1
    /\ pager.state = "end" => \A x \in pager.owed : pager.seen[x] = 1

Changes(q) == q.op \in {"assign", "react"} /\ q.step \in {"fetch", "after"}

\* An assignment that has found nothing to write.
Skips(q) == q.op = "assign" /\ q.step \in {"write", "commit"} /\ q.plan # "update"

Pending(t) == \E r \in Requests : req[r].on = t /\ Changes(req[r])

Queued(t) == \E k \in 1..Len(queue) : queue[k].topic = t

\* The last news of a topic on their way to the screens are what is stored.
NewsOf(t) ==
    /\ \A k \in 1..Len(queue) :
          queue[k].topic = t /\ (\A j \in k + 1..Len(queue) : queue[j].topic # t) =>
             queue[k].shown = Truth(t)
    /\ ~ Queued(t) /\ cast.topic = t => cast.shown = Truth(t)
    /\ ~ Queued(t) => \A s \in sockets \ gone :
          view[s][t] = Truth(t) \/ (cast.topic = t /\ s \in cast.left)

ScreenInv ==
    \A t \in Topics \ excused :
        /\ \A r \in Requests : req[r].on = t /\ Changes(req[r]) /\ req[r].step = "after" =>
              req[r].shown = Truth(t)
        /\ \A r \in Requests : req[r].on = t /\ Skips(req[r]) => Truth(t) = {<<req[r].who, None>>}
        /\ Pending(t) \/ NewsOf(t)

Event == [topic : Topics, shown : SUBSET Shown]

InboxTypes ==
    /\ TypeOK
    /\ queue \in Seq(Event)
    /\ cast \in [topic : Topics \cup {Nothing}, shown : SUBSET Shown, left : SUBSET Sockets,
                 stale : SUBSET Sockets]
    /\ view \in [Sockets -> [Topics -> SUBSET Shown]]
    /\ pager \in [of : Rows \cup {0}, state : {"closed", "first", "next", "end"},
                  cursor : Nat \X Nat, seen : [Rows -> Nat], owed : SUBSET Rows]

InboxInv ==
    /\ InboxTypes /\ RequestInv /\ TeamInv /\ ConvInv /\ MessageInv /\ ReplyInv
    /\ ChannelInv /\ PageInv /\ ScreenInv
-----------------------------------------------------------------------------
(* What a step leaves alone.  Every part of the invariant speaks of some   *)
(* tables and of the requests with some operations; a step that touches    *)
(* neither keeps it.                                                       *)

\* No request with one of the operations takes a step, except that it begins or ends.
Untouched(ops) ==
    \A q \in Requests :
        req'[q] = req[q] \/ req'[q].op \notin ops \/ req'[q].step \in {"idle", "read"}

\* One request takes a step; what it is about stays the same.
Moves(r) ==
    /\ req' = [req EXCEPT ![r] = req'[r]]
    /\ req'[r] \in Request
    /\ \/ req'[r] = Free
       \/ /\ req'[r].op = req[r].op /\ req'[r].on = req[r].on /\ req'[r].who = req[r].who
          /\ req'[r].word = req[r].word /\ req'[r].step \notin {"idle", "read"}

Excuses == excused \subseteq excused'

\* A request that is free is a request.
LEMMA FreeRequest == Free \in Request
BY BoundsAssumption DEF Free, Request, Subjects, None

\* A step of one request leaves those of other kinds alone.
LEMMA MovesUntouched ==
    ASSUME req \in [Requests -> Request], NEW r \in Requests, Moves(r), NEW ops,
           req[r].op \notin ops, "none" \notin ops
    PROVE  Untouched(ops)
<1>1. \A q \in Requests : q # r => req'[q] = req[q]
  BY DEF Moves
<1>2. req'[r].op \notin ops
  BY DEF Moves, Free
<1> QED
  BY <1>1, <1>2 DEF Untouched

\* What holds of the team survives every step of other parts.
LEMMA TeamFrame ==
    ASSUME TeamInv, UNCHANGED team, Excuses, Untouched({"accept", "signup"})
    PROVE  TeamInv'
<1>1. \A q \in Requests : Holder(q)' => req'[q] = req[q] /\ Holder(q)
  BY DEF Untouched, Holder
<1>2. \A q \in Requests : req'[q].op = "accept" /\ Past(req'[q]) => req'[q] = req[q]
  BY DEF Untouched, Past
<1>3. /\ admitted' = admitted /\ accounts' = accounts /\ founders' = founders
      /\ invites' = invites
  BY DEF team
<1> QED
  BY <1>1, <1>2, <1>3 DEF TeamInv, Excuses

\* What holds of the conversations survives every step of other parts.
LEMMA ConvFrame ==
    ASSUME ConvInv, UNCHANGED convs, Excuses, Untouched({"start", "inbound"})
    PROVE  ConvInv'
<1>1. \A q \in Requests : Creates(req'[q]) => req'[q] = req[q]
  BY DEF Untouched, Creates
<1> QED
  BY <1>1 DEF ConvInv, Excuses

\* What holds of the messages survives every step of other parts.
LEMMA MessageFrame ==
    ASSUME MessageInv, UNCHANGED messages, Ids \subseteq Ids', Untouched({"inbound", "reply"})
    PROVE  MessageInv'
<1>1. \A q \in Requests : At(q, "inbound", "commit")' => req'[q] = req[q] /\ At(q, "inbound", "commit")
  BY DEF Untouched, At
<1>2. \A q \in Requests : At(q, "reply", "commit")' => req'[q] = req[q] /\ At(q, "reply", "commit")
  BY DEF Untouched, At
<1>3. \A c, x : Stored(c, x)' <=> Stored(c, x)
  BY DEF Stored
<1> QED
  BY <1>1, <1>2, <1>3 DEF MessageInv

\* What holds of the replies survives every step of other parts.
LEMMA ReplyFrame ==
    ASSUME ReplyInv, UNCHANGED <<messages, sends>>, Excuses,
           \A q \in Requests : At(q, "reply", "after")' => req'[q] = req[q],
           \A q \in Requests : At(q, "reply", "after") =>
              req'[q] = req[q] \/ <<"sent", req[q].row>> \in excused'
    PROVE  ReplyInv'
<1>1. \A q \in Requests : At(q, "reply", "after")' => req'[q] = req[q] /\ At(q, "reply", "after")
  BY DEF At
<1>2. \A q \in Requests : At(q, "reply", "after") =>
         (At(q, "reply", "after")' /\ req'[q] = req[q]) \/ <<"sent", req[q].row>> \in excused'
  BY DEF At
<1> QED
  BY <1>1, <1>2 DEF ReplyInv, Excuses

\* What holds of the number survives every step of other parts.
LEMMA ChannelFrame ==
    ASSUME ChannelInv, UNCHANGED number, Excuses, Untouched({"connect"})
    PROVE  ChannelInv'
<1>1. \A q \in Requests : req'[q].op = "connect" /\ Past(req'[q]) => req'[q] = req[q]
  BY DEF Untouched, Past
<1>2. channel' = channel /\ subscribed' = subscribed
  BY DEF number
<1> QED
  BY <1>1, <1>2 DEF ChannelInv, Excuses

\* What holds of a list that is read survives every step of other parts.
LEMMA PageFrame ==
    ASSUME PageInv, UNCHANGED <<convs, messages, pager>>
    PROVE  PageInv'
<1>1. \A of : Keys(of)' = Keys(of)
  BY DEF Keys
<1> QED
  BY <1>1 DEF PageInv

\* What holds of the screens survives every step of other parts.
LEMMA ScreenFrame ==
    ASSUME ScreenInv, UNCHANGED live, Excuses, Untouched({"assign", "react"}),
           \A t \in Topics : Truth(t)' = Truth(t),
           \A q \in Requests : Changes(req[q]) => req'[q] = req[q] \/ req[q].on \in excused'
    PROVE  ScreenInv'
<1> SUFFICES ASSUME NEW t \in Topics, t \notin excused'
             PROVE  /\ \A r \in Requests :
                          req'[r].on = t /\ Changes(req'[r]) /\ req'[r].step = "after" =>
                             req'[r].shown = Truth(t)
                    /\ \A r \in Requests : req'[r].on = t /\ Skips(req'[r]) =>
                          Truth(t) = {<<req'[r].who, None>>}
                    /\ Pending(t)' \/ NewsOf(t)'
  BY DEF ScreenInv
<1>1. t \notin excused
  BY DEF Excuses
<1>2. \A q \in Requests : Changes(req'[q]) => req'[q] = req[q]
  BY DEF Untouched, Changes
<1>3. \A q \in Requests : Skips(req'[q]) => req'[q] = req[q]
  BY DEF Untouched, Skips
<1>4. Pending(t) => Pending(t)'
  BY DEF Pending
<1>5. /\ queue' = queue /\ cast' = cast /\ sockets' = sockets /\ gone' = gone /\ view' = view
  BY DEF live
<1>6. NewsOf(t) => NewsOf(t)'
  BY <1>5 DEF NewsOf, Queued
<1> QED
  BY <1>1, <1>2, <1>3, <1>4, <1>6 DEF ScreenInv
-----------------------------------------------------------------------------
(* The types, by component.                                                *)

WorldTypes == world \in Worlds /\ clock \in 0..MaxClock /\ clicks \in 0..world.clicks

TeamTypes ==
    /\ members \subseteq Users /\ accounts \subseteq Newcomers /\ founders \subseteq accounts
    /\ invites \in [Invites -> {"none", "open", "used", "expired"}]
    /\ admitted \in [Invites -> SUBSET Newcomers]

ThreadTypes ==
    convs \subseteq Conversation /\ messages \subseteq Message /\ sends \in [Rows -> Nat]

SideTypes ==
    /\ reactions \subseteq Staff \X Emojis
    /\ channel \in [phone : Phones \cup {None}, registered : BOOLEAN]
    /\ subscribed \subseteq Phones

LiveTypes ==
    /\ listener \in {"starting", "subscribed", "dead"}
    /\ queue \in Seq(Event)
    /\ cast \in [topic : Topics \cup {Nothing}, shown : SUBSET Shown, left : SUBSET Sockets,
                 stale : SUBSET Sockets]
    /\ sockets \subseteq Sockets /\ gone \subseteq Sockets
    /\ view \in [Sockets -> [Topics -> SUBSET Shown]]

PageTypes ==
    pager \in [of : Rows \cup {0}, state : {"closed", "first", "next", "end"},
              cursor : Nat \X Nat, seen : [Rows -> Nat], owed : SUBSET Rows]

RequestTypes == req \in [Requests -> Request] /\ excused \subseteq Subjects

\* The types of the inbox are those of its parts.
LEMMA TypeParts ==
    InboxTypes <=> /\ WorldTypes /\ TeamTypes /\ ThreadTypes /\ SideTypes /\ LiveTypes /\ PageTypes
                   /\ RequestTypes
<1>1. LiveTypes => /\ \A k \in 1..Len(queue) : queue[k].topic \in Topics
                   /\ cast.left \subseteq Sockets /\ cast.stale \subseteq Sockets
  <2> SUFFICES ASSUME LiveTypes PROVE  /\ \A k \in 1..Len(queue) : queue[k].topic \in Topics
                                       /\ cast.left \subseteq Sockets /\ cast.stale \subseteq Sockets
    OBVIOUS
  <2>1. \A k \in 1..Len(queue) : queue[k] \in Event
    BY DEF LiveTypes
  <2>2. cast.left \subseteq Sockets /\ cast.stale \subseteq Sockets
    BY DEF LiveTypes
  <2> QED
    BY <2>1, <2>2 DEF Event
<1>2. PageTypes => pager.of \in Rows \cup {0} /\ pager.owed \subseteq Rows
  BY DEF PageTypes
<1>3. InboxTypes => /\ WorldTypes /\ TeamTypes /\ ThreadTypes /\ SideTypes /\ LiveTypes /\ PageTypes
                    /\ RequestTypes
  BY DEF InboxTypes, TypeOK, WorldTypes, TeamTypes, ThreadTypes, SideTypes, LiveTypes, PageTypes,
         RequestTypes
<1>4. ASSUME WorldTypes, TeamTypes, ThreadTypes, SideTypes, LiveTypes, PageTypes, RequestTypes
      PROVE  InboxTypes
  <2>1. TypeOK
    BY <1>1, <1>2, <1>4 DEF TypeOK, WorldTypes, TeamTypes, ThreadTypes, SideTypes, LiveTypes,
       RequestTypes
  <2> QED
    BY <2>1, <1>4 DEF InboxTypes, LiveTypes, PageTypes
<1> QED
  BY <1>3, <1>4

\* A part that does not change keeps its types.
LEMMA TypesKept ==
    /\ WorldTypes /\ UNCHANGED <<world, clock, clicks>> => WorldTypes'
    /\ TeamTypes /\ UNCHANGED team => TeamTypes'
    /\ ThreadTypes /\ UNCHANGED threads => ThreadTypes'
    /\ SideTypes /\ UNCHANGED <<reactions, number>> => SideTypes'
    /\ LiveTypes /\ UNCHANGED live => LiveTypes'
    /\ PageTypes /\ UNCHANGED pager => PageTypes'
BY DEF WorldTypes, TeamTypes, ThreadTypes, SideTypes, LiveTypes, PageTypes, team, threads, number,
       live

\* The same of the next state.
LEMMA TypePartsNext ==
    InboxTypes' <=> /\ WorldTypes' /\ TeamTypes' /\ ThreadTypes' /\ SideTypes' /\ LiveTypes'
                    /\ PageTypes' /\ RequestTypes'
BY TypeParts, PTL

-----------------------------------------------------------------------------
(* How a request moves on.                                                 *)

ServiceSteps == {"again", "write", "register", "lock", "commit", "fetch", "after"}

Plans == {None, "insert", "update", "update all", "mark", "delete", "rename", "skip"}

\* A request that goes on to its next step.
LEMMA ToMoves ==
    ASSUME req \in [Requests -> Request], NEW r \in Requests, NEW step \in ServiceSteps, To(r, step)
    PROVE  /\ Moves(r) /\ req'[r].step = step /\ req'[r].plan = req[r].plan
           /\ req'[r].row = req[r].row /\ req'[r].at = req[r].at /\ req'[r].shown = req[r].shown
           /\ req'[r].who = req[r].who /\ req'[r].op = req[r].op
<1>1. req[r] \in Request
  OBVIOUS
<1>2. req'[r] = [req[r] EXCEPT !.step = step]
  BY DEF To
<1>3. req' = [req EXCEPT ![r] = req'[r]]
  BY <1>2 DEF To
<1>4. PICK m \in Request : m = req[r]
  BY <1>1
<1>5. step \in {"idle", "read", "again", "write", "register", "lock", "commit", "fetch", "after"}
  BY DEF ServiceSteps
<1>6. [m EXCEPT !.step = step] \in Request
  BY ONLY <1>5, m \in Request DEF Request
<1>7. /\ req'[r] \in Request
      /\ req'[r].op = req[r].op /\ req'[r].who = req[r].who /\ req'[r].step = step
      /\ req'[r].on = req[r].on /\ req'[r].word = req[r].word
  BY <1>2, <1>4, <1>6 DEF Request
<1>8. /\ req'[r].plan = req[r].plan
      /\ req'[r].row = req[r].row /\ req'[r].at = req[r].at /\ req'[r].shown = req[r].shown
  BY <1>1, <1>2 DEF Request
<1> QED
  BY <1>3, <1>7, <1>8 DEF Moves, ServiceSteps

\* A request that goes on with what it has decided.
LEMMA PlanMoves ==
    ASSUME req \in [Requests -> Request], NEW r \in Requests, NEW step \in ServiceSteps,
           NEW plan \in Plans,
           Plan(r, step, plan)
    PROVE  /\ Moves(r) /\ req'[r].step = step /\ req'[r].plan = plan
           /\ req'[r].row = req[r].row /\ req'[r].at = req[r].at /\ req'[r].shown = req[r].shown
           /\ req'[r].who = req[r].who /\ req'[r].op = req[r].op
<1>1. req[r] \in Request
  OBVIOUS
<1>2. req'[r] = [req[r] EXCEPT !.step = step, !.plan = plan]
  BY DEF Plan
<1>3. req' = [req EXCEPT ![r] = req'[r]]
  BY <1>2 DEF Plan
<1>4. PICK m \in Request : m = req[r]
  BY <1>1
<1>5. step \in {"idle", "read", "again", "write", "register", "lock", "commit", "fetch", "after"}
  BY DEF ServiceSteps
<1>6. plan \in {None, "insert", "update", "update all", "mark", "delete", "rename", "skip"}
  BY DEF Plans
<1>7. [m EXCEPT !.step = step, !.plan = plan] \in Request
  BY ONLY <1>5, <1>6, m \in Request DEF Request
<1>8. /\ req'[r] \in Request
      /\ req'[r].op = req[r].op /\ req'[r].on = req[r].on /\ req'[r].who = req[r].who
      /\ req'[r].word = req[r].word /\ req'[r].step = step
  BY <1>1, <1>2, <1>4, <1>7 DEF Request
<1>9. /\ req'[r].plan = plan
      /\ req'[r].row = req[r].row /\ req'[r].at = req[r].at /\ req'[r].shown = req[r].shown
  BY <1>1, <1>2 DEF Request
<1> QED
  BY <1>3, <1>8, <1>9 DEF Moves, ServiceSteps

\* A request that has ended.
LEMMA EndMoves ==
    ASSUME req \in [Requests -> Request], NEW r \in Requests, End(r)
    PROVE  Moves(r) /\ req'[r] = Free
<1>1. req'[r] = Free
  BY DEF End
<1>2. req' = [req EXCEPT ![r] = req'[r]]
  BY <1>1 DEF End
<1> QED
  BY <1>1, <1>2, FreeRequest DEF Moves

\* The conversations that were there are there, under their ids and with their customers.
Remain == \A v \in convs : \E w \in convs' : w.id = v.id /\ w.customer = v.customer

\* Whatever a request under way does, two on one subject are excused.
LEMMA RequestMoves ==
    ASSUME InboxTypes, RequestInv, NEW r \in Requests, Moves(r), Excuses, Remain,
           req[r].step # "idle",
           req[r].op = "inbound" =>
              \/ req'[r].row \in {0, req[r].row}
              \/ \E v \in convs' : v.id = req'[r].row /\ v.customer = req[r].on[2]
    PROVE  RequestInv' /\ req' \in [Requests -> Request]
<1> USE DEF Moves
<1>1. req \in [Requests -> Request]
  BY DEF InboxTypes, TypeOK
<1>2. \A q \in Requests : q # r => req'[q] = req[q]
  BY <1>1
<1>3. Ids \subseteq Ids'
  BY DEF Ids, Remain
<1>4. \A q \in Requests : Shaped(req[q])
  BY DEF RequestInv
<1>5. \A q \in Requests : q # r => Shaped(req[q])'
  <2> SUFFICES ASSUME NEW q \in Requests, q # r PROVE Shaped(req[q])'
    OBVIOUS
  <2>1. req'[q] = req[q] /\ Shaped(req[q])
    BY <1>2, <1>4
  <2> QED
    BY <2>1, <1>3 DEF Shaped, Remain
<1>6. Shaped(req[r])'
  <2>1. CASE req'[r] = Free
    BY <2>1 DEF Shaped, Free
  <2>2. CASE req'[r] # Free
    <3>1. /\ req'[r].op = req[r].op /\ req'[r].on = req[r].on /\ req'[r].who = req[r].who
          /\ req'[r].word = req[r].word /\ req'[r].step \notin {"idle", "read"}
      BY <2>2
    <3>2. Shaped(req[r]) /\ req[r].op # "none"
      BY <1>4 DEF Shaped, Free
    <3>3. req[r].op = "inbound" =>
             req'[r].row = 0 \/ \E v \in convs' : v.id = req'[r].row /\ v.customer = req[r].on[2]
      BY <3>2 DEF Shaped, Remain
    <3> QED
      BY <3>1, <3>2, <3>3, <1>3 DEF Shaped
  <2> QED
    BY <2>1, <2>2
<1>7. \A q \in Requests : req'[q].on # Nothing => req'[q].on = req[q].on
  BY <1>2 DEF Free, Nothing
<1>8. \A q \in Requests : req'[q].op = "inbound" => req[q].op = "inbound"
  BY <1>2 DEF Free
<1>9. \A q, s \in Requests : req'[q].on = req'[s].on => q = s \/ req'[s].on \in excused' \cup {Nothing}
  <2> SUFFICES ASSUME NEW q \in Requests, NEW s \in Requests, req'[q].on = req'[s].on, q # s,
                      req'[s].on # Nothing
               PROVE  req'[s].on \in excused'
    OBVIOUS
  <2>1. req[q].on = req[s].on /\ req'[s].on = req[s].on
    BY <1>7
  <2>2. req[s].on \in excused \cup {Nothing}
    BY <2>1 DEF RequestInv
  <2> QED
    BY <2>1, <2>2 DEF Excuses
<1>10. \A q, s \in Requests : req'[q].op = "inbound" /\ req'[s].op = "inbound" => q = s
  BY <1>8 DEF RequestInv
<1>11. req' \in [Requests -> Request]
  BY <1>1
<1> QED
  BY <1>5, <1>6, <1>9, <1>10, <1>11 DEF RequestInv
-----------------------------------------------------------------------------
(* The team.                                                               *)

TeamStep(r) ==
    \/ LoadInvite(r) \/ FindEmail(r) \/ FindAccount(r) \/ CreateAccount(r) \/ ConsumeInvite(r)
    \/ CommitAccept(r) \/ CommitSignUp(r)
    \/ LoadMembership(r) \/ CommitRemove(r)

\* What a step of a request about the team may change.
LEMMA TeamMoves ==
    ASSUME InboxTypes, RequestInv, NEW r \in Requests, TeamStep(r)
    PROVE  /\ Moves(r) /\ req[r].op \in {"accept", "signup", "remove"} /\ req[r].step # "idle"
           /\ UNCHANGED <<threads, reactions, number, live, pager, clicks, excused>>
           /\ TeamTypes'
<1>1. req \in [Requests -> Request] /\ TeamTypes
  BY DEF InboxTypes, TypeOK, TeamTypes
<1>2. Shaped(req[r])
  BY DEF RequestInv
<1>3. UNCHANGED team => TeamTypes'
  BY <1>1 DEF team, TeamTypes
<1>4. End(r) => Moves(r)
  BY <1>1, EndMoves
<1>5. \A step \in ServiceSteps : To(r, step) => Moves(r)
  BY <1>1, ToMoves
<1> USE <1>1, <1>3, <1>4, <1>5 DEF ServiceSteps
<1>a. CASE LoadInvite(r)
  BY <1>a DEF LoadInvite, At, Quiet
<1>b. CASE FindEmail(r)
  BY <1>b DEF FindEmail, At, Quiet
<1>c. CASE FindAccount(r)
  BY <1>c DEF FindAccount, At, Quiet
<1>d. CASE CreateAccount(r)
  BY <1>d DEF CreateAccount, Quiet
<1>e. CASE ConsumeInvite(r)
  BY <1>e DEF ConsumeInvite, At, Quiet
<1>f. CASE CommitAccept(r)
  <2>1. req[r].who \in Newcomers /\ req[r].on[2] \in Invites
    BY <1>2, <1>f DEF CommitAccept, At, Shaped
  <2>2. TeamTypes'
    BY <2>1, <1>f DEF CommitAccept, TeamTypes, Users
  <2> QED
    BY <2>2, <1>f DEF CommitAccept, At
<1>g. CASE CommitSignUp(r)
  <2>1. req[r].who \in Newcomers
    BY <1>2, <1>g DEF CommitSignUp, At, Shaped
  <2>2. TeamTypes'
    BY <2>1, <1>g DEF CommitSignUp, TeamTypes
  <2> QED
    BY <2>2, <1>g DEF CommitSignUp, At
<1>h. CASE LoadMembership(r)
  BY <1>h DEF LoadMembership, At, Quiet
<1>i. CASE CommitRemove(r)
  <2>2. TeamTypes'
    BY <1>i DEF CommitRemove, TeamTypes
  <2> QED
    BY <2>2, <1>i DEF CommitRemove, At
<1> QED
  BY <1>a, <1>b, <1>c, <1>d, <1>e, <1>f, <1>g, <1>h, <1>i DEF TeamStep

\* A step of an invitation keeps TeamInv if nobody joins and the request has a right to
\* the place where it is.
LEMMA TeamLocal ==
    ASSUME TeamInv, req \in [Requests -> Request], NEW r \in Requests, Moves(r),
           UNCHANGED <<accounts, founders, invites, admitted, excused>>,
           Holder(r)' => /\ req[r].who \notin accounts
                         /\ \A q \in Requests : Holder(q) /\ req[q].who = req[r].who => q = r,
           req[r].op = "accept" /\ ~ Past(req[r]) /\ Past(req'[r]) => invites[req[r].on[2]] # "used"
    PROVE  TeamInv'
<1>1. \A q \in Requests : q # r => req'[q] = req[q]
  BY DEF Moves
<1>2. \A q \in Requests : q # r => (Holder(q)' <=> Holder(q))
  BY <1>1 DEF Holder
<1>3. Holder(r)' => req'[r].who = req[r].who
  BY DEF Moves, Free, Holder
<1>4. \A q \in Requests : Holder(q)' => req'[q].who \notin accounts
  BY <1>1, <1>2, <1>3 DEF TeamInv
<1>5. \A q, s \in Requests : Holder(q)' /\ Holder(s)' /\ req'[q].who = req'[s].who => q = s
  BY <1>1, <1>2, <1>3 DEF TeamInv
<1>6. ASSUME NEW i \in Invites, <<"invite", i>> \notin excused, admitted[i] # {}
      PROVE  /\ invites[i] = "used"
             /\ \A m, n \in admitted[i] : m = n
             /\ \A q \in Requests :
                   req'[q].op = "accept" /\ req'[q].on = <<"invite", i>> => ~ Past(req'[q])
  <2>1. /\ invites[i] = "used"
        /\ \A m, n \in admitted[i] : m = n
        /\ \A q \in Requests :
              req[q].op = "accept" /\ req[q].on = <<"invite", i>> => ~ Past(req[q])
    BY <1>6 DEF TeamInv
  <2>2. ASSUME req'[r].op = "accept", req'[r].on = <<"invite", i>>
        PROVE  ~ Past(req'[r])
    <3>1. req[r].op = "accept" /\ req[r].on = <<"invite", i>>
      BY <2>2 DEF Moves, Free
    <3> QED
      BY <3>1, <2>1
  <2> QED
    BY <2>1, <2>2, <1>1
<1> QED
  BY <1>4, <1>5, <1>6 DEF TeamInv

\* accept_invitation, signup, remove_member: the team stays right.
LEMMA TeamStepInv ==
    ASSUME InboxTypes, RequestInv, TeamInv, NEW r \in Requests, TeamStep(r)
    PROVE  TeamInv'
<1>1. req \in [Requests -> Request] /\ founders \subseteq accounts /\ admitted \in [Invites -> SUBSET Newcomers]
      /\ invites \in [Invites -> {"none", "open", "used", "expired"}]
  BY DEF InboxTypes, TypeOK
<1>2. Moves(r) /\ UNCHANGED excused
  BY TeamMoves
<1>3. Shaped(req[r])
  BY DEF RequestInv
<1>4. \A q \in Requests : q # r => req'[q] = req[q]
  BY <1>1, <1>2 DEF Moves
<1>5. End(r) => req'[r] = Free
  BY <1>1 DEF End
<1>6. \A step : To(r, step) => req'[r] = [req[r] EXCEPT !.step = step]
  BY <1>1 DEF To
<1>7. Holder(r) =>
         /\ req[r].who \notin accounts
         /\ \A q \in Requests : Holder(q) /\ req[q].who = req[r].who => q = r
  BY DEF TeamInv
<1>8. ASSUME UNCHANGED <<accounts, founders, invites, admitted>>, req'[r] = Free
      PROVE  TeamInv'
  <2>1. ~ Holder(r)' /\ ~ Past(req'[r])
    BY <1>8 DEF Holder, Past, Free
  <2> QED
    BY <2>1, <1>1, <1>2, <1>8, TeamLocal
<1>9. ASSUME UNCHANGED <<accounts, founders, invites, admitted>>, NEW step,
             req'[r] = [req[r] EXCEPT !.step = step], step \notin {"lock", "commit"} \/ Holder(r),
             Past(req[r]) \/ req[r].op # "accept"
      PROVE  TeamInv'
  <2>1. Holder(r)' => Holder(r)
    BY <1>9, <1>1 DEF Holder, Request
  <2> QED
    BY <2>1, <1>1, <1>2, <1>7, <1>9, TeamLocal
<1>a. CASE LoadInvite(r)
  <2>1. UNCHANGED <<accounts, founders, invites, admitted>>
    BY <1>a DEF LoadInvite, Quiet, team
  <2>2. CASE End(r)
    BY <2>1, <2>2, <1>5, <1>8
  <2>3. CASE invites[req[r].on[2]] = "open" /\ To(r, "again")
    <3>0. req'[r].step = "again"
      BY <2>3, <1>1 DEF To, Request
    <3>1. ~ Holder(r)'
      BY <3>0 DEF Holder
    <3>2. invites[req[r].on[2]] # "used" /\ UNCHANGED <<accounts, founders, invites, admitted, excused>>
      BY <2>1, <2>3, <1>2
    <3> QED
      BY <3>1, <3>2, <1>1, <1>2, TeamLocal
  <2> QED
    BY <2>2, <2>3, <1>a DEF LoadInvite
<1>b. CASE FindEmail(r)
  <2>1. UNCHANGED <<accounts, founders, invites, admitted>> /\ Past(req[r])
    BY <1>b DEF FindEmail, Quiet, team, Past, At
  <2>2. CASE End(r)
    BY <2>1, <2>2, <1>5, <1>8
  <2>3. CASE To(r, "write")
    <3>1. req'[r] = [req[r] EXCEPT !.step = "write"]
      BY <2>3, <1>6
    <3> QED
      BY <3>1, <2>1, <1>9
  <2> QED
    BY <2>2, <2>3, <1>b DEF FindEmail
<1>c. CASE FindAccount(r)
  <2>1. UNCHANGED <<accounts, founders, invites, admitted>> /\ req[r].op # "accept"
    BY <1>c DEF FindAccount, Quiet, team, At
  <2>2. CASE End(r)
    BY <2>1, <2>2, <1>5, <1>8
  <2>3. CASE To(r, "write")
    <3>1. req'[r] = [req[r] EXCEPT !.step = "write"]
      BY <2>3, <1>6
    <3> QED
      BY <3>1, <2>1, <1>9
  <2> QED
    BY <2>2, <2>3, <1>c DEF FindAccount
<1>d. CASE CreateAccount(r)
  <2>1. UNCHANGED <<accounts, founders, invites, admitted>> /\ Past(req[r])
    BY <1>d DEF CreateAccount, Quiet, team, Past
  <2>2. CASE End(r)
    BY <2>1, <2>2, <1>5, <1>8
  <2>3. CASE req[r].who \notin accounts
    <3>1. \A q \in Requests : Holder(q) /\ req[q].who = req[r].who => q = r
      BY <1>d DEF CreateAccount, HoldsAddress, Holder
    <3> QED
      BY <3>1, <2>1, <2>3, <1>1, <1>2, TeamLocal
  <2> QED
    BY <2>2, <2>3, <1>d DEF CreateAccount
<1>e. CASE ConsumeInvite(r)
  <2>1. UNCHANGED <<accounts, founders, invites, admitted>> /\ Past(req[r]) /\ Holder(r)
    BY <1>e DEF ConsumeInvite, Quiet, team, Past, Holder, At
  <2> QED
    BY <2>1, <1>6, <1>9, <1>e DEF ConsumeInvite
<1>f. CASE CommitAccept(r)
  <2>1. PICK i \in Invites, n \in Newcomers :
           i = req[r].on[2] /\ n = req[r].who /\ req[r].on = <<"invite", i>>
    BY <1>3, <1>f DEF CommitAccept, At, Shaped
  <2>2. /\ Holder(r) /\ Past(req[r]) /\ req[r].op = "accept" /\ req'[r] = Free
        /\ accounts' = accounts \cup {n} /\ founders' = founders
        /\ invites' = [invites EXCEPT ![i] = "used"]
        /\ admitted' = [admitted EXCEPT ![i] = @ \cup {n}]
    BY <2>1, <1>5, <1>f DEF CommitAccept, At, Holder, Past
  <2>3. n \notin accounts /\ \A q \in Requests : Holder(q) /\ req[q].who = n => q = r
    BY <2>1, <2>2, <1>7
  <2>4. ~ Holder(r)' /\ ~ Past(req'[r]) /\ \A q \in Requests : q # r => (Holder(q)' <=> Holder(q))
    BY <2>2, <1>4 DEF Holder, Past, Free
  <2>5. \A j \in Invites : admitted[j] \subseteq accounts /\ admitted[j] \cap founders = {}
    BY DEF TeamInv
  <2>6. /\ admitted'[i] = admitted[i] \cup {n} /\ invites'[i] = "used"
        /\ \A j \in Invites : j # i => admitted'[j] = admitted[j] /\ invites'[j] = invites[j]
    BY <2>2, <1>1
  <2>7. \A j \in Invites : (admitted[j] \subseteq accounts /\ admitted[j] \cap founders = {})'
    BY <2>2, <2>3, <2>5, <2>6, <1>1
  <2>8. \A j, k \in Invites : j # k => admitted'[j] \cap admitted'[k] = {}
    <3>1. \A j, k \in Invites : j # k => admitted[j] \cap admitted[k] = {}
      BY DEF TeamInv
    <3> QED
      BY <3>1, <2>3, <2>5, <2>6
  <2>9. \A q \in Requests : Holder(q)' => req'[q].who \notin accounts'
    BY <2>2, <2>3, <2>4, <1>4 DEF TeamInv
  <2>10. \A q, s \in Requests : Holder(q)' /\ Holder(s)' /\ req'[q].who = req'[s].who => q = s
    BY <2>4, <1>4 DEF TeamInv
  <2>11. ASSUME NEW j \in Invites, <<"invite", j>> \notin excused', admitted'[j] # {}
         PROVE  /\ invites'[j] = "used"
                /\ \A m, k \in admitted'[j] : m = k
                /\ \A q \in Requests :
                      req'[q].op = "accept" /\ req'[q].on = <<"invite", j>> => ~ Past(req'[q])
    <3>1. CASE j # i
      BY <3>1, <2>4, <2>6, <2>11, <1>2, <1>4 DEF TeamInv
    <3>2. CASE j = i
      <4>1. admitted[i] = {}
        BY <3>2, <2>1, <2>2, <2>11, <1>2 DEF TeamInv
      <4>2. \A q \in Requests : q # r => req[q].on # <<"invite", i>>
        <5>1. <<"invite", i>> # Nothing /\ <<"invite", i>> \notin excused
          BY <3>2, <2>11, <1>2 DEF Nothing
        <5> QED
          BY <5>1, <2>1 DEF RequestInv
      <4> QED
        BY <3>2, <4>1, <4>2, <2>4, <2>6, <1>4
    <3> QED
      BY <3>1, <3>2
  <2> QED
    BY <2>7, <2>8, <2>9, <2>10, <2>11 DEF TeamInv
<1>g. CASE CommitSignUp(r)
  <2>1. /\ Holder(r) /\ req[r].op = "signup" /\ req'[r] = Free
        /\ UNCHANGED <<invites, admitted>>
    BY <1>5, <1>g DEF CommitSignUp, At, Holder
  <2>2. PICK n : n = req[r].who
    OBVIOUS
  <2>3. accounts' = accounts \cup {n} /\ founders' = founders \cup {n}
    BY <2>2, <1>g DEF CommitSignUp
  <2>4. n \notin accounts /\ \A q \in Requests : Holder(q) /\ req[q].who = n => q = r
    BY <2>1, <2>2, <1>7
  <2>5. ~ Holder(r)' /\ ~ Past(req'[r]) /\ \A q \in Requests : q # r => (Holder(q)' <=> Holder(q))
    BY <2>1, <1>4 DEF Holder, Past, Free
  <2>6. \A j \in Invites : (admitted[j] \subseteq accounts /\ admitted[j] \cap founders = {})'
    BY <2>1, <2>3, <2>4 DEF TeamInv
  <2>7. \A q \in Requests : Holder(q)' => req'[q].who \notin accounts'
    BY <2>3, <2>4, <2>5, <1>4 DEF TeamInv
  <2>8. \A q, s \in Requests : Holder(q)' /\ Holder(s)' /\ req'[q].who = req'[s].who => q = s
    BY <2>5, <1>4 DEF TeamInv
  <2>9. \A q \in Requests : Past(req'[q]) => req'[q] = req[q]
    BY <2>5, <1>4
  <2> QED
    BY <2>1, <2>6, <2>7, <2>8, <2>9, <1>2 DEF TeamInv
<1>h. CASE LoadMembership(r)
  <2>1. UNCHANGED team /\ req[r].op = "remove"
    BY <1>h DEF LoadMembership, Quiet, At
  <2>2. Untouched({"accept", "signup"})
    BY <2>1, <1>1, <1>2, MovesUntouched
  <2> QED
    BY <2>1, <2>2, <1>2, TeamFrame DEF Excuses
<1>i. CASE CommitRemove(r)
  <2>1. UNCHANGED <<accounts, founders, invites, admitted>> /\ req'[r] = Free
    BY <1>i, <1>5 DEF CommitRemove
  <2> QED
    BY <2>1, <1>8
<1> QED
  BY <1>a, <1>b, <1>c, <1>d, <1>e, <1>f, <1>g, <1>h, <1>i DEF TeamStep

\* Of a step of one request: what it leaves alone stays right.
LEMMA MoveFrame ==
    ASSUME InboxInv, NEW r \in Requests, Moves(r), Excuses
    PROVE  /\ req[r].op \notin {"accept", "signup"} /\ UNCHANGED team => TeamInv'
           /\ req[r].op \notin {"start", "inbound"} /\ UNCHANGED convs => ConvInv'
           /\ req[r].op \notin {"inbound", "reply"} /\ UNCHANGED messages /\ Remain => MessageInv'
           /\ req[r].op # "reply" /\ UNCHANGED <<messages, sends>> => ReplyInv'
           /\ req[r].op # "connect" /\ UNCHANGED number => ChannelInv'
           /\ UNCHANGED <<convs, messages, pager>> => PageInv'
           /\ (/\ req[r].op \notin {"assign", "react"} /\ UNCHANGED live
               /\ \A t \in Topics : Truth(t)' = Truth(t)) => ScreenInv'
<1>1. req \in [Requests -> Request]
  BY DEF InboxInv, InboxTypes, TypeOK
<1>2. \A q \in Requests : q # r => req'[q] = req[q]
  BY <1>1 DEF Moves
<1>3. ASSUME req[r].op \notin {"accept", "signup"}, UNCHANGED team PROVE TeamInv'
  <2>1. Untouched({"accept", "signup"})
    BY <1>1, <1>3, MovesUntouched
  <2> QED
    BY <2>1, <1>3, TeamFrame DEF InboxInv
<1>4. ASSUME req[r].op \notin {"start", "inbound"}, UNCHANGED convs PROVE ConvInv'
  <2>1. Untouched({"start", "inbound"})
    BY <1>1, <1>4, MovesUntouched
  <2> QED
    BY <2>1, <1>4, ConvFrame DEF InboxInv
<1>5. ASSUME req[r].op # "reply", UNCHANGED <<messages, sends>> PROVE ReplyInv'
  <2>1. \A q \in Requests : At(q, "reply", "after")' => req'[q] = req[q]
    BY <1>2, <1>5 DEF At, Moves, Free
  <2>2. \A q \in Requests : At(q, "reply", "after") => req'[q] = req[q]
    BY <1>2, <1>5 DEF At
  <2> QED
    BY <2>1, <2>2, <1>5, ReplyFrame DEF InboxInv
<1>6. ASSUME req[r].op # "connect", UNCHANGED number PROVE ChannelInv'
  <2>1. Untouched({"connect"})
    BY <1>1, <1>6, MovesUntouched
  <2> QED
    BY <2>1, <1>6, ChannelFrame DEF InboxInv
<1>7. UNCHANGED <<convs, messages, pager>> => PageInv'
  BY PageFrame DEF InboxInv
<1>8. ASSUME req[r].op \notin {"assign", "react"}, UNCHANGED live, \A t \in Topics : Truth(t)' = Truth(t)
      PROVE  ScreenInv'
  <2>1. Untouched({"assign", "react"})
    BY <1>1, <1>8, MovesUntouched
  <2>2. \A q \in Requests : Changes(req[q]) => req'[q] = req[q]
    BY <1>2, <1>8 DEF Changes
  <2> QED
    BY <2>1, <2>2, <1>8, ScreenFrame DEF InboxInv
<1>9. ASSUME req[r].op \notin {"inbound", "reply"}, UNCHANGED messages, Remain PROVE MessageInv'
  <2>1. Untouched({"inbound", "reply"})
    BY <1>1, <1>9, MovesUntouched
  <2>2. Ids \subseteq Ids'
    BY <1>9 DEF Remain, Ids
  <2> QED
    BY <2>1, <2>2, <1>9, MessageFrame DEF InboxInv
<1> QED
  BY <1>3, <1>4, <1>5, <1>6, <1>7, <1>8, <1>9

\* What the screens should show follows from the conversations and the reactions.
LEMMA TruthFrame ==
    ASSUME UNCHANGED <<convs, reactions>>
    PROVE  \A t \in Topics : Truth(t)' = Truth(t)
<1>1. \A id : Row(id)' = Row(id)
  BY DEF Row
<1> QED
  BY <1>1 DEF Truth

\* The requests about the team keep the invariant.
LEMMA TeamKeeps ==
    ASSUME InboxInv, UNCHANGED <<world, clock>>, NEW r \in Requests, TeamStep(r)
    PROVE  InboxInv'
<1>1. InboxTypes /\ RequestInv /\ TeamInv
  BY DEF InboxInv
<1>2. /\ Moves(r) /\ req[r].op \in {"accept", "signup", "remove"} /\ req[r].step # "idle"
      /\ UNCHANGED <<threads, reactions, number, live, pager, clicks, excused>>
      /\ TeamTypes'
  BY <1>1, TeamMoves
<1>3. UNCHANGED <<convs, messages, sends>> /\ Excuses /\ Remain
  BY <1>2 DEF threads, Excuses, Remain
<1>4. RequestInv' /\ req' \in [Requests -> Request]
  BY <1>1, <1>2, <1>3, RequestMoves
<1>5. InboxTypes'
  BY <1>1, <1>2, <1>4, TypeParts, TypePartsNext, TypesKept DEF RequestTypes
<1>6. TeamInv'
  BY <1>1, TeamStepInv
<1>7. ConvInv' /\ MessageInv' /\ ReplyInv' /\ ChannelInv' /\ PageInv' /\ ScreenInv'
  BY <1>2, <1>3, MoveFrame, TruthFrame
<1> QED
  BY <1>4, <1>5, <1>6, <1>7 DEF InboxInv
-----------------------------------------------------------------------------
(* The channel.                                                            *)

ConnectStep(r) == LoadChannel(r) \/ WriteChannel(r) \/ RegisterWebhook(r) \/ CommitChannel(r)

\* Connecting a number keeps the invariant.
LEMMA ConnectKeeps ==
    ASSUME InboxInv, UNCHANGED <<world, clock>>, NEW r \in Requests, ConnectStep(r)
    PROVE  InboxInv'
<1>1. InboxTypes /\ RequestInv /\ req \in [Requests -> Request]
  BY DEF InboxInv, InboxTypes, TypeOK
<1>2. req[r].op = "connect" /\ req[r].step # "idle"
  BY DEF ConnectStep, LoadChannel, WriteChannel, RegisterWebhook, CommitChannel, At
<1>3. req[r] \in Request /\ req[r].on = <<"channel", 0>> /\ req[r].word \in Phones
  BY <1>1, <1>2 DEF RequestInv, Shaped
<1>4. UNCHANGED <<team, threads, reactions, live, pager, clicks, excused>>
  BY DEF ConnectStep, LoadChannel, WriteChannel, RegisterWebhook, CommitChannel, Quiet
<1>5. SideTypes /\ channel.registered \in BOOLEAN
  BY <1>1, TypeParts DEF SideTypes
<1>6. ASSUME <<"channel", 0>> \notin excused
      PROVE  /\ channel.registered => channel.phone \in subscribed
             /\ Past(req[r]) /\ req[r].plan = "mark" => req[r].step = "commit" /\ req[r].word \in subscribed
             /\ Past(req[r]) /\ req[r].plan = "update" => ~ channel.registered
             /\ \A q \in Requests : req[q].op = "connect" => q = r
  <2>1. \A q \in Requests : req[q].op = "connect" => q = r
    <3>1. <<"channel", 0>> # Nothing
      BY DEF Nothing
    <3>2. \A q \in Requests : req[q].op = "connect" => req[q].on = <<"channel", 0>>
      BY <1>1 DEF RequestInv, Shaped
    <3> QED
      BY <3>1, <3>2, <1>1, <1>3, <1>6 DEF RequestInv
  <2> QED
    BY <2>1, <1>2, <1>6 DEF InboxInv, ChannelInv
<1>7. ASSUME Moves(r),
             <<"channel", 0>> \notin excused => 
                /\ channel'.registered => channel'.phone \in subscribed'
                /\ req'[r].op = "connect" /\ Past(req'[r]) /\ req'[r].plan = "mark" =>
                      req'[r].step = "commit" /\ req[r].word \in subscribed'
                /\ req'[r].op = "connect" /\ Past(req'[r]) /\ req'[r].plan = "update" => ~ channel'.registered
      PROVE  ChannelInv'
  <2> SUFFICES ASSUME <<"channel", 0>> \notin excused' PROVE ChannelInv'
    BY DEF ChannelInv
  <2>1. \A q \in Requests : req'[q].op = "connect" => q = r /\ req'[q].word = req[q].word
    BY <1>1, <1>4, <1>6, <1>7 DEF Moves, Free
  <2> QED
    BY <2>1, <1>4, <1>7 DEF ChannelInv, At
<1>8. Moves(r) /\ SideTypes' /\ ChannelInv'
  <2>a. CASE LoadChannel(r)
    <3>1. PICK plan \in {"insert", "update", "update all"} :
             Plan(r, "write", plan) /\ (plan = "update" => ~ channel.registered)
      <4>1. CASE channel = NoChannel
        <5>1. Plan(r, "write", "insert")
          BY <4>1, <2>a DEF LoadChannel, NoChannel
        <5> QED
          BY <5>1
      <4>2. CASE channel # NoChannel /\ channel.registered
        <5>1. Plan(r, "write", "update all")
          BY <4>2, <2>a DEF LoadChannel
        <5> QED
          BY <5>1
      <4>3. CASE channel # NoChannel /\ ~ channel.registered
        <5>1. Plan(r, "write", "update")
          BY <4>3, <2>a DEF LoadChannel
        <5> QED
          BY <5>1, <4>3
      <4> QED
        BY <4>1, <4>2, <4>3
    <3>2. "write" \in ServiceSteps /\ plan \in Plans
      BY DEF ServiceSteps, Plans
    <3>3. Moves(r) /\ req'[r].step = "write" /\ req'[r].plan = plan
      BY <3>1, <3>2, <1>1, PlanMoves
    <3>4. UNCHANGED <<reactions, channel, subscribed>>
      BY <2>a DEF LoadChannel, Quiet, number
    <3>5. ChannelInv'
      BY <3>1, <3>3, <3>4, <1>6, <1>7 DEF At
    <3> QED
      BY <3>3, <3>4, <3>5, <1>5 DEF SideTypes
  <2>b. CASE WriteChannel(r)
    <3>1. UNCHANGED <<reactions, channel, subscribed>>
      BY <2>b DEF WriteChannel, Quiet, number
    <3>2. CASE End(r)
      <4>1. Moves(r) /\ req'[r] = Free
        BY <3>2, <1>1, EndMoves
      <4>2. ChannelInv'
        BY <4>1, <3>1, <1>6, <1>7 DEF At, Free
      <4> QED
        BY <4>1, <4>2, <3>1, <1>5 DEF SideTypes
    <3>3. CASE To(r, "register")
      <4>1. Moves(r) /\ req'[r].step = "register" /\ req'[r].plan = req[r].plan
        BY <3>3, <1>1, ToMoves DEF ServiceSteps
      <4>2. Past(req[r]) /\ req[r].step = "write"
        BY <2>b DEF WriteChannel, Past, At
      <4>3. ChannelInv'
        BY <4>1, <4>2, <3>1, <1>6, <1>7 DEF At
      <4> QED
        BY <4>1, <4>3, <3>1, <1>5 DEF SideTypes
    <3> QED
      BY <3>2, <3>3, <2>b DEF WriteChannel
  <2>c. CASE RegisterWebhook(r)
    <3>1. UNCHANGED <<reactions, channel>> /\ Past(req[r])
      BY <2>c DEF RegisterWebhook, Past, At
    <3>2. CASE subscribed' = subscribed \cup {req[r].word} /\ Plan(r, "commit", "mark")
      <4>1. Moves(r) /\ req'[r].step = "commit" /\ req'[r].plan = "mark"
        BY <3>2, <1>1, PlanMoves DEF ServiceSteps, Plans
      <4>3. ChannelInv'
        BY <4>1, <3>1, <3>2, <1>6, <1>7
      <4> QED
        BY <4>1, <4>3, <3>1, <3>2, <1>3, <1>5 DEF SideTypes
    <3>3. CASE subscribed' \in {subscribed, subscribed \cup {req[r].word}} /\ To(r, "commit")
      <4>1. Moves(r) /\ req'[r].step = "commit" /\ req'[r].plan = req[r].plan
        BY <3>3, <1>1, ToMoves DEF ServiceSteps
      <4>3. <<"channel", 0>> \notin excused => req[r].plan # "mark"
        BY <2>c, <3>1, <1>6 DEF RegisterWebhook, At
      <4>4. ChannelInv'
        BY <4>1, <4>3, <3>1, <3>3, <1>6, <1>7
      <4> QED
        BY <4>1, <4>4, <3>1, <3>3, <1>3, <1>5 DEF SideTypes
    <3> QED
      BY <3>2, <3>3, <2>c DEF RegisterWebhook
  <2>d. CASE CommitChannel(r)
    <3>1. UNCHANGED <<reactions, subscribed>> /\ Past(req[r])
      BY <2>d DEF CommitChannel, Past, At
    <3>2. Moves(r) /\ req'[r] = Free
      BY <2>d, <1>1, EndMoves DEF CommitChannel
    <3>3. /\ channel'.phone = req[r].word
          /\ channel'.registered <=> req[r].plan = "mark" \/ (req[r].plan = "update" /\ channel.registered)
          /\ SideTypes'
      BY <2>d, <3>1, <1>3, <1>5 DEF CommitChannel, SideTypes
    <3>4. ChannelInv'
      BY <2>d, <3>1, <3>2, <3>3, <1>6, <1>7 DEF CommitChannel, At, Free
    <3> QED
      BY <3>2, <3>3, <3>4
  <2> QED
    BY <2>a, <2>b, <2>c, <2>d DEF ConnectStep
<1>9. UNCHANGED <<convs, messages, sends>> /\ Excuses /\ Remain
  BY <1>4 DEF threads, Excuses, Remain
<1>10. RequestInv' /\ req' \in [Requests -> Request]
  BY <1>1, <1>2, <1>8, <1>9, RequestMoves
<1>11. InboxTypes'
  BY <1>1, <1>4, <1>8, <1>10, TypeParts, TypePartsNext, TypesKept DEF RequestTypes
<1>12. TeamInv' /\ ConvInv' /\ MessageInv' /\ ReplyInv' /\ PageInv' /\ ScreenInv'
  BY <1>2, <1>4, <1>8, <1>9, MoveFrame, TruthFrame
<1> QED
  BY <1>8, <1>10, <1>11, <1>12 DEF InboxInv

-----------------------------------------------------------------------------
(* Messages that are stored.                                               *)

\* A list that is being read stays right if the rows that it owes stay where they are.
LEMMA PageChange ==
    ASSUME PageInv, pager' = pager \/ pager' = [pager EXCEPT !.owed = pager'.owed], PageTypes,
           pager'.owed \subseteq pager.owed,
           \A k \in Keys(pager.of)' : k[2] \in pager'.owed => k \in Keys(pager.of),
           \A k \in Keys(pager.of) : k[2] \in pager'.owed => k \in Keys(pager.of)'
    PROVE  PageInv'
<1>1. /\ pager'.of = pager.of /\ pager'.state = pager.state /\ pager'.seen = pager.seen
      /\ pager'.cursor = pager.cursor
  BY DEF PageTypes
<1>2. \A j, k : Comes(pager.of, j, k)' <=> Comes(pager'.of, j, k)
  BY DEF Comes
<1> QED
  BY <1>1, <1>2 DEF PageInv

\* A message that is new to its conversation keeps messages unique.
LEMMA MessageAdded ==
    ASSUME InboxTypes, MessageInv, RequestInv, NEW n \in Message, n.id \in FreeRows(messages),
           messages' = messages \cup {n}, Ids \subseteq Ids', n.conv \in Ids',
           ~ Stored(n.conv, n.ext)
    PROVE  /\ \A m, k \in messages' : m.id = k.id => m = k
           /\ \A m \in messages' : m.conv \in Ids'
           /\ \A m, k \in messages' : m.conv = k.conv /\ m.ext = k.ext /\ m.ext # None => m = k
           /\ \A c, x : Stored(c, x)' => Stored(c, x) \/ (c = n.conv /\ x = n.ext)
<1>1. \A m \in messages : m.id # n.id
  BY DEF FreeRows
<1>2. \A m \in messages : m.conv = n.conv /\ m.ext = n.ext => m.ext = None
  BY DEF Stored
<1>3. \A c, x : Stored(c, x)' => Stored(c, x) \/ (c = n.conv /\ x = n.ext)
  BY DEF Stored
<1> QED
  BY <1>1, <1>2, <1>3 DEF MessageInv

\* A list of conversations or of messages, when rows are added, and one conversation is
\* written and moves.
LEMMA PageKept ==
    ASSUME InboxTypes, PageInv, NEW id, pager' = pager \/ Moved(id),
           messages' = messages \/ \E n : n.id \in FreeRows(messages) /\ messages' = messages \cup {n},
           \A v \in convs' : v \in convs \/ v.id \in FreeRows(convs) \/ (v.id = id /\ Moved(id)),
           \A v \in convs : v \in convs' \/ (v.id = id /\ Moved(id))
    PROVE  PageInv'
<1>1. PageTypes
  BY TypeParts
<1>2. /\ pager' = pager \/ pager' = [pager EXCEPT !.owed = pager'.owed]
      /\ pager'.owed \subseteq pager.owed /\ pager'.of = pager.of
      /\ pager.of = 0 /\ Moved(id) => id \notin pager'.owed
  BY <1>1 DEF Moved, PageTypes
<1>3. ASSUME pager.of = 0
      PROVE  /\ \A k \in Keys(pager.of)' : k[2] \in pager'.owed => k \in Keys(pager.of)
             /\ \A k \in Keys(pager.of) : k[2] \in pager'.owed => k \in Keys(pager.of)'
  <2>1. Keys(pager.of) = {<<v.updated, v.id>> : v \in convs}
    BY <1>3 DEF Keys
  <2>2. Keys(pager.of)' = {<<v.updated, v.id>> : v \in convs'}
    BY <1>2, <1>3 DEF Keys
  <2>3. \A v \in convs' : v.id \in pager'.owed => v \in convs
    <3>1. \A x \in pager.owed : \E k \in Keys(pager.of) : k[2] = x
      BY DEF PageInv
    <3>2. \A x \in pager.owed : x \notin FreeRows(convs)
      BY <3>1, <2>1 DEF FreeRows
    <3> QED
      BY <3>2, <1>2, <1>3
  <2>4. \A v \in convs : v.id \in pager'.owed => v \in convs'
    BY <1>2, <1>3
  <2> QED
    BY <2>1, <2>2, <2>3, <2>4
<1>4. ASSUME pager.of # 0
      PROVE  /\ \A k \in Keys(pager.of)' : k[2] \in pager'.owed => k \in Keys(pager.of)
             /\ \A k \in Keys(pager.of) : k[2] \in pager'.owed => k \in Keys(pager.of)'
  <2>1. Keys(pager.of) = {<<m.created, m.id>> : m \in {x \in messages : x.conv = pager.of}}
    BY <1>4 DEF Keys
  <2>2. Keys(pager.of)' = {<<m.created, m.id>> : m \in {x \in messages' : x.conv = pager.of}}
    BY <1>2, <1>4 DEF Keys
  <2>3. \A m \in messages' : m.id \in pager.owed => m \in messages
    <3>1. \A x \in pager.owed : \E k \in Keys(pager.of) : k[2] = x
      BY DEF PageInv
    <3>2. \A x \in pager.owed : x \notin FreeRows(messages)
      BY <3>1, <2>1 DEF FreeRows
    <3> QED
      BY <3>2
  <2>4. messages \subseteq messages'
    OBVIOUS
  <2> QED
    BY <2>1, <2>2, <2>3, <2>4, <1>2
<1> QED
  BY <1>1, <1>2, <1>3, <1>4, PageChange

\* A step that adds no message keeps them unique.
LEMMA MessageLocal ==
    ASSUME InboxTypes, MessageInv, NEW r \in Requests, Moves(r), UNCHANGED messages,
           Ids \subseteq Ids',
           At(r, "inbound", "commit")' /\ ~ Repeats(req'[r]) => ~ Stored(req'[r].row, req[r].word),
           At(r, "reply", "commit")' =>
              /\ ~ Stored(req[r].on[2], req[r].word)
              /\ \A q \in Requests \ {r} :
                    ~ (/\ At(q, "reply", "commit") /\ req[r].word # None
                       /\ req[q].on = req[r].on /\ req[q].word = req[r].word)
    PROVE  MessageInv'
<1>1. req \in [Requests -> Request]
  BY DEF InboxTypes, TypeOK
<1>2. \A q \in Requests : q # r => req'[q] = req[q]
  BY <1>1 DEF Moves
<1>3. \A c, x : Stored(c, x)' <=> Stored(c, x)
  BY DEF Stored
<1>4. \A q \in Requests, op, step \in {"inbound", "reply", "commit"} :
         q # r => (At(q, op, step)' <=> At(q, op, step))
  BY <1>2 DEF At
<1>5. At(r, "inbound", "commit")' \/ At(r, "reply", "commit")' =>
         req'[r].on = req[r].on /\ req'[r].word = req[r].word
  BY DEF Moves, Free, At
<1>6. \A q \in Requests : At(q, "inbound", "commit")' /\ ~ Repeats(req'[q]) =>
         ~ Stored(req[q].row, req[q].word)'
  BY <1>2, <1>3, <1>4, <1>5 DEF MessageInv
<1>7. \A q \in Requests : At(q, "reply", "commit")' => ~ Stored(req[q].on[2], req[q].word)'
  BY <1>2, <1>3, <1>4, <1>5 DEF MessageInv
<1>8. \A q, s \in Requests :
         (/\ At(q, "reply", "commit")' /\ At(s, "reply", "commit")'
          /\ req'[q].on = req'[s].on /\ req'[q].word = req'[s].word /\ req'[s].word # None) => q = s
  BY <1>2, <1>4, <1>5 DEF MessageInv
<1> QED
  BY <1>6, <1>7, <1>8 DEF MessageInv

-----------------------------------------------------------------------------
(* Replies.                                                                *)

ReplyStep(r) == FindReply(r) \/ SaveReply(r) \/ CommitReply(r) \/ DispatchReply(r)

\* A reply that is read and built has not gone out.
LEMMA ReplyLocal ==
    ASSUME InboxInv, NEW r \in Requests, FindReply(r) \/ SaveReply(r)
    PROVE  Moves(r) /\ ThreadTypes' /\ MessageInv' /\ ReplyInv' /\ PageInv'
<1>1. InboxTypes /\ RequestInv /\ MessageInv /\ ReplyInv /\ PageInv /\ req \in [Requests -> Request]
  BY DEF InboxInv, InboxTypes, TypeOK
<1>2. req[r].op = "reply" /\ req[r].step \in {"read", "write"}
  BY DEF FindReply, SaveReply, At
<1>3. UNCHANGED <<threads, pager, excused>>
  BY DEF FindReply, SaveReply, Quiet
<1>4. UNCHANGED <<convs, messages, sends>> /\ Ids' = Ids
  BY <1>3 DEF threads, Ids
<1>5. /\ Moves(r)
      /\ ~ At(r, "reply", "after")'
      /\ At(r, "reply", "commit")' =>
            SaveReply(r) /\ ~ Stored(req[r].on[2], req[r].word)
  <2>1. CASE End(r)
    BY <2>1, <1>1, EndMoves DEF At, Free
  <2>2. CASE FindReply(r) /\ To(r, "write")
    BY <2>2, <1>1, ToMoves DEF At, ServiceSteps
  <2>3. CASE SaveReply(r) /\ To(r, "commit") /\ ~ Stored(req[r].on[2], req[r].word)
    BY <2>3, <1>1, ToMoves DEF At, ServiceSteps
  <2> QED
    BY <2>1, <2>2, <2>3 DEF FindReply, SaveReply
<1>6. ASSUME SaveReply(r), NEW q \in Requests \ {r}, At(q, "reply", "commit"), req[r].word # None,
             req[q].on = req[r].on, req[q].word = req[r].word
      PROVE  FALSE
  BY <1>6 DEF SaveReply, Held, At
<1>7. MessageInv'
  <2>1. ~ At(r, "inbound", "commit")'
    BY <1>2, <1>5 DEF Moves, Free, At
  <2> QED
    BY <2>1, <1>1, <1>4, <1>5, <1>6, MessageLocal
<1>8. ReplyInv'
  <2>1. \A q \in Requests : q # r => req'[q] = req[q]
    BY <1>1, <1>5 DEF Moves
  <2>2. \A q \in Requests : At(q, "reply", "after")' => req'[q] = req[q]
    BY <2>1, <1>5
  <2>3. \A q \in Requests : At(q, "reply", "after") => req'[q] = req[q]
    BY <2>1, <1>2 DEF At
  <2> QED
    BY <2>2, <2>3, <1>1, <1>3, <1>4, ReplyFrame DEF Excuses
<1>9. PageInv' /\ ThreadTypes'
  BY <1>1, <1>3, <1>4, PageFrame, TypeParts, TypesKept
<1> QED
  BY <1>5, <1>7, <1>8, <1>9

\* A reply that is committed is stored once.
LEMMA ReplyCommits ==
    ASSUME InboxInv, NEW r \in Requests, CommitReply(r)
    PROVE  Moves(r) /\ ThreadTypes' /\ MessageInv' /\ ReplyInv' /\ PageInv'
<1>1. /\ InboxTypes /\ RequestInv /\ MessageInv /\ ReplyInv /\ PageInv /\ req \in [Requests -> Request]
      /\ ThreadTypes
  BY TypeParts DEF InboxInv, RequestTypes
<1>2. /\ At(r, "reply", "commit") /\ req[r].op = "reply" /\ req[r].step = "commit"
      /\ UNCHANGED <<convs, sends, pager, excused>>
  BY DEF CommitReply, At
<1>3. /\ req[r] \in Request /\ req[r].on \in {"thread"} \X Ids
      /\ req[r].word \in Exts \cup {None} /\ req[r].at \in 0..MaxClock
  BY <1>1, <1>2 DEF RequestInv, Shaped, Request
<1>4. PICK m \in FreeRows(messages) :
         /\ messages' = messages \cup {NewMessage(r, m, req[r].on[2])}
         /\ req' = [req EXCEPT ![r].step = "after", ![r].row = m]
  BY DEF CommitReply
<1>5. PICK n : n = NewMessage(r, m, req[r].on[2])
  OBVIOUS
<1>6. /\ messages' = messages \cup {n} /\ n.id = m /\ n.conv = req[r].on[2] /\ n.ext = req[r].word
      /\ n.reply = TRUE
  BY <1>2, <1>4, <1>5 DEF NewMessage
<1>7. m \in Rows /\ n.conv \in Ids /\ Ids' = Ids
  BY <1>2, <1>3, <1>6 DEF FreeRows, Ids
<1>8. n \in Message
  <2>1. Ids \subseteq Rows
    BY <1>1 DEF Ids, ThreadTypes, Conversation
  <2>2. req[r].on[2] \in Rows /\ (req[r].op = "reply") \in BOOLEAN
    BY <2>1, <1>6, <1>7
  <2>3. req[r].word \in Wamids \cup Exts \cup {None}
    BY <1>3
  <2> QED
    BY <2>2, <2>3, <1>3, <1>5, <1>7 DEF NewMessage, Message
<1>9. req'[r] = [req[r] EXCEPT !.step = "after", !.row = m]
  BY <1>1, <1>4
<1>10. /\ req'[r] \in Request /\ req'[r].step = "after" /\ req'[r].row = m
       /\ req'[r].op = req[r].op /\ req'[r].on = req[r].on /\ req'[r].who = req[r].who
       /\ req'[r].word = req[r].word
  BY <1>3, <1>7, <1>9 DEF Request
<1>11. Moves(r) /\ \A q \in Requests : q # r => req'[q] = req[q]
  BY <1>1, <1>4, <1>9, <1>10 DEF Moves
<1>12. ThreadTypes'
  BY <1>1, <1>2, <1>6, <1>8 DEF ThreadTypes
<1>13. MessageInv'
  <2>1. ~ Stored(n.conv, n.ext)
    BY <1>1, <1>2, <1>6 DEF MessageInv
  <2>2. /\ \A a, b \in messages' : a.id = b.id => a = b
        /\ \A a \in messages' : a.conv \in Ids'
        /\ \A a, b \in messages' : a.conv = b.conv /\ a.ext = b.ext /\ a.ext # None => a = b
        /\ \A c, x : Stored(c, x)' => Stored(c, x) \/ (c = n.conv /\ x = n.ext)
    BY <2>1, <1>1, <1>6, <1>7, <1>8, MessageAdded
  <2>3. \A q \in Requests : At(q, "inbound", "commit")' => req'[q] = req[q] /\ At(q, "inbound", "commit")
    BY <1>2, <1>10, <1>11 DEF At
  <2>4. \A q \in Requests : At(q, "reply", "commit")' => q # r /\ req'[q] = req[q] /\ At(q, "reply", "commit")
    BY <1>2, <1>10, <1>11 DEF At
  <2>5. ASSUME NEW q \in Requests, At(q, "inbound", "commit")', ~ Repeats(req'[q])
        PROVE  ~ Stored(req[q].row, req[q].word)'
    <3>1. req'[q] = req[q] /\ At(q, "inbound", "commit") /\ ~ Stored(req[q].row, req[q].word)
      BY <2>3, <2>5, <1>1 DEF MessageInv
    <3>2. req[q].word \in Wamids
      BY <3>1, <1>1 DEF RequestInv, Shaped, At
    <3>3. req[q].word # n.ext
      BY <3>2, <1>3, <1>6, NamesAssumption
    <3> QED
      BY <3>1, <3>3, <2>2
  <2>6. ASSUME NEW q \in Requests, At(q, "reply", "commit")'
        PROVE  ~ Stored(req[q].on[2], req[q].word)'
    <3>1. /\ q # r /\ req'[q] = req[q] /\ At(q, "reply", "commit")
          /\ ~ Stored(req[q].on[2], req[q].word)
      BY <2>4, <2>6, <1>1 DEF MessageInv
    <3>2. req[q].on \in {"thread"} \X Ids
      BY <3>1, <1>1 DEF RequestInv, Shaped, At
    <3>3. CASE req[q].on[2] = n.conv /\ req[q].word = n.ext
      <4>1. req[q].on = req[r].on
        BY <3>2, <3>3, <1>3, <1>6
      <4>2. req[q].word = None
        BY <4>1, <3>1, <3>3, <1>1, <1>2, <1>6 DEF MessageInv
      <4> QED
        BY <4>2, <3>1 DEF Stored
    <3> QED
      BY <3>1, <3>3, <2>2
  <2>7. \A q, s \in Requests :
           (/\ At(q, "reply", "commit")' /\ At(s, "reply", "commit")'
            /\ req'[q].on = req'[s].on /\ req'[q].word = req'[s].word /\ req'[s].word # None) => q = s
    BY <2>4, <1>1 DEF MessageInv
  <2> QED
    BY <2>2, <2>5, <2>6, <2>7 DEF MessageInv
<1>14. ReplyInv'
  <2>1. \A x \in messages : x.id # m
    BY DEF FreeRows
  <2>2. sends[m] = 0 /\ \A k \in Rows : sends[k] \in Nat
    BY <2>1, <1>1, <1>7 DEF ReplyInv, ThreadTypes
  <2>3. \A q \in Requests : q # r => (At(q, "reply", "after")' <=> At(q, "reply", "after"))
    BY <1>11 DEF At
  <2>4. At(r, "reply", "after")' /\ ~ At(r, "reply", "after")
    BY <1>2, <1>10 DEF At
  <2>5. \A k \in Rows : sends'[k] > 0 => sends'[k] = 1 /\ \E x \in messages' : x.id = k /\ x.reply
    BY <1>1, <1>2, <1>6 DEF ReplyInv
  <2>6. ASSUME NEW x \in messages'
        PROVE  \/ ~ x.reply \/ sends'[x.id] = 1 \/ <<"sent", x.id>> \in excused'
               \/ \E q \in Requests : At(q, "reply", "after")' /\ req'[q].row = x.id
    <3>1. CASE x = n
      BY <3>1, <2>4, <1>6, <1>10
    <3>2. CASE x \in messages
      <4>1. \/ ~ x.reply \/ sends[x.id] = 1 \/ <<"sent", x.id>> \in excused
            \/ \E q \in Requests : At(q, "reply", "after") /\ req[q].row = x.id
        BY <3>2, <1>1 DEF ReplyInv
      <4> QED
        BY <4>1, <2>3, <2>4, <1>2, <1>11
    <3> QED
      BY <3>1, <3>2, <1>6
  <2>7. \A q \in Requests : At(q, "reply", "after")' =>
           sends'[req'[q].row] = 0 /\ \E x \in messages' : x.id = req'[q].row /\ x.reply
    <3>1. n \in messages' /\ n.id = m /\ n.reply
      BY <1>6
    <3> QED
      BY <3>1, <2>2, <2>3, <1>1, <1>2, <1>6, <1>10, <1>11 DEF ReplyInv
  <2>8. \A q, s \in Requests :
           At(q, "reply", "after")' /\ At(s, "reply", "after")' /\ req'[q].row = req'[s].row => q = s
    BY <2>1, <2>3, <1>1, <1>10, <1>11 DEF ReplyInv
  <2> QED
    BY <2>5, <2>6, <2>7, <2>8 DEF ReplyInv
<1>15. PageInv'
  <2>1. n.id \in FreeRows(messages) /\ messages' = messages \cup {n}
    BY <1>6
  <2> QED
    BY <2>1, <1>1, <1>2, PageKept
<1> QED
  BY <1>11, <1>12, <1>13, <1>14, <1>15

\* A reply that is dispatched has not been sent before.
LEMMA ReplyDispatches ==
    ASSUME InboxInv, NEW r \in Requests, DispatchReply(r)
    PROVE  Moves(r) /\ ThreadTypes' /\ MessageInv' /\ ReplyInv' /\ PageInv'
<1>1. /\ InboxTypes /\ RequestInv /\ MessageInv /\ ReplyInv /\ PageInv /\ req \in [Requests -> Request]
      /\ ThreadTypes
  BY TypeParts DEF InboxInv, RequestTypes
<1>2. /\ At(r, "reply", "after") /\ End(r)
      /\ UNCHANGED <<convs, messages, pager, excused>>
      /\ sends' = [sends EXCEPT ![req[r].row] = @ + 1]
  BY DEF DispatchReply
<1>3. Moves(r) /\ req'[r] = Free
  BY <1>1, <1>2, EndMoves
<1>4. \A q \in Requests : q # r => req'[q] = req[q]
  BY <1>1, <1>3 DEF Moves
<1>5. PICK m : m = req[r].row
  OBVIOUS
<1>6. sends[m] = 0 /\ \E x \in messages : x.id = m /\ x.reply
  BY <1>1, <1>2, <1>5 DEF ReplyInv
<1>7. m \in Rows /\ sends'[m] = 1 /\ \A k \in Rows : k # m => sends'[k] = sends[k]
  BY <1>1, <1>2, <1>5, <1>6 DEF ThreadTypes, Message
<1>8. ThreadTypes'
  <2>1. sends \in [Rows -> Nat] /\ sends[m] \in Nat
    BY <1>1, <1>7 DEF ThreadTypes
  <2>2. sends' \in [Rows -> Nat]
    BY <2>1, <1>2, <1>5, <1>7
  <2> QED
    BY <2>2, <1>1, <1>2 DEF ThreadTypes
<1>9. MessageInv'
  <2>1. ~ At(r, "inbound", "commit")' /\ ~ At(r, "reply", "commit")'
    BY <1>3 DEF At, Free
  <2>2. Ids' = Ids
    BY <1>2 DEF Ids
  <2> QED
    BY <2>1, <2>2, <1>1, <1>2, <1>3, MessageLocal
<1>10. ReplyInv'
  <2>1. \A q \in Requests : At(q, "reply", "after")' => q # r /\ req'[q] = req[q] /\ At(q, "reply", "after")
    BY <1>3, <1>4 DEF At, Free
  <2>2. \A q \in Requests : At(q, "reply", "after") => q = r \/ (req'[q] = req[q] /\ At(q, "reply", "after")')
    BY <1>4 DEF At
  <2>3. \A k \in Rows : sends'[k] > 0 => sends'[k] = 1 /\ \E x \in messages' : x.id = k /\ x.reply
    BY <1>1, <1>2, <1>6, <1>7 DEF ReplyInv
  <2>4. \A x \in messages : x.id \in Rows
    BY <1>1 DEF ThreadTypes, Message
  <2>5. \A x \in messages' :
           \/ ~ x.reply \/ sends'[x.id] = 1 \/ <<"sent", x.id>> \in excused'
           \/ \E q \in Requests : At(q, "reply", "after")' /\ req'[q].row = x.id
    <3> SUFFICES ASSUME NEW x \in messages, x.reply, x.id # m
                 PROVE  \/ sends'[x.id] = 1 \/ <<"sent", x.id>> \in excused'
                        \/ \E q \in Requests : At(q, "reply", "after")' /\ req'[q].row = x.id
      BY <1>2, <1>7
    <3>1. \/ sends[x.id] = 1 \/ <<"sent", x.id>> \in excused
          \/ \E q \in Requests : At(q, "reply", "after") /\ req[q].row = x.id
      BY <1>1 DEF ReplyInv
    <3>2. CASE sends[x.id] = 1 \/ <<"sent", x.id>> \in excused
      BY <3>2, <2>4, <1>2, <1>7
    <3>3. CASE \E q \in Requests : At(q, "reply", "after") /\ req[q].row = x.id
      BY <3>3, <2>2, <1>5
    <3> QED
      BY <3>1, <3>2, <3>3
  <2>6. \A q \in Requests : At(q, "reply", "after")' =>
           sends'[req'[q].row] = 0 /\ \E x \in messages' : x.id = req'[q].row /\ x.reply
    <3> SUFFICES ASSUME NEW q \in Requests, At(q, "reply", "after")'
                 PROVE  sends'[req'[q].row] = 0 /\ \E x \in messages' : x.id = req'[q].row /\ x.reply
      OBVIOUS
    <3>1. q # r /\ req'[q] = req[q] /\ At(q, "reply", "after")
      BY <2>1
    <3>2. sends[req[q].row] = 0 /\ \E x \in messages : x.id = req[q].row /\ x.reply
      BY <3>1, <1>1 DEF ReplyInv
    <3>3. req[q].row # m
      BY <3>1, <1>1, <1>2, <1>5 DEF ReplyInv
    <3> QED
      BY <3>1, <3>2, <3>3, <2>4, <1>2, <1>7
  <2>7. \A q, s \in Requests :
           At(q, "reply", "after")' /\ At(s, "reply", "after")' /\ req'[q].row = req'[s].row => q = s
    BY <2>1, <1>1 DEF ReplyInv
  <2> QED
    BY <2>3, <2>5, <2>6, <2>7 DEF ReplyInv
<1>11. PageInv'
  BY <1>1, <1>2, PageFrame
<1> QED
  BY <1>3, <1>8, <1>9, <1>10, <1>11

\* Replying keeps the invariant.
LEMMA ReplyKeeps ==
    ASSUME InboxInv, UNCHANGED <<world, clock>>, NEW r \in Requests, ReplyStep(r)
    PROVE  InboxInv'
<1>1. InboxTypes /\ RequestInv
  BY DEF InboxInv
<1>2. req[r].op = "reply" /\ req[r].step # "idle"
  BY DEF ReplyStep, FindReply, SaveReply, CommitReply, DispatchReply, At
<1>3. UNCHANGED <<team, convs, reactions, number, live, pager, clicks, excused>>
  BY DEF ReplyStep, FindReply, SaveReply, CommitReply, DispatchReply, Quiet, threads
<1>4. Moves(r) /\ ThreadTypes' /\ MessageInv' /\ ReplyInv' /\ PageInv'
  BY ReplyLocal, ReplyCommits, ReplyDispatches DEF ReplyStep
<1>5. Excuses /\ Remain
  BY <1>3 DEF Excuses, Remain
<1>6. RequestInv' /\ req' \in [Requests -> Request]
  BY <1>1, <1>2, <1>4, <1>5, RequestMoves
<1>7. InboxTypes'
  BY <1>1, <1>3, <1>4, <1>6, TypeParts, TypePartsNext, TypesKept DEF RequestTypes
<1>8. TeamInv' /\ ConvInv' /\ ChannelInv' /\ ScreenInv'
  BY <1>2, <1>3, <1>4, <1>5, MoveFrame, TruthFrame
<1> QED
  BY <1>4, <1>6, <1>7, <1>8 DEF InboxInv

-----------------------------------------------------------------------------
(* Conversations, as they are opened, found, and written.                  *)

Unique == \A v, w \in convs : v.id = w.id => v = w

\* With unique ids a row is found by its id.
LEMMA RowIs == Unique => \A v \in convs : Row(v.id) = v
<1> SUFFICES ASSUME Unique, NEW v \in convs PROVE Row(v.id) = v
  OBVIOUS
<1>1. Row(v.id) \in convs /\ Row(v.id).id = v.id
  BY DEF Row
<1> QED
  BY <1>1 DEF Unique

\* The same of the next state.
LEMMA RowIsNext == Unique' => \A v \in convs' : Row(v.id)' = v
<1> SUFFICES ASSUME Unique', NEW v \in convs' PROVE Row(v.id)' = v
  OBVIOUS
<1>1. Row(v.id)' \in convs' /\ Row(v.id)'.id = v.id
  BY DEF Row
<1> QED
  BY <1>1 DEF Unique

\* The screens need not change if nobody is assigned a conversation.
LEMMA TruthSame ==
    ASSUME Unique, Unique', UNCHANGED reactions,
           \A v \in convs : \E w \in convs' : w.id = v.id /\ w.assignee = v.assignee,
           \A w \in convs' : (\E v \in convs : v.id = w.id) \/ w.assignee = None
    PROVE  \A t \in Topics : Truth(t)' = Truth(t)
<1> SUFFICES ASSUME NEW t \in Topics PROVE Truth(t)' = Truth(t)
  OBVIOUS
<1>1. CASE t[1] = "reactions"
  BY <1>1 DEF Truth
<1>2. CASE t[1] # "reactions"
  <2>1. CASE \E v \in convs : v.id = t[2]
    <3>1. PICK v \in convs : v.id = t[2]
      BY <2>1
    <3>2. PICK w \in convs' : w.id = v.id /\ w.assignee = v.assignee
      OBVIOUS
    <3>3. Row(t[2]) = v /\ Row(t[2])' = w
      BY <3>1, <3>2, RowIs, RowIsNext
    <3>4. Truth(t) = {<<v.assignee, None>>}
      BY <1>2, <3>1, <3>3 DEF Truth
    <3>5. Truth(t)' = {<<w.assignee, None>>}
      BY <1>2, <3>1, <3>2, <3>3 DEF Truth
    <3> QED
      BY <3>2, <3>4, <3>5
  <2>2. CASE ~ \E v \in convs : v.id = t[2]
    <3>1. Truth(t) = {<<None, None>>}
      BY <1>2, <2>2 DEF Truth
    <3>2. CASE \E w \in convs' : w.id = t[2]
      <4>1. PICK w \in convs' : w.id = t[2]
        BY <3>2
      <4>2. Row(t[2])' = w /\ w.assignee = None
        BY <4>1, <2>2, RowIsNext
      <4> QED
        BY <1>2, <3>1, <4>1, <4>2 DEF Truth
    <3>3. CASE ~ \E w \in convs' : w.id = t[2]
      BY <1>2, <3>1, <3>3 DEF Truth
    <3> QED
      BY <3>2, <3>3
  <2> QED
    BY <2>1, <2>2
<1> QED
  BY <1>1, <1>2

\* Conversations that are written keep their ids and customers.
LEMMA Rewritten ==
    ASSUME Unique, NEW f, convs' = {f[v] : v \in convs},
           \A v \in convs : f[v].id = v.id /\ f[v].customer = v.customer
    PROVE  /\ Unique' /\ Remain /\ Ids' = Ids
           /\ \A w \in convs' : \E v \in convs : w = f[v] /\ v.id = w.id /\ v.customer = w.customer
<1>1. \A w \in convs' : \E v \in convs : w = f[v] /\ v.id = w.id /\ v.customer = w.customer
  OBVIOUS
<1>2. Unique'
  BY <1>1 DEF Unique
<1>3. Remain /\ Ids' = Ids
  BY <1>1 DEF Remain, Ids
<1> QED
  BY <1>1, <1>2, <1>3

\* Rewriting conversations in place keeps one for each customer.
LEMMA ConvRewritten ==
    ASSUME ConvInv, Unique', Excuses, Untouched({"start", "inbound"}),
           \A w \in convs' : \E v \in convs : v.id = w.id /\ v.customer = w.customer
    PROVE  ConvInv'
<1>1. \A q \in Requests : Creates(req'[q]) => req'[q] = req[q]
  BY DEF Untouched, Creates
<1>2. \A c \in Customers :
         \/ <<"customer", c>> \in excused'
         \/ /\ \A v, w \in convs' : v.customer = c /\ w.customer = c => v = w
            /\ \A r \in Requests : req'[r].on = <<"customer", c>> /\ Creates(req'[r]) =>
                  \A v \in convs' : v.customer # c
  <2> SUFFICES ASSUME NEW c \in Customers, <<"customer", c>> \notin excused'
               PROVE  /\ \A v, w \in convs' : v.customer = c /\ w.customer = c => v = w
                      /\ \A r \in Requests : req'[r].on = <<"customer", c>> /\ Creates(req'[r]) =>
                            \A v \in convs' : v.customer # c
    OBVIOUS
  <2>1. /\ \A v, w \in convs : v.customer = c /\ w.customer = c => v = w
        /\ \A r \in Requests : req[r].on = <<"customer", c>> /\ Creates(req[r]) =>
              \A v \in convs : v.customer # c
    BY DEF ConvInv, Excuses
  <2>2. \A v, w \in convs' : v.customer = c /\ w.customer = c => v = w
    <3> SUFFICES ASSUME NEW v \in convs', NEW w \in convs', v.customer = c, w.customer = c
                 PROVE  v = w
      OBVIOUS
    <3>1. PICK x \in convs : x.id = v.id /\ x.customer = c
      OBVIOUS
    <3>2. PICK y \in convs : y.id = w.id /\ y.customer = c
      OBVIOUS
    <3>3. x = y
      BY <2>1, <3>1, <3>2
    <3> QED
      BY <3>1, <3>2, <3>3 DEF Unique
  <2> QED
    BY <2>1, <2>2, <1>1
<1> QED
  BY <1>2 DEF ConvInv, Unique

\* A set of numbers that is not empty has a smallest one.
LEMMA Smallest ==
    ASSUME NEW T, T \subseteq Nat, T # {}
    PROVE  \E x \in T : \A y \in T : x <= y
<1>1. PICK R : R = OpToRel(<, Nat)
  BY Zenon
<1>2. IsWellFoundedOn(R, Nat)
  BY <1>1, NatLessThanWellFounded, Zenon
<1>3. R = {p \in Nat \X Nat : p[1] < p[2]}
  BY <1>1, Zenon DEF OpToRel
<1>4. PICK x \in T : \A y \in T : ~ (<<y, x>> \in R)
  BY <1>2, WFMin
<1>5. ASSUME NEW y \in T PROVE x <= y
  <2>1. <<y, x>> \in Nat \X Nat /\ ~ (<<y, x>> \in R)
    BY <1>4
  <2>2. ~ (y < x)
    BY <2>1, <1>3
  <2> QED
    BY <2>2
<1> QED
  BY <1>5

\* Of the conversations of a customer, if there are any, one is the newest.
LEMMA NewestThere ==
    ASSUME InboxTypes, NEW c, Newest(c) = {}
    PROVE  \A v \in convs : v.customer # c
<1> SUFFICES ASSUME NEW v \in convs, v.customer = c PROVE FALSE
  OBVIOUS
<1> DEFINE of == {x \in convs : x.customer = c}
           T == {MaxClock - x.created : x \in of}
<1>1. \A x \in of : x.created \in 0..MaxClock
  BY DEF InboxTypes, TypeOK, Conversation
<1>2. MaxClock \in Nat
  BY BoundsAssumption
<1>3. T \subseteq Nat /\ T # {}
  BY <1>1, <1>2
<1>4. PICK t \in T : \A y \in T : t <= y
  <2> HIDE DEF T
  <2> QED
    BY <1>3, Smallest
<1>5. PICK x \in of : t = MaxClock - x.created
  BY <1>4
<1>6. \A w \in of : w.created <= x.created
  BY <1>1, <1>2, <1>4, <1>5
<1>7. x \in Newest(c)
  BY <1>6 DEF Newest
<1> QED
  BY <1>7

\* A step that leaves the conversations keeps one for each customer.
LEMMA ConvLocal ==
    ASSUME InboxTypes, ConvInv, NEW r \in Requests, Moves(r), UNCHANGED convs, Excuses,
           Creates(req'[r]) => Creates(req[r]) \/ \A v \in convs : <<"customer", v.customer>> # req[r].on
    PROVE  ConvInv'
<1>1. req \in [Requests -> Request]
  BY DEF InboxTypes, TypeOK
<1>2. \A q \in Requests : q # r => req'[q] = req[q]
  BY <1>1 DEF Moves
<1>3. Creates(req'[r]) => req'[r].on = req[r].on
  BY DEF Moves, Free, Creates
<1>4. ASSUME NEW c \in Customers, <<"customer", c>> \notin excused',
             NEW q \in Requests, req'[q].on = <<"customer", c>>, Creates(req'[q]), NEW v \in convs
      PROVE  v.customer # c
  <2>1. \A s \in Requests : req[s].on = <<"customer", c>> /\ Creates(req[s]) => v.customer # c
    BY <1>4 DEF ConvInv, Excuses
  <2> QED
    BY <2>1, <1>2, <1>3, <1>4
<1> QED
  BY <1>4 DEF ConvInv, Excuses

\* A customer's first conversation is her only one.
LEMMA ConvAdded ==
    ASSUME InboxTypes, RequestInv, ConvInv, NEW v \in Conversation, v.id \in FreeRows(convs),
           v.assignee = None, convs' = convs \cup {v},
           NEW r \in Requests, Creates(req[r]), req[r].on = <<"customer", v.customer>>,
           Moves(r), req'[r] = Free, UNCHANGED <<reactions, excused>>
    PROVE  /\ ConvInv' /\ Remain /\ Ids' = Ids \cup {v.id}
           /\ \A t \in Topics : Truth(t)' = Truth(t)
<1>1. req \in [Requests -> Request]
  BY DEF InboxTypes, TypeOK
<1>2. \A q \in Requests : q # r => req'[q] = req[q]
  BY <1>1 DEF Moves
<1>3. ~ Creates(req'[r])
  BY DEF Creates, Free
<1>4. Unique /\ \A w \in convs : w.id # v.id
  BY DEF ConvInv, Unique, FreeRows
<1>5. Unique'
  BY <1>4 DEF Unique
<1>6. ASSUME NEW c \in Customers, <<"customer", c>> \notin excused'
      PROVE  /\ \A x, y \in convs' : x.customer = c /\ y.customer = c => x = y
             /\ \A q \in Requests : req'[q].on = <<"customer", c>> /\ Creates(req'[q]) =>
                   \A w \in convs' : w.customer # c
  <2>1. /\ \A x, y \in convs : x.customer = c /\ y.customer = c => x = y
        /\ \A q \in Requests : req[q].on = <<"customer", c>> /\ Creates(req[q]) =>
              \A w \in convs : w.customer # c
    BY <1>6 DEF ConvInv
  <2>2. CASE c = v.customer
    <3>1. \A w \in convs : w.customer # c
      BY <2>1, <2>2
    <3>2. \A q \in Requests : req[q].on = <<"customer", c>> => q = r
      <4>1. <<"customer", c>> # Nothing
        BY DEF Nothing
      <4> QED
        BY <4>1, <2>2, <1>6 DEF RequestInv
    <3> QED
      BY <3>1, <3>2, <1>2, <1>3
  <2>3. CASE c # v.customer
    BY <2>1, <2>3, <1>2, <1>3
  <2> QED
    BY <2>2, <2>3
<1>7. ConvInv'
  BY <1>5, <1>6 DEF ConvInv, Unique
<1>8. Remain /\ Ids' = Ids \cup {v.id}
  BY DEF Remain, Ids
<1>9. \A t \in Topics : Truth(t)' = Truth(t)
  BY <1>4, <1>5, TruthSame
<1> QED
  BY <1>7, <1>8, <1>9

ThreadStep(r) == FindConversation(r) \/ CommitStart(r) \/ SaveInbound(r) \/ CommitInbound(r)

\* A request that looks, and writes nothing yet.
LEMMA ThreadLooks ==
    ASSUME InboxInv, NEW r \in Requests, FindConversation(r) \/ SaveInbound(r)
    PROVE  /\ Moves(r) /\ ConvInv' /\ MessageInv'
           /\ req[r].op = "inbound" =>
                 \/ req'[r].row \in {0, req[r].row}
                 \/ \E v \in convs' : v.id = req'[r].row /\ v.customer = req[r].on[2]
<1>1. /\ InboxTypes /\ RequestInv /\ ConvInv /\ MessageInv /\ req \in [Requests -> Request]
      /\ ThreadTypes
  BY TypeParts DEF InboxInv, RequestTypes
<1>2. UNCHANGED <<convs, messages, sends, excused>> /\ Ids' = Ids
  BY DEF FindConversation, SaveInbound, Quiet, threads, Ids
<1>3. req[r].op \in {"start", "inbound"} /\ req[r] \in Request
  BY <1>1 DEF FindConversation, SaveInbound, At
<1>4. PICK c \in Customers : req[r].on = <<"customer", c>>
  BY <1>1, <1>3 DEF RequestInv, Shaped
<1>5. ASSUME Moves(r),
             Creates(req'[r]) => Creates(req[r]) \/ \A v \in convs : v.customer # c,
             At(r, "inbound", "commit")' /\ ~ Repeats(req'[r]) => ~ Stored(req'[r].row, req[r].word)
      PROVE  ConvInv' /\ MessageInv'
  <2>1. (\A v \in convs : v.customer # c) => \A v \in convs : <<"customer", v.customer>> # req[r].on
    BY <1>4
  <2>2. ConvInv'
    BY <2>1, <1>1, <1>2, <1>5, ConvLocal DEF Excuses
  <2>3. ~ At(r, "reply", "commit")'
    BY <1>3, <1>5 DEF Moves, Free, At
  <2>4. MessageInv'
    BY <2>3, <1>1, <1>2, <1>5, MessageLocal
  <2> QED
    BY <2>2, <2>4
<1>a. CASE FindConversation(r)
  <2>1. CASE Newest(c) = {} /\ To(r, IF req[r].op = "start" THEN "commit" ELSE "write")
    <3>1. \A v \in convs : v.customer # c
      BY <2>1, <1>1, NewestThere
    <3>2. PICK step \in {"commit", "write"} : To(r, step) /\ (req[r].op = "inbound" => step = "write")
      BY <2>1
    <3>3. /\ Moves(r) /\ req'[r].row = req[r].row /\ req'[r].step = step
          /\ req'[r].op = req[r].op
      BY <3>2, <1>1, ToMoves DEF ServiceSteps
    <3>4. ~ At(r, "inbound", "commit")'
      BY <3>2, <3>3 DEF At
    <3> QED
      BY <3>1, <3>3, <3>4, <1>5
  <2>2. CASE req[r].op = "start" /\ End(r)
    <3>1. Moves(r) /\ req'[r] = Free
      BY <2>2, <1>1, EndMoves
    <3>2. ~ Creates(req'[r]) /\ ~ At(r, "inbound", "commit")'
      BY <3>1 DEF Creates, At, Free
    <3> QED
      BY <2>2, <3>1, <3>2, <1>5
  <2>3. ASSUME NEW v \in Newest(c), req[r].op = "inbound",
               req' = [req EXCEPT ![r].step = "write", ![r].row = v.id]
        PROVE  /\ Moves(r) /\ ConvInv' /\ MessageInv'
               /\ \E w \in convs' : w.id = req'[r].row /\ w.customer = req[r].on[2]
    <3>1. v \in convs /\ v.customer = c /\ v.id \in Rows /\ v.id # 0
      BY <1>1, BoundsAssumption DEF Newest, ThreadTypes, Conversation
    <3>2. req'[r] = [req[r] EXCEPT !.step = "write", !.row = v.id]
      BY <2>3, <1>1
    <3>3. /\ req'[r] \in Request /\ req'[r].step = "write" /\ req'[r].row = v.id
          /\ req'[r].op = req[r].op /\ req'[r].on = req[r].on /\ req'[r].who = req[r].who
          /\ req'[r].word = req[r].word
      BY <3>1, <3>2, <1>3 DEF Request
    <3>4. Moves(r)
      BY <3>2, <3>3, <2>3, <1>1 DEF Moves
    <3>5. ~ Creates(req'[r]) /\ ~ At(r, "inbound", "commit")'
      BY <3>1, <3>3, <2>3 DEF Creates, At
    <3> QED
      BY <3>1, <3>3, <3>4, <3>5, <1>2, <1>4, <1>5
  <2>4. \/ Newest(c) = {} /\ To(r, IF req[r].op = "start" THEN "commit" ELSE "write")
        \/ req[r].op = "start" /\ End(r)
        \/ /\ req[r].op = "inbound"
           /\ \E v \in Newest(c) : req' = [req EXCEPT ![r].step = "write", ![r].row = v.id]
    <3>1. req[r].on[2] = c
      BY <1>4
    <3> QED
      BY <3>1, <1>a, <1>3 DEF FindConversation
  <2> QED
    BY <2>1, <2>2, <2>3, <2>4
<1>b. CASE SaveInbound(r)
  <2>1. PICK plan \in Plans :
           Plan(r, "commit", plan) /\ (plan \notin {"skip", "rename"} => ~ Stored(req[r].row, req[r].word))
    BY <1>b DEF SaveInbound, Plans
  <2>2. /\ Moves(r) /\ req'[r].row = req[r].row /\ req'[r].plan = plan
        /\ req'[r].step = "commit" /\ req'[r].op = req[r].op
    BY <2>1, <1>1, PlanMoves DEF ServiceSteps
  <2>3. At(r, "inbound", "write")
    BY <1>b DEF SaveInbound
  <2>4. Creates(req'[r]) => Creates(req[r])
    BY <2>2, <2>3 DEF Creates, At
  <2>5. ~ Repeats(req'[r]) => ~ Stored(req'[r].row, req[r].word)
    BY <2>1, <2>2 DEF Repeats
  <2> QED
    BY <2>2, <2>4, <2>5, <1>5
<1> QED
  BY <1>a, <1>b

\* A message that is no reply.
LEMMA ReplyAdds ==
    ASSUME ReplyInv, NEW n, ~ n.reply, n.id \in FreeRows(messages),
           messages' = messages \/ messages' = messages \cup {n}, UNCHANGED <<sends, excused>>,
           \A q \in Requests : At(q, "reply", "after")' \/ At(q, "reply", "after") => req'[q] = req[q]
    PROVE  ReplyInv'
<1>1. \A q \in Requests : At(q, "reply", "after")' <=> At(q, "reply", "after")
  BY DEF At
<1>2. \A q \in Requests : At(q, "reply", "after") => req'[q] = req[q]
  OBVIOUS
<1>3. messages \subseteq messages' /\ \A x \in messages' : x.reply => x \in messages
  OBVIOUS
<1>4. \A k \in Rows : sends'[k] > 0 => sends'[k] = 1 /\ \E x \in messages' : x.id = k /\ x.reply
  BY <1>3 DEF ReplyInv
<1>5. \A x \in messages' :
         \/ ~ x.reply \/ sends'[x.id] = 1 \/ <<"sent", x.id>> \in excused'
         \/ \E q \in Requests : At(q, "reply", "after")' /\ req'[q].row = x.id
  <2> SUFFICES ASSUME NEW x \in messages, x.reply
               PROVE  \/ sends[x.id] = 1 \/ <<"sent", x.id>> \in excused
                      \/ \E q \in Requests : At(q, "reply", "after")' /\ req'[q].row = x.id
    BY <1>3
  <2>1. \/ sends[x.id] = 1 \/ <<"sent", x.id>> \in excused
        \/ \E q \in Requests : At(q, "reply", "after") /\ req[q].row = x.id
    BY DEF ReplyInv
  <2> QED
    BY <2>1, <1>1, <1>2
<1>6. \A q \in Requests : At(q, "reply", "after")' =>
         sends'[req'[q].row] = 0 /\ \E x \in messages' : x.id = req'[q].row /\ x.reply
  BY <1>1, <1>2, <1>3 DEF ReplyInv
<1>7. \A q, s \in Requests :
         At(q, "reply", "after")' /\ At(s, "reply", "after")' /\ req'[q].row = req'[s].row => q = s
  BY <1>1, <1>2 DEF ReplyInv
<1> QED
  BY <1>4, <1>5, <1>6, <1>7 DEF ReplyInv

\* start_conversation commits a conversation that is new, or one that is there.
LEMMA StartCommits ==
    ASSUME InboxInv, NEW r \in Requests, CommitStart(r)
    PROVE  /\ Moves(r) /\ ConvInv' /\ MessageInv' /\ ReplyInv' /\ PageInv' /\ ThreadTypes' /\ PageTypes'
           /\ Remain /\ req'[r] = Free
           /\ \A t \in Topics : Truth(t)' = Truth(t)
<1>1. /\ InboxTypes /\ RequestInv /\ ConvInv /\ PageInv /\ req \in [Requests -> Request]
      /\ ThreadTypes /\ PageTypes
  BY TypeParts DEF InboxInv, RequestTypes
<1>2. /\ At(r, "start", "commit") /\ End(r)
      /\ UNCHANGED <<messages, sends, reactions, pager, excused>>
  BY DEF CommitStart
<1>3. Moves(r) /\ req'[r] = Free
  BY <1>1, <1>2, EndMoves
<1>4. req[r].op = "start" /\ req[r].at \in 0..MaxClock /\ Creates(req[r])
  BY <1>1, <1>2 DEF At, Creates, Request
<1>5. PICK c \in Customers : req[r].on = <<"customer", c>>
  BY <1>1, <1>4 DEF RequestInv, Shaped
<1>6. PICK id \in FreeRows(convs) : convs' = convs \cup {NewConversation(r, id)}
  BY DEF CommitStart
<1>7. PICK v : v = NewConversation(r, id)
  OBVIOUS
<1>8. v \in Conversation /\ v.id = id /\ v.customer = c /\ v.assignee = None
  BY <1>4, <1>5, <1>7 DEF NewConversation, Conversation, FreeRows
<1>9. /\ ConvInv' /\ Remain
      /\ \A t \in Topics : Truth(t)' = Truth(t)
  BY <1>1, <1>2, <1>3, <1>4, <1>5, <1>6, <1>7, <1>8, ConvAdded
<1>10. MessageInv' /\ ReplyInv'
  BY <1>2, <1>3, <1>4, <1>9, MoveFrame DEF Excuses
<1>11. PageInv'
  BY <1>1, <1>2, <1>6, <1>7, <1>8, PageKept
<1>12. ThreadTypes' /\ PageTypes'
  BY <1>1, <1>2, <1>6, <1>7, <1>8 DEF ThreadTypes, PageTypes
<1> QED
  BY <1>3, <1>9, <1>10, <1>11, <1>12

\* The conversation that the listener makes, renames or only finds.
LEMMA InboundConversation ==
    ASSUME InboxInv, NEW r \in Requests, At(r, "inbound", "commit"), Moves(r), req'[r] = Free,
           UNCHANGED <<reactions, excused>>,
           NEW id \in IF req[r].row = 0 THEN FreeRows(convs) ELSE {req[r].row},
           convs' = IF req[r].row = 0 THEN convs \cup {NewConversation(r, id)}
                    ELSE IF Renames(req[r])
                    THEN {IF c.id = id THEN [c EXCEPT !.updated = req[r].at] ELSE c : c \in convs}
                    ELSE convs
    PROVE  /\ ConvInv' /\ Remain /\ Ids' = Ids \cup {id} /\ convs' \subseteq Conversation
           /\ \A t \in Topics : Truth(t)' = Truth(t)
           /\ id \in Rows /\ (req[r].row = 0 => id \notin Ids) /\ (req[r].row # 0 => id = req[r].row)
           /\ \A v \in convs' : \/ v \in convs \/ v.id \in FreeRows(convs)
                                \/ v.id = id /\ Renames(req[r])
           /\ \A v \in convs : v \in convs' \/ (v.id = id /\ Renames(req[r]))
<1>1. /\ InboxTypes /\ RequestInv /\ ConvInv /\ req \in [Requests -> Request]
      /\ convs \subseteq Conversation
  BY TypeParts DEF InboxInv, RequestTypes, ThreadTypes
<1>2. req[r].op = "inbound" /\ req[r] \in Request /\ req[r].at \in 0..MaxClock
  BY <1>1 DEF At, Request
<1>3. PICK c \in Customers : req[r].on = <<"customer", c>>
  BY <1>1, <1>2 DEF RequestInv, Shaped
<1>4. Unique
  BY <1>1 DEF ConvInv, Unique
<1>5. Untouched({"start", "inbound"})
  <2>1. \A q \in Requests : q # r => req'[q] = req[q]
    BY <1>1 DEF Moves
  <2>2. req'[r].op = "none"
    BY DEF Free
  <2> QED
    BY <2>1, <2>2 DEF Untouched
<1>a. CASE req[r].row = 0
  <2>1. PICK v : v = NewConversation(r, id)
    OBVIOUS
  <2>2. id \in FreeRows(convs) /\ convs' = convs \cup {v}
    BY <1>a, <2>1
  <2>3. v \in Conversation /\ v.id = id /\ v.customer = c /\ v.assignee = None
    BY <1>2, <1>3, <2>1, <2>2 DEF NewConversation, Conversation, FreeRows
  <2>4. Creates(req[r])
    BY <1>a DEF Creates, At
  <2>5. /\ ConvInv' /\ Remain /\ Ids' = Ids \cup {id}
        /\ \A t \in Topics : Truth(t)' = Truth(t)
    BY <2>2, <2>3, <2>4, <1>1, <1>3, ConvAdded
  <2>6. id \in Rows /\ id \notin Ids
    BY <2>2 DEF FreeRows, Ids
  <2> QED
    BY <1>a, <2>2, <2>3, <2>5, <2>6, <1>1
<1>b. CASE req[r].row # 0
  <2>1. id = req[r].row
    BY <1>b
  <2>2. id \in Ids /\ Ids \subseteq Rows
    <3>1. \E v \in convs : v.id = req[r].row
      BY <1>b, <1>1, <1>2 DEF RequestInv, Shaped
    <3> QED
      BY <2>1, <3>1, <1>1 DEF Ids, Conversation
  <2>3. CASE ~ Renames(req[r])
    <3>1. convs' = convs
      BY <1>b, <2>3
    <3>2. ConvInv' /\ Remain /\ Ids' = Ids /\ \A t \in Topics : Truth(t)' = Truth(t)
      BY <3>1, <1>1, <1>5, ConvFrame, TruthFrame DEF Excuses, Remain, Ids
    <3> QED
      BY <1>b, <2>1, <2>2, <3>1, <3>2, <1>1
  <2>4. CASE Renames(req[r])
    <3>0. PICK f : f = [x \in convs |-> IF x.id = id THEN [x EXCEPT !.updated = req[r].at] ELSE x]
      OBVIOUS
    <3>1. convs' = {f[x] : x \in convs}
      BY <1>b, <2>4, <3>0
    <3>2. \A x \in convs : /\ f[x].id = x.id /\ f[x].customer = x.customer
                           /\ f[x].assignee = x.assignee /\ f[x] \in Conversation
                           /\ f[x] = x \/ x.id = id
      BY <1>1, <1>2, <3>0 DEF Conversation
    <3>3. /\ Unique' /\ Remain /\ Ids' = Ids
          /\ \A w \in convs' : \E x \in convs : w = f[x] /\ x.id = w.id /\ x.customer = w.customer
      <4>1. \A x \in convs : f[x].id = x.id /\ f[x].customer = x.customer
        BY <3>2
      <4> QED
        BY ONLY <4>1, <3>1, <1>4, Rewritten
    <3>4. ConvInv'
      BY <3>3, <1>1, <1>5, ConvRewritten DEF Excuses
    <3>5. \A t \in Topics : Truth(t)' = Truth(t)
      <4>1. \A x \in convs : \E w \in convs' : w.id = x.id /\ w.assignee = x.assignee
        BY <3>1, <3>2
      <4> QED
        BY <4>1, <3>3, <1>4, TruthSame
    <3>6. /\ convs' \subseteq Conversation
          /\ \A w \in convs' : w \in convs \/ w.id = id
          /\ \A x \in convs : x \in convs' \/ x.id = id
      BY <3>1, <3>2
    <3> QED
      BY <1>b, <2>1, <2>2, <2>4, <3>3, <3>4, <3>5, <3>6
  <2> QED
    BY <2>3, <2>4
<1> QED
  BY <1>a, <1>b

\* An inbound message commits with its conversation.
LEMMA InboundCommits ==
    ASSUME InboxInv, NEW r \in Requests, CommitInbound(r)
    PROVE  /\ Moves(r) /\ ConvInv' /\ MessageInv' /\ ReplyInv' /\ PageInv' /\ ThreadTypes' /\ PageTypes'
           /\ Remain /\ req'[r] = Free
           /\ \A t \in Topics : Truth(t)' = Truth(t)
<1>1. /\ InboxTypes /\ RequestInv /\ ConvInv /\ MessageInv /\ ReplyInv /\ PageInv
      /\ req \in [Requests -> Request] /\ ThreadTypes /\ PageTypes
  BY TypeParts DEF InboxInv, RequestTypes
<1>2. /\ At(r, "inbound", "commit") /\ End(r)
      /\ UNCHANGED <<sends, reactions, excused>>
  BY DEF CommitInbound
<1>3. Moves(r) /\ req'[r] = Free
  BY <1>1, <1>2, EndMoves
<1>4. \A q \in Requests : q # r => req'[q] = req[q]
  BY <1>1, <1>3 DEF Moves
<1>5. req[r].op = "inbound" /\ req[r].at \in 0..MaxClock /\ req[r].word \in Wamids
  BY <1>1, <1>2 DEF At, Request, RequestInv, Shaped
<1>6. PICK id \in IF req[r].row = 0 THEN FreeRows(convs) ELSE {req[r].row}, m \in FreeRows(messages) :
         /\ convs' = IF req[r].row = 0 THEN convs \cup {NewConversation(r, id)}
                     ELSE IF Renames(req[r])
                     THEN {IF c.id = id THEN [c EXCEPT !.updated = req[r].at] ELSE c : c \in convs}
                     ELSE convs
         /\ IF Renames(req[r]) THEN Moved(id) ELSE UNCHANGED pager
         /\ messages' = IF Repeats(req[r]) THEN messages
                        ELSE messages \cup {NewMessage(r, m, id)}
  BY DEF CommitInbound
<1>7. /\ ConvInv' /\ Remain /\ Ids' = Ids \cup {id} /\ convs' \subseteq Conversation
      /\ \A t \in Topics : Truth(t)' = Truth(t)
      /\ id \in Rows /\ (req[r].row = 0 => id \notin Ids) /\ (req[r].row # 0 => id = req[r].row)
      /\ \A v \in convs' : \/ v \in convs \/ v.id \in FreeRows(convs)
                           \/ v.id = id /\ Renames(req[r])
      /\ \A v \in convs : v \in convs' \/ (v.id = id /\ Renames(req[r]))
  BY <1>2, <1>3, <1>6, InboundConversation
<1>8. PICK n : n = NewMessage(r, m, id)
  OBVIOUS
<1>9. /\ n \in Message /\ n.id = m /\ n.conv = id /\ n.ext = req[r].word /\ n.reply = FALSE
  <2>1. m \in Rows /\ (req[r].op = "reply") = FALSE
    BY <1>5 DEF FreeRows
  <2> QED
    BY <2>1, <1>5, <1>7, <1>8 DEF NewMessage, Message
<1>10. messages' = messages \/ (~ Repeats(req[r]) /\ messages' = messages \cup {n})
  BY <1>6, <1>8
<1>11. MessageInv'
  <2>1. Ids \subseteq Ids' /\ n.conv \in Ids'
    BY <1>7, <1>9
  <2>2. CASE messages' = messages
    <3>1. ~ At(r, "inbound", "commit")' /\ ~ At(r, "reply", "commit")'
      BY <1>3 DEF At, Free
    <3> QED
      BY <2>1, <2>2, <3>1, <1>1, <1>3, MessageLocal
  <2>3. CASE ~ Repeats(req[r]) /\ messages' = messages \cup {n}
    <3>1. ~ Stored(n.conv, n.ext)
      <4>1. CASE req[r].row = 0
        BY <4>1, <1>1, <1>7, <1>9 DEF Stored, MessageInv
      <4>2. CASE req[r].row # 0
        BY <4>2, <2>3, <1>1, <1>2, <1>7, <1>9 DEF MessageInv
      <4> QED
        BY <4>1, <4>2
    <3>2. /\ \A a, b \in messages' : a.id = b.id => a = b
          /\ \A a \in messages' : a.conv \in Ids'
          /\ \A a, b \in messages' : a.conv = b.conv /\ a.ext = b.ext /\ a.ext # None => a = b
          /\ \A c, x : Stored(c, x)' => Stored(c, x) \/ (c = n.conv /\ x = n.ext)
      BY <2>1, <2>3, <3>1, <1>1, <1>9, MessageAdded
    <3>3. \A q \in Requests : ~ At(q, "inbound", "commit")'
      <4>1. \A q \in Requests : q # r => req[q].op # "inbound"
        BY <1>1, <1>5 DEF RequestInv
      <4> QED
        BY <4>1, <1>3, <1>4 DEF At, Free
    <3>4. \A q \in Requests : At(q, "reply", "commit")' => req'[q] = req[q] /\ At(q, "reply", "commit")
      BY <1>3, <1>4 DEF At, Free
    <3>5. ASSUME NEW q \in Requests, At(q, "reply", "commit")'
          PROVE  ~ Stored(req[q].on[2], req[q].word)'
      <4>1. /\ req'[q] = req[q] /\ At(q, "reply", "commit")
            /\ ~ Stored(req[q].on[2], req[q].word)
        BY <3>4, <3>5, <1>1 DEF MessageInv
      <4>2. req[q].word \in Exts \cup {None}
        BY <4>1, <1>1 DEF RequestInv, Shaped, At
      <4>3. req[q].word # n.ext
        BY <4>2, <1>5, <1>9, NamesAssumption
      <4> QED
        BY <4>1, <4>3, <3>2
    <3>6. \A q, s \in Requests :
             (/\ At(q, "reply", "commit")' /\ At(s, "reply", "commit")'
              /\ req'[q].on = req'[s].on /\ req'[q].word = req'[s].word /\ req'[s].word # None) => q = s
      BY <3>4, <1>1 DEF MessageInv
    <3> QED
      BY <3>2, <3>3, <3>5, <3>6 DEF MessageInv
  <2> QED
    BY <2>2, <2>3, <1>10
<1>12. ReplyInv'
  <2>1. \A q \in Requests : At(q, "reply", "after")' \/ At(q, "reply", "after") => req'[q] = req[q]
    BY <1>2, <1>3, <1>4 DEF At, Free
  <2>2. ~ n.reply /\ n.id \in FreeRows(messages)
    BY <1>9
  <2> QED
    BY <2>1, <2>2, <1>1, <1>2, <1>10, ReplyAdds
<1>13. PageInv'
  <2>1. pager' = pager \/ Moved(id)
    BY <1>6
  <2>2. Renames(req[r]) => Moved(id)
    BY <1>6
  <2>3. messages' = messages \/ \E x : x.id \in FreeRows(messages) /\ messages' = messages \cup {x}
    BY <1>9, <1>10
  <2> QED
    BY <2>1, <2>2, <2>3, <1>1, <1>7, PageKept
<1>14. ThreadTypes'
  BY <1>1, <1>2, <1>7, <1>9, <1>10 DEF ThreadTypes
<1>15. PageTypes'
  <2>1. pager' = pager \/ pager' = [pager EXCEPT !.owed = @ \ {id}]
    BY <1>6 DEF Moved
  <2> QED
    BY <2>1, <1>1 DEF PageTypes
<1> QED
  BY <1>3, <1>7, <1>11, <1>12, <1>13, <1>14, <1>15

\* Starting conversations and taking inbound messages keep the invariant.
LEMMA ThreadKeeps ==
    ASSUME InboxInv, UNCHANGED <<world, clock>>, NEW r \in Requests, ThreadStep(r)
    PROVE  InboxInv'
<1>1. InboxTypes /\ RequestInv
  BY DEF InboxInv
<1>2. req[r].op \in {"start", "inbound"} /\ req[r].step # "idle"
  BY DEF ThreadStep, FindConversation, CommitStart, SaveInbound, CommitInbound, At
<1>3. UNCHANGED <<team, sends, reactions, number, live, clicks, excused>>
  BY DEF ThreadStep, FindConversation, CommitStart, SaveInbound, CommitInbound, Quiet, threads
<1>4. /\ Moves(r) /\ ConvInv' /\ MessageInv' /\ ReplyInv' /\ PageInv' /\ ThreadTypes' /\ PageTypes'
      /\ Remain
      /\ \A t \in Topics : Truth(t)' = Truth(t)
      /\ req[r].op = "inbound" =>
            \/ req'[r].row \in {0, req[r].row}
            \/ \E v \in convs' : v.id = req'[r].row /\ v.customer = req[r].on[2]
  <2>1. CASE FindConversation(r) \/ SaveInbound(r)
    <3>1. UNCHANGED <<threads, pager, reactions, excused>>
      BY <2>1 DEF FindConversation, SaveInbound, Quiet
    <3>2. UNCHANGED <<convs, messages, sends>> /\ Remain /\ Excuses
      BY <3>1 DEF threads, Remain, Excuses
    <3>3. /\ Moves(r) /\ ConvInv' /\ MessageInv'
          /\ req[r].op = "inbound" =>
                \/ req'[r].row \in {0, req[r].row}
                \/ \E v \in convs' : v.id = req'[r].row /\ v.customer = req[r].on[2]
      BY <2>1, ThreadLooks
    <3>4. ReplyInv' /\ PageInv' /\ \A t \in Topics : Truth(t)' = Truth(t)
      BY <3>1, <3>2, <3>3, <1>2, MoveFrame, TruthFrame
    <3>5. ThreadTypes' /\ PageTypes'
      BY <3>1, <1>1, TypeParts, TypesKept
    <3> QED
      BY <3>2, <3>3, <3>4, <3>5
  <2>2. CASE CommitStart(r) \/ CommitInbound(r)
    <3>1. /\ Moves(r) /\ ConvInv' /\ MessageInv' /\ ReplyInv' /\ PageInv' /\ ThreadTypes' /\ PageTypes'
          /\ Remain /\ req'[r] = Free
          /\ \A t \in Topics : Truth(t)' = Truth(t)
      BY <2>2, StartCommits, InboundCommits
    <3>2. req'[r].row = 0
      BY <3>1 DEF Free
    <3> QED
      BY <3>1, <3>2
  <2> QED
    BY <2>1, <2>2 DEF ThreadStep
<1>5. Excuses
  BY <1>3 DEF Excuses
<1>6. RequestInv' /\ req' \in [Requests -> Request]
  BY <1>1, <1>2, <1>4, <1>5, RequestMoves
<1>7. InboxTypes'
  BY <1>1, <1>3, <1>4, <1>6, TypeParts, TypePartsNext, TypesKept DEF RequestTypes
<1>8. TeamInv' /\ ChannelInv' /\ ScreenInv'
  BY <1>2, <1>3, <1>4, <1>5, MoveFrame
<1> QED
  BY <1>4, <1>6, <1>7, <1>8 DEF InboxInv

-----------------------------------------------------------------------------
(* Assignments and reactions, and the screens that show them.              *)

\* A step of a request that the screens will hear of.
LEMMA ScreenLocal ==
    ASSUME InboxInv, NEW r \in Requests, Moves(r), UNCHANGED <<live, excused>>,
           req[r].op \in {"assign", "react"},
           \A t \in Topics : t # req[r].on => Truth(t)' = Truth(t),
           NEW t0 \in Topics, t0 = req[r].on,
           t0 \notin excused =>
              /\ Changes(req'[r]) /\ req'[r].step = "after" => req'[r].shown = Truth(t0)'
              /\ Skips(req'[r]) => Truth(t0)' = {<<req'[r].who, None>>}
              /\ Changes(req'[r]) \/ (Truth(t0)' = Truth(t0) /\ ~ Changes(req[r]))
    PROVE  ScreenInv'
<1>1. /\ req \in [Requests -> Request] /\ ScreenInv /\ RequestInv
      /\ \A q \in Requests : q # r => req'[q] = req[q]
  BY DEF Moves, InboxInv, InboxTypes, TypeOK
<1>2. /\ queue' = queue /\ cast' = cast /\ sockets' = sockets /\ gone' = gone /\ view' = view
      /\ excused' = excused
  BY DEF live
<1> SUFFICES ASSUME NEW t \in Topics, t \notin excused
             PROVE  /\ \A q \in Requests :
                          req'[q].on = t /\ Changes(req'[q]) /\ req'[q].step = "after" =>
                             req'[q].shown = Truth(t)'
                    /\ \A q \in Requests : req'[q].on = t /\ Skips(req'[q]) =>
                          Truth(t)' = {<<req'[q].who, None>>}
                    /\ Pending(t)' \/ NewsOf(t)'
  BY <1>2 DEF ScreenInv
<1>3. /\ \A q \in Requests : req[q].on = t /\ Changes(req[q]) /\ req[q].step = "after" =>
            req[q].shown = Truth(t)
      /\ \A q \in Requests : req[q].on = t /\ Skips(req[q]) => Truth(t) = {<<req[q].who, None>>}
      /\ Pending(t) \/ NewsOf(t)
  BY <1>1 DEF ScreenInv
<1>4. NewsOf(t) /\ Truth(t)' = Truth(t) => NewsOf(t)'
  BY <1>2 DEF NewsOf, Queued
<1>5. t # Nothing /\ Nothing \notin Topics
  BY DEF Nothing, Topics
<1>6. req'[r].on \in {req[r].on, Nothing}
  BY DEF Moves, Free, Nothing
<1>7. CASE t # t0
  <2>1. Truth(t)' = Truth(t) /\ req'[r].on # t
    BY <1>5, <1>6, <1>7
  <2>2. Pending(t) => Pending(t)'
    BY <1>1, <1>7 DEF Pending
  <2> QED
    BY <2>1, <2>2, <1>1, <1>3, <1>4
<1>8. CASE t = t0
  <2>1. \A q \in Requests : q # r => req[q].on # t
    BY <1>1, <1>5, <1>8 DEF RequestInv
  <2>2. \A q \in Requests : req'[q].on = t => q = r
    BY <2>1, <1>1
  <2>3. CASE Changes(req'[r])
    <3>1. req'[r].on = t
      BY <2>3, <1>8 DEF Moves, Changes, Free
    <3>2. Pending(t)'
      BY <2>3, <3>1 DEF Pending
    <3> QED
      BY <3>2, <2>2, <1>8
  <2>4. CASE Truth(t)' = Truth(t) /\ ~ Changes(req[r])
    <3>1. ~ Pending(t)
      BY <2>1, <2>4 DEF Pending
    <3> QED
      BY <3>1, <2>2, <2>4, <1>3, <1>4, <1>8
  <2> QED
    BY <2>3, <2>4, <1>8
<1> QED
  BY <1>7, <1>8

\* A request that has read, and not committed.
LEMMA ScreenReads ==
    ASSUME InboxInv, NEW r \in Requests, Moves(r),
           UNCHANGED <<live, excused, convs, reactions>>,
           req[r].op \in {"assign", "react"}, ~ Changes(req[r]), ~ Changes(req'[r]),
           NEW t0 \in Topics, t0 = req[r].on,
           t0 \notin excused /\ Skips(req'[r]) => Truth(t0) = {<<req[r].who, None>>}
    PROVE  ScreenInv'
<1>1. \A t \in Topics : Truth(t)' = Truth(t)
  BY TruthFrame
<1>2. Skips(req'[r]) => req'[r].who = req[r].who
  BY DEF Moves, Free, Skips
<1>3. t0 \notin excused =>
         /\ Changes(req'[r]) /\ req'[r].step = "after" => req'[r].shown = Truth(t0)'
         /\ Skips(req'[r]) => Truth(t0)' = {<<req'[r].who, None>>}
         /\ Changes(req'[r]) \/ (Truth(t0)' = Truth(t0) /\ ~ Changes(req[r]))
  BY <1>1, <1>2
<1> QED
  BY <1>1, <1>3, ScreenLocal

AssignStep(r) == CheckAssignee(r) \/ LoadConversation(r) \/ WriteAssignee(r) \/ CommitAssignment(r)

\* An assignment that is read and written has not been seen by anybody.
LEMMA AssignReads ==
    ASSUME InboxInv, NEW r \in Requests, CheckAssignee(r) \/ LoadConversation(r) \/ WriteAssignee(r)
    PROVE  Moves(r) /\ ScreenInv'
<1>1. /\ InboxTypes /\ RequestInv /\ ConvInv /\ ScreenInv /\ req \in [Requests -> Request]
  BY DEF InboxInv, InboxTypes, TypeOK
<1>2. /\ req[r].op = "assign" /\ req[r].step \in {"read", "again", "write"} /\ ~ Changes(req[r])
      /\ UNCHANGED <<live, excused, convs, reactions>>
  BY DEF CheckAssignee, LoadConversation, WriteAssignee, Quiet, At, threads, Changes
<1>3. PICK t0 \in Topics : t0 = req[r].on /\ t0[1] = "conversation" /\ t0[2] \in Ids
  <2>1. req[r].on \in {"conversation"} \X Ids /\ Ids \subseteq Rows
    BY <1>1, <1>2, TypeParts DEF RequestInv, Shaped, Ids, ThreadTypes, Conversation
  <2> QED
    BY <2>1 DEF Topics
<1>4. t0 \notin excused /\ Skips(req[r]) => Truth(t0) = {<<req[r].who, None>>}
  BY <1>1, <1>2, <1>3 DEF ScreenInv
<1>a. CASE CheckAssignee(r)
  <2>2. CASE End(r)
    <3>1. Moves(r) /\ req'[r] = Free
      BY <2>2, <1>1, EndMoves
    <3>2. ~ Changes(req'[r]) /\ ~ Skips(req'[r])
      BY <3>1 DEF Changes, Skips, Free
    <3> QED
      BY <3>1, <3>2, <1>2, <1>3, ScreenReads
  <2>3. CASE To(r, "again")
    <3>1. Moves(r) /\ req'[r].step = "again"
      BY <2>3, <1>1, ToMoves DEF ServiceSteps
    <3>2. ~ Changes(req'[r]) /\ ~ Skips(req'[r])
      BY <3>1 DEF Changes, Skips
    <3> QED
      BY <3>1, <3>2, <1>2, <1>3, ScreenReads
  <2> QED
    BY <2>2, <2>3, <1>a DEF CheckAssignee
<1>b. CASE LoadConversation(r)
  <2>1. PICK plan \in Plans :
           Plan(r, "write", plan) /\ (plan # "update" => Row(req[r].on[2]).assignee = req[r].who)
    <3>1. CASE Row(req[r].on[2]).assignee = req[r].who
      BY <3>1, <1>b DEF LoadConversation, Plans
    <3>2. CASE Row(req[r].on[2]).assignee # req[r].who
      <4>1. Plan(r, "write", "update")
        BY <3>2, <1>b DEF LoadConversation
      <4> QED
        BY <4>1 DEF Plans
    <3> QED
      BY <3>1, <3>2
  <2>2. Moves(r) /\ req'[r].step = "write" /\ req'[r].plan = plan
    BY <2>1, <1>1, PlanMoves DEF ServiceSteps
  <2>3. ~ Changes(req'[r])
    BY <2>2 DEF Changes
  <2>4. Skips(req'[r]) => Truth(t0) = {<<req[r].who, None>>}
    <3>1. \E c \in convs : c.id = t0[2]
      BY <1>3 DEF Ids
    <3> QED
      BY <3>1, <2>1, <2>2, <1>3 DEF Truth, Skips
  <2> QED
    BY <2>2, <2>3, <2>4, <1>2, <1>3, ScreenReads
<1>c. CASE WriteAssignee(r)
  <2>1. Moves(r) /\ req'[r].step = "commit" /\ req'[r].plan = req[r].plan
    BY <1>c, <1>1, ToMoves DEF ServiceSteps, WriteAssignee
  <2>2. ~ Changes(req'[r]) /\ (Skips(req'[r]) => Skips(req[r]))
    BY <2>1, <1>2, <1>c DEF Changes, Skips, WriteAssignee, At
  <2> QED
    BY <2>1, <2>2, <1>2, <1>3, <1>4, ScreenReads
<1> QED
  BY <1>a, <1>b, <1>c

\* An assignment that is committed is one the screens are owed.
LEMMA AssignCommits ==
    ASSUME InboxInv, NEW r \in Requests, CommitAssignment(r)
    PROVE  /\ Moves(r) /\ ConvInv' /\ PageInv' /\ ScreenInv' /\ Remain
           /\ ThreadTypes' /\ PageTypes'
<1>1. /\ InboxTypes /\ RequestInv /\ ConvInv /\ PageInv /\ ScreenInv
      /\ req \in [Requests -> Request] /\ ThreadTypes /\ PageTypes /\ convs \subseteq Conversation
  BY TypeParts DEF InboxInv, RequestTypes, ThreadTypes
<1>2. /\ req[r].op = "assign" /\ req[r].step = "commit"
      /\ UNCHANGED <<messages, sends, reactions, live, excused>>
  BY DEF CommitAssignment, At
<1>3. /\ req[r] \in Request /\ req[r].at \in 0..MaxClock /\ req[r].who \in Users \cup {None}
  BY <1>1 DEF Request
<1>4. PICK t0 \in Topics, id \in Ids : t0 = req[r].on /\ t0 = <<"conversation", id>>
  <2>1. req[r].on \in {"conversation"} \X Ids /\ Ids \subseteq Rows
    BY <1>1, <1>2 DEF RequestInv, Shaped, Ids, Conversation
  <2> QED
    BY <2>1 DEF Topics
<1>5. PICK u : u = req[r].who
  OBVIOUS
<1>6. req' = [req EXCEPT ![r].step = "after", ![r].shown = {<<u, None>>}]
  BY <1>5 DEF CommitAssignment
<1>7. req'[r] = [req[r] EXCEPT !.step = "after", !.shown = {<<u, None>>}]
  BY <1>1, <1>6
<1>8. /\ req'[r] \in Request /\ req'[r].step = "after" /\ req'[r].shown = {<<u, None>>}
      /\ req'[r].op = req[r].op /\ req'[r].on = req[r].on /\ req'[r].who = req[r].who
      /\ req'[r].word = req[r].word /\ req'[r].plan = req[r].plan
  <2>1. {<<u, None>>} \in SUBSET Shown
    BY <1>3, <1>5 DEF Shown
  <2> QED
    BY <2>1, <1>3, <1>7 DEF Request
<1>9. Moves(r) /\ Untouched({"start", "inbound"})
  <2>1. Moves(r)
    BY <1>1, <1>6, <1>7, <1>8 DEF Moves
  <2> QED
    BY <2>1, <1>1, <1>2, MovesUntouched
<1>10. Unique
  BY <1>1 DEF ConvInv, Unique
<1>11. Changes(req'[r])
  BY <1>2, <1>8 DEF Changes
<1>12. ~ Skips(req'[r])
  BY <1>8 DEF Skips
<1>a. CASE req[r].plan # "update"
  <2>1. UNCHANGED <<convs, pager>>
    BY <1>a DEF CommitAssignment
  <2>2. \A t \in Topics : Truth(t)' = Truth(t)
    BY <2>1, <1>2, TruthFrame
  <2>3. t0 \notin excused => Truth(t0) = {<<u, None>>}
    BY <1>a, <1>1, <1>2, <1>4, <1>5 DEF ScreenInv, Skips
  <2>4. ScreenInv'
    BY <2>2, <2>3, <1>2, <1>4, <1>8, <1>9, <1>11, <1>12, ScreenLocal
  <2>5. ConvInv' /\ Remain
    BY <2>1, <1>1, <1>2, <1>9, ConvFrame DEF Excuses, Remain
  <2>6. PageInv' /\ ThreadTypes' /\ PageTypes'
    BY <2>1, <1>1, <1>2, PageFrame DEF ThreadTypes, PageTypes
  <2> QED
    BY <2>4, <2>5, <2>6, <1>9
<1>b. CASE req[r].plan = "update"
  <2>1. PICK f : f = [x \in convs |-> IF x.id = id THEN [x EXCEPT !.assignee = u, !.updated = req[r].at]
                                     ELSE x]
    OBVIOUS
  <2>2. convs' = {f[x] : x \in convs} /\ Moved(id)
    <3>1. req[r].on[2] = id
      BY <1>4
    <3> QED
      BY <1>b, <1>5, <2>1, <3>1 DEF CommitAssignment
  <2>3. \A x \in convs : /\ f[x].id = x.id /\ f[x].customer = x.customer
                         /\ f[x].assignee = (IF x.id = id THEN u ELSE x.assignee)
                         /\ f[x] \in Conversation
                         /\ f[x] = x \/ x.id = id
    BY <1>1, <1>3, <1>5, <2>1 DEF Conversation
  <2>4. /\ Unique' /\ Remain /\ Ids' = Ids
        /\ \A w \in convs' : \E x \in convs : w = f[x] /\ x.id = w.id /\ x.customer = w.customer
    <3>1. \A x \in convs : f[x].id = x.id /\ f[x].customer = x.customer
      BY <2>3
    <3>2. convs' = {f[x] : x \in convs}
      BY <2>2
    <3> QED
      BY ONLY <3>1, <3>2, <1>10, Rewritten
  <2>5. ConvInv'
    BY <2>4, <1>1, <1>2, <1>9, ConvRewritten DEF Excuses
  <2>6. /\ convs' \subseteq Conversation
        /\ \A w \in convs' : w \in convs \/ w.id = id
        /\ \A x \in convs : x \in convs' \/ x.id = id
    BY <2>2, <2>3
  <2>7. PageInv'
    BY <2>2, <2>6, <1>1, <1>2, PageKept
  <2>8. ThreadTypes' /\ PageTypes'
    <3>1. pager' = pager \/ pager' = [pager EXCEPT !.owed = @ \ {id}]
      BY <2>2 DEF Moved
    <3> QED
      BY <3>1, <2>6, <1>1, <1>2 DEF ThreadTypes, PageTypes
  <2>9. Truth(t0)' = {<<u, None>>}
    <3>1. PICK x \in convs : x.id = id
      BY DEF Ids
    <3>2. f[x] \in convs' /\ f[x].id = id /\ f[x].assignee = u
      BY <2>2, <2>3, <3>1
    <3>3. Row(id)' = f[x]
      BY <3>2, <2>4, RowIsNext
    <3>4. t0[1] # "reactions" /\ t0[2] = id
      BY <1>4
    <3> QED
      BY <3>2, <3>3, <3>4 DEF Truth
  <2>10. ASSUME NEW t \in Topics, t # t0 PROVE Truth(t)' = Truth(t)
    <3>1. CASE t[1] = "reactions"
      BY <3>1, <1>2 DEF Truth
    <3>2. CASE t[1] # "reactions"
      <4>1. t[2] # id
        BY <2>10, <3>2, <1>4 DEF Topics
      <4>2. CASE \E x \in convs : x.id = t[2]
        <5>1. PICK x \in convs : x.id = t[2]
          BY <4>2
        <5>2. f[x] \in convs' /\ f[x] = x
          BY <2>2, <2>3, <4>1, <5>1
        <5>3. Row(t[2]) = x /\ Row(t[2])' = x
          BY <5>1, <5>2, <2>4, <1>10, RowIs, RowIsNext
        <5>4. Truth(t) = {<<x.assignee, None>>}
          BY <3>2, <5>1, <5>3 DEF Truth
        <5>5. Truth(t)' = {<<x.assignee, None>>}
          BY <3>2, <5>1, <5>2, <5>3 DEF Truth
        <5> QED
          BY <5>4, <5>5
      <4>3. CASE ~ \E x \in convs : x.id = t[2]
        <5>1. ~ \E w \in convs' : w.id = t[2]
          BY <4>3, <2>4
        <5> QED
          BY <3>2, <4>3, <5>1 DEF Truth
      <4> QED
        BY <4>2, <4>3
    <3> QED
      BY <3>1, <3>2
  <2>11. ScreenInv'
    BY <2>9, <2>10, <1>2, <1>4, <1>5, <1>8, <1>9, <1>11, <1>12, ScreenLocal
  <2> QED
    BY <2>4, <2>5, <2>7, <2>8, <2>11, <1>9
<1> QED
  BY <1>a, <1>b

\* Assigning keeps the invariant.
LEMMA AssignKeeps ==
    ASSUME InboxInv, UNCHANGED <<world, clock>>, NEW r \in Requests, AssignStep(r)
    PROVE  InboxInv'
<1>1. InboxTypes /\ RequestInv /\ ConvInv
  BY DEF InboxInv
<1>2. req[r].op = "assign" /\ req[r].step # "idle"
  BY DEF AssignStep, CheckAssignee, LoadConversation, WriteAssignee, CommitAssignment, At
<1>3. UNCHANGED <<team, messages, sends, reactions, number, live, clicks, excused>>
  BY DEF AssignStep, CheckAssignee, LoadConversation, WriteAssignee, CommitAssignment, Quiet,
        threads
<1>4. /\ Moves(r) /\ ConvInv' /\ PageInv' /\ ScreenInv' /\ Remain
      /\ ThreadTypes' /\ PageTypes'
  <2>1. CASE CheckAssignee(r) \/ LoadConversation(r) \/ WriteAssignee(r)
    <3>1. Moves(r) /\ ScreenInv'
      BY <2>1, AssignReads
    <3>2. UNCHANGED <<threads, pager>>
      BY <2>1 DEF CheckAssignee, LoadConversation, WriteAssignee, Quiet
    <3>3. UNCHANGED <<convs, messages, pager>> /\ Remain /\ Excuses
      BY <3>2, <1>3 DEF threads, Remain, Excuses
    <3>4. ConvInv' /\ PageInv'
      BY <3>1, <3>3, <1>2, MoveFrame
    <3>5. ThreadTypes' /\ PageTypes'
      BY <3>2, <1>1, TypeParts, TypesKept
    <3> QED
      BY <3>1, <3>3, <3>4, <3>5
  <2> QED
    BY <2>1, AssignCommits DEF AssignStep
<1>5. Excuses
  BY <1>3 DEF Excuses
<1>6. RequestInv' /\ req' \in [Requests -> Request]
  BY <1>1, <1>2, <1>4, <1>5, RequestMoves
<1>7. InboxTypes'
  BY <1>1, <1>3, <1>4, <1>6, TypeParts, TypePartsNext, TypesKept DEF RequestTypes
<1>8. TeamInv' /\ MessageInv' /\ ReplyInv' /\ ChannelInv'
  BY <1>2, <1>3, <1>4, <1>5, MoveFrame
<1> QED
  BY <1>4, <1>6, <1>7, <1>8 DEF InboxInv

ReactStep(r) ==
    \/ ReadReaction(r) \/ ReadReactionAgain(r) \/ WriteReaction(r) \/ CommitReaction(r)
    \/ FetchReactions(r)

\* A reaction, up to the event it publishes.
LEMMA ReactMoves ==
    ASSUME InboxInv, NEW r \in Requests, ReactStep(r)
    PROVE  Moves(r) /\ ScreenInv' /\ SideTypes'
<1>1. /\ InboxTypes /\ RequestInv /\ req \in [Requests -> Request] /\ SideTypes
  BY TypeParts DEF InboxInv, RequestTypes
<1>2. /\ req[r].op = "react"
      /\ UNCHANGED <<live, excused, convs, channel, subscribed>>
  BY DEF ReactStep, ReadReaction, ReadReactionAgain, WriteReaction, CommitReaction, FetchReactions,
         Quiet, At, threads, number
<1>3. /\ req[r] \in Request /\ req[r].on = <<"reactions", 0>> /\ req[r].who \in Staff
      /\ req[r].word \in Emojis
  BY <1>1, <1>2 DEF RequestInv, Shaped
<1>4. PICK t0 \in Topics : t0 = req[r].on /\ t0 = <<"reactions", 0>>
  BY <1>3 DEF Topics
<1>5. Truth(t0) = reactions /\ Truth(t0)' = reactions'
  BY <1>4 DEF Truth
<1>6. \A t \in Topics : t # req[r].on => Truth(t)' = Truth(t)
  <2> SUFFICES ASSUME NEW t \in Topics, t # req[r].on PROVE Truth(t)' = Truth(t)
    OBVIOUS
  <2>1. t[1] # "reactions"
    BY <1>4 DEF Topics
  <2>2. Row(t[2])' = Row(t[2])
    BY <1>2 DEF Row
  <2> QED
    BY <2>1, <2>2, <1>2 DEF Truth
<1>7. ASSUME UNCHANGED reactions, Moves(r), ~ Changes(req[r]), ~ Changes(req'[r])
      PROVE  Moves(r) /\ ScreenInv' /\ SideTypes'
  <2>1. ~ Skips(req'[r])
    BY <1>2, <1>7 DEF Moves, Free, Skips
  <2>2. ScreenInv'
    BY <2>1, <1>2, <1>4, <1>7, ScreenReads
  <2> QED
    BY <2>2, <1>1, <1>2, <1>7 DEF SideTypes
<1>a. CASE ReadReaction(r)
  <2>1. PICK plan \in Plans : Plan(r, "again", plan)
    <3>1. \/ Plan(r, "again", "delete") \/ Plan(r, "again", "insert")
      BY <1>a DEF ReadReaction
    <3> QED
      BY <3>1 DEF Plans
  <2>2. Moves(r) /\ req'[r].step = "again"
    BY <2>1, <1>1, PlanMoves DEF ServiceSteps
  <2>3. UNCHANGED reactions /\ ~ Changes(req[r]) /\ ~ Changes(req'[r])
    BY <2>2, <1>a DEF ReadReaction, Quiet, At, Changes
  <2> QED
    BY <2>2, <2>3, <1>7
<1>b. CASE ReadReactionAgain(r)
  <2>1. PICK plan \in Plans : Plan(r, "write", plan)
    <3>1. req[r].plan \in Plans
      BY <1>3 DEF Request, Plans
    <3>2. CASE req[r].plan = "delete" /\ Reacted(req[r].who) = {}
      <4>1. Plan(r, "write", "skip")
        BY <1>b, <3>2 DEF ReadReactionAgain
      <4> QED
        BY <4>1 DEF Plans
    <3>3. CASE req[r].plan = "insert" /\ Reacted(req[r].who) # {}
      <4>1. Plan(r, "write", "update")
        BY <1>b, <3>3 DEF ReadReactionAgain
      <4> QED
        BY <4>1 DEF Plans
    <3>4. CASE /\ ~ (req[r].plan = "delete" /\ Reacted(req[r].who) = {})
               /\ ~ (req[r].plan = "insert" /\ Reacted(req[r].who) # {})
      <4>1. Plan(r, "write", req[r].plan)
        BY <1>b, <3>4 DEF ReadReactionAgain
      <4> QED
        BY <4>1, <3>1
    <3> QED
      BY <3>2, <3>3, <3>4
  <2>2. Moves(r) /\ req'[r].step = "write"
    BY <2>1, <1>1, PlanMoves DEF ServiceSteps
  <2>3. UNCHANGED reactions /\ ~ Changes(req[r]) /\ ~ Changes(req'[r])
    BY <2>2, <1>b DEF ReadReactionAgain, Quiet, At, Changes
  <2> QED
    BY <2>2, <2>3, <1>7
<1>c. CASE WriteReaction(r)
  <2>1. UNCHANGED reactions /\ ~ Changes(req[r])
    BY <1>c DEF WriteReaction, Quiet, At, Changes
  <2>2. CASE End(r)
    <3>1. Moves(r) /\ req'[r] = Free
      BY <2>2, <1>1, EndMoves
    <3>2. ~ Changes(req'[r])
      BY <3>1 DEF Changes, Free
    <3> QED
      BY <2>1, <3>1, <3>2, <1>7
  <2>3. CASE To(r, "commit")
    <3>1. Moves(r) /\ req'[r].step = "commit"
      BY <2>3, <1>1, ToMoves DEF ServiceSteps
    <3>2. ~ Changes(req'[r])
      BY <3>1 DEF Changes
    <3> QED
      BY <2>1, <3>1, <3>2, <1>7
  <2> QED
    BY <2>2, <2>3, <1>c DEF WriteReaction
<1>d. CASE CommitReaction(r)
  <2>1. Moves(r) /\ req'[r].step = "fetch" /\ req'[r].op = "react"
    BY <1>d, <1>1, <1>2, ToMoves DEF ServiceSteps, CommitReaction
  <2>2. Changes(req'[r]) /\ req'[r].step # "after" /\ ~ Skips(req'[r])
    BY <2>1 DEF Changes, Skips
  <2>3. ScreenInv'
    BY <2>1, <2>2, <1>2, <1>4, <1>6, ScreenLocal
  <2>4. reactions' \subseteq Staff \X Emojis
    BY <1>d, <1>1, <1>3 DEF CommitReaction, SideTypes
  <2> QED
    BY <2>1, <2>3, <2>4, <1>1, <1>2 DEF SideTypes
<1>e. CASE FetchReactions(r)
  <2>1. req' = [req EXCEPT ![r].step = "after", ![r].shown = reactions] /\ UNCHANGED reactions
    BY <1>e DEF FetchReactions, Quiet
  <2>2. req'[r] = [req[r] EXCEPT !.step = "after", !.shown = reactions]
    BY <2>1, <1>1
  <2>3. reactions \in SUBSET Shown
    BY <1>1 DEF SideTypes, Shown, Users
  <2>4. /\ req'[r] \in Request /\ req'[r].step = "after" /\ req'[r].shown = reactions
        /\ req'[r].op = req[r].op /\ req'[r].on = req[r].on /\ req'[r].who = req[r].who
        /\ req'[r].word = req[r].word
    BY <2>2, <2>3, <1>3 DEF Request
  <2>5. Moves(r)
    BY <2>1, <2>2, <2>4, <1>1 DEF Moves
  <2>6. Changes(req'[r]) /\ ~ Skips(req'[r])
    BY <2>4, <1>2 DEF Changes, Skips
  <2>7. ScreenInv'
    BY <2>1, <2>4, <2>5, <2>6, <1>2, <1>4, <1>5, <1>6, ScreenLocal
  <2> QED
    BY <2>1, <2>5, <2>7, <1>1, <1>2 DEF SideTypes
<1> QED
  BY <1>a, <1>b, <1>c, <1>d, <1>e DEF ReactStep

\* Reacting keeps the invariant.
LEMMA ReactKeeps ==
    ASSUME InboxInv, UNCHANGED <<world, clock>>, NEW r \in Requests, ReactStep(r)
    PROVE  InboxInv'
<1>1. InboxTypes /\ RequestInv
  BY DEF InboxInv
<1>2. req[r].op = "react" /\ req[r].step # "idle"
  BY DEF ReactStep, ReadReaction, ReadReactionAgain, WriteReaction, CommitReaction, FetchReactions,
         At
<1>3. UNCHANGED <<team, threads, number, live, pager, clicks, excused>>
  BY DEF ReactStep, ReadReaction, ReadReactionAgain, WriteReaction, CommitReaction, FetchReactions,
         Quiet
<1>4. Moves(r) /\ ScreenInv' /\ SideTypes'
  BY ReactMoves
<1>5. UNCHANGED <<convs, messages, sends>> /\ Excuses /\ Remain
  BY <1>3 DEF threads, Excuses, Remain
<1>6. RequestInv' /\ req' \in [Requests -> Request]
  BY <1>1, <1>2, <1>4, <1>5, RequestMoves
<1>7. InboxTypes'
  BY <1>1, <1>3, <1>4, <1>6, TypeParts, TypePartsNext, TypesKept DEF RequestTypes
<1>8. TeamInv' /\ ConvInv' /\ MessageInv' /\ ReplyInv' /\ ChannelInv' /\ PageInv'
  BY <1>2, <1>3, <1>4, <1>5, MoveFrame
<1> QED
  BY <1>4, <1>6, <1>7, <1>8 DEF InboxInv


\* An event joins the queue.
LEMMA Appended ==
    ASSUME queue \in Seq(Event), NEW e \in Event, queue' = Append(queue, e),
           UNCHANGED <<cast, sockets, gone, view>>, NEW t, Truth(t)' = Truth(t),
           IF e.topic = t THEN e.shown = Truth(t) ELSE NewsOf(t)
    PROVE  NewsOf(t)'
<1>1. /\ Len(queue') = Len(queue) + 1 /\ queue'[Len(queue) + 1] = e
      /\ \A k \in 1..Len(queue) : queue'[k] = queue[k]
      /\ Len(queue) \in Nat
  OBVIOUS
<1>2. CASE e.topic = t
  <2>1. Queued(t)'
    BY <1>1, <1>2 DEF Queued
  <2>2. \A k \in 1..Len(queue') :
           queue'[k].topic = t /\ (\A j \in k + 1..Len(queue') : queue'[j].topic # t) =>
              queue'[k].shown = Truth(t)
    <3> SUFFICES ASSUME NEW k \in 1..Len(queue'), queue'[k].topic = t,
                        \A j \in k + 1..Len(queue') : queue'[j].topic # t
                 PROVE  queue'[k].shown = Truth(t)
      OBVIOUS
    <3>1. k = Len(queue) + 1
      BY <1>1, <1>2
    <3> QED
      BY <3>1, <1>1, <1>2
  <2> QED
    BY <2>1, <2>2 DEF NewsOf
<1>3. CASE e.topic # t
  <2>1. Queued(t)' <=> Queued(t)
    BY <1>1, <1>3 DEF Queued
  <2>2. \A k \in 1..Len(queue') :
           queue'[k].topic = t /\ (\A j \in k + 1..Len(queue') : queue'[j].topic # t) =>
              queue'[k].shown = Truth(t)
    <3> SUFFICES ASSUME NEW k \in 1..Len(queue'), queue'[k].topic = t,
                        \A j \in k + 1..Len(queue') : queue'[j].topic # t
                 PROVE  queue'[k].shown = Truth(t)
      OBVIOUS
    <3>1. k \in 1..Len(queue) /\ queue[k].topic = t
      BY <1>1, <1>3
    <3>2. \A j \in k + 1..Len(queue) : queue[j].topic # t
      BY <1>1, <3>1
    <3> QED
      BY <3>1, <3>2, <1>1, <1>3 DEF NewsOf
  <2> QED
    BY <2>1, <2>2, <1>3 DEF NewsOf
<1> QED
  BY <1>2, <1>3

\* An event that is published is in the queue the screens wait for.
LEMMA PublishScreens ==
    ASSUME InboxInv, NEW r \in Requests, Publish(r)
    PROVE  Moves(r) /\ ScreenInv' /\ LiveTypes' /\ Excuses /\ excused' \subseteq Subjects
<1>1. /\ InboxTypes /\ RequestInv /\ ScreenInv /\ req \in [Requests -> Request] /\ LiveTypes
      /\ excused \subseteq Subjects /\ convs \subseteq Conversation
  BY TypeParts DEF InboxInv, RequestTypes, ThreadTypes
<1>2. /\ req[r].op \in {"assign", "react"} /\ req[r].step = "after" /\ Changes(req[r])
      /\ UNCHANGED <<convs, reactions, listener, cast, sockets, gone, view>> /\ End(r)
  BY DEF Publish, Changes, threads
<1>3. Moves(r) /\ req'[r] = Free
  BY <1>1, <1>2, EndMoves
<1>4. \A q \in Requests : q # r => req'[q] = req[q]
  BY <1>1, <1>3 DEF Moves
<1>5. \A t \in Topics : Truth(t)' = Truth(t)
  BY <1>2, TruthFrame
<1>6. PICK e : e = [topic |-> req[r].on, shown |-> req[r].shown]
  OBVIOUS
<1>7. req[r].on \in Topics
  <2>1. Ids \subseteq Rows
    BY <1>1 DEF Ids, Conversation
  <2>2. Shaped(req[r])
    BY <1>1 DEF RequestInv
  <2>3. req[r].on \in {"conversation"} \X Ids \/ req[r].on = <<"reactions", 0>>
    BY <2>2, <1>2 DEF Shaped
  <2> QED
    BY <2>1, <2>3 DEF Topics
<1>8. e \in Event /\ e.topic = req[r].on /\ e.shown = req[r].shown
  BY <1>1, <1>6, <1>7 DEF Event, Request
<1>9. \A t \in Topics : Pending(t) => Pending(t)' \/ t = req[r].on
  BY <1>4 DEF Pending
<1>10. \A q \in Requests : Changes(req'[q]) \/ Skips(req'[q]) => req'[q] = req[q]
  BY <1>3, <1>4 DEF Changes, Skips, Free
<1>11. \A t \in Topics \ excused :
          /\ \A q \in Requests : req'[q].on = t /\ Changes(req'[q]) /\ req'[q].step = "after" =>
                req'[q].shown = Truth(t)'
          /\ \A q \in Requests : req'[q].on = t /\ Skips(req'[q]) => Truth(t)' = {<<req'[q].who, None>>}
  BY <1>1, <1>5, <1>10 DEF ScreenInv
<1>a. CASE listener = "subscribed"
  <2>1. queue' = Append(queue, e) /\ excused' = excused
    BY <1>a, <1>6 DEF Publish
  <2>2. queue \in Seq(Event)
    BY <1>1 DEF LiveTypes
  <2>3. \A t \in Topics \ excused : Pending(t)' \/ NewsOf(t)'
    <3> SUFFICES ASSUME NEW t \in Topics \ excused, ~ Pending(t)' PROVE NewsOf(t)'
      OBVIOUS
    <3>1. t = req[r].on => e.shown = Truth(t)
      BY <1>1, <1>2, <1>8 DEF ScreenInv
    <3>2. t # req[r].on => NewsOf(t)
      BY <1>1, <1>9 DEF ScreenInv
    <3>3. IF e.topic = t THEN e.shown = Truth(t) ELSE NewsOf(t)
      BY <3>1, <3>2, <1>8
    <3> QED
      BY <3>3, <2>1, <2>2, <1>2, <1>5, <1>8, Appended
  <2>4. ScreenInv'
    BY <2>1, <2>3, <1>11 DEF ScreenInv
  <2>5. queue' \in Seq(Event)
    BY <2>1, <2>2, <1>8
  <2> QED
    BY <2>1, <2>4, <2>5, <1>1, <1>2, <1>3 DEF LiveTypes, Excuses
<1>b. CASE listener # "subscribed"
  <2>1. queue' = queue /\ excused' = excused \cup {req[r].on}
    BY <1>b DEF Publish
  <2>2. \A t \in Topics : NewsOf(t) => NewsOf(t)'
    BY <2>1, <1>2, <1>5 DEF NewsOf, Queued
  <2>3. ScreenInv'
    BY <2>1, <2>2, <1>1, <1>9, <1>11 DEF ScreenInv
  <2>4. excused' \subseteq Subjects
    BY <2>1, <1>1, <1>7 DEF Subjects
  <2> QED
    BY <2>1, <2>3, <2>4, <1>1, <1>2, <1>3 DEF LiveTypes, Excuses
<1> QED
  BY <1>a, <1>b

\* Publishing keeps the invariant.
LEMMA PublishKeeps ==
    ASSUME InboxInv, UNCHANGED <<world, clock>>, NEW r \in Requests, Publish(r)
    PROVE  InboxInv'
<1>1. InboxTypes /\ RequestInv
  BY DEF InboxInv
<1>2. /\ req[r].op \in {"assign", "react"} /\ req[r].step # "idle"
      /\ UNCHANGED <<team, threads, reactions, number, pager, clicks>>
  BY DEF Publish
<1>3. Moves(r) /\ ScreenInv' /\ LiveTypes' /\ Excuses /\ excused' \subseteq Subjects
  BY PublishScreens
<1>4. UNCHANGED <<convs, messages, sends>> /\ Remain
  BY <1>2 DEF threads, Remain
<1>5. RequestInv' /\ req' \in [Requests -> Request]
  BY <1>1, <1>2, <1>3, <1>4, RequestMoves
<1>6. InboxTypes'
  BY <1>1, <1>2, <1>3, <1>5, TypeParts, TypePartsNext, TypesKept DEF RequestTypes
<1>7. TeamInv' /\ ConvInv' /\ MessageInv' /\ ReplyInv' /\ ChannelInv' /\ PageInv'
  BY <1>2, <1>3, <1>4, MoveFrame
<1> QED
  BY <1>3, <1>5, <1>6, <1>7 DEF InboxInv
-----------------------------------------------------------------------------
(* A request begins.                                                       *)

\* A request that begins keeps the invariant; a second one on its subject is excused.
LEMMA BeginKeeps ==
    ASSUME InboxInv, UNCHANGED <<world, clock>>, NEW r \in Requests,
           NEW op \in {"accept", "signup", "remove", "assign", "react", "reply", "start", "inbound",
                       "connect"},
           NEW on \in Subjects, NEW who \in Users \cup {None},
           NEW word \in Wamids \cup Exts \cup Emojis \cup Phones \cup {None},
           Begin(r, op, on, who, word),
           \A q : (/\ q.op = op /\ q.step = "read" /\ q.on = on /\ q.who = who /\ q.word = word
                   /\ q.row = 0) => Shaped(q),
           op = "inbound" => \A q \in Requests : req[q].op # "inbound"
    PROVE  InboxInv'
<1>1. /\ InboxTypes /\ RequestInv /\ req \in [Requests -> Request] /\ excused \subseteq Subjects
      /\ WorldTypes
  BY TypeParts DEF InboxInv, RequestTypes
<1>2. PICK f : f = [Free EXCEPT !.op = op, !.step = "read", !.on = on, !.who = who, !.word = word,
                               !.at = clock]
  OBVIOUS
<1>3. /\ f \in Request /\ f.op = op /\ f.step = "read" /\ f.on = on /\ f.who = who /\ f.word = word
      /\ f.row = 0
  BY <1>1, <1>2, FreeRequest DEF Free, Request, WorldTypes
<1>4. /\ req' = [req EXCEPT ![r] = f] /\ req[r].step = "idle" /\ clicks' = clicks + 1
      /\ clicks < world.clicks
      /\ excused' = IF \E q \in Requests : req[q].on = on THEN excused \cup {on} ELSE excused
      /\ UNCHANGED <<team, threads, reactions, number, live, pager>>
  BY <1>2 DEF Begin
<1>5. /\ req'[r] = f /\ req' \in [Requests -> Request]
      /\ \A q \in Requests : q # r => req'[q] = req[q]
  BY <1>1, <1>3, <1>4
<1>6. req[r] = Free
  BY <1>1, <1>4 DEF RequestInv, Shaped
<1>7. /\ UNCHANGED <<convs, messages, sends>> /\ Excuses /\ excused' \subseteq Subjects
      /\ Ids' = Ids
  BY <1>1, <1>4 DEF threads, Excuses, Ids
<1>8. \A ops : Untouched(ops)
  BY <1>3, <1>5 DEF Untouched
<1>9. TeamInv' /\ ConvInv' /\ MessageInv' /\ ChannelInv' /\ PageInv'
  BY <1>4, <1>7, <1>8, TeamFrame, ConvFrame, MessageFrame, ChannelFrame, PageFrame DEF InboxInv
<1>10. ReplyInv'
  <2>1. \A q \in Requests : At(q, "reply", "after")' => req'[q] = req[q]
    BY <1>3, <1>5 DEF At
  <2>2. \A q \in Requests : At(q, "reply", "after") => req'[q] = req[q]
    BY <1>5, <1>6 DEF At, Free
  <2> QED
    BY <2>1, <2>2, <1>7, ReplyFrame DEF InboxInv
<1>11. ScreenInv'
  <2>1. \A t \in Topics : Truth(t)' = Truth(t)
    BY <1>4, <1>7, TruthFrame
  <2>2. \A q \in Requests : Changes(req[q]) => req'[q] = req[q]
    BY <1>5, <1>6 DEF Changes, Free
  <2> QED
    BY <2>1, <2>2, <1>4, <1>7, <1>8, ScreenFrame DEF InboxInv
<1>12. RequestInv'
  <2>1. \A q \in Requests : Shaped(req[q])'
    <3> SUFFICES ASSUME NEW q \in Requests PROVE Shaped(req[q])'
      OBVIOUS
    <3>1. PICK m : m = req'[q]
      OBVIOUS
    <3>2. Shaped(m)
      BY <3>1, <1>1, <1>3, <1>5 DEF RequestInv
    <3> QED
      BY <3>1, <3>2, <1>7 DEF Shaped
  <2>2. \A q, s \in Requests : req'[q].on = req'[s].on => q = s \/ req'[s].on \in excused' \cup {Nothing}
    <3> SUFFICES ASSUME NEW q \in Requests, NEW s \in Requests, req'[q].on = req'[s].on, q # s
                 PROVE  req'[s].on \in excused' \cup {Nothing}
      OBVIOUS
    <3>1. CASE q = r \/ s = r
      <4>1. \E p \in Requests : req[p].on = on
        BY <3>1, <1>3, <1>5
      <4> QED
        BY <4>1, <3>1, <1>3, <1>4, <1>5
    <3>2. CASE q # r /\ s # r
      BY <3>2, <1>1, <1>5, <1>7 DEF RequestInv, Excuses
    <3> QED
      BY <3>1, <3>2
  <2>3. \A q, s \in Requests : req'[q].op = "inbound" /\ req'[s].op = "inbound" => q = s
    BY <1>1, <1>3, <1>5 DEF RequestInv
  <2> QED
    BY <2>1, <2>2, <2>3 DEF RequestInv
<1>13. WorldTypes'
  <2>1. world.clicks \in Nat
    BY <1>1, BoundsAssumption DEF WorldTypes
  <2> QED
    BY <2>1, <1>1, <1>4 DEF WorldTypes
<1>14. InboxTypes'
  BY <1>1, <1>4, <1>5, <1>7, <1>13, TypeParts, TypePartsNext, TypesKept DEF RequestTypes
<1> QED
  BY <1>9, <1>10, <1>11, <1>12, <1>14 DEF InboxInv

\* Every request that can begin keeps the invariant.
LEMMA CallKeeps ==
    ASSUME InboxInv, UNCHANGED <<world, clock>>, NEW r \in Requests, Call(r)
    PROVE  InboxInv'
<1>1. world \in Worlds /\ convs \subseteq Conversation
  BY DEF InboxInv, InboxTypes, TypeOK
<1>2. world.people \subseteq Users /\ world.customers \subseteq Customers
  BY <1>1, BoundsAssumption
<1>3. Ids \subseteq Rows /\ \A c \in convs : c.id \in Ids
  BY <1>1 DEF Ids, Conversation
<1> USE DEF Subjects, Shaped
<1>4. ASSUME NEW i \in Invites, NEW n \in Newcomers, AcceptInvite(r, i, n) PROVE InboxInv'
  <2>1. <<"invite", i>> \in Subjects /\ n \in Users
    BY DEF Users
  <2>2. Begin(r, "accept", <<"invite", i>>, n, None)
    BY <1>4 DEF AcceptInvite
  <2>3. \A q : (q.op = "accept" /\ q.step = "read" /\ q.on = <<"invite", i>> /\ q.who = n) => Shaped(q)
    BY DEF Nothing
  <2> QED
    BY <2>1, <2>2, <2>3, BeginKeeps
<1>5. ASSUME NEW u \in Users, RemoveMember(r, u) PROVE InboxInv'
  <2>1. <<"member", u>> \in Subjects
    OBVIOUS
  <2>2. Begin(r, "remove", <<"member", u>>, u, None)
    BY <1>5 DEF RemoveMember
  <2>3. \A q : (q.op = "remove" /\ q.step = "read" /\ q.on = <<"member", u>> /\ q.who = u) => Shaped(q)
    BY DEF Nothing
  <2> QED
    BY <2>1, <2>2, <2>3, BeginKeeps
<1>6. ASSUME NEW n \in Newcomers, SignUp(r, n) PROVE InboxInv'
  <2>1. <<"member", n>> \in Subjects /\ n \in Users
    BY DEF Users
  <2>2. Begin(r, "signup", <<"member", n>>, n, None)
    BY <1>6 DEF SignUp
  <2>3. \A q : (q.op = "signup" /\ q.step = "read" /\ q.on = <<"member", n>> /\ q.who = n) => Shaped(q)
    BY <2>1 DEF Nothing
  <2> QED
    BY <2>1, <2>2, <2>3, BeginKeeps
<1>7. ASSUME NEW c \in convs, NEW u \in Users \cup {None}, AssignConversation(r, c, u)
      PROVE  InboxInv'
  <2>1. PICK id \in Ids : id = c.id
    BY <1>3
  <2>2. <<"conversation", id>> \in Subjects
    BY <1>3 DEF Topics
  <2>3. Begin(r, "assign", <<"conversation", id>>, u, None)
    BY <1>7, <2>1 DEF AssignConversation
  <2>4. \A q : (q.op = "assign" /\ q.step = "read" /\ q.on = <<"conversation", id>>) => Shaped(q)
    BY DEF Nothing
  <2> QED
    BY <2>2, <2>3, <2>4, BeginKeeps
<1>8. ASSUME NEW u \in Staff, NEW e \in Emojis, ReactToMessage(r, u, e) PROVE InboxInv'
  <2>1. <<"reactions", 0>> \in Subjects /\ u \in Users
    BY DEF Users, Topics
  <2>2. Begin(r, "react", <<"reactions", 0>>, u, e)
    BY <1>8 DEF ReactToMessage
  <2>3. \A q : (/\ q.op = "react" /\ q.step = "read" /\ q.on = <<"reactions", 0>> /\ q.who = u
                /\ q.word = e) => Shaped(q)
    BY DEF Nothing
  <2> QED
    BY <2>1, <2>2, <2>3, BeginKeeps
<1>9. ASSUME NEW c \in Customers, StartConversation(r, c) PROVE InboxInv'
  <2>1. <<"customer", c>> \in Subjects
    OBVIOUS
  <2>2. Begin(r, "start", <<"customer", c>>, None, None)
    BY <1>9 DEF StartConversation
  <2>3. \A q : (q.op = "start" /\ q.step = "read" /\ q.on = <<"customer", c>>) => Shaped(q)
    BY DEF Nothing
  <2> QED
    BY <2>1, <2>2, <2>3, BeginKeeps
<1>10. ASSUME NEW c \in Customers, NEW x \in Wamids, HandleInbound(r, c, x) PROVE InboxInv'
  <2>1. <<"customer", c>> \in Subjects
    OBVIOUS
  <2>2. /\ Begin(r, "inbound", <<"customer", c>>, None, x)
        /\ \A q \in Requests : req[q].op # "inbound"
    BY <1>10 DEF HandleInbound
  <2>3. \A q : (/\ q.op = "inbound" /\ q.step = "read" /\ q.on = <<"customer", c>> /\ q.word = x
                /\ q.row = 0) => Shaped(q)
    BY DEF Nothing
  <2> QED
    BY <2>1, <2>2, <2>3, BeginKeeps
<1>11. ASSUME NEW c \in convs, NEW x \in Exts \cup {None}, AddMessage(r, c, x) PROVE InboxInv'
  <2>1. PICK id \in Ids : id = c.id
    BY <1>3
  <2>2. <<"thread", id>> \in Subjects
    BY <1>3
  <2>3. Begin(r, "reply", <<"thread", id>>, None, x)
    BY <1>11, <2>1 DEF AddMessage
  <2>4. \A q : (q.op = "reply" /\ q.step = "read" /\ q.on = <<"thread", id>> /\ q.word = x) => Shaped(q)
    BY DEF Nothing
  <2> QED
    BY <2>2, <2>3, <2>4, BeginKeeps
<1>12. ASSUME NEW p \in Phones, ConnectWhatsApp(r, p) PROVE InboxInv'
  <2>1. <<"channel", 0>> \in Subjects
    OBVIOUS
  <2>2. Begin(r, "connect", <<"channel", 0>>, None, p)
    BY <1>12 DEF ConnectWhatsApp
  <2>3. \A q : (q.op = "connect" /\ q.step = "read" /\ q.on = <<"channel", 0>> /\ q.word = p) => Shaped(q)
    BY DEF Nothing
  <2> QED
    BY <2>1, <2>2, <2>3, BeginKeeps
<1>13. \/ \E i \in Invites, n \in Newcomers : AcceptInvite(r, i, n)
       \/ \E u \in Users : RemoveMember(r, u)
       \/ \E n \in Newcomers : SignUp(r, n)
       \/ \E c \in convs, u \in Users \cup {None} : AssignConversation(r, c, u)
       \/ \E u \in Staff, e \in Emojis : ReactToMessage(r, u, e)
       \/ \E c \in Customers : StartConversation(r, c)
       \/ \E c \in Customers, x \in Wamids : HandleInbound(r, c, x)
       \/ \E c \in convs, x \in Exts \cup {None} : AddMessage(r, c, x)
       \/ \E p \in Phones : ConnectWhatsApp(r, p)
  BY <1>2 DEF Call
<1> QED
  BY <1>4, <1>5, <1>6, <1>7, <1>8, <1>9, <1>10, <1>11, <1>12, <1>13
-----------------------------------------------------------------------------
(* ServiceSteps of the clients.                                                   *)

\* Of a step in which no request moves: what it leaves alone stays right.
LEMMA Still ==
    ASSUME InboxInv, UNCHANGED <<threads, reactions, number, req>>, Excuses,
           excused' \subseteq Subjects
    PROVE  /\ RequestInv' /\ ConvInv' /\ MessageInv' /\ ReplyInv' /\ ChannelInv'
           /\ UNCHANGED team => TeamInv'
           /\ UNCHANGED pager => PageInv'
           /\ UNCHANGED live => ScreenInv'
           /\ ThreadTypes' /\ SideTypes' /\ RequestTypes'
           /\ \A t \in Topics : Truth(t)' = Truth(t)
<1>1. UNCHANGED <<convs, messages, sends>> /\ Ids' = Ids
  BY DEF threads, Ids
<1>2. \A ops : Untouched(ops)
  BY DEF Untouched
<1>3. \A t \in Topics : Truth(t)' = Truth(t)
  BY <1>1, TruthFrame
<1>4. ConvInv' /\ MessageInv' /\ ChannelInv'
  BY <1>1, <1>2, ConvFrame, MessageFrame, ChannelFrame DEF InboxInv
<1>5. ReplyInv'
  BY <1>1, ReplyFrame DEF InboxInv
<1>6. UNCHANGED team => TeamInv'
  BY <1>2, TeamFrame DEF InboxInv
<1>7. UNCHANGED pager => PageInv'
  BY <1>1, PageFrame DEF InboxInv
<1>8. UNCHANGED live => ScreenInv'
  BY <1>2, <1>3, ScreenFrame DEF InboxInv
<1>9. RequestInv'
  <2>1. \A q \in Requests : Shaped(req[q])'
    BY <1>1 DEF InboxInv, RequestInv, Shaped
  <2> QED
    BY <2>1 DEF InboxInv, RequestInv, Excuses
<1>10. ThreadTypes' /\ SideTypes' /\ RequestTypes'
  BY TypeParts, TypesKept DEF InboxInv, RequestTypes
<1> QED
  BY <1>3, <1>4, <1>5, <1>6, <1>7, <1>8, <1>9, <1>10

\* Invitations that are made or expire keep the invariant.
LEMMA InviteKeeps ==
    ASSUME InboxInv, UNCHANGED <<world, clock>>, NEW i \in Invites,
           CreateInvite(i) \/ InviteExpires(i)
    PROVE  InboxInv'
<1>1. /\ invites[i] \in {"none", "open"}
      /\ \E state \in {"open", "expired"} : invites' = [invites EXCEPT ![i] = state]
      /\ UNCHANGED <<members, accounts, founders, admitted, threads, reactions, number, live, pager,
                     req, clicks, excused>>
  BY DEF CreateInvite, InviteExpires
<1>2. /\ InboxTypes /\ TeamInv /\ TeamTypes /\ Excuses /\ excused' \subseteq Subjects
  BY <1>1, TypeParts DEF InboxInv, Excuses, RequestTypes
<1>3. /\ RequestInv' /\ ConvInv' /\ MessageInv' /\ ReplyInv' /\ ChannelInv' /\ PageInv' /\ ScreenInv'
      /\ ThreadTypes' /\ SideTypes' /\ RequestTypes'
  BY <1>1, <1>2, Still
<1>4. TeamTypes' /\ \A j \in Invites : j # i => invites'[j] = invites[j]
  BY <1>1, <1>2 DEF TeamTypes
<1>5. TeamInv'
  <2>1. \A q \in Requests : Holder(q)' <=> Holder(q)
    BY <1>1 DEF Holder
  <2>2. admitted[i] = {} \/ <<"invite", i>> \in excused
    BY <1>1, <1>2 DEF TeamInv
  <2>3. \A j \in Invites :
           \/ <<"invite", j>> \in excused'
           \/ admitted'[j] = {}
           \/ /\ invites'[j] = "used"
              /\ \A m, n \in admitted'[j] : m = n
              /\ \A r \in Requests : req'[r].op = "accept" /\ req'[r].on = <<"invite", j>> =>
                    ~ Past(req'[r])
    BY <1>1, <1>2, <1>4, <2>2 DEF TeamInv
  <2> QED
    BY <1>1, <1>2, <2>1, <2>3 DEF TeamInv
<1>6. InboxTypes'
  BY <1>1, <1>2, <1>3, <1>4, TypeParts, TypePartsNext, TypesKept
<1> QED
  BY <1>3, <1>5, <1>6 DEF InboxInv

\* What is stored is of the kind that a screen shows.
LEMMA TruthShown == ASSUME InboxTypes PROVE \A t \in Topics : Truth(t) \in SUBSET Shown
<1> SUFFICES ASSUME NEW t \in Topics PROVE Truth(t) \in SUBSET Shown
  OBVIOUS
<1>1. convs \subseteq Conversation /\ reactions \subseteq Staff \X Emojis
  BY DEF InboxTypes, TypeOK
<1>2. CASE t[1] = "reactions"
  BY <1>1, <1>2 DEF Truth, Shown, Users
<1>3. CASE t[1] # "reactions"
  <2>1. (\E c \in convs : c.id = t[2]) => Row(t[2]) \in convs
    BY DEF Row
  <2>2. (\E c \in convs : c.id = t[2]) => Row(t[2]).assignee \in Users \cup {None}
    BY <2>1, <1>1 DEF Conversation
  <2> QED
    BY <2>2, <1>3 DEF Truth, Shown
<1> QED
  BY <1>2, <1>3

\* Sockets come and go; one that comes has loaded what is stored.
LEMMA SocketFrame ==
    ASSUME InboxInv, UNCHANGED <<convs, reactions, req, queue, cast, excused>>,
           \A s \in sockets' \ gone' : \A t \in Topics :
              (s \in sockets \ gone /\ view'[s][t] = view[s][t]) \/ view'[s][t] = Truth(t)
    PROVE  ScreenInv'
<1>1. \A t \in Topics : Truth(t)' = Truth(t)
  BY TruthFrame
<1>2. \A t \in Topics : NewsOf(t) => NewsOf(t)'
  <2> SUFFICES ASSUME NEW t \in Topics, NewsOf(t) PROVE NewsOf(t)'
    OBVIOUS
  <2>1. Queued(t)' <=> Queued(t)
    BY DEF Queued
  <2> QED
    BY <1>1, <2>1 DEF NewsOf
<1>3. \A t : Pending(t)' <=> Pending(t)
  BY DEF Pending
<1> QED
  BY <1>1, <1>2, <1>3 DEF InboxInv, ScreenInv

\* Sockets that open and close keep the invariant.
LEMMA SocketKeeps ==
    ASSUME InboxInv, UNCHANGED <<world, clock>>, NEW s \in Sockets,
           OpenSocket(s) \/ ClientLeaves(s) \/ Disconnect(s)
    PROVE  InboxInv'
<1>1. UNCHANGED <<team, threads, reactions, number, listener, queue, cast, pager, req, clicks,
                  excused>>
  BY DEF OpenSocket, ClientLeaves, Disconnect
<1>2. /\ InboxTypes /\ LiveTypes /\ Excuses /\ excused' \subseteq Subjects /\ UNCHANGED convs
  BY <1>1, TypeParts DEF InboxInv, Excuses, RequestTypes, threads
<1>3. /\ RequestInv' /\ ConvInv' /\ MessageInv' /\ ReplyInv' /\ ChannelInv' /\ PageInv' /\ TeamInv'
      /\ ThreadTypes' /\ SideTypes' /\ RequestTypes'
  BY <1>1, <1>2, Still
<1>4. LiveTypes' /\ ScreenInv'
  <2>1. CASE OpenSocket(s)
    <3>1. PICK sheet \in [Topics -> SUBSET Shown] : \A t \in Topics : sheet[t] = Truth(t)
      <4>1. [t \in Topics |-> Truth(t)] \in [Topics -> SUBSET Shown]
        BY <1>2, TruthShown
      <4> QED
        BY <4>1
    <3>2. sheet = [t \in Topics |-> Truth(t)]
      BY <3>1
    <3>3. /\ sockets' = sockets \cup {s} /\ gone' = gone \ {s}
          /\ view' = [view EXCEPT ![s] = sheet]
      BY <2>1, <3>2 DEF OpenSocket
    <3>4. view'[s] = sheet /\ \A x \in Sockets : x # s => view'[x] = view[x]
      BY <1>2, <3>3 DEF LiveTypes
    <3>5. LiveTypes'
      BY <1>1, <1>2, <3>3 DEF LiveTypes
    <3>6. sockets' \subseteq Sockets
      BY <1>2, <3>3 DEF LiveTypes
    <3>7. \A x \in sockets' \ gone' : \A t \in Topics :
             (x \in sockets \ gone /\ view'[x][t] = view[x][t]) \/ view'[x][t] = Truth(t)
      BY <3>1, <3>3, <3>4, <3>6
    <3> QED
      BY <3>5, <3>7, <1>1, <1>2, SocketFrame
  <2>2. CASE ClientLeaves(s) \/ Disconnect(s)
    <3>1. view' = view /\ sockets' \ gone' \subseteq sockets \ gone /\ sockets' \subseteq Sockets
          /\ gone' \subseteq Sockets
      BY <2>2, <1>2 DEF ClientLeaves, Disconnect, LiveTypes
    <3>2. LiveTypes'
      BY <3>1, <1>1, <1>2 DEF LiveTypes
    <3> QED
      BY <3>1, <3>2, <1>1, <1>2, SocketFrame
  <2> QED
    BY <2>1, <2>2
<1>5. InboxTypes'
  BY <1>1, <1>2, <1>3, <1>4, TypeParts, TypePartsNext, TypesKept
<1> QED
  BY <1>3, <1>4, <1>5 DEF InboxInv
-----------------------------------------------------------------------------
(* The lists: the order of a list is total, and a page is its beginning.   *)

\* The order of a list is a strict order.
LEMMA ComesInOrder ==
    ASSUME NEW of, NEW i \in Nat \X Nat, NEW j \in Nat \X Nat, NEW k \in Nat \X Nat
    PROVE  /\ ~ Comes(of, i, i)
           /\ Comes(of, i, j) => ~ Comes(of, j, i)
           /\ Comes(of, i, j) /\ Comes(of, j, k) => Comes(of, i, k)
           /\ i = j \/ Comes(of, i, j) \/ Comes(of, j, i)
<1>1. /\ i[1] \in Nat /\ i[2] \in Nat /\ j[1] \in Nat /\ j[2] \in Nat /\ k[1] \in Nat /\ k[2] \in Nat
      /\ i[1] = j[1] /\ i[2] = j[2] => i = j
  OBVIOUS
<1> QED
  BY <1>1 DEF Comes, Less

\* A list has its rows once, and finitely many of them.
LEMMA KeysAreRows ==
    ASSUME InboxInv, NEW of
    PROVE  /\ Keys(of) \subseteq (0..MaxClock) \X Rows /\ Keys(of) \subseteq Nat \X Nat
           /\ IsFiniteSet(Keys(of))
           /\ \A j, k \in Keys(of) : j[2] = k[2] => j = k
<1>1. /\ convs \subseteq Conversation /\ messages \subseteq Message
      /\ ConvInv /\ MessageInv
  BY DEF InboxInv, InboxTypes, TypeOK
<1>2. Keys(of) \subseteq (0..MaxClock) \X Rows
  BY <1>1 DEF Keys, Conversation, Message
<1>3. Keys(of) \subseteq Nat \X Nat
  <2>1. 0..MaxClock \subseteq Nat /\ Rows \subseteq Nat
    BY BoundsAssumption
  <2> QED
    BY <2>1, <1>2
<1>4. IsFiniteSet((0..MaxClock) \X Rows)
  <2>1. IsFiniteSet(0..MaxClock)
    BY BoundsAssumption, FS_Interval
  <2> QED
    BY <2>1, RowsAssumption, FS_Product
<1>5. IsFiniteSet(Keys(of))
  BY <1>2, <1>4, FS_Subset
<1>6. \A j, k \in Keys(of) : j[2] = k[2] => j = k
  BY <1>1 DEF Keys, ConvInv, MessageInv
<1> QED
  BY <1>2, <1>3, <1>5, <1>6

\* The first rows of the rest.
PageOf(of, rest) == {k \in rest : Cardinality({j \in rest : Comes(of, j, k)}) < PageSize}

\* A page is the beginning of what is left of a list.
LEMMA PageBegins ==
    ASSUME NEW of, NEW rest, rest \subseteq Nat \X Nat, IsFiniteSet(rest),
           NEW k \in PageOf(of, rest), NEW j \in rest, Comes(of, j, k)
    PROVE  j \in PageOf(of, rest)
<1>1. PICK J : J = {i \in rest : Comes(of, i, j)}
  OBVIOUS
<1>2. PICK K : K = {i \in rest : Comes(of, i, k)}
  OBVIOUS
<1>3. J \subseteq K
  <2> SUFFICES ASSUME NEW i \in J PROVE i \in K
    OBVIOUS
  <2>1. i \in rest /\ Comes(of, i, j) /\ k \in rest
    BY <1>1 DEF PageOf
  <2>2. Comes(of, i, k)
    BY <2>1, ComesInOrder
  <2> QED
    BY <2>1, <2>2, <1>2
<1>4. IsFiniteSet(K)
  BY <1>2, FS_Subset
<1>5. IsFiniteSet(J) /\ Cardinality(J) <= Cardinality(K)
  BY <1>3, <1>4, FS_Subset
<1>6. Cardinality(K) < PageSize
  BY <1>2 DEF PageOf
<1>7. Cardinality(J) \in Nat /\ Cardinality(K) \in Nat
  BY <1>4, <1>5, FS_CardinalityType
<1>8. Cardinality(J) < PageSize
  BY <1>5, <1>6, <1>7, PageAssumption
<1> QED
  BY <1>1, <1>8 DEF PageOf

\* How often a row is on a page.
LEMMA OnPage ==
    ASSUME NEW sheet, \A j, k \in sheet : j[2] = k[2] => j = k, NEW x
    PROVE  Cardinality({k \in sheet : k[2] = x}) = IF \E k \in sheet : k[2] = x THEN 1 ELSE 0
<1>1. CASE \E k \in sheet : k[2] = x
  <2>1. PICK k \in sheet : k[2] = x
    BY <1>1
  <2>2. {j \in sheet : j[2] = x} = {k}
    BY <2>1
  <2> QED
    BY <1>1, <2>2, FS_Singleton
<1>2. CASE ~ \E k \in sheet : k[2] = x
  <2>1. {j \in sheet : j[2] = x} = {}
    BY <1>2
  <2> QED
    BY <1>2, <2>1, FS_EmptySet
<1> QED
  BY <1>1, <1>2

\* The first page of a list misses nothing before it.
LEMMA OpenListKeeps ==
    ASSUME InboxInv, NEW of \in {0} \cup {c.id : c \in convs}, OpenList(of)
    PROVE  PageTypes' /\ PageInv'
<1>1. of \in Rows \cup {0}
  BY DEF InboxInv, InboxTypes, TypeOK, Conversation
<1>2. UNCHANGED <<convs, messages>>
  BY DEF OpenList, threads
<1>3. PICK owed : owed = {k[2] : k \in Keys(of)}
  OBVIOUS
<1>4. owed \subseteq Rows
  BY <1>3, KeysAreRows
<1>5. pager' = [NoList EXCEPT !.of = of, !.state = "first", !.owed = owed]
  BY <1>3 DEF OpenList
<1>6. /\ pager'.of = of /\ pager'.state = "first" /\ pager'.owed = owed
      /\ pager'.seen = [x \in Rows |-> 0]
      /\ PageTypes'
  BY <1>1, <1>4, <1>5 DEF NoList, PageTypes
<1>7. Keys(pager.of)' = Keys(of)
  BY <1>2, <1>6 DEF Keys
<1>8. \A x \in owed : \E k \in Keys(of) : k[2] = x
  BY <1>3
<1> QED
  BY <1>3, <1>4, <1>6, <1>7, <1>8 DEF PageInv

\* A further page misses nothing before it.
LEMMA NextPageKeeps ==
    ASSUME InboxInv, NextPage
    PROVE  PageTypes' /\ PageInv'
<1>1. PICK of : of = pager.of
  OBVIOUS
<1>2. PICK rest : rest = IF pager.state = "first" THEN Keys(of) ELSE After(of, pager.cursor)
  OBVIOUS
<1>3. PICK sheet : sheet = PageOf(of, rest)
  OBVIOUS
<1>4. PICK seen : seen = [x \in Rows |-> pager.seen[x] + Cardinality({k \in sheet : k[2] = x})]
  OBVIOUS
<1>5. /\ pager.state \in {"first", "next"}
      /\ IF rest = sheet
           THEN pager' = [pager EXCEPT !.state = "end", !.seen = seen]
           ELSE \E last \in sheet :
                   /\ \A k \in sheet : k = last \/ Comes(of, k, last)
                   /\ pager' = [pager EXCEPT !.state = "next", !.seen = seen, !.cursor = last]
  <2> DEFINE rest0 == IF pager.state = "first" THEN Keys(pager.of) ELSE After(pager.of, pager.cursor)
             page0 == {k \in rest0 : Cardinality({j \in rest0 : Comes(pager.of, j, k)}) < PageSize}
             seen0 == [x \in Rows |-> pager.seen[x] + Cardinality({k \in page0 : k[2] = x})]
  <2>1. /\ pager.state \in {"first", "next"}
        /\ IF rest0 = page0
             THEN pager' = [pager EXCEPT !.state = "end", !.seen = seen0]
             ELSE \E last \in page0 :
                     /\ \A k \in page0 : k = last \/ Comes(pager.of, k, last)
                     /\ pager' = [pager EXCEPT !.state = "next", !.seen = seen0, !.cursor = last]
    BY Zenon DEF NextPage
  <2>2. rest0 = rest
    BY <1>1, <1>2
  <2>3. page0 = sheet
    BY <2>2, <1>1, <1>3, Zenon DEF PageOf
  <2>4. seen0 = seen
    BY <2>3, <1>4, Zenon
  <2> HIDE DEF rest0, page0, seen0
  <2> QED
    BY <2>1, <2>2, <2>3, <2>4, <1>1
<1>6. UNCHANGED <<convs, messages>>
  BY DEF NextPage, threads
<1>7. /\ PageTypes /\ PageInv
  BY TypeParts DEF InboxInv
<1>8. /\ Keys(of) \subseteq (0..MaxClock) \X Rows /\ Keys(of) \subseteq Nat \X Nat
      /\ IsFiniteSet(Keys(of))
      /\ \A j, k \in Keys(of) : j[2] = k[2] => j = k
  BY KeysAreRows
<1>9. sheet \subseteq rest /\ rest \subseteq Keys(of) /\ IsFiniteSet(rest) /\ rest \subseteq Nat \X Nat
  <2>1. sheet \subseteq rest /\ rest \subseteq Keys(of)
    BY <1>2, <1>3 DEF PageOf, After
  <2> QED
    BY <2>1, <1>8, FS_Subset
<1>10. \A x \in Rows : seen[x] = pager.seen[x] + IF \E k \in sheet : k[2] = x THEN 1 ELSE 0
  BY <1>4, <1>8, <1>9, OnPage
<1>11. seen \in [Rows -> Nat]
  <2>1. \A x \in Rows : pager.seen[x] \in Nat
    BY <1>7 DEF PageTypes
  <2>2. \A x \in Rows : pager.seen[x] + Cardinality({k \in sheet : k[2] = x}) \in Nat
    <3> SUFFICES ASSUME NEW x \in Rows
                 PROVE  pager.seen[x] + Cardinality({k \in sheet : k[2] = x}) \in Nat
      OBVIOUS
    <3>1. Cardinality({k \in sheet : k[2] = x}) = 1 \/ Cardinality({k \in sheet : k[2] = x}) = 0
      BY <1>8, <1>9, OnPage
    <3> QED
      BY <3>1, <2>1
  <2> QED
    BY <2>2, <1>4
\* Of a row that is owed: whether it was on an earlier page, and on this one.
<1>12. \A k \in Keys(of) : k[2] \in pager.owed =>
          /\ pager.seen[k[2]] = (IF k \in rest THEN 0 ELSE 1)
          /\ seen[k[2]] = pager.seen[k[2]] + (IF k \in sheet THEN 1 ELSE 0)
  <2> SUFFICES ASSUME NEW k \in Keys(of), k[2] \in pager.owed
               PROVE  /\ pager.seen[k[2]] = (IF k \in rest THEN 0 ELSE 1)
                      /\ seen[k[2]] = pager.seen[k[2]] + (IF k \in sheet THEN 1 ELSE 0)
    OBVIOUS
  <2>1. (\E j \in sheet : j[2] = k[2]) <=> k \in sheet
    BY <1>8, <1>9
  <2>2. k[2] \in Rows
    BY <1>8
  <2>3. CASE pager.state = "first"
    <3>1. pager.seen[k[2]] = 0 /\ k \in rest
      BY <2>3, <1>1, <1>2, <1>7 DEF PageInv
    <3> QED
      BY <3>1, <2>1, <2>2, <1>10
  <2>4. CASE pager.state = "next"
    <3>1. pager.seen[k[2]] = IF Comes(of, pager.cursor, k) THEN 0 ELSE 1
      BY <2>4, <1>1, <1>7 DEF PageInv
    <3>2. k \in rest <=> Comes(of, pager.cursor, k)
      BY <2>4, <1>2 DEF After
    <3> QED
      BY <3>1, <3>2, <2>1, <2>2, <1>10
  <2> QED
    BY <2>3, <2>4, <1>5
<1>13. /\ pager'.of = of /\ pager'.owed = pager.owed /\ pager'.seen = seen
       /\ \A x \in pager.owed : \E k \in Keys(of) : k[2] = x
       /\ Keys(pager.of)' = Keys(of)
  <2>1. pager'.of = of /\ pager'.owed = pager.owed /\ pager'.seen = seen
    BY <1>1, <1>5, <1>7 DEF PageTypes
  <2> QED
    BY <2>1, <1>1, <1>6, <1>7 DEF PageInv, Keys
<1>a. CASE rest = sheet
  <2>1. pager' = [pager EXCEPT !.state = "end", !.seen = seen]
    BY <1>a, <1>5
  <2>2. PageTypes' /\ pager'.state = "end"
    BY <2>1, <1>7, <1>11 DEF PageTypes
  <2>3. \A x \in pager.owed : seen[x] = 1
    <3> SUFFICES ASSUME NEW x \in pager.owed PROVE seen[x] = 1
      OBVIOUS
    <3>1. PICK k \in Keys(of) : k[2] = x
      BY <1>13
    <3> QED
      BY <3>1, <1>a, <1>12
  <2> QED
    BY <2>2, <2>3, <1>13 DEF PageInv
<1>b. CASE rest # sheet
  <2>1. PICK last \in sheet :
           /\ \A k \in sheet : k = last \/ Comes(of, k, last)
           /\ pager' = [pager EXCEPT !.state = "next", !.seen = seen, !.cursor = last]
    BY <1>b, <1>5
  <2>2. last \in rest /\ last \in Nat \X Nat
    BY <1>9
  <2>3. PageTypes' /\ pager'.state = "next" /\ pager'.cursor = last
    BY <2>1, <2>2, <1>7, <1>11 DEF PageTypes
  <2>4. \A k \in Keys(of) : k[2] \in pager.owed => seen[k[2]] = IF Comes(of, last, k) THEN 0 ELSE 1
    <3> SUFFICES ASSUME NEW k \in Keys(of), k[2] \in pager.owed
                 PROVE  seen[k[2]] = IF Comes(of, last, k) THEN 0 ELSE 1
      OBVIOUS
    <3>1. k \in Nat \X Nat /\ pager.cursor \in Nat \X Nat
      BY <1>7, <1>8 DEF PageTypes
    <3>2. CASE k \in sheet
      <4>1. ~ Comes(of, last, k)
        BY <3>1, <3>2, <2>1, <2>2, ComesInOrder
      <4> QED
        BY <4>1, <3>2, <1>9, <1>12
    <3>3. CASE k \in rest \ sheet
      <4>1. ~ Comes(of, k, last)
        BY <3>3, <1>3, <1>9, PageBegins
      <4>2. Comes(of, last, k)
        BY <4>1, <3>1, <3>3, <2>2, ComesInOrder
      <4> QED
        BY <4>2, <3>3, <1>12
    <3>4. CASE k \notin rest
      <4>1. pager.state = "next" /\ Comes(of, pager.cursor, last) /\ ~ Comes(of, pager.cursor, k)
        BY <3>4, <1>2, <1>5, <2>2 DEF After
      <4>2. ~ Comes(of, last, k)
        BY <4>1, <3>1, <2>2, ComesInOrder
      <4> QED
        BY <4>2, <3>4, <1>9, <1>12
    <3> QED
      BY <3>2, <3>3, <3>4
  <2>5. \A j, k : Comes(pager.of, j, k)' <=> Comes(pager'.of, j, k)
    BY DEF Comes, Less
  <2> QED
    BY <2>3, <2>4, <1>13 DEF PageInv, Comes, Less
<1> QED
  BY <1>a, <1>b

\* Reading lists keeps the invariant.
LEMMA ListKeeps ==
    ASSUME InboxInv, UNCHANGED <<world, clock>>,
           NextPage \/ \E of \in {0} \cup {c.id : c \in convs} : OpenList(of)
    PROVE  InboxInv'
<1>1. UNCHANGED <<team, threads, reactions, number, live, req, clicks, excused>>
  BY DEF NextPage, OpenList
<1>2. InboxTypes /\ Excuses /\ excused' \subseteq Subjects
  BY <1>1, TypeParts DEF InboxInv, Excuses, RequestTypes
<1>3. /\ RequestInv' /\ ConvInv' /\ MessageInv' /\ ReplyInv' /\ ChannelInv' /\ ScreenInv' /\ TeamInv'
      /\ ThreadTypes' /\ SideTypes' /\ RequestTypes'
  BY <1>1, <1>2, Still
<1>4. PageTypes' /\ PageInv'
  BY NextPageKeeps, OpenListKeeps
<1>5. InboxTypes'
  BY <1>1, <1>2, <1>3, <1>4, TypeParts, TypePartsNext, TypesKept
<1> QED
  BY <1>3, <1>4, <1>5 DEF InboxInv
-----------------------------------------------------------------------------
(* The realtime listener.                                                  *)

\* The listener takes the next event.
LEMMA Taken ==
    ASSUME InboxTypes, NEW t \in Topics, NewsOf(t), Truth(t)' = Truth(t), TakeEvent
    PROVE  NewsOf(t)'
<1>1. /\ queue # <<>> /\ cast = NoCast /\ queue' = Tail(queue) /\ UNCHANGED <<sockets, gone, view>>
      /\ cast' = IF sockets = {} THEN NoCast
                 ELSE [topic |-> Head(queue).topic, shown |-> Head(queue).shown, left |-> sockets,
                       stale |-> {}]
  BY DEF TakeEvent
<1>2. queue \in Seq(Event)
  BY DEF InboxTypes
<1>3. /\ Len(queue) \in Nat \ {0} /\ Len(queue') = Len(queue) - 1
      /\ \A k \in 1..Len(queue') : queue'[k] = queue[k + 1]
      /\ Head(queue) = queue[1]
  BY <1>1, <1>2
<1>4. NoCast.topic # t /\ cast.topic # t
  BY <1>1 DEF NoCast, Topics
<1>5. \A k \in 1..Len(queue') :
         queue'[k].topic = t /\ (\A j \in k + 1..Len(queue') : queue'[j].topic # t) =>
            queue'[k].shown = Truth(t)
  <2> SUFFICES ASSUME NEW k \in 1..Len(queue'), queue'[k].topic = t,
                      \A j \in k + 1..Len(queue') : queue'[j].topic # t
               PROVE  queue'[k].shown = Truth(t)
    OBVIOUS
  <2>1. k + 1 \in 1..Len(queue) /\ queue[k + 1] = queue'[k]
    BY <1>3
  <2>2. \A j \in (k + 1) + 1..Len(queue) : queue[j].topic # t
    <3> SUFFICES ASSUME NEW j \in (k + 1) + 1..Len(queue) PROVE queue[j].topic # t
      OBVIOUS
    <3>1. PICK i \in k + 1..Len(queue') : i + 1 = j
      <4>1. j - 1 \in k + 1..Len(queue') /\ (j - 1) + 1 = j
        BY <1>3
      <4> QED
        BY <4>1
    <3>2. i \in 1..Len(queue')
      BY <1>3
    <3>3. queue'[i] = queue[j]
      BY <3>1, <3>2, <1>3
    <3> QED
      BY <3>3
  <2> QED
    BY <2>1, <2>2 DEF NewsOf
<1>6. CASE Queued(t)'
  BY <1>5, <1>6 DEF NewsOf
<1>7. CASE ~ Queued(t)'
  <2>1. \A j \in 2..Len(queue) : queue[j].topic # t
    <3> SUFFICES ASSUME NEW j \in 2..Len(queue) PROVE queue[j].topic # t
      OBVIOUS
    <3>1. PICK i \in 1..Len(queue') : i + 1 = j
      <4>1. j - 1 \in 1..Len(queue') /\ (j - 1) + 1 = j
        BY <1>3
      <4> QED
        BY <4>1
    <3>2. queue'[i] = queue[j]
      BY <3>1, <1>3
    <3> QED
      BY <3>2, <1>7 DEF Queued
  <2>2. CASE Head(queue).topic = t
    <3>1. Head(queue).shown = Truth(t)
      BY <2>1, <2>2, <1>3 DEF NewsOf
    <3>2. CASE sockets = {}
      BY <3>2, <1>1, <1>4, <1>5, <1>7 DEF NewsOf
    <3>3. CASE sockets # {}
      <4>1. cast'.topic = t /\ cast'.shown = Truth(t) /\ cast'.left = sockets
        BY <3>1, <3>3, <2>2, <1>1
      <4> QED
        BY <4>1, <1>1, <1>5, <1>7 DEF NewsOf
    <3> QED
      BY <3>2, <3>3
  <2>3. CASE Head(queue).topic # t
    <3>1. ~ Queued(t)
      <4>1. \A j \in 1..Len(queue) : queue[j].topic # t
        BY <2>1, <2>3, <1>3
      <4> QED
        BY <4>1 DEF Queued
    <3>2. cast'.topic # t
      BY <2>3, <1>1, <1>4
    <3>3. \A s \in sockets \ gone : view[s][t] = Truth(t)
      BY <3>1, <1>4 DEF NewsOf
    <3> QED
      BY <3>2, <3>3, <1>1, <1>5, <1>7 DEF NewsOf
  <2> QED
    BY <2>2, <2>3
<1> QED
  BY <1>6, <1>7

\* The event goes to one of the sockets.
LEMMA Delivered ==
    ASSUME InboxTypes, NEW t \in Topics, NewsOf(t), Truth(t)' = Truth(t), NEW s \in Sockets,
           SendText(s)
    PROVE  NewsOf(t)'
<1>1. /\ s \in cast.left /\ UNCHANGED <<queue, gone>> /\ sockets' \subseteq sockets
      /\ view' = IF s \in gone THEN view ELSE [view EXCEPT ![s][cast.topic] = cast.shown]
  BY DEF SendText
<1>2. /\ LiveTypes
  BY TypeParts
<1>3. \/ cast' = NoCast /\ cast.left = {s}
      \/ cast'.topic = cast.topic /\ cast'.shown = cast.shown /\ cast'.left = cast.left \ {s}
  BY <1>2 DEF SendText, LiveTypes
<1>4. NoCast.topic # t
  BY DEF NoCast, Topics
<1>5. Queued(t)' <=> Queued(t)
  BY <1>1 DEF Queued
<1>6. \A x \in Sockets : x # s => view'[x] = view[x]
  BY <1>1, <1>2 DEF LiveTypes
<1>7. t # cast.topic => view'[s][t] = view[s][t]
  BY <1>1, <1>2 DEF LiveTypes
<1>8. t = cast.topic /\ s \notin gone => view'[s][t] = cast.shown
  BY <1>1, <1>2 DEF LiveTypes
<1>9. ~ Queued(t) => \A x \in sockets' \ gone' :
         view'[x][t] = Truth(t) \/ (cast'.topic = t /\ x \in cast'.left)
  <2> SUFFICES ASSUME ~ Queued(t), NEW x \in sockets \ gone
               PROVE  view'[x][t] = Truth(t) \/ (cast'.topic = t /\ x \in cast'.left)
    BY <1>1
  <2>1. x \in Sockets
    BY <1>2 DEF LiveTypes
  <2>2. view[x][t] = Truth(t) \/ (cast.topic = t /\ x \in cast.left)
    BY DEF NewsOf
  <2>3. cast.topic = t => cast.shown = Truth(t)
    BY DEF NewsOf
  <2>4. CASE x = s
    BY <2>2, <2>3, <2>4, <1>7, <1>8
  <2>5. CASE x # s
    BY <2>1, <2>2, <2>5, <1>3, <1>6
  <2> QED
    BY <2>4, <2>5
<1>10. ~ Queued(t) /\ cast'.topic = t => cast'.shown = Truth(t)
  BY <1>3, <1>4 DEF NewsOf
<1> QED
  BY <1>1, <1>5, <1>9, <1>10 DEF NewsOf

\* The broadcast of events to the sockets keeps the invariant.
LEMMA BroadcastKeeps ==
    ASSUME InboxInv, UNCHANGED <<world, clock>>, Broadcast
    PROVE  InboxInv'
<1>1. UNCHANGED <<team, threads, reactions, number, pager, req, clicks, excused>>
  BY DEF Broadcast, Subscribe, TakeEvent, SendText
<1>2. InboxTypes /\ LiveTypes /\ ScreenInv /\ Excuses /\ excused' \subseteq Subjects
  BY <1>1, TypeParts DEF InboxInv, Excuses, RequestTypes
<1>3. /\ RequestInv' /\ ConvInv' /\ MessageInv' /\ ReplyInv' /\ ChannelInv' /\ PageInv' /\ TeamInv'
      /\ ThreadTypes' /\ SideTypes' /\ RequestTypes' /\ \A t \in Topics : Truth(t)' = Truth(t)
  BY <1>1, <1>2, Still
<1>4. \A t \in Topics : NewsOf(t) => NewsOf(t)'
  <2> SUFFICES ASSUME NEW t \in Topics, NewsOf(t) PROVE NewsOf(t)'
    OBVIOUS
  <2>1. Truth(t)' = Truth(t)
    BY <1>3
  <2>2. CASE Subscribe
    BY <2>1, <2>2 DEF Subscribe, NewsOf, Queued
  <2> QED
    BY <2>1, <2>2, <1>2, Taken, Delivered DEF Broadcast
<1>5. ScreenInv'
  <2>1. \A t : Pending(t)' <=> Pending(t)
    BY <1>1 DEF Pending
  <2> QED
    BY <2>1, <1>1, <1>2, <1>3, <1>4 DEF ScreenInv
<1>6. LiveTypes'
  <2>1. CASE Subscribe
    BY <2>1, <1>2 DEF Subscribe, LiveTypes
  <2>2. CASE TakeEvent
    <3>1. queue \in Seq(Event) /\ queue # <<>>
      BY <2>2, <1>2 DEF TakeEvent, LiveTypes
    <3>2. Tail(queue) \in Seq(Event) /\ Head(queue) \in Event
      BY <3>1
    <3>3. /\ NoCast \in [topic : Topics \cup {Nothing}, shown : SUBSET Shown, left : SUBSET Sockets,
                         stale : SUBSET Sockets]
      BY DEF NoCast, Nothing
    <3>4. [topic |-> Head(queue).topic, shown |-> Head(queue).shown, left |-> sockets, stale |-> {}]
             \in [topic : Topics \cup {Nothing}, shown : SUBSET Shown, left : SUBSET Sockets,
                  stale : SUBSET Sockets]
      BY <3>2, <1>2 DEF Event, LiveTypes
    <3> QED
      BY <3>2, <3>3, <3>4, <2>2, <1>2 DEF TakeEvent, LiveTypes
  <2>3. ASSUME NEW s \in Sockets, SendText(s) PROVE LiveTypes'
    <3>1. PICK stale \in SUBSET Sockets :
             IF cast.left = {s}
               THEN cast' = NoCast /\ sockets' = sockets \ stale
               ELSE cast' = [cast EXCEPT !.left = @ \ {s}, !.stale = stale] /\ UNCHANGED sockets
      BY <2>3, <1>2 DEF SendText, LiveTypes
    <3>2. /\ cast' \in [topic : Topics \cup {Nothing}, shown : SUBSET Shown, left : SUBSET Sockets,
                        stale : SUBSET Sockets]
          /\ sockets' \subseteq Sockets
      <4> DEFINE Casts == [topic : Topics \cup {Nothing}, shown : SUBSET Shown, left : SUBSET Sockets,
                           stale : SUBSET Sockets]
      <4>1. cast \in Casts /\ sockets \subseteq Sockets
        BY <1>2 DEF LiveTypes
      <4>2. CASE cast.left = {s}
        BY <4>1, <4>2, <3>1 DEF NoCast, Nothing
      <4>3. CASE cast.left # {s}
        <5>1. [cast EXCEPT !.left = cast.left \ {s}, !.stale = stale] \in Casts
          BY <4>1
        <5> QED
          BY <5>1, <4>1, <4>3, <3>1
      <4> QED
        BY <4>2, <4>3
    <3>3. view' \in [Sockets -> [Topics -> SUBSET Shown]]
      <4>1. view' = view \/ view' = [view EXCEPT ![s][cast.topic] = cast.shown]
        BY <2>3 DEF SendText
      <4>2. cast.shown \in SUBSET Shown
        BY <1>2 DEF LiveTypes
      <4>3. [view[s] EXCEPT ![cast.topic] = cast.shown] \in [Topics -> SUBSET Shown]
        BY <4>2, <1>2 DEF LiveTypes
      <4> QED
        BY <4>1, <4>3, <1>2 DEF LiveTypes
    <3> QED
      BY <3>2, <3>3, <2>3, <1>2 DEF LiveTypes, SendText
  <2> QED
    BY <2>1, <2>2, <2>3 DEF Broadcast
<1>7. InboxTypes'
  BY <1>1, <1>2, <1>3, <1>6, TypeParts, TypePartsNext, TypesKept
<1> QED
  BY <1>3, <1>5, <1>7 DEF InboxInv
-----------------------------------------------------------------------------
(* Failures, time, and the beginning.                                      *)

\* What a request leaves undone concerns subjects.
LEMMA LeftoverSubjects ==
    ASSUME InboxInv, NEW r \in Requests
    PROVE  Leftover(req[r]) \subseteq Subjects
<1>1. req[r] \in Request
  BY DEF InboxInv, InboxTypes, TypeOK
<1>2. At(r, "reply", "after") => req[r].row \in Rows
  <2>1. At(r, "reply", "after") => \E x \in messages : x.id = req[r].row
    BY DEF InboxInv, ReplyInv
  <2> QED
    BY <2>1 DEF InboxInv, InboxTypes, TypeOK, Message
<1>3. req[r].on \in Subjects
  BY <1>1 DEF Request
<1>4. req[r].op = "reply" /\ req[r].step = "after" => <<"sent", req[r].row>> \in Subjects
  BY <1>2 DEF Subjects, At
<1> QED
  BY <1>3, <1>4 DEF Leftover

\* Requests end, and what they leave behind is excused.
LEMMA EndFrame ==
    ASSUME InboxInv, UNCHANGED <<team, threads, reactions, number, pager>>, Excuses,
           req' \in [Requests -> Request],
           \A q \in Requests :
              req'[q] = req[q] \/ (req'[q] = Free /\ Leftover(req[q]) \subseteq excused')
    PROVE  /\ TeamInv' /\ ConvInv' /\ MessageInv' /\ ReplyInv' /\ ChannelInv' /\ PageInv' /\ RequestInv'
           /\ UNCHANGED live => ScreenInv'
<1>1. UNCHANGED <<convs, messages, sends>> /\ Ids' = Ids
  BY DEF threads, Ids
<1>2. \A ops : Untouched(ops)
  BY DEF Untouched, Free
<1>3. TeamInv' /\ ConvInv' /\ MessageInv' /\ ChannelInv' /\ PageInv'
  BY <1>1, <1>2, TeamFrame, ConvFrame, MessageFrame, ChannelFrame, PageFrame DEF InboxInv
<1>4. ReplyInv'
  <2>1. \A q \in Requests : At(q, "reply", "after")' => req'[q] = req[q]
    BY DEF At, Free
  <2>2. \A q \in Requests : At(q, "reply", "after") =>
           req'[q] = req[q] \/ <<"sent", req[q].row>> \in excused'
    BY DEF At, Leftover
  <2> QED
    BY <2>1, <2>2, <1>1, ReplyFrame DEF InboxInv
<1>5. UNCHANGED live => ScreenInv'
  <2>1. \A t \in Topics : Truth(t)' = Truth(t)
    BY <1>1, TruthFrame
  <2>2. \A q \in Requests : Changes(req[q]) => req'[q] = req[q] \/ req[q].on \in excused'
    BY DEF Changes, Leftover
  <2> QED
    BY <2>1, <2>2, <1>2, ScreenFrame DEF InboxInv
<1>6. RequestInv'
  <2>1. \A q \in Requests : Shaped(req[q])'
    <3> SUFFICES ASSUME NEW q \in Requests PROVE Shaped(req[q])'
      OBVIOUS
    <3>1. CASE req'[q] = Free
      BY <3>1 DEF Shaped, Free
    <3>2. CASE req'[q] = req[q]
      BY <3>2, <1>1 DEF InboxInv, RequestInv, Shaped
    <3> QED
      BY <3>1, <3>2
  <2>2. \A q \in Requests : req'[q] = req[q] \/ req'[q].on = Nothing
    BY DEF Free, Nothing
  <2>3. \A q \in Requests : req'[q] = req[q] \/ req'[q].op = "none"
    BY DEF Free
  <2> QED
    BY <2>1, <2>2, <2>3 DEF InboxInv, RequestInv, Excuses
<1> QED
  BY <1>3, <1>4, <1>5, <1>6

\* What the failures have in common.
Broken ==
    /\ UNCHANGED <<team, threads, reactions, number, pager, clicks>>
    /\ Excuses /\ excused' \subseteq Subjects /\ req' \in [Requests -> Request]
    /\ \A q \in Requests :
          req'[q] = req[q] \/ (req'[q] = Free /\ Leftover(req[q]) \subseteq excused')
    /\ LiveTypes' /\ (UNCHANGED live \/ ScreenInv')

\* A request that dies excuses the subjects it leaves undone.
LEMMA RequestDiesBreaks ==
    ASSUME InboxInv, NEW r \in Requests, RequestDies(r)
    PROVE  Broken
<1>1. /\ req \in [Requests -> Request] /\ excused \subseteq Subjects /\ LiveTypes
  BY TypeParts DEF InboxInv, RequestTypes
<1>2. /\ UNCHANGED <<team, threads, reactions, number, live, pager, clicks>>
      /\ excused' = excused \cup Leftover(req[r]) /\ End(r)
  BY DEF RequestDies
<1>3. Moves(r) /\ req'[r] = Free
  BY <1>1, <1>2, EndMoves
<1>4. Leftover(req[r]) \subseteq Subjects
  BY LeftoverSubjects
<1>5. req' \in [Requests -> Request] /\ \A q \in Requests : q # r => req'[q] = req[q]
  BY <1>1, <1>3 DEF Moves
<1>6. LiveTypes'
  BY <1>1, <1>2, TypesKept
<1> QED
  BY <1>1, <1>2, <1>3, <1>4, <1>5, <1>6 DEF Broken, Excuses

\* So does a restart, of all requests,
LEMMA RestartBreaks ==
    ASSUME InboxInv, Restart
    PROVE  Broken
<1>1. /\ req \in [Requests -> Request] /\ excused \subseteq Subjects /\ LiveTypes
  BY TypeParts DEF InboxInv, RequestTypes
<1>2. /\ excused' = excused \cup UNION {Leftover(req[r]) : r \in Requests}
      /\ req' = [r \in Requests |-> Free]
      /\ listener' = "starting" /\ queue' = <<>> /\ cast' = NoCast
      /\ sockets' = {} /\ gone' = Sockets
      /\ UNCHANGED <<team, threads, reactions, number, view, pager, clicks>>
  BY DEF Restart
<1>3. \A r \in Requests : Leftover(req[r]) \subseteq Subjects
  BY LeftoverSubjects
<1>4. excused' \subseteq Subjects
  BY <1>1, <1>2, <1>3
<1>5. \A q \in Requests : req'[q] = Free /\ Leftover(req[q]) \subseteq excused'
  BY <1>2
<1>6. req' \in [Requests -> Request]
  BY <1>2, FreeRequest
<1>7. LiveTypes'
  <2>1. NoCast \in [topic : Topics \cup {Nothing}, shown : SUBSET Shown, left : SUBSET Sockets,
                    stale : SUBSET Sockets]
    BY DEF NoCast, Nothing
  <2>2. queue' \in Seq(Event)
    BY <1>2
  <2> QED
    BY <2>1, <2>2, <1>1, <1>2 DEF LiveTypes
<1>8. ScreenInv'
  <2>1. \A t \in Topics : NewsOf(t)'
    <3> SUFFICES ASSUME NEW t \in Topics PROVE NewsOf(t)'
      OBVIOUS
    <3>1. cast'.topic # t /\ Len(queue') = 0
      BY <1>2 DEF NoCast, Topics
    <3> QED
      BY <3>1, <1>2 DEF NewsOf
  <2>2. \A q \in Requests : ~ Changes(req'[q]) /\ ~ Skips(req'[q])
    BY <1>5 DEF Changes, Skips, Free
  <2> QED
    BY <2>1, <2>2 DEF ScreenInv
<1> QED
  BY <1>2, <1>4, <1>5, <1>6, <1>7, <1>8 DEF Broken, Excuses

\* and a lost connection to Redis.
LEMMA ConnectionBreaks ==
    ASSUME InboxInv, LoseConnection
    PROVE  Broken
<1>1. /\ req \in [Requests -> Request] /\ excused \subseteq Subjects /\ LiveTypes /\ ScreenInv
  BY TypeParts DEF InboxInv, RequestTypes
<1>2. /\ cast = NoCast /\ listener' = "dead" /\ queue' = <<>>
      /\ excused' = excused \cup {queue[k].topic : k \in 1..Len(queue)}
      /\ UNCHANGED <<team, threads, reactions, number, cast, sockets, gone, view, pager, req, clicks>>
  BY DEF LoseConnection
<1>3. {queue[k].topic : k \in 1..Len(queue)} \subseteq Subjects
  BY DEF InboxInv, InboxTypes, TypeOK, Subjects
<1>4. LiveTypes'
  <2>1. queue' \in Seq(Event)
    BY <1>2
  <2> QED
    BY <2>1, <1>1, <1>2 DEF LiveTypes
<1>5. \A t \in Topics : Truth(t)' = Truth(t)
  BY <1>2, TruthFrame DEF threads
<1>6. ScreenInv'
  <2>1. \A t \in Topics : t \notin excused' /\ NewsOf(t) => NewsOf(t)'
    <3> SUFFICES ASSUME NEW t \in Topics, t \notin excused', NewsOf(t) PROVE NewsOf(t)'
      OBVIOUS
    <3>1. ~ Queued(t)
      BY <1>2 DEF Queued
    <3>2. cast.topic # t /\ Len(queue') = 0
      BY <1>2 DEF NoCast, Topics
    <3>3. \A s \in sockets \ gone : view[s][t] = Truth(t)
      BY <3>1, <3>2 DEF NewsOf
    <3> QED
      BY <3>2, <3>3, <1>2, <1>5 DEF NewsOf
  <2>2. \A t : Pending(t) => Pending(t)'
    BY <1>2 DEF Pending
  <2> QED
    BY <2>1, <2>2, <1>1, <1>2, <1>5 DEF ScreenInv
<1> QED
  BY <1>1, <1>2, <1>3, <1>4, <1>6 DEF Broken, Excuses

\* Failures keep the invariant.
LEMMA FailKeeps ==
    ASSUME InboxInv, UNCHANGED <<world, clock>>, Fail
    PROVE  InboxInv'
<1>1. InboxTypes /\ world.requests \subseteq Requests
  <2>1. InboxTypes /\ world \in Worlds
    BY DEF InboxInv, InboxTypes, TypeOK
  <2> QED
    BY <2>1, BoundsAssumption
<1>2. Broken
  BY <1>1, RequestDiesBreaks, RestartBreaks, ConnectionBreaks DEF Fail
<1> USE DEF Broken
<1>3. /\ TeamInv' /\ ConvInv' /\ MessageInv' /\ ReplyInv' /\ ChannelInv' /\ PageInv' /\ RequestInv'
      /\ ScreenInv'
  BY <1>2, EndFrame
<1>4. InboxTypes'
  BY <1>1, <1>2, TypeParts, TypePartsNext, TypesKept DEF RequestTypes
<1> QED
  BY <1>3, <1>4 DEF InboxInv

\* The clock keeps the invariant.
LEMMA TickKeeps ==
    ASSUME InboxInv, UNCHANGED world, Tick
    PROVE  InboxInv'
<1>1. UNCHANGED <<team, threads, reactions, number, live, pager, req, clicks, excused>>
  BY DEF Tick
<1>2. InboxTypes /\ WorldTypes /\ Excuses /\ excused' \subseteq Subjects
  BY <1>1, TypeParts DEF InboxInv, Excuses, RequestTypes
<1>3. /\ RequestInv' /\ ConvInv' /\ MessageInv' /\ ReplyInv' /\ ChannelInv' /\ PageInv' /\ TeamInv'
      /\ ScreenInv' /\ ThreadTypes' /\ SideTypes' /\ RequestTypes'
  BY <1>1, <1>2, Still
<1>4. WorldTypes'
  <2>1. world.clock \in 0..MaxClock
    BY <1>2, BoundsAssumption DEF WorldTypes
  <2> QED
    BY <2>1, <1>1, <1>2, BoundsAssumption DEF WorldTypes, Tick
<1>5. InboxTypes'
  BY <1>1, <1>2, <1>3, <1>4, TypeParts, TypePartsNext, TypesKept
<1> QED
  BY <1>3, <1>5 DEF InboxInv

\* At the start the invariant holds.
LEMMA InboxBegins == Init => InboxInv
<1> SUFFICES ASSUME Init PROVE InboxInv
  OBVIOUS
<1> USE DEF Init
<1>1. world \in Worlds /\ world.clicks \in Nat /\ world.customers \subseteq Customers
  BY BoundsAssumption
<1>2. Home \in [Customers -> Rows] /\ \A c, d \in Customers : c # d => Home[c] # Home[d]
  BY RowsAssumption DEF Home
<1>3. \A v \in convs : /\ v.id = Home[v.customer] /\ v.customer \in Customers /\ v.created = 0
                       /\ v.updated = 0 /\ v.assignee = None /\ v \in Conversation
  BY <1>1, <1>2, BoundsAssumption DEF Conversation
<1>4. ConvInv
  <2>1. \A v, w \in convs : v.customer = w.customer => v = w
    BY <1>1
  <2>2. \A v, w \in convs : v.id = w.id => v = w
    BY <2>1, <1>2, <1>3
  <2>3. \A r \in Requests : ~ Creates(req[r])
    BY DEF Creates, Free
  <2> QED
    BY <2>1, <2>2, <2>3 DEF ConvInv
<1>5. RequestInv
  BY DEF RequestInv, Shaped, Free, Nothing
<1>6. TeamInv
  BY DEF TeamInv, Holder, Free
<1>7. MessageInv /\ ReplyInv
  BY DEF MessageInv, ReplyInv, At, Free
<1>8. ChannelInv
  BY DEF ChannelInv, NoChannel, Free, Past
<1>9. PageInv
  BY DEF PageInv, NoList
<1>10. ScreenInv
  <2>1. \A t \in Topics : NewsOf(t)
    <3> SUFFICES ASSUME NEW t \in Topics PROVE NewsOf(t)
      OBVIOUS
    <3>1. cast.topic # t /\ Len(queue) = 0
      BY DEF NoCast, Topics
    <3> QED
      BY <3>1 DEF NewsOf
  <2>2. \A q \in Requests : ~ Changes(req[q]) /\ ~ Skips(req[q])
    BY DEF Changes, Skips, Free
  <2> QED
    BY <2>1, <2>2 DEF ScreenInv
<1>11. WorldTypes /\ TeamTypes /\ RequestTypes
  BY <1>1, FreeRequest, BoundsAssumption DEF WorldTypes, TeamTypes, RequestTypes, Users
<1>12. ThreadTypes /\ SideTypes
  BY <1>3 DEF ThreadTypes, SideTypes, NoChannel
<1>13. LiveTypes
  <2>1. NoCast \in [topic : Topics \cup {Nothing}, shown : SUBSET Shown, left : SUBSET Sockets,
                    stale : SUBSET Sockets]
    BY DEF NoCast, Nothing
  <2>2. queue \in Seq(Event)
    OBVIOUS
  <2> QED
    BY <2>1, <2>2 DEF LiveTypes
<1>14. PageTypes
  BY DEF PageTypes, NoList
<1> QED
  BY <1>4, <1>5, <1>6, <1>7, <1>8, <1>9, <1>10, <1>11, <1>12, <1>13, <1>14, TypeParts DEF InboxInv

\* A step that changes nothing keeps the invariant.
LEMMA InboxStays == InboxInv /\ UNCHANGED vars => InboxInv'
<1> SUFFICES ASSUME InboxInv, UNCHANGED vars PROVE InboxInv'
  OBVIOUS
<1>1. /\ UNCHANGED <<world, clock>>
      /\ UNCHANGED <<team, threads, reactions, number, live, pager, req, clicks, excused>>
  BY DEF vars
<1>2. InboxTypes /\ Excuses /\ excused' \subseteq Subjects
  BY <1>1, TypeParts DEF InboxInv, Excuses, RequestTypes
<1>3. /\ RequestInv' /\ ConvInv' /\ MessageInv' /\ ReplyInv' /\ ChannelInv' /\ PageInv' /\ TeamInv'
      /\ ScreenInv' /\ ThreadTypes' /\ SideTypes' /\ RequestTypes'
  BY <1>1, <1>2, Still
<1>4. InboxTypes'
  BY <1>1, <1>2, <1>3, TypeParts, TypePartsNext, TypesKept
<1> QED
  BY <1>3, <1>4 DEF InboxInv

\* Every step keeps the invariant.
LEMMA InboxKept == InboxInv /\ [Next]_vars => InboxInv'
<1> SUFFICES ASSUME InboxInv, Next PROVE InboxInv'
  BY InboxStays
<1>1. world.requests \subseteq Requests
  <2>1. world \in Worlds
    BY DEF InboxInv, InboxTypes, TypeOK
  <2> QED
    BY <2>1, BoundsAssumption
<1>2. CASE Tick
  BY <1>2, TickKeeps DEF Next
<1>3. ASSUME UNCHANGED clock, NEW r \in Requests, Serve(r) PROVE InboxInv'
  <2>1. UNCHANGED <<world, clock>>
    BY <1>3 DEF Next
  <2>2. \/ TeamStep(r) \/ ConnectStep(r) \/ ReplyStep(r) \/ ThreadStep(r) \/ AssignStep(r)
        \/ ReactStep(r) \/ Publish(r)
    BY <1>3 DEF Serve, TeamStep, ConnectStep, ReplyStep, ThreadStep, AssignStep, ReactStep
  <2> QED
    BY <2>1, <2>2, TeamKeeps, ConnectKeeps, ReplyKeeps, ThreadKeeps, AssignKeeps, ReactKeeps,
       PublishKeeps
<1>4. ASSUME UNCHANGED clock, Client PROVE InboxInv'
  <2>1. UNCHANGED <<world, clock>>
    BY <1>4 DEF Next
  <2>2. \/ \E i \in Invites : CreateInvite(i) \/ InviteExpires(i)
        \/ \E s \in Sockets : OpenSocket(s) \/ ClientLeaves(s) \/ Disconnect(s)
        \/ NextPage \/ \E of \in {0} \cup {c.id : c \in convs} : OpenList(of)
    BY <1>4 DEF Client
  <2> QED
    BY <2>1, <2>2, InviteKeeps, SocketKeeps, ListKeeps
<1>5. ASSUME UNCHANGED clock, Fail \/ Broadcast \/ \E r \in Requests : Call(r) PROVE InboxInv'
  <2>1. UNCHANGED <<world, clock>>
    BY <1>5 DEF Next
  <2> QED
    BY <2>1, <1>5, FailKeeps, BroadcastKeeps, CallKeeps
<1> QED
  BY <1>1, <1>2, <1>3, <1>4, <1>5 DEF Next

\* The invariant of the inbox: of the team, the conversations, the messages, the replies,
\* the number, the lists and the screens, for any number of requests that run together
\* and die at any step (the handlers of the staff, conversation, channel and realtime
\* routers).
THEOREM InboxAlways == Spec => []InboxInv
<1>1. Init => InboxInv
  BY InboxBegins
<1>2. InboxInv /\ [Next]_vars => InboxInv'
  BY InboxKept
<1> QED
  BY <1>1, <1>2, PTL DEF Spec

-----------------------------------------------------------------------------
\* A set whose members are all the same has one at most.
LEMMA AtMostOne ==
    ASSUME NEW S, \A m, n \in S : m = n
    PROVE  Cardinality(S) <= 1
<1>1. CASE S = {}
  BY <1>1, FS_EmptySet
<1>2. CASE S # {}
  <2>1. PICK m : S = {m}
    BY <1>2
  <2>2. Cardinality(S) = 1
    BY <2>1, FS_Singleton
  <2> QED
    BY <2>2
<1> QED
  BY <1>1, <1>2

\* An invite admits one person, unless two accept it in the same moment, and an address
\* gets one account, whatever overlaps (accept_invite, email_signup, google_signup): an
\* invite that has let somebody in is used up before another request may look at it, and
\* the unique e-mail address makes the second INSERT wait and fail.
THEOREM InvitesAreSingleUse == Spec => []InviteAdmitsOne
<1>1. InboxInv => InviteAdmitsOne
  <2> SUFFICES ASSUME InboxInv, NEW i \in Invites
               PROVE  /\ Cardinality(admitted[i]) <= 1 \/ <<"invite", i>> \in excused
                      /\ \A j \in Invites \ {i} : admitted[i] \cap admitted[j] = {}
                      /\ admitted[i] \cap founders = {}
    BY DEF InviteAdmitsOne
  <2>1. TeamInv
    BY DEF InboxInv
  <2>2. <<"invite", i>> \in excused \/ \A m, n \in admitted[i] : m = n
    BY <2>1 DEF TeamInv
  <2>3. (\A m, n \in admitted[i] : m = n) => Cardinality(admitted[i]) <= 1
    BY AtMostOne
  <2> QED
    BY <2>1, <2>2, <2>3 DEF TeamInv
<1> QED
  BY <1>1, InboxAlways, PTL

\* A customer has one conversation, with each of her messages once, however often
\* WhatsApp delivers it, unless the dashboard opened a conversation with her in the moment
\* in which she wrote (get_or_create_conversation, save_message): whoever will make a
\* conversation has found none, and alone may make it.
THEOREM CustomersHaveOneThread == Spec => []OneThreadPerCustomer
<1>1. InboxInv => OneThreadPerCustomer
  <2> SUFFICES ASSUME InboxInv, NEW c \in Customers, <<"customer", c>> \notin excused
               PROVE  /\ Cardinality({v \in convs : v.customer = c}) <= 1
                      /\ \A x \in Wamids :
                            Cardinality({m \in messages : m.ext = x /\ Row(m.conv).customer = c}) <= 1
    BY DEF OneThreadPerCustomer, InboxInv, InboxTypes
  <2>1. ConvInv /\ MessageInv /\ Unique
    BY DEF InboxInv, ConvInv, Unique
  <2>2. \A v, w \in convs : v.customer = c /\ w.customer = c => v = w
    BY <2>1 DEF ConvInv
  <2>3. Cardinality({v \in convs : v.customer = c}) <= 1
    BY <2>2, AtMostOne
  <2>4. ASSUME NEW x \in Wamids
        PROVE  Cardinality({m \in messages : m.ext = x /\ Row(m.conv).customer = c}) <= 1
    <3>1. \A m \in messages : Row(m.conv) \in convs /\ Row(m.conv).id = m.conv
      <4> SUFFICES ASSUME NEW m \in messages
                   PROVE  Row(m.conv) \in convs /\ Row(m.conv).id = m.conv
        OBVIOUS
      <4>1. PICK v \in convs : v.id = m.conv
        BY <2>1 DEF MessageInv, Ids
      <4> QED
        BY <4>1, <2>1, RowIs
    <3>2. x # None
      BY <2>4, NamesAssumption
    <3>3. \A m, n \in messages :
             /\ m.ext = x /\ Row(m.conv).customer = c
             /\ n.ext = x /\ Row(n.conv).customer = c
             => m = n
      <4> SUFFICES ASSUME NEW m \in messages, m.ext = x, Row(m.conv).customer = c,
                          NEW n \in messages, n.ext = x, Row(n.conv).customer = c
                   PROVE  m = n
        OBVIOUS
      <4>1. m.conv = n.conv
        BY <3>1, <2>2
      <4> QED
        BY <4>1, <3>2, <2>1 DEF MessageInv
    <3>4. PICK T : T = {m \in messages : m.ext = x /\ Row(m.conv).customer = c}
      OBVIOUS
    <3>5. \A m, n \in T : m = n
      BY <3>3, <3>4
    <3> QED
      BY <3>4, <3>5, AtMostOne
  <2> QED
    BY <2>3, <2>4
<1> QED
  BY <1>1, InboxAlways, PTL

\* A reply goes out at most once, and is stored before; a reply that is stored goes out or
\* its request still will, unless the request died (add_message, _dispatch_reply): only
\* the request that stored a reply sends it, and the unique external id makes a second
\* post of it fail.
THEOREM RepliesGoOutOnce == Spec => []ReplyGoesOutOnce
<1>1. InboxInv => ReplyGoesOutOnce
  BY DEF InboxInv, ReplyInv, MessageInv, ReplyGoesOutOnce
<1> QED
  BY <1>1, InboxAlways, PTL

\* A number that is stored as registered is subscribed with Meta, unless two requests
\* connected numbers at once (connect, upsert, mark_webhook_registered): the flag is set
\* in the transaction that stores the number it was subscribed for.
THEOREM FlagIsTrue == Spec => []RegisteredIsSubscribed
<1>1. InboxInv => RegisteredIsSubscribed
  BY DEF InboxInv, ChannelInv, RegisteredIsSubscribed
<1> QED
  BY <1>1, InboxAlways, PTL

\* Whoever reads a list to its end has seen each row that did not move meanwhile exactly
\* once (list_conversations, list_messages), for every page size and whatever the
\* timestamps: the id breaks the ties, so that what is not after the cursor has been on a
\* page.
THEOREM ListsAreComplete == Spec => []PagesMissNothing
<1>1. InboxInv => PagesMissNothing
  <2> SUFFICES ASSUME InboxInv, NEW x \in pager.owed
               PROVE  pager.seen[x] <= 1 /\ (pager.state = "end" => pager.seen[x] = 1)
    BY DEF PagesMissNothing
  <2>1. PageInv /\ pager.state \in {"closed", "first", "next", "end"}
    BY DEF InboxInv, InboxTypes
  <2>2. PICK k \in Keys(pager.of) : k[2] = x
    BY <2>1 DEF PageInv
  <2>3. pager.seen[x] \in {0, 1}
    BY <2>1, <2>2 DEF PageInv
  <2> QED
    BY <2>1, <2>3 DEF PageInv
<1> QED
  BY <1>1, InboxAlways, PTL

\* A screen shows what is stored as soon as no event about it is on its way, whatever
\* sockets came, left or failed (assign_conversation, react_to_message, broadcast), unless
\* the change is excused: the last event in the queue is what is stored, as the only
\* request that changes a topic publishes what it committed.
THEOREM ScreensCatchUp == Spec => []ScreensAreCurrent
<1>1. InboxInv => ScreensAreCurrent
  <2> SUFFICES ASSUME InboxInv, NEW s \in sockets \ gone, NEW t \in Topics \ excused
               PROVE  \/ view[s][t] = Truth(t)
                      \/ \E r \in Requests : req[r].on = t /\ req[r].step \in {"fetch", "after"}
                      \/ \E k \in 1..Len(queue) : queue[k].topic = t
                      \/ cast.topic = t /\ s \in cast.left
    BY DEF ScreensAreCurrent
  <2>1. Pending(t) \/ NewsOf(t)
    BY DEF InboxInv, ScreenInv
  <2>2. CASE Pending(t)
    BY <2>2 DEF Pending, Changes
  <2>3. CASE NewsOf(t)
    BY <2>3 DEF NewsOf, Queued
  <2> QED
    BY <2>1, <2>2, <2>3
<1> QED
  BY <1>1, InboxAlways, PTL
=============================================================================
