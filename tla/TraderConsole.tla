--------------------------- MODULE TraderConsole ---------------------------
(***************************************************************************)
(* The trader's side of WhatsApp: menus, flows of several messages, and    *)
(* the edits of the catalogue, the bank account and the category.  All     *)
(* messages of the trader pass through one listener task, which handles    *)
(* one after the other.  It works on the trader record that Redis caches   *)
(* by phone number, while the dashboard edits the catalogue in the         *)
(* database, sessions and cached records expire, and the process may stop  *)
(* between any two steps.                                                  *)
(***************************************************************************)
EXTENDS Naturals

CONSTANTS
    Products,       \* names of products
    Prices,         \* prices of products
    Accounts,       \* bank accounts that a trader may type
    Categories,     \* business categories
    Segments,       \* segments of the trader's customers
    MaxPhotos,      \* _MAX_PRICELIST_PHOTOS
    MaxTexts,       \* bound: texts collected for one price list
    MaxPreviews     \* bound: previews of broadcasts

VARIABLES
    trader,         \* the row of the trader, as committed
    cache,          \* the record cached under the phone number: a set of one, or empty
    session,        \* trader:session, the flow that the trader is in
    job,            \* the message that the listener is handling
    page,           \* the dashboard's page with the catalogue
    broadcasts,     \* stored broadcasts, each named by the preview it was made from
    previews,       \* number of previews shown
    wanted,         \* the prices asked for, edit by edit
    question,       \* the last question put to the trader, until she answers or leaves
    disturbed       \* chat and dashboard overlapped, or a writer died half-way

consoleVars == <<trader, cache, session, job, page, broadcasts, previews,
          wanted, question, disturbed>>

ASSUME PricesAssumption == Prices \subseteq Nat \ {0}
ASSUME ConsoleBoundsAssumption ==
    MaxPhotos \in Nat \ {0} /\ MaxTexts \in Nat /\ MaxPreviews \in Nat

-----------------------------------------------------------------------------
NoAccount == "no account"
NoProduct == "no product"
NoSegment == "no segment"
NoCategory == "no category"

\* A product that is not in the catalogue has the price 0.
Catalogue == [Products -> Prices \cup {0}]

Trader == [prices : Catalogue, bank : Accounts \cup {NoAccount},
           category : Categories \cup {NoCategory}]

Blank == [prices |-> [p \in Products |-> 0], bank |-> NoAccount, category |-> NoCategory]

\* TRADER_AWAITING_*.  awaiting_credit_partial is never entered: the handler that
\* would enter it raises first.
Kinds == {"photo product", "bank details", "bank confirm", "counter price",
          "pricelist photo", "pricelist confirm", "add", "price value",
          "broadcast segment", "broadcast wide", "broadcast message", "broadcast confirm"}

\* count: texts collected for a price list, or the number of a preview.
Session == [kind : Kinds \cup {"none"}, product : Products \cup {NoProduct},
            price : Prices \cup {0}, account : Accounts \cup {NoAccount},
            segment : Segments \cup {NoSegment}, count : Nat]

NoSession == [kind |-> "none", product |-> NoProduct, price |-> 0, account |-> NoAccount,
              segment |-> NoSegment, count |-> 0]

Awaiting(kind) == [NoSession EXCEPT !.kind = kind]

\* What the listener does next:
\*   fill     cache the record it read      refresh  read the cached record
\*   act      handle the message            store    write it back with the edit
\*   commit   write the row of the trader   insert   store the broadcast
Steps == {"idle", "fill", "act", "commit", "refresh", "store", "insert"}
Fields == {"none", "prices", "bank", "category"}

\* held: the record that the handler works on; field and new: its edit; copy: the
\* cached record that it read; answers: the question that the trader's YES answers;
\* blind: Paystack could not look the account up; preview: the broadcast to store.
Job == [step : Steps, held : Trader, field : Fields, new : Trader, copy : SUBSET Trader,
        answers : Session, blind : BOOLEAN, preview : Nat]

Idle == [step |-> "idle", held |-> Blank, field |-> "none", new |-> Blank, copy |-> {},
         answers |-> NoSession, blind |-> FALSE, preview |-> 0]

\* The dashboard: the catalogue that the page shows, the one that it sends.
Page == [step : {"closed", "open", "refresh", "store"}, seen : Catalogue, new : Catalogue,
         copy : SUBSET Trader]

Closed == [step |-> "closed", seen |-> Blank.prices, new |-> Blank.prices, copy |-> {}]

\* repo.update_catalogue, update_bank_details, update_category.
Put(record, field, new) ==
    [prices   |-> IF field = "prices" THEN new.prices ELSE record.prices,
     bank     |-> IF field = "bank" THEN new.bank ELSE record.bank,
     category |-> IF field = "category" THEN new.category ELSE record.category]

\* The wish of an edit: the products that it changes, compared to what its author saw.
\* Recorded until chat and dashboard overlap.
Wish(seen, new) ==
    wanted' = IF disturbed THEN Blank.prices
              ELSE [p \in Products |-> IF new[p] # seen[p] THEN new[p] ELSE wanted[p]]

ConsoleInit ==
    /\ trader \in [prices : Catalogue, bank : {NoAccount}, category : Categories]
    /\ cache = {}
    /\ session = NoSession
    /\ job = Idle
    /\ page = Closed
    /\ broadcasts = {}
    /\ previews = 0
    /\ wanted = trader.prices
    /\ question = NoSession
    /\ disturbed = FALSE

stored == <<trader, cache, page, broadcasts, wanted, disturbed>>

-----------------------------------------------------------------------------
(* Receiving a message: the trader record, cached or read from the         *)
(* database, then the session.                                             *)

Overlaps == page.step # "closed"

CacheHit ==
    /\ job.step = "idle"
    /\ \E r \in cache : job' = [Idle EXCEPT !.step = "act", !.held = r]
    /\ disturbed' = (disturbed \/ Overlaps)
    /\ UNCHANGED <<trader, cache, session, page, broadcasts, previews,
                   wanted, question>>

CacheMiss ==
    /\ job.step = "idle"
    /\ cache = {}
    /\ job' = [Idle EXCEPT !.step = "fill", !.held = trader]
    /\ disturbed' = (disturbed \/ Overlaps)
    /\ UNCHANGED <<trader, cache, session, page, broadcasts, previews,
                   wanted, question>>

FillCache ==
    /\ job.step = "fill"
    /\ cache' = {job.held}
    /\ job' = [job EXCEPT !.step = "act"]
    /\ UNCHANGED <<trader, session, page, broadcasts, previews, wanted,
                   question, disturbed>>

-----------------------------------------------------------------------------
(* What a handler may do with the session, the question and the job.       *)

Acting(kinds) == job.step = "act" /\ session.kind \in kinds

\* set_trader_session, then the prompt.
Ask(s) ==
    /\ session' = s
    /\ question' = s

\* clear_trader_session.
Leave ==
    /\ session' = NoSession
    /\ question' = NoSession

Finish == job' = Idle

\* _persist_catalogue, _save_bank_details, _do_change_category.
Save(field, new, answers, blind) ==
    job' = [job EXCEPT !.step = "commit", !.field = field, !.new = Put(Blank, field, new),
                       !.answers = answers, !.blind = blind]

Priced(p, v) == [job.held EXCEPT !.prices[p] = v]

InCatalogue(p) == job.held.prices[p] # 0

\* Flows that _handle_trader_session leaves to the commands.
Passing == {"none", "broadcast segment", "broadcast wide", "broadcast confirm"}

Command == Acting(Passing)

-----------------------------------------------------------------------------
(* _handle_trader_session: a message that belongs to the open flow.        *)

\* Mutant: CANCEL answers and leaves the session in Redis.
EscapeKeepsSession ==
    /\ Acting(Kinds)
    /\ question' = NoSession /\ Finish
    /\ UNCHANGED <<stored, session, previews>>

\* CANCEL, MENU, BACK, STOP and the button under every prompt.
Escape ==
    /\ Acting(Kinds)
    /\ Leave /\ Finish
    /\ UNCHANGED <<stored, previews>>

\* awaiting_photo_product: a name or a PHOT_ tap.  The table of
\* pictures is left out: no flow reads it.
PickPhotoProduct ==
    /\ Acting({"photo product"})
    /\ Leave /\ Finish
    /\ UNCHANGED <<stored, previews>>

\* awaiting_bank_details.  A text that is no account and a bank that is not known
\* close the flow, though the reply asks for the account again.
BankDetails(a) ==
    /\ Acting({"bank details"})
    /\ \/ Leave /\ Finish
       \/ Ask([Awaiting("bank confirm") EXCEPT !.account = a]) /\ Finish
       \/ Leave /\ Save("bank", [job.held EXCEPT !.bank = a], NoSession, TRUE)
    /\ UNCHANGED <<stored, previews>>

\* awaiting_bank_confirm.
BankYes ==
    /\ Acting({"bank confirm"})
    /\ Leave
    /\ Save("bank", [job.held EXCEPT !.bank = session.account], question, FALSE)
    /\ UNCHANGED <<stored, previews>>

BankNo ==
    /\ Acting({"bank confirm"})
    /\ Ask(Awaiting("bank details")) /\ Finish
    /\ UNCHANGED <<stored, previews>>

\* awaiting_counter_price: the order and its negotiation are in CustomerChat.
CounterPrice ==
    /\ Acting({"counter price"})
    /\ Leave /\ Finish
    /\ UNCHANGED <<stored, previews>>

\* _process_pricelist_texts: nothing found, or a list to confirm.
ProcessPricelist ==
    \/ Leave
    \/ \E p \in Products, v \in Prices :
          Ask([Awaiting("pricelist confirm") EXCEPT !.product = p, !.price = v])

\* awaiting_pricelist_photo.  A photo that cannot be read leaves the flow as it is; only
\* a photo looks at the limit, a text does not.
PricelistPhoto ==
    /\ Acting({"pricelist photo"})
    /\ session.count < MaxTexts
    /\ \/ Ask(session)
       \/ session.count + 1 >= MaxPhotos /\ ProcessPricelist
       \/ session.count + 1 < MaxPhotos /\ Ask([session EXCEPT !.count = @ + 1])
    /\ Finish
    /\ UNCHANGED <<stored, previews>>

PricelistText ==
    /\ Acting({"pricelist photo"})
    /\ session.count < MaxTexts
    /\ Ask([session EXCEPT !.count = @ + 1])
    /\ Finish
    /\ UNCHANGED <<stored, previews>>

PricelistDone ==
    /\ Acting({"pricelist photo"})
    /\ IF session.count = 0 THEN Ask(session) ELSE ProcessPricelist
    /\ Finish
    /\ UNCHANGED <<stored, previews>>

\* awaiting_pricelist_confirm.
PricelistYes ==
    /\ Acting({"pricelist confirm"})
    /\ Leave
    /\ Save("prices", Priced(session.product, session.price), question, FALSE)
    /\ UNCHANGED <<stored, previews>>

PricelistNo ==
    /\ Acting({"pricelist confirm"})
    /\ Leave /\ Finish
    /\ UNCHANGED <<stored, previews>>

\* awaiting_add.  A text that is no product closes the flow, though the reply asks again.
AddAnswer(p, v) ==
    /\ Acting({"add"})
    /\ Leave
    /\ Finish \/ Save("prices", Priced(p, v), NoSession, FALSE)
    /\ UNCHANGED <<stored, previews>>

\* awaiting_price_value, and _do_update_price.
PriceAnswer(v) ==
    /\ Acting({"price value"})
    /\ Leave
    /\ \/ Finish
       \/ InCatalogue(session.product)
          /\ Save("prices", Priced(session.product, v), NoSession, FALSE)
    /\ UNCHANGED <<stored, previews>>

\* awaiting_broadcast_message: a text of poor quality leaves the flow as it is.
Compose ==
    /\ Acting({"broadcast message"})
    /\ \/ Ask(session) /\ UNCHANGED previews
       \/ /\ previews < MaxPreviews
          /\ previews' = previews + 1
          /\ Ask([Awaiting("broadcast confirm") EXCEPT !.segment = session.segment,
                                                       !.count = previews + 1])
    /\ Finish
    /\ UNCHANGED stored

-----------------------------------------------------------------------------
(* handle_trader_command: taps and typed commands outside those flows.     *)

\* SUB_*, MENU_*, lists, status WHO IS, REFER, text that is no command: only replies.
Look ==
    /\ Command
    /\ Finish
    /\ UNCHANGED <<stored, session, question, previews>>

\* MENU_ADD, MENU_BANK or BANK, MENU_PRICELIST or PRICELIST, NEGCOUNTER.
OpenFlow(kind) ==
    /\ Command
    /\ Ask(Awaiting(kind)) /\ Finish
    /\ UNCHANGED <<stored, previews>>

\* PR_<product>.
PickPrice(p) ==
    /\ Command
    /\ InCatalogue(p)
    /\ Ask([Awaiting("price value") EXCEPT !.product = p]) /\ Finish
    /\ UNCHANGED <<stored, previews>>

\* ADD.
AddProduct(p, v) ==
    /\ Command
    /\ Save("prices", Priced(p, v), NoSession, FALSE)
    /\ UNCHANGED <<stored, session, question, previews>>

\* RM_<product>, REMOVE.
RemoveProduct(p) ==
    /\ Command
    /\ InCatalogue(p)
    /\ Save("prices", Priced(p, 0), NoSession, FALSE)
    /\ UNCHANGED <<stored, session, question, previews>>

\* PRICE.
UpdatePrice(p, v) ==
    /\ Command
    /\ InCatalogue(p)
    /\ Save("prices", Priced(p, v), NoSession, FALSE)
    /\ UNCHANGED <<stored, session, question, previews>>

\* CAT_<category>.
ChangeCategory(c) ==
    /\ Command
    /\ Save("category", [job.held EXCEPT !.category = c], NoSession, FALSE)
    /\ UNCHANGED <<stored, session, question, previews>>

\* _handle_trader_product_photo: the caption names a product, or the trader is asked.
ProductPhoto ==
    /\ Command
    /\ \E p \in Products : InCatalogue(p)
    /\ UNCHANGED <<session, question>> \/ Ask(Awaiting("photo product"))
    /\ Finish
    /\ UNCHANGED <<stored, previews>>

\* BROADCAST: _start_broadcast_flow, with customers.
StartBroadcast ==
    /\ Command
    /\ Ask(Awaiting("broadcast segment")) /\ Finish
    /\ UNCHANGED <<stored, previews>>

\* BCSEG_<segment>, from whatever list it was tapped: nobody there or too soon, a
\* hundred customers or more, or fewer.
SelectSegment(s) ==
    /\ Command
    /\ \/ Leave
       \/ \E kind \in {"broadcast wide", "broadcast message"} :
             Ask([Awaiting(kind) EXCEPT !.segment = s])
    /\ Finish
    /\ UNCHANGED <<stored, previews>>

\* BCWIDEYES.
WideYes ==
    /\ Acting({"broadcast wide"})
    /\ Ask([session EXCEPT !.kind = "broadcast message"]) /\ Finish
    /\ UNCHANGED <<stored, previews>>

\* BCYES, BCNO.
BroadcastYes ==
    /\ Acting({"broadcast confirm"})
    /\ Leave
    /\ job' = [job EXCEPT !.step = "insert", !.preview = session.count, !.answers = question]
    /\ UNCHANGED <<stored, previews>>

BroadcastNo ==
    /\ Acting({"broadcast confirm"})
    /\ Leave /\ Finish
    /\ UNCHANGED <<stored, previews>>

-----------------------------------------------------------------------------
(* The rest of a handler, one await after the other.                       *)

\* The handler's own transaction on the row of the trader.
Commit ==
    /\ job.step = "commit"
    /\ trader' = Put(trader, job.field, job.new)
    /\ Wish(job.held.prices, IF job.field = "prices" THEN job.new.prices ELSE job.held.prices)
    /\ job' = [Idle EXCEPT !.step = "refresh", !.field = job.field, !.new = job.new]
    /\ UNCHANGED <<cache, session, page, broadcasts, previews, question,
                   disturbed>>

ReadCached ==
    /\ job.step = "refresh"
    /\ job' = IF cache = {} THEN Idle ELSE [job EXCEPT !.step = "store", !.copy = cache]
    /\ UNCHANGED <<trader, cache, session, page, broadcasts, previews,
                   wanted, question, disturbed>>

WriteCached ==
    /\ job.step = "store"
    /\ cache' = {Put(r, job.field, job.new) : r \in job.copy}
    /\ Finish
    /\ UNCHANGED <<trader, session, page, broadcasts, previews, wanted,
                   question, disturbed>>

\* The broadcast and its recipients, in one transaction.  The task that is then started
\* to send it is in Outreach.
InsertBroadcast ==
    /\ job.step = "insert"
    /\ broadcasts' = broadcasts \cup {job.preview}
    /\ Finish
    /\ UNCHANGED <<trader, cache, session, page, previews, wanted,
                   question, disturbed>>

\* A step raises, or the process stops: the message is lost.
Die ==
    /\ job.step # "idle"
    /\ Finish
    /\ disturbed' = (disturbed \/ job.step \in {"refresh", "store"})
    /\ UNCHANGED <<trader, cache, session, page, broadcasts, previews,
                   wanted, question>>

-----------------------------------------------------------------------------
(* The dashboard, the clock.                                               *)

\* GET /catalogue.
OpenPage ==
    /\ page.step = "closed"
    /\ page' = [Closed EXCEPT !.step = "open", !.seen = trader.prices]
    /\ disturbed' = (disturbed \/ job.step # "idle")
    /\ UNCHANGED <<trader, cache, session, job, broadcasts, previews,
                   wanted, question>>

ClosePage ==
    /\ page.step = "open"
    /\ page' = Closed
    /\ UNCHANGED <<trader, cache, session, job, broadcasts, previews,
                   wanted, question, disturbed>>

\* PUT /catalogue: the whole catalogue of the page, with one product edited.
PutCatalogue(p, v) ==
    /\ page.step = "open"
    /\ LET new == [page.seen EXCEPT ![p] = v] IN
          /\ trader' = [trader EXCEPT !.prices = new]
          /\ Wish(page.seen, new)
          /\ page' = [Closed EXCEPT !.step = "refresh", !.new = new]
    /\ UNCHANGED <<cache, session, job, broadcasts, previews, question,
                   disturbed>>

PageReadsCached ==
    /\ page.step = "refresh"
    /\ page' = IF cache = {} THEN Closed ELSE [page EXCEPT !.step = "store", !.copy = cache]
    /\ UNCHANGED <<trader, cache, session, job, broadcasts, previews,
                   wanted, question, disturbed>>

\* Mutant: the dashboard deletes no cached record and updates none.
PageForgetsCached ==
    /\ page.step = "store"
    /\ page' = Closed
    /\ UNCHANGED <<trader, cache, session, job, broadcasts, previews, wanted, question,
                   disturbed>>

PageWritesCached ==
    /\ page.step = "store"
    /\ cache' = {[r EXCEPT !.prices = page.new] : r \in page.copy}
    /\ page' = Closed
    /\ UNCHANGED <<trader, session, job, broadcasts, previews, wanted,
                   question, disturbed>>

\* Ten minutes without a message: the trader may still answer the question.
SessionExpires ==
    /\ session # NoSession
    /\ session' = NoSession
    /\ UNCHANGED <<stored, job, question, previews>>

CacheExpires ==
    /\ cache # {}
    /\ cache' = {}
    /\ UNCHANGED <<trader, session, job, page, broadcasts, previews,
                   wanted, question, disturbed>>

-----------------------------------------------------------------------------
Receive == CacheHit \/ CacheMiss \/ FillCache

Flow ==
    \/ Escape \/ PickPhotoProduct \/ BankYes \/ BankNo \/ CounterPrice \/ PricelistPhoto
    \/ PricelistText \/ PricelistDone \/ PricelistYes \/ PricelistNo \/ Compose
    \/ \E a \in Accounts : BankDetails(a)
    \/ \E p \in Products, v \in Prices : AddAnswer(p, v)
    \/ \E v \in Prices : PriceAnswer(v)

\* _handle_menu_tap: rows of the menus, first those about the store.
StoreMenuTap ==
    Look \/ \E kind \in {"add", "bank details", "pricelist photo"} : OpenFlow(kind)

SalesMenuTap == Look \/ StartBroadcast

\* Rows of the pickers, and buttons.
PickerTap ==
    \/ WideYes \/ BroadcastYes \/ BroadcastNo
    \/ \E p \in Products : PickPrice(p) \/ RemoveProduct(p)
    \/ \E c \in Categories : ChangeCategory(c)
    \/ \E s \in Segments : SelectSegment(s)

\* NEGCOUNTER; NEGACCEPT and NEGDECLINE leave the trader's record and session alone.
BargainTap == OpenFlow("counter price")

\* DEBTACT and ORDACT show a debt or an order with the buttons that its state allows.
DebtTap == Look
OrderTap == Look

\* What _layer1 recognises as a command, orders and debts apart.
CatalogueCommand ==
    \/ Look \/ OpenFlow("bank details") \/ OpenFlow("pricelist photo")
    \/ \E p \in Products : RemoveProduct(p)
    \/ \E p \in Products, v \in Prices : AddProduct(p, v) \/ UpdatePrice(p, v)

CustomerCommand == Look \/ StartBroadcast

\* Anything else: a photo, a personal message, a command attempt answered by the menu.
OtherMessage == ProductPhoto \/ Look

Commands ==
    \/ StoreMenuTap \/ SalesMenuTap \/ PickerTap \/ BargainTap \/ DebtTap \/ OrderTap
    \/ CatalogueCommand \/ CustomerCommand \/ OtherMessage

Continue == Commit \/ ReadCached \/ WriteCached \/ InsertBroadcast \/ Die

Dashboard ==
    \/ OpenPage \/ ClosePage \/ PageReadsCached \/ PageWritesCached
    \/ \E p \in Products, v \in Prices \cup {0} : PutCatalogue(p, v)

ConsoleNext ==
    Receive \/ Flow \/ Commands \/ Continue \/ Dashboard \/ SessionExpires \/ CacheExpires

ConsoleSpec == ConsoleInit /\ [][ConsoleNext]_consoleVars

-----------------------------------------------------------------------------
(* Properties.                                                             *)

\* All variables keep their types.
ConsoleTypeOK ==
    /\ trader \in Trader
    /\ cache \in SUBSET Trader
    /\ session \in Session
    /\ job \in Job
    /\ page \in Page
    /\ broadcasts \in SUBSET Nat
    /\ previews \in Nat
    /\ wanted \in Catalogue
    /\ question \in Session
    /\ disturbed \in BOOLEAN

\* As long as chat and dashboard take turns and no writer dies half-way, no edit is ever
\* lost: the catalogue holds every price as last asked for, and the cached record, if
\* there is one, is the row.  Each handler writes back the whole catalogue of the cached
\* record (_persist_catalogue), so a cached record that missed one edit would undo it.
SerialEditsStick ==
    ~disturbed /\ job.step = "idle" /\ page.step = "closed" =>
        /\ trader.prices = wanted
        /\ cache \subseteq {trader}

\* A YES puts in force only what the last open question was about: the account shown
\* with its holder's name (unless Paystack could not look it up), the price list shown,
\* the broadcast previewed; never a question that the trader left, answered with NO or
\* replaced by another (_handle_trader_session, _handle_broadcast_confirm).  All
\* variables keep their types.
YesAnswersTheQuestion ==
    /\ ConsoleTypeOK
    /\ job.step = "commit" /\ job.field = "bank" /\ ~job.blind =>
          /\ job.answers.kind = "bank confirm"
          /\ job.new.bank = job.answers.account
    /\ job.step = "insert" =>
          /\ job.answers.kind = "broadcast confirm"
          /\ job.preview = job.answers.count
    /\ job.answers.kind = "pricelist confirm" =>
          job.new.prices[job.answers.product] = job.answers.price
=============================================================================
