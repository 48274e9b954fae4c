# ChatToSales in TLA+

ChatToSales (`src/app`) is the backend of a WhatsApp sales assistant for traders:
customers write to a trader's number, the messages become orders, orders are
confirmed, paid online, in cash or on credit, and the trader runs the shop with
commands and buttons in the chat or from a web dashboard. This directory holds TLA+
models of its core, the TLC runs that check them on small instances, and TLAPS
proofs of the properties that matter most for every instance.

Run a model with `tlc -config MCPayments_checkout.cfg MCPayments` and check proofs
with `tlapm Payments_Proofs.tla`. `PROJECT.json` lists every run, the source lines
behind every definition, the hazards, the mutants and the theorems.

## 1. The system

One Python process (FastAPI on asyncio, one worker) with PostgreSQL and Redis.

* **HTTP handlers** (dashboard, Meta's and Paystack's webhooks) run concurrently,
  each with a database session of its own (`core/dependencies.py`).
* **Listener tasks** (`main.py`, `infra/event_bus.py`): one per event name, each
  handles one event at a time. A handler's exception is logged and swallowed.
* **Redis** carries events by pub/sub: best effort, gone when nobody is subscribed.
  It also holds chat and onboarding sessions and caches, with expiry times.
* **PostgreSQL** runs at READ COMMITTED. Sessions are opened with
  `expire_on_commit=False, autoflush=False`; an UPDATE names the id and the changed
  columns only. No row carries a version.

So any `await` between a read and a write is a place where another handler runs, and
the only things that exclude one another are row locks and unique indexes.

### Components

| Component | State | Operations | Interacts with |
|---|---|---|---|
| Order state machine (`orders/state_machine.py`) | `orders.state` | the transition table | everything that moves orders |
| Order service (`orders/service.py`) | orders, items, customer list, referral | create, confirm, pay, cancel, by dashboard, chat commands, buttons and listeners | publishes `order.*`; listens to `payment.confirmed`, `credit_sale.status_changed`, `conversation.message_saved` |
| Payments (`payments/`) | payments | start a checkout; Paystack webhook | reads orders; publishes `payment.confirmed` |
| Credit sales and debts (`credit_sales/`, commands in `orders/service.py`) | credit sales, `orders.is_credit` | create, settle, part payment, dispute, write off, remind | publishes `credit_sale.status_changed` |
| Notifications (`notifications/`) | notification rows | text, interactive, image and video sends | calls Meta; used by everybody |
| Ingestion and conversation (`ingestion/`, `conversation/`) | conversations, messages, reactions | Meta webhook, deduplication, save, publish; open, reply, react, assign, list | `message.received` to `conversation.message_saved`; sockets |
| Routing (`orders/handlers.py`, `onboarding/handlers.py`) | caches of trader records, routing sessions, stored routing | who answers a message, and for which store | onboarding, orders |
| Onboarding (`onboarding/`) | a session in Redis, trader rows | name, category, catalogue by photo, voice, questions or not at all; sign-up on the web | notifications |
| Customer chat, carts and negotiation (`orders/service.py`, `orders/session.py`) | the customer's session, last list and negotiation in Redis | order, clarify, YES, NO, quantity, bargain; the trader's answers | orders, notifications |
| Trader's side of the chat (`orders/service.py`, `orders/session.py`) | the trader's session and cached record in Redis, her row | menus, flows, taps, commands; edits of catalogue, bank account, category; broadcast previews | orders, marketing |
| Scheduler (`infra/scheduler.py`) | reminder counters | periodic jobs: order and debt reminders, follow-ups, weekly report | notifications, credit sales, orders |
| Marketing (`marketing/`) | customer list, broadcasts, interest events, referrals | broadcast, opt out, follow-up, segments | notifications |
| Weekly report (`reports/`) | settings, one row per tenant and week | job, trigger, settings | notifications |
| Auth, staff (`auth/`, `staff/`) | users, tenants, memberships, login codes, invites | codes, first login with migration of the store, sign-up, invite, accept, remove | caches, orders |
| Channels, realtime (`channels/`, `realtime/`) | the connected number; web sockets | connect, register; subscribe, broadcast | Meta; Redis |
| Dashboard figures, admin, shares | none of their own but a share record | queries | - |
| Text parsing, message texts, media (`orders/nlp.py`, `orders/whatsapp.py`, `infra/status_*.py`) | none | - | - |

### What is hard here, and what makes each part correct

* *Orders.* A move is validated against the state that the transaction loaded and is
  written without looking again. The row lock comes with the UPDATE, the event is
  published before the commit, and a sale also books the customer and the referral
  in the same transaction. Correct: nothing is paid without a confirmation; what is
  visible was announced; sale and bookings appear together; locks do not deadlock;
  terminal states are final.
* *Payments.* The webhook may come twice, late, or before its order can take it; the
  event is published before the commit and may be lost. Correct: no goods without
  money, no silent success, money that was taken ends in a settled order.
* *Credit sales.* Three ways to create, three to settle; two writes in two
  transactions; the event comes after the commit. Correct: one debt per order, the
  flag and the debt agree, an order is completed only for a committed resolution,
  part payments add up.
* *Notifications.* The idempotency row is committed after the call it protects.
  Correct: at most one delivery per event id, as far as that can be had; rows say
  what happened.
* *Message pipeline.* Meta repeats messages; the process restarts; a listener dies with its
  Redis connection; two listeners see
  the same message. Correct: stored and handled once in a thread, never handled before
  it is stored, and answered by one listener.
* *Onboarding.* The state is stored before the prompt is sent; the send may fail, the
  process may die, the session may expire, the trader may sign up on the web meanwhile.
  Correct: an answer is taken only for a question that was asked.
* *Customer chat.* The session in Redis, the negotiation and the order in PostgreSQL are
  written one after the other, and the dashboard edits the same order. Correct: a session
  is about an order that exists; the trader is asked once, at a total that somebody agreed
  to, and never about an order that was cancelled.
* *Trader's chat.* A handler works on the cached record of the trader and writes back the
  whole catalogue, while the dashboard edits the same row; a flow takes several messages
  and may be left, replaced or expire. Correct: no edit is undone as long as chat and
  dashboard take turns; a YES puts in force what was last asked and nothing else.
* *Outreach.* Jobs and senders go through a snapshot, send in one transaction and mark in
  another, and the process may stop in between. Correct: what is marked was sent; caps and
  opting out hold as far as the check before the send can make them; one item that fails does
  not stop the rest; one report a week.
* *Accounts.* Two logins with one code, a sign-up next to them, caches deleted before the
  commit that makes them stale, routing that outlives the move of a store. Correct: one
  account per trader, and it owns the store; orders are filed with the owner; limits and
  lock-outs end.
* *Inbox.* Members act on the same rows at once; changes are published after the commit to
  sockets that come and go; lists are paged while they change. Correct: one thread per
  customer, one delivery per reply, one admission per invite, complete pages, current screens.

`hazards` in `PROJECT.json` lists these places line by line.

## 2. The modules

| Module | Models | Notes |
|---|---|---|
| `OrderStateMachine` | the transition table, creation and moves of one order | |
| `SharedOrders` | an order that several transactions have open | the abstract specification of `OrderTransactions`; extends `OrderStateMachine` |
| `OrderTransactions` | every operation that creates or moves an order, statement by statement | implements `SharedOrders` |
| `Payments` | checkout, webhook, `payment.confirmed`, its listener | uses `OrderStateMachine` for the order |
| `CreditSales` | debt book, `credit_sale.status_changed`, its listener | uses `OrderStateMachine` for the order |
| `Notifications` | any number of sends that share event ids | |
| `MessagePipeline` | webhook, storing, publish, the two listeners of one sender | |
| `Onboarding` | the session of one phone number | |
| `CustomerChat` | the session of one customer, its orders and the bargaining with one trader | uses `OrderStateMachine` for the order |
| `TraderConsole` | the trader's flows, menus and edits in the chat, the dashboard's catalogue page, the cached record | orders, debts and bargains that a tap reaches belong to the modules above |
| `Outreach` | reminders, follow-ups, broadcasts, the weekly report | sends under event ids as `Notifications` has them |
| `TraderAccounts` | login codes, web sign-up, first login, caches and routing of the order listener | |
| `Inbox` | the team, its conversations, the connected number, lists and sockets of one tenant | |
| `MC*` | instances for TLC | |
| `*_Proofs` | theorems | |

In each module the comment above an action names the function it stands for. A
definition marked *Mutant* is a plausible bug of the definition that follows it; no
specification uses it.

### OrderTransactions

`txn[s]` is the transaction of session `s`: an HTTP request or one of the three listener tasks that
touch orders. The steps follow the awaits of the code: *loaded* (SELECT), *updated* (UPDATE flushed,
row lock held), *announced* (`order.state_changed` published), *counting* and *listed* (customer
list entry read, flushed), *referred*, *ready*, and *doomed* for a session whose flush failed and
which therefore accepts nothing but a rollback. `history`, `events`, `sales` (the sales committed of
each customer), `overlapped` (orders on which a transaction opened beside another) and `crossed`
(customers of whom a sale was committed while another session had read their entry and not written
it) are history variables; no action reads them. Operations that differ only in who starts them and
how the order is found share their steps from *loaded* on.

`SharedOrders` says what is left of the state machine without row versions. A transaction
is known by its *view*, the state it loaded. An order on which transactions never
overlapped is moved by the table, from its committed state. On the others a transaction
may still move the order from its view, which others have overtaken, as the table allows
from there. The refinement maps `views` to the states that the open sessions loaded.

### Payments

`req[r]` is a request in progress (checkout or webhook). The provider is external: it
charges a pending payment, and reports charges (again and again until a request
acknowledges) and anything else that names a payment. `charged`, `published`,
`paidOnline` and `faulted` are history variables: what the provider took, which
`payment.confirmed` events went out, which orders the listener moved, and whether any
failure happened.

### CreditSales

Amounts are in kobo and `Naira` is the number of kobo in a naira, so that what `int()`
drops is visible. The order moves in one step here; its own races belong to
`OrderTransactions`. `lost` records the sales of which a failure, a raising handler or a
restart swallowed an event. The CREDITPAID tap raises before it changes anything
(section 5) and is left out.

### Notifications

`Kind` tells the sends apart by what they do with a failure: `raising` sends mark the row
failed and raise, so that the caller's transaction rolls back; `report` sends mark and
return; images and videos `by_url` do not look at Meta's answer. A
call may time out after Meta took the message, and a transaction may be lost; `faulted`
records the event ids to which that happened.

### MessagePipeline

One sender, so one order of messages. The listener of `message.received` stores and
publishes; onboarding and the order flow each have their own queue and read the
traders table and Redis in steps of their own. A restart empties what Redis delivered;
`lost` records the messages that a failing handler, a restart or a dead listener swallowed.

A message is stored once *in a thread* (`save_message` looks up the conversation, and so does
the unique constraint), and its thread is the sender's newest active one. What is stored, queued
and handled is therefore a *copy*, a thread with a message id. Threads are numbered by
`created_at`. The sender can get a second one, since the dashboard looks for a thread and opens
one without a lock (`FindNoThread`, `OpenThread`), and threads move to another tenant at a
trader's first login (`MoveThreads`). A redelivery after that is a new copy, as in the code.

A listener task whose Redis connection breaks is over until the process restarts
(`LoseConnection`, also in `Payments` and `Inbox`): `event_bus.py` does not subscribe again.

### Onboarding

One phone number. Messages are the classes that the step handlers tell apart. The
completion of the flow and the extraction from media end in exceptions (section 5), so
the confirmation steps that lie behind them are unreachable and left out.

### CustomerChat

`job` is the message that the order listener is handling, with its place in the handler
(`step`): one step per write to Redis or PostgreSQL and per send that matters. The state of
an order is read when the message is taken and used later, as in the code. What a text turns
out to be (an order, YES, a quantity, an offer) is a choice of the model. A flushed
quantity (`job.due`) holds the order's row lock until the handler's `begin()` block commits.
There is one product, so a quantity or an edit decides the amount. `asked`, `accepted`,
`cancelled`, `edited`, `faulted` and `unsure` are history variables; `recorded` is the set of
orders with a notification row. The last numbered list, which NO restores for ten
minutes, is a choice of the model, and the deletion of a clarification is one step with
what follows from its answer: a fault in between looks like a chat. The races of two moves of
one order belong to `OrderTransactions`; here the dashboard's requests are one step each.

### TraderConsole

`job` is the trader's message that the listener is handling: it reads the cached record
(or fills the cache), acts by session and command, and an edit then commits the row, reads
the cached record and writes it back, each a step of its own. `page` is the dashboard's
catalogue page, which holds what it loaded until it is sent. `wanted` (the prices as last
asked for), `question` (the last question that is still open) and `disturbed` (chat and
dashboard overlapped, or a writer died half-way) are history variables. A tap that leaves
the trader's record and session alone is `Look`.

### Outreach

`task[t]` is a job of the scheduler or the sender of a broadcast: the snapshot it still has
to go through, the item in hand and its step. `Worlds` says which kinds of work a behaviour
has; the kinds share no state but the process that stops, so that one behaviour with all of
them shows nothing that the single ones do not. A statement of an item, a sender or
a report run may fail where it stands: within the try
of an item the loop goes on (`OrderMarkFails`, `ReminderFails`, `DebtMarkFails`,
`MarkRecipientFails`), and outside of it the sender of a broadcast ends for good (`SenderFails`) and
a run of the report with it (`ReportRunFails`).

`week`, `slipped` (customers whose `last_broadcast_at` cannot be trusted: the mark of a message of
theirs was lost, or two senders overlapped), `abandoned` (broadcasts whose sender died), `spared`,
`after`, `delivered` and `unfiled` (report runs that failed after the message, counted) are history
variables; `abandoned` also keeps a sender that died from being started again. The jobs of
follow-ups and of scheduled messages are modelled as far as they get: they raise on each item
(section 5).

### TraderAccounts

`row[t]` is the tenant of the trader's row. At first there is no row, one without a tenant (as `POST
/signup/phone` makes it) or one with the platform's tenant (a store of before the first login).
`issued` counts the codes sent in a window; raising the counter, its EXPIRE and the message, which
Meta may refuse, are three steps. `job` is the message that the order listener routes, in the order
in which the code looks things up: the trader's record by phone, the store link of a cart, the
routing session, the stored routing, the trader by tenant. `req[r]` is a request: a code, a sign-up,
a login in the steps of `verify_otp`, with the caches deleted before the commit. `exposed` records
the traders whose row changed while somebody else worked with it, `cut` those whose counter was left
without TTL.

### Inbox

`req[r]` is a request, or the listener of inbound messages, between read, flush, commit and
publish. A flushed row or a unique key holds off the others until the commit; an UPDATE
writes only what differs from what its session loaded, which is what SQLAlchemy does.
A message is looked up in its conversation; a new name that comes with it is written even if the
message is a duplicate (`Renames`, `Repeats`).
`queue` and `cast` are the events on their way to the sockets, `view[s]` what a screen shows,
`pager` somebody who reads a list page by page. `excused` names the subjects that two
requests changed at the same moment, of which a request died half-way, or whose event nobody was
there to take: the properties promise nothing about them, since the code takes no lock and
repeats no event there.

## 3. Runs

| Run | Shows | Bounds |
|---|---|---|
| `orders_races` | `PaidIsEarned`: nothing is paid that was not confirmed and is not in the customer list; `VisibleWasAnnounced`; `ImplementsSharedOrders` | two orders of one customer, three listener sessions and a request, 6 transactions: both orders are created, confirmed and paid at once and meet at the customer's entry |
| `orders_sales` | `TotalsAreSales`: `total_orders` counts the sales, but for those lost behind the read of another; `EveryTxnEnds`: no deadlock of the locks of orders, customer entry and referral | two orders of one customer, three listener sessions, 7 transactions, the fewest with which a count is lost: a sale that inserts the entry and two that read it before either has written it, one of them a second sale of an order that transactions share |
| `payments_checkout` | `MoneyBacksState`: no goods without money, no silent success; `ChargedOrderIsSettled`: unless something fails, a charge settles its order | two payments of one order, two requests, a queue of 2 |
| `credit_book` | `BookMatchesOrders`: one debt per order, and the flag has its debt; `CompletedWasResolved`; `PartsMakeUpTheDebt`; `PublishedResolutionCompletes` unless the event is lost | two sales that claim one order and a debt without one, of which one comes about (`MaxDebts`); 5 kobo at 2 kobo a naira, so that the amount is not whole naira; a queue of 2 |
| `notifications_sends` | `DeliveredAsRecorded`: a row that says sent is true, and an event id without a timeout or a lost transaction goes out once; `RecordedIsNotResent` | an event id of each kind, two callers |
| `pipeline_inbound` | `SavedThenHandledOnce`, `TriggerAnsweredOnce`; `DeliveredIsHandled` unless a failure swallows the message | two messages, of which the greeting is posted twice (`MaxPosts`); two threads (`MaxThreads`), so that the greeting can be stored in both |
| `onboarding_flow` | `AnswerFollowsQuestion`, `QuestionHasItem` | three items per category |
| `chat_orders` | `SessionOrderIsStored`, `AskedOnce`, `AskedIsAgreed`, `CancelledIsNotAsked` | two orders, so that a session and a negotiation can be about different ones; a list price of 2, a quantity of 2 and an offer of 3, so that list price, total and offer differ; one fault, timeout or edit (`MaxTrouble`) |
| `console_edits` | `SerialEditsStick`: no edit is undone by a stale cached record; `YesAnswersTheQuestion` | two products, so that an edit of one can undo the other; two photos, texts and previews; products are symmetric |
| `outreach_tasks` | `MarkedWasSent`, `BroadcastLimits` (weekly cap, opting out), `ReportedOnce`; `StaleOrderIsReminded`, `BroadcastEnds` | two orders, of which one never gets through; two debts, one with a conversation; three events and a limit of two; two scheduled messages; two broadcasts to one customer; one restart |
| `accounts_login` | `AccountOwnsTheStore`, `OrdersFollowTheOwner`, `CodesWithinLimit`; `LockoutEnds`, `RoutingSettles` | one trader, two tenants to give away, two requests; a limit of two codes, asked for up to six times, one after another and by two requests that overlap, of which five get through in one window: the bound of `CodesWithinLimit` is reached |
| `inbox_desk` | `InviteAdmitsOne`, `OneThreadPerCustomer`, `ReplyGoesOutOnce`, `RegisteredIsSubscribed`, `PagesMissNothing`, `ScreensAreCurrent` | two members, two newcomers and one invite, two requests, up to three rows, pages of one row, two ticks of the clock so that timestamps tie, two sockets |

Two of everything that can clash is enough for the pairwise races these models are about; the
theorems below cover every number. `MaxTxns`, `MaxQueue`, `MaxPosts`, `MaxThreads`, `MaxDebts`,
`MaxOrders`, `MaxTrouble`, `MaxStops`, `MaxPreviews`, `MaxTexts`, `MaxClock` and the numbers in
`Worlds` are bounds in guards: they stop new work, never work that has begun.

`Outreach`, `TraderAccounts` and `Inbox` have several groups of operations with hardly any
state in common. Their constant `Worlds` lists combinations of them, and a behaviour
belongs to one: `MCOutreach`, `MCTraderAccounts` and `MCInbox` list those in which
operations meet (invitations with sign-ups and with assignments to a member who is removed;
threads, replies and a crash; lists that move). With one trader, the lookup by tenant finds at
most one row: what happens with two un-migrated stores on the platform is in section 5.

Deadlock checking is off where the system stops for want of work: all transactions
started (`OrderTransactions`), all event ids recorded (`Notifications`), the trader
signed up (`Onboarding`), no work or no clicks left (`Outreach`, `Inbox`). It is on elsewhere.
That sessions do not wait for each other's
locks for ever is `EveryTxnEnds`, a liveness property, and not the absence of deadlock.

Fairness: weak fairness of every step of a request, job or listener that has begun, because
the event loop runs every coroutine that can go on. Requests, taps, messages and failures
from outside are under no fairness. Beyond that:

* `Payments`: strong fairness of the provider's report of a charge, because Paystack repeats a
  webhook that was not acknowledged; weak fairness of the first PSUBSCRIBE of the listener after a
  start, which goes through or fails (`LoseConnection`).
* `Outreach`: strong fairness of the start of the reminder job, which APScheduler starts at
  intervals, also after a restart, and, except for the orders in `Unreachable`, of the success of an
  order's message and of its mark: Meta and the database answer at last what is tried again and
  again. Nothing of the kind is assumed of broadcasts, which are tried once. Hours change.
* `TraderAccounts`: what has a TTL expires (Redis), for the window of the codes, the cached store
  link and the routing session. Nothing is assumed of the caches that an edit rewrites.

Failures stay possible in the runs with liveness: the code retries little, so each
liveness property promises its outcome *or* that a history variable (`faulted`, `lost`,
`cut`, `abandoned`) holds a failure.

## 4. Proofs

Every theorem holds for all values of the constants under the named assumptions of
the modules: counters are naturals, each order has a customer, each sale an order or none,
placeholders such as `None` and `Absent` are no tenants, and so on. Sets are not assumed
finite, except where their members are counted: `Broadcasts` of `Outreach`,
`Requests` of `TraderAccounts` and the `Rows` of `Inbox`, which are also enough for a
conversation with each customer.

Every invariant and every action property that a run checks is stated by a theorem. Each
argument is one inductive invariant (`IInv` where a module was proved as a whole; `PartsInv`,
`CountInv`, `AgreedInv`, `FlowInv`, `OutInv`, `ConsoleInv`, `InboxInv`, `AccountsInv` elsewhere),
from which the properties follow; the conjunctions (`PaidIsEarned`, `MoneyBacksState`,
`BookMatchesOrders`, `DeliveredAsRecorded`) follow from the theorems about their parts.

* `OrderTransactions_Proofs`: `TypeCorrect`, `PaidOnlyAfterConfirmed`,
  `PaidOrdersAreBooked` and with them `PaidOrdersAreEarned`; `AnnouncedBeforeVisible`,
  `NoReturnToInquiry`,
  `SharedRefinement`, `TotalsCountSales`. The properties speak of committed states; what makes them
  inductive is what a session knows at each step (`TxnInv`): a stale read is still a
  state that was committed once, so whoever saw *confirmed* has a confirmation in
  the history; whoever is past the publish has announced its target; whoever is
  ready to commit a sale carries a positive count and an advanced referral. `RowLock`
  says that no two sessions hold one order. The refinement needs `SerialInv` as
  well: the one transaction on an order that was never shared has loaded what is committed, so
  its commit is a move of the table; a commit on a shared order is a move from the view of that
  session; whatever else opens or ends a transaction changes the views, and the rest stutters.
  `TotalsCountSales` has `CountInv`: what a session counts is at most the sales committed and its
  own, and exactly that unless a sale was committed behind its read; `EntryLock`, the row lock of
  the customer's entry, keeps two sessions from having written it at a time. Neither theorem
  assumes anything of the transactions.
* `Payments_Proofs`: `TypeCorrect`, `NoGoodsWithoutCharge`, `SuccessIsAnnounced` and with them
  `StateIsBacked`. The
  strengthening: a webhook request that carries *success*, and every event in the
  queue, is about a payment the provider charged. It survives the rollback after the
  publish because being charged is never undone.
* `CreditSales_Proofs`: `TypeCorrect`, `NoDoubleDebt`, `FlagFollowsSale` and with them
  `BookAgreesWithOrders`; `CompletionFollowsCommit`.
  The strengthening: the sale a session works on is in the book; CREDIT reaches the
  flag only after its sale is committed; a resolution that is to be published, or
  was, is in `resolved`. `PartsAddUp` has `PartsInv`: an amount is written by the session that
  inserts the sale and afterwards only by the chat, which handles one message at a time, so
  that the amount a part payment is taken from is the one that was read. The arithmetic is that a
  debt which lost its kobo once is in whole naira and loses nothing more.
* `Notifications_Proofs`: `TypeCorrectness`, `AtMostOnceWithoutFaults`, `SentMeansDelivered` and
  with them `RecordsAgree`; `RecordedEndsSending`. The strengthening: only one caller is past
  the unique index (`KeyLock`), it is there only while no row is committed, and a delivery of
  an event id that met no failure is either recorded or about to be.
* `Onboarding_Proofs`: `TypeCorrect`, `AnswersFollowQuestions`, `QuestionsHaveItems`. The
  strengthening (`PromptInv`): a state without a pending prompt is one whose prompt
  went out, and a prompt is pending for as long as it is being sent.
* `CustomerChat_Proofs`: `TypeCorrect`, `SessionsNameStoredOrders`,
  `CancelledStaysCancelled`, `OneRequestPerOrder`. The strengthening (`JobOK`, `BookInv`): a
  handler about to create an order has the next free id, every other handler's order is
  stored, and the order about which the trader is going to be asked was not cancelled;
  what was cancelled is failed, which no move leaves. `OneRequestPerOrder` has an invariant of
  its own (`AskedInv`): whoever was asked about has a row or a timeout.
  `TraderIsAskedTheAgreedPrice` has `AgreedInv`: whoever holds a total of an order (session,
  negotiation, handler) holds an agreed one (`PriceInv`), and an order is in one of these places
  at a time and in none once the trader was asked (`Token`), so that no later answer or quantity
  changes the amount behind the question. An order whose handler faulted is excepted, since it
  can be left in two places.

* `Messaging_Proofs`, `MessagePipeline`: `StoredThenHandledOnce`, `OneListenerAnswers`. `FlowInv`
  says that what a listener holds is stored (`Stored`), and that a copy of a message is in one place
  on its way, about to be published, queued once or taken up (`Once`). It speaks of copies, so that it
  holds for any number of threads and whichever of them is the newest; that one listener answers
  a trigger word holds over all copies of it.
* `Messaging_Proofs`, `Outreach`: `SentBeforeMarked`, `BroadcastsAreLimited`, `ReportGoesOutOnce`.
  `OutInv` has a part for each kind of work. `DebtInv`: the count read of a sale without a
  conversation is still its count, since only the job counts for it. `StopInv`: what reached a
  customer after STOP and what is still in flight is no more than what was in flight at STOP.
  `WeekInv`: a customer of whom no mark was lost and no senders overlapped has
  `last_broadcast_at` after her message, or the one sender is about to write it. `ReportInv`: one
  run holds the week's row, and it has sent the report or each message so far was lost in a stop or
  a failed commit.
* `Desk_Proofs`, `TraderConsole`: `NoEditIsLost`, `YesIsForTheQuestion`. `SerialInv`: while chat and
  dashboard take turns, a cached record is the row, or becomes the row when the edit under way is
  put into it. `QuestionInv`: a session that is there is the last question, and the answers of
  a handler are those of the question that was confirmed.
* `Desk_Proofs`, `Inbox`: `InboxAlways`, and from it `InvitesAreSingleUse`, `CustomersHaveOneThread`,
  `RepliesGoOutOnce`, `FlagIsTrue`, `ListsAreComplete`, `ScreensCatchUp`. `InboxInv` has
  a part for every table and what the requests know of it. `RequestInv` carries the others: two
  requests on one subject excuse it, so that what a request has read of a subject that is not
  excused is still there when it writes. `PageInv`: a row that is owed was shown if and only if
  it lies before the cursor. `ScreenInv`: the last news of a topic, queued, being cast or on the
  screens, are what is stored, unless a request is still to publish. Each part speaks of
  some tables and operations, and lemmas about what a step leaves alone dispose of the rest.
* `Onboarding_Proofs`, `TraderAccounts`: `AccountsAlways`, and from it `OneAccountEach`,
  `NothingStaysBehind`, `CodesAreLimited`. `LoginInv`: a trader has an account if and only if her
  row has a tenant of her own, and one login at most holds its INSERT. `QuietInv`: of a trader whom
  nobody else worked with meanwhile there is one writer, and the listener rests while it
  writes; what is cached (`CacheInv`), looked up (`LookInv`) and filed (`OrdersInv`) then
  agrees with her row. `CodesInv` counts the requests that are past the check and those that have
  counted and not sent. It is what the proof of an earlier, tighter bound broke on: a code
  counted in one window can be sent in the next, as TLC showed, so that
  every overlapping request can add two.

What a fault leaves behind or two writers do at one moment is an exception within the properties
(`faulted`, `excused`, `exposed`, `disturbed`, `slipped`, `overlapped`, `crossed`); the theorems
have no other hypothesis than the specification.

Only model-checked: liveness, which is out of TLAPS's reach (`EveryTxnEnds`,
`ChargedOrderIsSettled`, `PublishedResolutionCompletes`, `DeliveredIsHandled`,
`StaleOrderIsReminded`, `BroadcastEnds`, `LockoutEnds`, `RoutingSettles`).

## 5. Divergences met while modelling

The models follow the code in all of these. They are what the comments, docstrings or tests say
and the code does not do; no run is spent on them, since each follows from the lines named, and
the properties of section 3 say what does hold in their place.

Orders, money, delivery:

* `orders/state_machine.py:11` calls paid and failed terminal: two transactions that both loaded
  *confirmed* commit *paid* and *failed* in turn. `PaidIsEarned` holds all the same, and
  `SharedOrders` says which moves such an order can make.
* `payments/handlers.py:16` says that the order transition inherits retry guarantees: a lost
  `payment.confirmed` is never repeated (`ChargedOrderIsSettled` excepts the failures).
* `infra/event_bus.py:341` "never crash the listener loop": an exception of the subscription itself
  ends the task, and nothing starts it again (`LoseConnection`).
* `marketing/customer_list.py:48` counts in Python: overlapping sales of one customer lose a count, and
  two transactions that both move one order to paid count it twice (`TotalsAreSales`).
* `conversation/repository.py:178` has "idempotency for duplicate webhook deliveries", but looks
  the message up in its conversation only: when the sender's
  newest active thread is not the one that has the message (a second thread, or the old one moved
  to the trader's tenant), a redelivery is stored, published and handled again. So "at most once"
  holds for a copy and not for a message; a trigger word has one answering listener all the same.
* `notifications/handlers.py:15` says that nothing is sent twice: the row is committed after the
  call, so a crash or a timeout in between repeats the message (`DeliveredAsRecorded`).

* `orders/service.py:308` logs a failed customer list upsert as "non-fatal", but the failed
  flush has rolled the session back and the sale goes with it (`RaisePendingRollback`).
* `payments/service.py:92` wants no second active payment; `:110` checks it without a lock,
  and a failed payment that is charged late becomes active beside its replacement.
* `payments/service.py:163` promises no duplicate event; overlapping deliveries of one
  webhook both pass the check at `:182` and both publish.
* `orders/service.py:3534` settles a debt by customer name and publishes nothing, so the
  linked order stays open, against `:389` and `docs/tasks/feature-4-who-owes-me-debt-tracker.md:67`.
* `orders/service.py:4573` uses `select` before the import of the same function at `:4593`:
  the CREDITPAID tap raises `UnboundLocalError` (`docs/tests/unit-test-plan.md:217`).
* `notifications/service.py:137` marks a row failed and raises, which rolls the row back;
  `notifications/models.py:12` counts on failed rows.
* `notifications/service.py:792` records a video as sent whatever Meta answers.
* `orders/handlers.py:336` yields to onboarding on six words and not on a referral code,
  which onboarding answers too.
* `onboarding/service.py:973` evaluates the undefined name `state`: `_complete` raises
  whenever the phone number has no trader row.
* `onboarding/service.py:717` imports `save_state`, which `session.py` does not define: a
  photo or voice note with products raises.
* `orders/service.py:497` says that YES moves the order to confirmed; the code asks the trader
  (`:641`) and leaves the order an inquiry.
* `orders/service.py:887` and `:897` answer YES and NO only without a session: in reply to a
  clarifying question they create an order without items (`EmptyOrder`).
* `orders/service.py:3449` stores a negotiated price in the session and never in the order, so
  the order's amount stays the list price; `:5060` bills that amount.
* `orders/service.py:587` sets the amount of an order of several items to the first item times
  the quantity, and `:569` takes any number up to 1000 in a reply to a summary for a quantity.
* `orders/service.py:5101` clears the customer's session whichever order the trader cancels.
* `orders/service.py:2611` stores a summary without an order when the negotiation has expired.
* `orders/service.py:1483` commits a second time inside the caller's `begin()` block, which
  raises: the inquiry is not cleared as `:1351` says.

The trader's chat:

* `orders/service.py:1439` "Update the trader's catalogue": changes a local dictionary only.
* `orders/service.py:2391` "warn but still save with business name": nothing is saved; `:2823`
  "prompt again": the session was cleared, so the next message is no answer.
* A number that the trader writes outside a session is taken as the price of a pending photo;
  `orders/session.py:225` "the most recent inquiry" takes the highest phone number.
* `orders/service.py:4392`: a PHOT_ tap next to a session that no flow answers, and the credit button
  of an order, raise (`NameError`, `UnboundLocalError`) before they change anything.
* `orders/session.py:26` and `:178` say that the entry is refreshed on each hit: neither is. But
  `_persist_catalogue` rewrites a cached record with a full TTL, so that a stale one lives on while
  the trader edits.

Outreach:

* `infra/scheduler.py:31` fires scheduled messages: `add_message` is called with arguments it does not
  take, so every item raises and none is sent.
* `infra/scheduler.py:658` reads an attribute that a trader does not have: follow-ups are never sent,
  the events stay pending and keep the newer ones out of the limit.
* `infra/scheduler.py:314` runs at an hour at which its own check for business hours sends it back.
* Broadcasts that overlap break the weekly cap, and so does a message whose mark is lost: a timeout, a
  stop, or a marking transaction that fails and is caught at `marketing/broadcast.py:270`. The
  cooldown between broadcasts counts finished ones only and is checked at the preview.
* A restart leaves a broadcast in the status sending for good, and so does a statement that fails
  outside the try of a recipient (`marketing/broadcast.py:200`, `:279`): `orders/service.py:1948`
  tells the trader to "try again later" and leaves the row as it is.
* `reports/router.py:103` "Idempotent": a report that failed is never tried again that week, and one
  that was delivered can be filed as skipped, or not at all, when settings change, the process
  stops during the run or its commit fails.

Accounts and routing:

* `auth/service.py:379` "so the order handler picks up the new tenant": the caches are deleted
  before the commit and may be filled again with the old one; routing sessions of customers, valid
  for a week, are not touched; the negative entry of a store link is not deleted at sign-up.
* `orders/handlers.py:138` takes the one un-migrated store of the platform for every customer without a
  routing session; with two such stores the query raises.
* `auth/service.py:275` "Rate-limited to 5 requests per 10 minutes": the counter is read before it
  is raised, and raised before the code goes out, so requests that overlap add up to two codes each
  (`CodesWithinLimit`).
* `auth/service.py:296`: a request that dies between INCR and EXPIRE locks the number out for good.
  The deletion of a code at login may delete a newer one.
* `auth/repository.py:82` calls "owner" lexicographically smaller than "member".
* `infra/rate_limit.py:5` "sliding window": buckets of one minute.

Dashboard:

* `staff/router.py:79` "single-use": two who accept at the same moment are both let in.
* `channels/service.py:54` ("FIRST so the channel is persisted") flushes the number first and
  commits it last, after the calls to Meta; connects that overlap can leave the flag of one number
  with the other, because an unchanged column is not written.
* Removing a member leaves conversations assigned to her.
* A reply whose request died after it was stored is not sent when it is posted again.
* `conversation/repository.py:317` "ordered by recency": a new message does not touch `updated_at`.

## 6. Not modelled

* Text parsing (`orders/nlp.py`), message texts (`orders/whatsapp.py`), rendering of images and videos
  and storage: no state, or files under fresh names. What a text turns out to be is a choice of the
  models.
* Dashboard figures, admin and segments: queries. Share pages: a record written once.
* The calls to Meta, Paystack and the language models are external and are modelled by their outcomes.
* The status kit: its job always turns back (section 5).
* Quiet mode of the customer's chat and the record of a pending photo inquiry (the order that the
  trader's price makes of it is modelled); the items of an order one by one
  (the amount is modelled); two HTTP requests that open an order for one conversation at once.
* Logins by password or Google, which change no state; the web set-up by a user who already has a
  tenant, in `TraderAccounts` (in `MessagePipeline` and `Onboarding` it is `SignUp`); a WhatsApp
  number of the trader's own, whose messages carry their tenant.
* The rate limiter of the API: one atomic INCR under a key that is used for a minute.

Tenants are independent of one another but for the platform's, from which `TraderAccounts` moves
stores and `MessagePipeline` threads; every other model has one.

## 7. Plan

Built in this order: the order life cycle (everything else hangs on it), the money (payments,
debts), delivery (notifications, pipeline), onboarding, the customer's chat; then the trader's chat,
outreach, accounts and routing, and the dashboard.

What is left, most valuable first:

1. An abstract at-most-once send that `Notifications` implements without faults.
2. That the moves of an order in `CustomerChat`, `Payments` and `CreditSales` are moves of
   `OrderStateMachine`, as theorems.
3. The items of an order and the open order of a conversation; the pending photo inquiry.
