------------------------------ MODULE Outreach ------------------------------
(***************************************************************************)
(* Messages that nobody asked for at that moment: the scheduler's          *)
(* reminders of orders and debts, its follow-ups, and the senders of       *)
(* broadcasts.  Each is a task of the one event loop: it takes a snapshot  *)
(* of what is due and goes through it item by item; an item is sent in     *)
(* one transaction, under an event id, and marked in another.  Orders,     *)
(* debts and customers change meanwhile, a message may be refused by Meta  *)
(* or time out, and the process may stop and restart between any two       *)
(* steps.                                                                  *)
(***************************************************************************)
EXTENDS Naturals, FiniteSets

CONSTANTS
    Orders,         \* orders, older than _REMINDER_DELAY_HOURS
    Sales,          \* credit sales
    Linked,         \* credit sales with a conversation
    MaxReminders,   \* credit_sales.max_reminders
    Customers,      \* customers of one trader
    Broadcasts,     \* broadcasts of that trader
    Events,         \* interest events, numbered by age, each of its own product
    Photos,         \* events of photos that no trader has named
    Scheduled,      \* messages that a member writes to be sent later
    Limit,          \* events that one run of the follow-up job looks at
    Unreachable,    \* orders whose trader no message ever reaches
    Worlds,         \* subsets of Tasks: which of them have anything to do
    MaxStops,       \* bound: restarts of the process, and reports whose commit failed
    None            \* no item, no row

VARIABLES
    orderState,     \* orders.state: inquiry, or past it
    reminded,       \* orders with reminder_sent_at
    saleState,      \* credit_sales.status: active, or closed
    count,          \* credit_sales.reminders_sent
    due,            \* sales whose reminder interval has passed
    optedOut,       \* customers who opted out
    recent,         \* customers with last_broadcast_at in the last seven days
    status,         \* broadcasts.status
    recipient,      \* broadcast_recipients.status
    abandoned,      \* broadcasts whose sender a restart or a failed statement ended
    interest,       \* interest events: none yet, pending, followed up, converted
    ordered,        \* events whose customer placed an order since
    orderRows,      \* orders with a notification row order.reminder.{id}
    debtRows,       \* <<sale, n>> with a row debt.reminder.{id}.{n}
    castRows,       \* <<broadcast, customer>> with a row broadcast.{id}.{phone}
    task,           \* what every task is doing
    config,         \* tenant_report_configs: none, off, or on with a recipient
    report,         \* status of the weekly_reports row of this week
    delivered,      \* how often this week's report reached the owner
    unfiled,        \* runs whose report was sent, and its rows not committed
    scheduled,      \* scheduled_messages.status; a cancelled one is deleted
    officeHours,    \* 8 to 20 o'clock in Lagos
    stops,          \* number of restarts
    week,           \* broadcast messages each customer got in the last seven days
    slipped,        \* customers whose last_broadcast_at may miss a message of this week
    spared,         \* messages in flight when the customer opted out
    after           \* messages that a customer got after opting out

marks == <<orderState, reminded, saleState, count, due, interest, ordered>>
list == <<optedOut, recent, status, recipient, abandoned>>
rows == <<orderRows, debtRows, castRows>>
past == <<week, slipped, spared, after>>
reports == <<config, report, delivered, unfiled>>
vars == <<marks, list, rows, reports, scheduled, task, officeHours, stops, past>>

\* The jobs of the scheduler; requests: a reminder by hand, the weekly report, its
\* settings; one sender per broadcast.
Jobs == {"orders", "debts", "followups", "weekly", "messages"}
Requests == {"by hand", "trigger", "settings"}
Tasks == Jobs \cup Requests \cup Broadcasts

ASSUME LinkedAssumption == Linked \subseteq Sales
ASSUME EventsAssumption == Events \subseteq Nat /\ Photos \subseteq Events
ASSUME BoundsAssumption == MaxReminders \in Nat /\ Limit \in Nat /\ MaxStops \in Nat
ASSUME TasksAssumption == Broadcasts \cap (Jobs \cup Requests) = {}
ASSUME WorldsAssumption == Worlds \subseteq SUBSET Tasks
ASSUME BroadcastsAssumption == IsFiniteSet(Broadcasts)
ASSUME NoneAssumption == None \notin {"sent", "failed", "skipped"}

-----------------------------------------------------------------------------
(* Tasks.  An item that fails is logged, and the task goes on.             *)

\* todo: items of the snapshot that are left; item: the one at hand; seen: the count of
\* reminders that the task has read.
Items == Orders \cup Sales \cup Customers \cup Events \cup Scheduled

TaskSteps == {"off", "idle", "next", "check", "send", "mark", "load", "save", "notify", "read",
              "create", "write", "enabled", "disabled", "claim", "dispatch", "sent", "failed",
              "skipped"}

Task == [step : TaskSteps, todo : SUBSET Items, item : Items \cup {None}, seen : [Sales -> Nat]]

Zero == [s \in Sales |-> 0]
Off == [step |-> "off", todo |-> {}, item |-> None, seen |-> Zero]
IdleTask == [Off EXCEPT !.step = "idle"]

At(t, step) == task[t].step = step
Item(t) == task[t].item

Begin(t, items, seen) ==
    task' = [task EXCEPT ![t] = [step |-> "next", todo |-> items, item |-> None, seen |-> seen]]

Take(t, i, step) ==
    /\ At(t, "next")
    /\ i \in task[t].todo
    /\ task' = [task EXCEPT ![t].step = step, ![t].item = i, ![t].todo = @ \ {i}]

Go(t, step) == task' = [task EXCEPT ![t].step = step]

NextItem(t) == task' = [task EXCEPT ![t].step = "next", ![t].item = None]

End(t) ==
    /\ At(t, "next")
    /\ task[t].todo = {}
    /\ task' = [task EXCEPT ![t] = IdleTask]

Init ==
    /\ orderState = [o \in Orders |-> "inquiry"]
    /\ reminded = {}
    /\ saleState = [s \in Sales |-> "active"]
    /\ count = Zero
    /\ due = Sales
    /\ optedOut = {}
    /\ recent = {}
    /\ status = [b \in Broadcasts |-> None]
    /\ recipient = [b \in Broadcasts |-> [c \in Customers |-> None]]
    /\ interest = [e \in Events |-> None]
    /\ ordered = {}
    /\ orderRows = {} /\ debtRows = {} /\ castRows = {}
    /\ abandoned = {}
    /\ config = None /\ report = None /\ delivered = 0 /\ unfiled = 0
    /\ scheduled = [x \in Scheduled |-> None]
    /\ \E w \in Worlds : task = [t \in Tasks |-> IF t \in w THEN IdleTask ELSE Off]
    /\ officeHours = TRUE
    /\ stops = 0
    /\ week = [c \in Customers |-> 0]
    /\ slipped = {}
    /\ spared = [c \in Customers |-> 0]
    /\ after = [c \in Customers |-> 0]

-----------------------------------------------------------------------------
(* _send_order_reminders.                                                  *)

BeginOrderReminders ==
    /\ At("orders", "idle")
    /\ officeHours
    /\ Begin("orders", {o \in Orders : orderState[o] = "inquiry" /\ o \notin reminded}, Zero)
    /\ UNCHANGED <<marks, list, rows, reports, scheduled, officeHours, stops, past>>

TakeOrder(o) ==
    /\ Take("orders", o, "send")
    /\ UNCHANGED <<marks, list, rows, reports, scheduled, officeHours, stops, past>>

\* send_interactive: the row is there already, or the message goes out and its row is
\* committed.
OrderReminderGoes ==
    /\ At("orders", "send")
    /\ Item("orders") \notin Unreachable
    /\ orderRows' = orderRows \cup {Item("orders")}
    /\ Go("orders", "mark")
    /\ UNCHANGED <<marks, list, debtRows, castRows, reports, scheduled, officeHours, stops,
                   past>>

\* Mutant: one try around the loop and not one per order.
OrderReminderEndsJob ==
    /\ At("orders", "send")
    /\ Item("orders") \notin orderRows
    /\ task' = [task EXCEPT !["orders"] = IdleTask]
    /\ UNCHANGED <<marks, list, rows, reports, scheduled, officeHours, stops, past>>

\* Meta refuses the message, or does not answer in time: the row is rolled back.
OrderReminderFails ==
    /\ At("orders", "send")
    /\ Item("orders") \notin orderRows
    /\ NextItem("orders")
    /\ UNCHANGED <<marks, list, rows, reports, scheduled, officeHours, stops, past>>

MarkOrderReminded ==
    /\ At("orders", "mark")
    /\ reminded' = reminded \cup {Item("orders")}
    /\ NextItem("orders")
    /\ UNCHANGED <<orderState, saleState, count, due, interest, ordered, list, rows,
                   reports, scheduled, officeHours, stops, past>>

\* The update fails: the order is found again by the next run.
OrderMarkFails ==
    /\ At("orders", "mark")
    /\ NextItem("orders")
    /\ UNCHANGED <<marks, list, rows, reports, scheduled, officeHours, stops, past>>

EndOrderReminders ==
    /\ End("orders")
    /\ UNCHANGED <<marks, list, rows, reports, scheduled, officeHours, stops, past>>

-----------------------------------------------------------------------------
(* _send_debt_reminders, and CreditSaleService.send_reminder, which the    *)
(* dashboard and the trader's REMIND button call as well.                  *)

BeginDebtReminders ==
    /\ At("debts", "idle")
    /\ officeHours
    /\ Begin("debts", {s \in due : saleState[s] = "active" /\ count[s] < MaxReminders}, count)
    /\ UNCHANGED <<marks, list, rows, reports, scheduled, officeHours, stops, past>>

\* Mutant: the count is raised before the message is sent.
TakeSaleCounted(s) ==
    /\ Take("debts", s, IF s \in Linked THEN "load" ELSE "send")
    /\ count' = IF s \in Linked THEN count ELSE [count EXCEPT ![s] = @ + 1]
    /\ UNCHANGED <<orderState, reminded, saleState, due, interest, ordered, list, rows,
                   reports, scheduled, officeHours, stops, past>>

TakeSale(s) ==
    /\ Take("debts", s, IF s \in Linked THEN "load" ELSE "send")
    /\ UNCHANGED <<marks, list, rows, reports, scheduled, officeHours, stops, past>>

RemindByHand(s) ==
    /\ At("by hand", "idle")
    /\ task' = [task EXCEPT !["by hand"].step = "load", !["by hand"].item = s]
    /\ UNCHANGED <<marks, list, rows, reports, scheduled, officeHours, stops, past>>

\* After send_reminder: the job notifies the trader, the request is answered.
AfterReminder(t) ==
    IF t = "debts" THEN Go(t, "notify") ELSE task' = [task EXCEPT ![t] = IdleTask]

AfterFailure(t) ==
    IF t = "debts" THEN NextItem(t) ELSE task' = [task EXCEPT ![t] = IdleTask]

LoadSale(t) ==
    /\ At(t, "load")
    /\ LET s == Item(t) IN
          IF saleState[s] = "active" /\ s \in Linked /\ count[s] < MaxReminders
          THEN task' = [task EXCEPT ![t].step = "save", ![t].seen[s] = count[s]]
          ELSE AfterFailure(t)
    /\ UNCHANGED <<marks, list, rows, reports, scheduled, officeHours, stops, past>>

\* The message in the conversation and the count, in one transaction.
SaveReminder(t) ==
    /\ At(t, "save")
    /\ count' = [count EXCEPT ![Item(t)] = task[t].seen[Item(t)] + 1]
    /\ due' = due \ {Item(t)}
    /\ AfterReminder(t)
    /\ UNCHANGED <<orderState, reminded, saleState, interest, ordered, list, rows, reports,
                   scheduled, officeHours, stops, past>>

\* The request or the item fails at the database, and nothing of it is kept.
ReminderFails(t) ==
    /\ task[t].step \in {"load", "save"}
    /\ AfterFailure(t)
    /\ UNCHANGED <<marks, list, rows, reports, scheduled, officeHours, stops, past>>

\* debt.reminder_notify: whether it goes out or not, the task goes on.
NotifyTrader ==
    /\ At("debts", "notify")
    /\ NextItem("debts")
    /\ UNCHANGED <<marks, list, rows, reports, scheduled, officeHours, stops, past>>

\* A sale without a conversation: the trader is reminded.
DebtReminderGoes ==
    /\ At("debts", "send")
    /\ LET s == Item("debts") IN debtRows' = debtRows \cup {<<s, task["debts"].seen[s]>>}
    /\ Go("debts", "mark")
    /\ UNCHANGED <<marks, list, orderRows, castRows, reports, scheduled, officeHours,
                   stops, past>>

\* Refused or not answered, or no trader is found.
DebtReminderFails ==
    /\ At("debts", "send")
    /\ LET s == Item("debts") IN <<s, task["debts"].seen[s]>> \notin debtRows
    /\ NextItem("debts")
    /\ UNCHANGED <<marks, list, rows, reports, scheduled, officeHours, stops, past>>

MarkDebtReminded ==
    /\ At("debts", "mark")
    /\ LET s == Item("debts") IN
          /\ count' = [count EXCEPT ![s] = task["debts"].seen[s] + 1]
          /\ due' = due \ {s}
    /\ NextItem("debts")
    /\ UNCHANGED <<orderState, reminded, saleState, interest, ordered, list, rows, reports,
                   scheduled, officeHours, stops, past>>

DebtMarkFails ==
    /\ At("debts", "mark")
    /\ NextItem("debts")
    /\ UNCHANGED <<marks, list, rows, reports, scheduled, officeHours, stops, past>>

EndDebtReminders ==
    /\ End("debts")
    /\ UNCHANGED <<marks, list, rows, reports, scheduled, officeHours, stops, past>>

-----------------------------------------------------------------------------
(* _send_smart_followups.  Once the job knows the trader it reads          *)
(* trader.catalogue, which the row does not have: nothing is ever sent,    *)
(* and the event stays pending.                                            *)

Oldest(events) == {e \in events : Cardinality({f \in events : f < e}) < Limit}

BeginFollowups ==
    /\ At("followups", "idle")
    /\ officeHours
    /\ Begin("followups", Oldest({e \in Events : interest[e] = "pending"}), Zero)
    /\ UNCHANGED <<marks, list, rows, reports, scheduled, officeHours, stops, past>>

FollowUp(e) ==
    /\ Take("followups", e, "next")
    /\ \/ interest' = [interest EXCEPT ![e] = IF e \in Photos THEN "followed up"
                                              ELSE IF e \in ordered THEN "converted" ELSE @]
       \/ UNCHANGED interest
    /\ UNCHANGED <<orderState, reminded, saleState, count, due, ordered, list, rows,
                   reports, scheduled, officeHours, stops, past>>

EndFollowups ==
    /\ End("followups")
    /\ UNCHANGED <<marks, list, rows, reports, scheduled, officeHours, stops, past>>

-----------------------------------------------------------------------------
(* _fire_due_messages.  It calls add_message with arguments that           *)
(* add_message does not take: every message raises, and stays pending.     *)

\* create_scheduled_message.
ScheduleMessage(x) ==
    /\ ~At("messages", "off")
    /\ scheduled[x] = None
    /\ scheduled' = [scheduled EXCEPT ![x] = "pending"]
    /\ UNCHANGED <<marks, list, rows, reports, task, officeHours, stops, past>>

\* cancel_scheduled_message, also of one that the job has in hand.
CancelScheduled(x) ==
    /\ scheduled[x] = "pending"
    /\ scheduled' = [scheduled EXCEPT ![x] = "cancelled"]
    /\ UNCHANGED <<marks, list, rows, reports, task, officeHours, stops, past>>

\* Those that are due.
BeginMessages ==
    /\ At("messages", "idle")
    /\ \E now \in SUBSET {x \in Scheduled : scheduled[x] = "pending"} :
          Begin("messages", now, Zero)
    /\ UNCHANGED <<marks, list, rows, reports, scheduled, officeHours, stops, past>>

\* Mutant: the row is marked though the call raised.
FireMessageMarked(x) ==
    /\ Take("messages", x, "next")
    /\ scheduled' = [scheduled EXCEPT ![x] = "sent"]
    /\ UNCHANGED <<marks, list, rows, reports, officeHours, stops, past>>

FireMessage(x) ==
    /\ Take("messages", x, "next")
    /\ UNCHANGED <<marks, list, rows, reports, scheduled, officeHours, stops, past>>

EndMessages ==
    /\ End("messages")
    /\ UNCHANGED <<marks, list, rows, reports, scheduled, officeHours, stops, past>>

-----------------------------------------------------------------------------
(* send_broadcast_paced.                                                   *)

Sending == {b \in Broadcasts : task[b].step \notin {"off", "idle"}}

\* _handle_broadcast_confirm: the broadcast with its recipients, then the task.
CreateBroadcast(b) ==
    /\ At(b, "idle")
    /\ status[b] = None
    /\ status' = [status EXCEPT ![b] = "draft"]
    /\ recipient' = [recipient EXCEPT ![b] =
                        [c \in Customers |-> IF c \in optedOut THEN None ELSE "pending"]]
    /\ UNCHANGED <<marks, optedOut, recent, abandoned, rows, task, reports, scheduled,
                   officeHours, stops, past>>

\* The sender of b is about to begin.
Begins(b) == At(b, "idle") /\ status[b] = "draft" /\ b \notin abandoned

StartSending(b) ==
    /\ Begins(b)
    /\ status' = [status EXCEPT ![b] = "sending"]
    /\ Begin(b, {c \in Customers : recipient[b][c] = "pending"}, Zero)
    /\ slipped' = IF Sending = {} THEN slipped ELSE Customers
    /\ UNCHANGED <<marks, optedOut, recent, recipient, abandoned, rows, reports, scheduled,
                   officeHours, stops, week, spared, after>>

TakeRecipient(b, c) ==
    /\ Take(b, c, "check")
    /\ UNCHANGED <<marks, list, rows, reports, scheduled, officeHours, stops, past>>

\* Mutant: the sender does not look at opted_out.
CheckRecipientRecent(b) ==
    /\ At(b, "check")
    /\ IF Item(b) \in recent
       THEN recipient' = [recipient EXCEPT ![b][Item(b)] = "skipped"] /\ NextItem(b)
       ELSE Go(b, "send") /\ UNCHANGED recipient
    /\ UNCHANGED <<marks, optedOut, recent, status, abandoned, rows, reports, scheduled,
                   officeHours, stops, past>>

\* The seven-day cap and opting out, looked up once per recipient.
CheckRecipient(b) ==
    /\ At(b, "check")
    /\ IF Item(b) \in recent \cup optedOut
       THEN /\ recipient' = [recipient EXCEPT ![b][Item(b)] =
                                IF Item(b) \in recent THEN "skipped" ELSE "opted out"]
            /\ NextItem(b)
       ELSE Go(b, "send") /\ UNCHANGED recipient
    /\ UNCHANGED <<marks, optedOut, recent, status, abandoned, rows, reports, scheduled,
                   officeHours, stops, past>>

\* The messages of the week are counted as long as last_broadcast_at can be trusted.
Reaches(c) ==
    /\ week' = IF c \in slipped THEN week ELSE [week EXCEPT ![c] = @ + 1]
    /\ after' = [after EXCEPT ![c] = IF c \in optedOut THEN @ + 1 ELSE @]

BroadcastGoes(b) ==
    /\ At(b, "send")
    /\ castRows' = castRows \cup {<<b, Item(b)>>}
    /\ Reaches(Item(b))
    /\ Go(b, "mark")
    /\ UNCHANGED <<marks, list, orderRows, debtRows, reports, scheduled, officeHours,
                   stops, slipped, spared>>

\* Mutant: one try around the loop and not one per recipient.
BroadcastFailureEnds(b) ==
    /\ At(b, "send")
    /\ task' = [task EXCEPT ![b] = IdleTask]
    /\ UNCHANGED <<marks, list, rows, reports, scheduled, officeHours, stops, past>>

\* Meta refuses it, or takes it and does not answer in time.  The recipient stays pending.
BroadcastFails(b) ==
    /\ At(b, "send")
    /\ \/ UNCHANGED <<week, after, slipped>>
       \/ Reaches(Item(b)) /\ slipped' = slipped \cup {Item(b)}
    /\ NextItem(b)
    /\ UNCHANGED <<marks, list, rows, reports, scheduled, officeHours, stops, spared>>

\* Mutant: last_broadcast_at is not written.
MarkRecipientOnly(b) ==
    /\ At(b, "mark")
    /\ recipient' = [recipient EXCEPT ![b][Item(b)] = "sent"]
    /\ NextItem(b)
    /\ UNCHANGED <<marks, optedOut, recent, status, abandoned, rows, reports, scheduled,
                   officeHours, stops, past>>

MarkRecipient(b) ==
    /\ At(b, "mark")
    /\ recipient' = [recipient EXCEPT ![b][Item(b)] = "sent"]
    /\ recent' = recent \cup {Item(b)}
    /\ NextItem(b)
    /\ UNCHANGED <<marks, optedOut, status, abandoned, rows, reports, scheduled, officeHours,
                   stops, past>>

\* The transaction that writes both fails: the recipient stays pending, the customer has
\* her message and no new last_broadcast_at, and the loop goes on.
MarkRecipientFails(b) ==
    /\ At(b, "mark")
    /\ slipped' = slipped \cup {Item(b)}
    /\ NextItem(b)
    /\ UNCHANGED <<marks, list, rows, reports, scheduled, officeHours, stops, week, spared,
                   after>>

EndSending(b) ==
    /\ End(b)
    /\ status' = [status EXCEPT ![b] = "sent"]
    /\ UNCHANGED <<marks, optedOut, recent, recipient, abandoned, rows, reports, scheduled,
                   officeHours, stops, past>>

\* A statement outside the try of a recipient fails, at the beginning, at a check or at
\* the end.  The background task logs it, and nobody goes on with the broadcast.
SenderFails(b) ==
    /\ Begins(b) \/ At(b, "check") \/ (At(b, "next") /\ task[b].todo = {})
    /\ task' = [task EXCEPT ![b] = IdleTask]
    /\ abandoned' = abandoned \cup {b}
    /\ UNCHANGED <<marks, optedOut, recent, status, recipient, rows, reports, scheduled,
                   officeHours, stops, past>>

-----------------------------------------------------------------------------
(* run_weekly, for one tenant and one week: the scheduler and the          *)
(* trigger-weekly endpoint call it.  The notification row and the report   *)
(* row are written in one transaction.                                     *)

Reporters == {"weekly", "trigger"}

\* The job looks for tenants that have the report enabled.
BeginWeekly ==
    /\ At("weekly", "idle")
    /\ config = "on"
    /\ Go("weekly", "read")
    /\ UNCHANGED <<marks, list, rows, reports, scheduled, officeHours, stops, past>>

TriggerWeekly ==
    /\ At("trigger", "idle")
    /\ Go("trigger", "read")
    /\ UNCHANGED <<marks, list, rows, reports, scheduled, officeHours, stops, past>>

UpdateConfig ==
    /\ At("settings", "idle")
    /\ Go("settings", "read")
    /\ UNCHANGED <<marks, list, rows, reports, scheduled, officeHours, stops, past>>

\* What a caller of get_config does with a row that says c.
AfterConfig(t, c) ==
    Go(t, IF t = "settings" THEN "write" ELSE IF c = "on" THEN "enabled" ELSE "disabled")

GetConfig(t) ==
    /\ At(t, "read")
    /\ IF config = None THEN Go(t, "create") ELSE AfterConfig(t, config)
    /\ UNCHANGED <<marks, list, rows, reports, scheduled, officeHours, stops, past>>

\* The default row, committed; if another request has inserted it, this one fails.
CreateConfig(t) ==
    /\ At(t, "create")
    /\ IF config = None THEN config' = "off" /\ AfterConfig(t, "off")
                        ELSE UNCHANGED config /\ Go(t, "idle")
    /\ UNCHANGED <<marks, list, rows, report, delivered, unfiled, scheduled, officeHours,
                   stops, past>>

WriteConfig ==
    /\ At("settings", "write")
    /\ config' \in {"off", "on"}
    /\ Go("settings", "idle")
    /\ UNCHANGED <<marks, list, rows, report, delivered, unfiled, scheduled, officeHours,
                   stops, past>>

\* The idempotency check, and then the settings that get_config returned.
CheckReport(t) ==
    /\ task[t].step \in {"enabled", "disabled"}
    /\ Go(t, IF report # None THEN "idle"
             ELSE IF At(t, "enabled") THEN "claim" ELSE "skipped")
    /\ UNCHANGED <<marks, list, rows, reports, scheduled, officeHours, stops, past>>

\* A transaction that has inserted the notification row of the week.
Holds(t) == task[t].step \in {"dispatch", "sent", "failed"}

\* Mutant: a new event id for each run.
ClaimAnew(t) ==
    /\ At(t, "claim")
    /\ Go(t, "dispatch")
    /\ UNCHANGED <<marks, list, rows, reports, scheduled, officeHours, stops, past>>

\* The notification row under the week's event id: the INSERT waits for another one, and
\* fails for good if that one is committed.
ClaimReport(t) ==
    /\ At(t, "claim")
    /\ ~\E u \in Reporters : Holds(u)
    /\ Go(t, IF report \in {"sent", "failed"} THEN "idle" ELSE "dispatch")
    /\ UNCHANGED <<marks, list, rows, reports, scheduled, officeHours, stops, past>>

ReportGoes(t) ==
    /\ At(t, "dispatch")
    /\ delivered' = delivered + 1
    /\ Go(t, "sent")
    /\ UNCHANGED <<marks, list, rows, config, report, unfiled, scheduled, officeHours, stops,
                   past>>

\* Meta refuses it, or takes it and does not answer in time.
ReportFails(t) ==
    /\ At(t, "dispatch")
    /\ delivered' \in {delivered, delivered + 1}
    /\ Go(t, "failed")
    /\ UNCHANGED <<marks, list, rows, config, report, unfiled, scheduled, officeHours, stops,
                   past>>

\* Both rows, committed; a second row for the week violates the index, and the
\* transaction is rolled back.
FileReport(t) ==
    /\ task[t].step \in {"sent", "failed", "skipped"}
    /\ report' = IF report = None THEN task[t].step ELSE report
    /\ Go(t, "idle")
    /\ UNCHANGED <<marks, list, rows, config, delivered, unfiled, scheduled, officeHours,
                   stops, past>>

\* A statement of the run fails, the commit of the report's rows in particular: everything
\* is rolled back but a message that is out.
ReportRunFails(t) ==
    /\ task[t].step \notin {"off", "idle"}
    /\ IF task[t].step \in {"sent", "failed"}
       THEN unfiled < MaxStops /\ unfiled' = unfiled + 1
       ELSE UNCHANGED unfiled
    /\ Go(t, "idle")
    /\ UNCHANGED <<marks, list, rows, config, report, delivered, scheduled, officeHours,
                   stops, past>>

-----------------------------------------------------------------------------
(* Everyone else.                                                          *)

\* The order is confirmed, cancelled or paid; the debt is settled or written off; the
\* customer of an event places an order.
CloseOrder(o) ==
    /\ orderState[o] = "inquiry"
    /\ ~At("orders", "off")
    /\ orderState' = [orderState EXCEPT ![o] = "closed"]
    /\ UNCHANGED <<reminded, saleState, count, due, interest, ordered, list, rows, task,
                   reports, scheduled, officeHours, stops, past>>

CloseSale(s) ==
    /\ saleState[s] = "active"
    /\ ~At("debts", "off")
    /\ saleState' = [saleState EXCEPT ![s] = "closed"]
    /\ UNCHANGED <<orderState, reminded, count, due, interest, ordered, list, rows, task,
                   reports, scheduled, officeHours, stops, past>>

\* log_interest: a customer asks for a product that she did not ask for in the last 48
\* hours.
LogInterest(e) ==
    /\ interest[e] = None
    /\ ~At("followups", "off")
    /\ \A f \in Events : f < e => interest[f] # None
    /\ interest' = [interest EXCEPT ![e] = "pending"]
    /\ UNCHANGED <<orderState, reminded, saleState, count, due, ordered, list, rows, task,
                   reports, scheduled, officeHours, stops, past>>

PlaceOrder(e) ==
    /\ e \notin ordered
    /\ interest[e] # None
    /\ ordered' = ordered \cup {e}
    /\ UNCHANGED <<orderState, reminded, saleState, count, due, interest, list, rows, task,
                   reports, scheduled, officeHours, stops, past>>

InFlight(c) == {b \in Broadcasts : At(b, "send") /\ Item(b) = c}

\* The customer writes STOP.
OptOut(c) ==
    /\ c \notin optedOut
    /\ \E b \in Broadcasts : ~At(b, "off")
    /\ optedOut' = optedOut \cup {c}
    /\ spared' = [spared EXCEPT ![c] = Cardinality(InFlight(c))]
    /\ UNCHANGED <<marks, recent, status, recipient, abandoned, rows, task, reports,
                   scheduled, officeHours, stops, week, slipped, after>>

\* Time: the office opens and closes, an interval passes, seven days pass.  A broadcast
\* takes minutes.
HoursChange ==
    /\ \E t \in Jobs : ~At(t, "off")
    /\ officeHours' = ~officeHours
    /\ UNCHANGED <<marks, list, rows, reports, scheduled, task, stops, past>>

IntervalPasses(s) ==
    /\ s \notin due
    /\ due' = due \cup {s}
    /\ UNCHANGED <<orderState, reminded, saleState, count, interest, ordered, list, rows,
                   task, reports, scheduled, officeHours, stops, past>>

WeekPasses(c) ==
    /\ Sending = {}
    /\ week[c] > 0 \/ c \in slipped
    /\ recent' = recent \ {c}
    /\ week' = [week EXCEPT ![c] = 0]
    /\ slipped' = slipped \ {c}
    /\ UNCHANGED <<marks, optedOut, status, recipient, abandoned, rows, task, reports,
                   scheduled, officeHours, stops, spared, after>>

\* The process stops and starts again: every task is lost, and no sender is started anew.
Restart ==
    /\ stops < MaxStops
    /\ stops' = stops + 1
    /\ task' = [t \in Tasks |-> IF At(t, "off") THEN Off ELSE IdleTask]
    /\ abandoned' = abandoned \cup {b \in Broadcasts : Begins(b) \/ b \in Sending}
    /\ slipped' = slipped \cup {Item(b) : b \in {x \in Broadcasts : At(x, "mark")}}
    /\ UNCHANGED <<marks, optedOut, recent, status, recipient, rows, reports, scheduled,
                   officeHours, week, spared, after>>

-----------------------------------------------------------------------------
OrderJob ==
    \/ BeginOrderReminders \/ OrderReminderGoes \/ OrderReminderFails \/ MarkOrderReminded
    \/ OrderMarkFails \/ EndOrderReminders
    \/ \E o \in Orders : TakeOrder(o)

DebtJob ==
    \/ BeginDebtReminders \/ NotifyTrader \/ DebtReminderGoes \/ DebtReminderFails
    \/ MarkDebtReminded \/ DebtMarkFails \/ EndDebtReminders
    \/ \E s \in Sales : TakeSale(s) \/ RemindByHand(s)
    \/ \E t \in {"debts", "by hand"} : LoadSale(t) \/ SaveReminder(t) \/ ReminderFails(t)

FollowupJob == BeginFollowups \/ EndFollowups \/ \E e \in Events : FollowUp(e)

MessageJob == BeginMessages \/ EndMessages \/ \E x \in Scheduled : FireMessage(x)

ReportRun ==
    \/ BeginWeekly \/ TriggerWeekly \/ UpdateConfig \/ WriteConfig
    \/ \E t \in Reporters \cup {"settings"} : GetConfig(t) \/ CreateConfig(t)
    \/ \E t \in Reporters :
          \/ CheckReport(t) \/ ClaimReport(t) \/ ReportGoes(t) \/ ReportFails(t)
          \/ FileReport(t) \/ ReportRunFails(t)

Sender(b) ==
    \/ StartSending(b) \/ CheckRecipient(b) \/ BroadcastGoes(b) \/ BroadcastFails(b)
    \/ MarkRecipient(b) \/ MarkRecipientFails(b) \/ EndSending(b) \/ SenderFails(b)
    \/ \E c \in Customers : TakeRecipient(b, c)

Others ==
    \/ \E o \in Orders : CloseOrder(o)
    \/ \E s \in Sales : CloseSale(s) \/ IntervalPasses(s)
    \/ \E e \in Events : LogInterest(e) \/ PlaceOrder(e)
    \/ \E x \in Scheduled : ScheduleMessage(x) \/ CancelScheduled(x)
    \/ \E c \in Customers : OptOut(c) \/ WeekPasses(c)
    \/ \E b \in Broadcasts : CreateBroadcast(b)
    \/ HoursChange

Next ==
    \/ OrderJob \/ DebtJob \/ FollowupJob \/ MessageJob \/ ReportRun \/ Others \/ Restart
    \/ \E b \in Broadcasts : Sender(b)

\* The event loop runs every task on, APScheduler starts the jobs again and again, hours
\* go by, and a message that is sent, or an order that is marked, again and again gets
\* through at last.
Fairness ==
    /\ WF_vars(HoursChange)
    /\ SF_vars(BeginOrderReminders)
    /\ WF_vars(\E o \in Orders : TakeOrder(o))
    /\ WF_vars(OrderReminderGoes \/ OrderReminderFails)
    /\ \A o \in Orders \ Unreachable : SF_vars(Item("orders") = o /\ OrderReminderGoes)
    /\ WF_vars(MarkOrderReminded \/ OrderMarkFails)
    /\ \A o \in Orders \ Unreachable : SF_vars(Item("orders") = o /\ MarkOrderReminded)
    /\ WF_vars(EndOrderReminders)
    /\ \A b \in Broadcasts : WF_vars(Sender(b))

Spec == Init /\ [][Next]_vars /\ Fairness

-----------------------------------------------------------------------------
(* Properties.                                                             *)

\* All variables keep their types.
TypeOK ==
    /\ orderState \in [Orders -> {"inquiry", "closed"}]
    /\ reminded \in SUBSET Orders
    /\ saleState \in [Sales -> {"active", "closed"}]
    /\ count \in [Sales -> Nat]
    /\ due \in SUBSET Sales
    /\ optedOut \in SUBSET Customers
    /\ recent \in SUBSET Customers
    /\ status \in [Broadcasts -> {None, "draft", "sending", "sent"}]
    /\ recipient \in [Broadcasts -> [Customers ->
                         {None, "pending", "sent", "skipped", "opted out"}]]
    /\ interest \in [Events -> {None, "pending", "followed up", "converted"}]
    /\ ordered \in SUBSET Events
    /\ orderRows \in SUBSET Orders
    /\ debtRows \in SUBSET (Sales \X Nat)
    /\ castRows \in SUBSET (Broadcasts \X Customers)
    /\ config \in {None, "off", "on"}
    /\ report \in {None, "sent", "failed", "skipped"}
    /\ abandoned \in SUBSET Broadcasts
    /\ delivered \in Nat
    /\ unfiled \in Nat
    /\ scheduled \in [Scheduled -> {None, "pending", "sent", "cancelled"}]
    /\ task \in [Tasks -> Task]
    /\ officeHours \in BOOLEAN
    /\ stops \in Nat
    /\ week \in [Customers -> Nat]
    /\ slipped \in SUBSET Customers
    /\ spared \in [Customers -> Nat]
    /\ after \in [Customers -> Nat]

\* What is marked as sent was sent, wherever the process stops: an order with
\* reminder_sent_at and a recipient with the status sent have their notification rows;
\* a sale without a conversation has one row for each reminder that it counts, and at
\* most one more, never more than max_reminders in all; a scheduled message, which
\* never goes out, stays pending until it is cancelled (_send_order_reminders,
\* _send_debt_reminders, send_broadcast_paced, _fire_due_messages).
MarkedWasSent ==
    /\ reminded \subseteq orderRows
    /\ \A b \in Broadcasts, c \in Customers : recipient[b][c] = "sent" => <<b, c>> \in castRows
    /\ \A s \in Sales \ Linked :
          LET sent == {n \in 0..MaxReminders : <<s, n>> \in debtRows} IN
             sent = 0..count[s] - 1 \/ sent = 0..count[s]
    /\ \A s \in Sales : count[s] <= MaxReminders
    /\ \A x \in Scheduled : scheduled[x] # "sent"

\* After a customer writes STOP only the messages reach her that were past the check at
\* that moment, one per sender (send_broadcast_paced, opt_out).
OnlyTheOnesInFlight == \A c \in Customers : after[c] <= spared[c]

\* A customer gets one broadcast in seven days, whatever happens to the others: unless two
\* broadcasts of the trader overlap, or her own last_broadcast_at was not written after a
\* message, because it timed out, its transaction failed or the process stopped there.
OneBroadcastAWeek == \A c \in Customers \ slipped : week[c] <= 1

\* What a customer may be spared holds through overlapping senders, restarts, timeouts and
\* failing statements, and all variables keep their types.
BroadcastLimits == TypeOK /\ OnlyTheOnesInFlight /\ OneBroadcastAWeek

\* The weekly report reaches the owner once, and once more at most for each stop of the
\* process and each failed commit after the message, however the job, the trigger endpoint
\* and the settings overlap and though a run that timed out is filed as failed; a report
\* that is filed as sent did reach her (run_weekly).
ReportedOnce == delivered <= 1 + stops + unfiled /\ (report = "sent" => delivered > 0)

\* An order that stays in inquiry is reminded of at last, though a run of the job may
\* fail, stop or find the office closed, and though another order's message never gets
\* through: an order that fails does not keep the others waiting.
StaleOrderIsReminded ==
    \A o \in Orders \ Unreachable :
        task["orders"].step # "off" /\ orderState[o] = "inquiry"
            ~> (o \in reminded \/ orderState[o] # "inquiry")

\* A broadcast that is being sent ends as sent, though messages are refused, time out or
\* cannot be marked: only a stop of the process and a statement that fails outside the try
\* of a recipient leave it as it is (send_broadcast_paced, _run_broadcast).
BroadcastEnds ==
    \A b \in Broadcasts : b \in Sending ~> (status[b] = "sent" \/ b \in abandoned)
=============================================================================
